CONSTANTS
    r1 = r1
    r2 = r2
    r3 = r3
    v1 = v1
    v2 = v2
    latest = latest
    Absent = Absent
    Partial = Partial
    Runs <- MCRuns
    Tags <- MCTags
    TagsOf <- MCTagsOf
    Kinds = {"local", "registry", "s3", "squashfs"}

SPECIFICATION Spec

INVARIANTS
    TypeOK
    SkippedImageHasAllTags

PROPERTY
    PublishedIsOwn
