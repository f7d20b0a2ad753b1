------------------------------- MODULE MCPromote -------------------------------
(* Two promotes of a two-arch layer and of layers with the usual mistakes. *)
EXTENDS Promote

CONSTANTS a1, a2, rel1, rel2, dir1

MCRefs == {a1, a2, rel1, rel2}
MCDirs == {dir1}

Retag(from, to)     == [typ |-> "registry", src |-> from, dst |-> to, creds |-> TRUE]
Materialize(src, ok) == [typ |-> "s3", src |-> src, dst |-> dir1, creds |-> ok]

MultiArch  == << <<Retag(a1, rel1), Materialize(a1, TRUE)>>, <<Retag(a2, rel2)>> >>
NoCreds    == << <<Materialize(a1, FALSE), Retag(a1, rel1)>> >>
SameRef    == << <<Retag(a1, rel1)>>, <<Retag(a2, rel1)>> >>
NoRegistry == << <<Retag(a1, rel1)>>, <<Materialize(None, TRUE)>> >>
NoBlock    == << <<>> >>
Excluded   == <<>>

Bulk(layers, force) == [bulk |-> TRUE, force |-> force, dry |-> FALSE, layers |-> layers]
Named(l, force)     == [bulk |-> FALSE, force |-> force, dry |-> FALSE, layers |-> <<l>>]

MCInputs == {
    Bulk(<<NoBlock, MultiArch, Excluded>>, FALSE), Bulk(<<NoCreds, SameRef>>, TRUE),
    Bulk(<<NoBlock, Excluded>>, FALSE),
    Named(MultiArch, TRUE), Named(NoCreds, FALSE), Named(SameRef, TRUE), Named(NoRegistry, FALSE),
    Named(NoBlock, FALSE), Named(Excluded, FALSE),
    [Named(MultiArch, FALSE) EXCEPT !.dry = TRUE] }
(* The manifests release nothing of two content tags at one destination.   *)
ASSUME MCReleasesApart == ReleasesApart
================================================================================
