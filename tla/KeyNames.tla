------------------------------- MODULE KeyNames -------------------------------
(***************************************************************************)
(* Where the repositories' keys end up (importGPGKeys and gpgKeyName in    *)
(* src/internal/builder, APTImportKey, RPMImportKey and safeKeyName in     *)
(* src/internal/backend/cmdutil).                                          *)
(*                                                                         *)
(* A name is a sequence of numbers, its parts: an index is itself, other   *)
(* parts are numbers above every index, so that appending "-" and an index *)
(* is Append.                                                              *)
(***************************************************************************)
EXTENDS Naturals, Sequences, SequencesExt

CONSTANTS
    RepoLists,   (* base names of the repositories, <<>> for an unusable one *)
    Backends,    (* "apt" (apt, mmdebstrap) or "rpm" (dnf, zypper)        *)
    Clean,       (* a part to what it is with its characters replaced     *)
    Trimmed,     (* parts of dots and dashes only, cut off at either end  *)
    Repo         (* the word of the fallback name                         *)

(* An index is written in digits, which are kept.                          *)
ASSUME KeyNamesAssumption ==
    /\ RepoLists \subseteq Seq(Seq(DOMAIN Clean)) /\ Backends \subseteq {"apt", "rpm"}
    /\ Repo \in DOMAIN Clean /\ \A part \in DOMAIN Clean : Clean[part] \in Seq(Nat)
    /\ \A list \in RepoLists : \A idx \in 0..(Len(list) - 1) :
          idx \in DOMAIN Clean /\ Clean[idx] = <<idx>> /\ idx \notin Trimmed

VARIABLES
    repos,       (* base name of each repository's path                   *)
    backend,     (* the package manager's kind of key store               *)
    next,        (* index of the repository the loop is at                *)
    usedNames,   (* names handed out                                      *)
    fileOf,      (* keyring file each imported key was written to         *)
    keys         (* the key store: file to key, or index to key           *)

keyVars == <<repos, backend, next, usedNames, fileOf, keys>>

-----------------------------------------------------------------------------
(* Names.                                                                  *)

BaseOf(base, idx) == IF base = <<>> THEN <<Repo, idx>> ELSE base

(* Mutant: names handed out are not looked up.                             *)
GpgKeyNameUnchecked(base, idx, used) == BaseOf(base, idx)

(* The suffixed name is not looked up again.                               *)
GpgKeyName(base, idx, used) ==
    IF BaseOf(base, idx) \in used THEN Append(BaseOf(base, idx), idx) ELSE BaseOf(base, idx)

(* <<>> stands for the fixed name of what is trimmed to nothing.           *)
SafeKeyName(name) ==
    LET clean == FlattenSeq([i \in DOMAIN name |-> Clean[name[i]]])
        Stays(part) == part \notin Trimmed
    IN  IF ToSet(clean) \subseteq Trimmed THEN <<>>
        ELSE SubSeq(clean, SelectInSeq(clean, Stays), SelectLastInSeq(clean, Stays))

-----------------------------------------------------------------------------
KeysInit ==
    /\ repos \in RepoLists
    /\ backend \in Backends
    /\ next = 0
    /\ usedNames = {}
    /\ fileOf = [r \in {} |-> <<>>]
    /\ keys = [f \in {} |-> 0]

Stored(store, place, key) ==
    [f \in DOMAIN store \union {place} |-> IF f = place THEN key ELSE store[f]]

Repos == 0..(Len(repos) - 1)

(* No key is configured, or it cannot be fetched or placed: no name is     *)
(* taken.                                                                  *)
NoKey ==
    /\ next \in Repos
    /\ next' = next + 1
    /\ UNCHANGED <<repos, backend, usedNames, fileOf, keys>>

(* gpg --dearmor writes the file and cp replaces it; rpm adds to its       *)
(* database.  Either may fail; the name stays taken.                       *)
ImportKey ==
    /\ next \in Repos
    /\ next' = next + 1
    /\ LET name == GpgKeyName(repos[next + 1], next, usedNames)
           file == IF backend = "apt" THEN SafeKeyName(name) ELSE <<next>>
       IN  /\ usedNames' = usedNames \union {name}
           /\ \/ UNCHANGED <<fileOf, keys>>
              \/ /\ fileOf' = Stored(fileOf, next, file)
                 /\ keys' = Stored(keys, file, next)
    /\ UNCHANGED <<repos, backend>>

Imported == next \notin Repos /\ UNCHANGED keyVars

KeysNext == NoKey \/ ImportKey \/ Imported

KeysSpec == KeysInit /\ [][KeysNext]_keyVars

-----------------------------------------------------------------------------
(* Properties.                                                             *)

(* The key of every repository that was imported is still in the key store *)
(* under its own name (gpgKeyName, safeKeyName).  The code's comments want *)
(* this of all names; << <<w, 2>>, <<w>>, <<w>> >> breaks it, as the name *)
(* with the index appended is not looked up again.                         *)
KeysStayApart == \A r \in DOMAIN fileOf : keys[fileOf[r]] = r

(* What the naming relies on: no base name looks like one with the index   *)
(* of a later repository appended or like a fallback name, and cleaning    *)
(* makes no two of them alike.                                             *)
Distinguishable ==
    LET base(i)   == BaseOf(repos[i + 1], i)
        names(i)  == {base(i), Append(base(i), i)}
    IN  \A i, k \in Repos :
            base(i) # base(k) =>
                \A n \in names(i), m \in names(k) : SafeKeyName(n) # SafeKeyName(m)

(* Repositories whose files share a base name in different directories, or *)
(* have none, keep their keys apart, whichever keys before them are        *)
(* missing or fail, as long as names stay distinguishable.                 *)
SharedNamesStayApart == Distinguishable => KeysStayApart
===============================================================================
