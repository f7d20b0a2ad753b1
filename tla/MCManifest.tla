------------------------------ MODULE MCManifest ------------------------------
(* Every dependency graph over three layers and several choices of         *)
(* architectures; and manifests with the usual mistakes.                   *)
EXTENDS Manifest

CONSTANTS a, b, c, x, y

MCNames == {<<a>>, <<b>>, <<c>>, <<x>>, <<y>>, <<a, x>>, <<x, y>>}

Layer(name, deps, arches) == [name |-> name, config |-> TRUE, deps |-> deps, arches |-> arches]

DepLists   == {SetToSeq(s) : s \in SUBSET {<<a>>, <<b>>, <<c>>}}
ArchLists  == {<<>>, <<<<x>>>>, <<<<y>>, <<x>>>>}
Three(da, db, dc, ra, rb, rc) ==
    <<Layer(<<a>>, da, ra), Layer(<<b>>, db, rb), Layer(<<c>>, dc, rc)>>

Graphs3 ==
    {[archs |-> archs, layers |-> Three(da, db, dc, ra, rb, <<>>)] :
        archs \in {<<>>, <<<<x>>, <<y>>>>}, da \in DepLists, db \in DepLists, dc \in DepLists,
        ra \in ArchLists, rb \in {<<>>, <<<<x>>>>}}

Mistakes ==
    { [archs |-> <<>>, layers |-> <<>>],
      [archs |-> <<>>, layers |-> <<Layer(<<>>, <<>>, <<>>)>>],
      [archs |-> <<>>, layers |-> <<[Layer(<<a>>, <<>>, <<>>) EXCEPT !.config = FALSE]>>],
      [archs |-> <<>>, layers |-> <<Layer(<<a>>, <<<<b>>>>, <<>>)>>],
      [archs |-> <<>>, layers |-> <<Layer(<<a>>, <<>>, <<>>), Layer(<<a>>, <<>>, <<>>)>>],
      [archs |-> <<<<x>>, <<x>>>>, layers |-> <<Layer(<<a>>, <<>>, <<>>)>>],
      [archs |-> <<<<>>>>, layers |-> <<Layer(<<a>>, <<>>, <<>>)>>],
      [archs |-> <<<<x>>>>, layers |-> <<Layer(<<a>>, <<>>, <<<<y>>>>)>>],
      [archs |-> <<<<x>>>>, layers |-> <<Layer(<<a>>, <<<<a>>, <<a>>>>, <<<<x>>, <<x>>>>)>>],
      [archs |-> <<<<x>>>>, layers |-> <<Layer(<<a>>, <<>>, <<<<x>>, <<x>>>>)>>] }

MCManifests == Graphs3 \union Mistakes

(* Names in which a layer's last part is an architecture.                  *)
Hyphenated ==
    {[archs |-> archs, layers |-> <<Layer(<<a>>, <<>>, <<>>), Layer(<<a, x>>, deps, <<>>)>>] :
        archs \in {<<>>, <<<<x>>>>, <<<<x>>, <<y>>>>, <<<<y>>, <<x, y>>>>}, deps \in {<<>>, <<<<a>>>>}}
=============================================================================
