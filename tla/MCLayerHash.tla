----------------------------- MODULE MCLayerHash -----------------------------
(* Two host directories, one that is missing and one behind a link; names  *)
(* and bytes are 1 and 2, .git is 3.                                       *)
EXTENDS LayerHash, TLC

CONSTANTS s1, s2, gone, linked

MCSources  == {s1, s2, gone, linked}
MCRootOf   == s1 :> "dir" @@ s2 :> "dir" @@ gone :> "missing" @@ linked :> "link"
MCBaseName == s1 :> 1 @@ s2 :> 4 @@ gone :> 5 @@ linked :> 6
MCGit == 3

Pattern(path)   == [negated |-> FALSE, floating |-> FALSE, path |-> path]
Anywhere(path)  == [Pattern(path) EXCEPT !.floating = TRUE]
Reinclude(path) == [Pattern(path) EXCEPT !.negated = TRUE]

Copy(s, excludes) ==
    [kind |-> "copy", src |-> s, path |-> <<>>, excludes |-> excludes, contentsOnly |-> TRUE,
     keepMode |-> TRUE, keepOwner |-> FALSE, inTag |-> TRUE]
Roles(s)   == [Copy(s, <<>>) EXCEPT !.kind = "roles"]
File(s, p) == [Copy(s, <<>>) EXCEPT !.kind = "file", !.path = p, !.keepMode = FALSE]

MCLayers ==
    { <<Copy(s1, <<>>)>>,
      <<[Copy(s1, <<Pattern(<<2, 1>>)>>) EXCEPT !.keepOwner = TRUE, !.keepMode = FALSE]>>,
      <<[Copy(s1, <<Anywhere(<<2>>)>>) EXCEPT !.contentsOnly = FALSE]>>,
      <<Copy(s1, <<>>), Copy(s2, <<>>)>>,
      <<[Copy(s1, <<>>) EXCEPT !.keepMode = FALSE], Roles(s2)>>,
      <<File(s1, <<1>>), File(s2, <<1>>)>>,
      <<File(s2, <<1>>), Roles(s1), Roles(gone)>>,
      <<Copy(s1, <<>>), Copy(gone, <<>>)>>,
      <<[Copy(gone, <<>>) EXCEPT !.inTag = FALSE]>>,
      <<Copy(s2, <<>>), Roles(linked)>>,
      <<Copy(s1, <<Pattern(<<2>>), Reinclude(<<2, 1>>)>>)>>,
      <<[Copy(s1, <<Pattern(<<2>>)>>) EXCEPT !.contentsOnly = FALSE]>> }

Node(type, data) ==
    [type |-> type, data |-> data, behind |-> None, mode |-> 0, setid |-> FALSE, owner |-> 0]
Dir       == Node("dir", <<>>)
Plain(c)  == Node("file", c)
Link(t)   == Node("link", t)
To(c)     == [Link(<<2>>) EXCEPT !.behind = c]

Hosts(tree1, tree2) ==
    s1 :> tree1 @@ s2 :> tree2 @@ gone :> <<>> @@ linked :> (<<1>> :> Plain(<<1>>))

MCTrees ==
    { Hosts(<<1>> :> Plain(<<1>>) @@ <<2>> :> Dir @@ <<2, 1>> :> Plain(<<>>),
            <<1>> :> Plain(<<>>)),
      Hosts(<<1>> :> Plain(<<1>>) @@ <<2>> :> Plain(<<1>>), <<>>) }

Put(s, p, nodes) == {[src |-> s, path |-> p, node |-> n] : n \in nodes}

MCWrites ==
    Put(s1, <<1>>, {Plain(<<>>), Plain(<<2, 1>>), [Plain(<<1>>) EXCEPT !.mode = 1],
                    [Plain(<<1>>) EXCEPT !.setid = TRUE], [Plain(<<1>>) EXCEPT !.owner = 1],
                    Link(<<1>>), To(<<>>), To(<<2, 1>>)})
    \union Put(s1, <<2, 1>>, {Plain(<<1>>), Dir}) \union Put(s1, <<2, 2>>, {Plain(<<1>>), Link(<<1>>)})
    \union Put(s1, <<3>>, {Dir, Plain(<<1>>)}) \union Put(s1, <<3, 1>>, {Plain(<<1>>)})
    \union Put(s1, <<2, 3>>, {Plain(<<2>>)})
    \union Put(s2, <<1>>, {Plain(<<1>>), Dir}) \union Put(s2, <<2>>, {Plain(<<1>>), Dir})
    \union Put(s2, <<2, 2>>, {Plain(<<1>>)})
    \union Put(linked, <<1>>, {Plain(<<2>>)})

(* Edits of nothing but names and contents.                                *)
ContentWrites == {w \in MCWrites : w.node = Node(w.node.type, w.node.data)}

(* A directory is excluded but for one file in it.                         *)
Negated == {<<Copy(s1, <<Pattern(<<2>>), Reinclude(<<2, 1>>)>>)>>}

(* Two directories are copied.                                             *)
TwoTrees == {<<Copy(s1, <<>>), Copy(s2, <<>>)>>}
==============================================================================
