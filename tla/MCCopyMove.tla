----------------------------- MODULE MCCopyMove -----------------------------
(* Copies between the collections /a and /b of a small tree.               *)
EXTENDS CopyMove, TLC

CONSTANTS alice, bob, t1, t2, t3, t4

MCRoot == <<>>
A   == <<"a">>
B   == <<"b">>
AA  == <<"a", "a">>
AB  == <<"a", "b">>
BA  == <<"b", "a">>
BB  == <<"b", "b">>
ABA == <<"a", "b", "a">>
BBA == <<"b", "b", "a">>

MCPath == {<<>>, A, B, AA, AB, BA, BB, ABA, BBA}
MCAncestor == {<<p, q>> \in MCPath \X MCPath :
                 Len(p) < Len(q) /\ p = SubSeq(q, 1, Len(p))}
MCAbove == [p \in MCPath \ {<<>>} |-> SubSeq(p, 1, Len(p) - 1)]

Collection(p, content) == [path |-> p, kind |-> "collection", data |-> "empty", props |-> content]
Document(p, content) == [path |-> p, kind |-> "document", data |-> content, props |-> content]

\* /a holds the document /a/a and the collection /a/b with a document in it;
\* /b is missing, a document, or has the same members.  The property of /a/a and
\* its counterparts is one that is read late, and that of /a is one when /b is a
\* collection.
SourceTree(content) ==
  <<Collection(<<>>, "none"), Collection(A, content), Document(AA, "a2"),
    Collection(AB, "none"), Document(ABA, "a3")>>
MCTrees == {SourceTree("a1"),
            Append(SourceTree("a1"), Document(B, "b5")),
            SourceTree("a4") \o <<Collection(B, "b1"), Document(BA, "b4"),
                                  Collection(BB, "b2"), Document(BBA, "b3")>>}
MCLate == {"a2", "b4", "b5", "a4", "b1"}

MCDepths == {0, 1, Infinite}

Pairs == {<<A, B>>, <<AA, B>>, <<AA, MCRoot>>}
AliceTransfers == (alice :> Pairs) @@ (bob :> {<<AA, BB>>})
Others == (alice :> {"COPY", "MOVE"}) @@ (bob :> {"MKCOL", "DELETE", "LOCK", "MOVE"})
Few == (alice :> {}) @@ (bob :> {B, BA})
OneEach == [x \in Client |-> 1]
OneAndTwo == (alice :> 1) @@ (bob :> 2)
=============================================================================
