----------------------------- MODULE MCRequests -----------------------------
(* Requests on the tree  /, /c/, /c/d.                                     *)
EXTENDS Requests, TLC

CONSTANTS root, c, cd, alice, bob, t1, t2, t3

MCPath == {root, c, cd}
MCAncestor == {<<root, c>>, <<root, cd>>, <<c, cd>>}
MCAbove == (c :> root) @@ (cd :> c)
Empty(p, kind) == [path |-> p, kind |-> kind, data |-> "empty", props |-> "none"]
Full == <<Empty(root, "collection"), Empty(c, "collection"), Empty(cd, "document")>>
JustFull == {Full}

All == {"LOCK", "UNLOCK", "PUT", "MKCOL", "DELETE"}
BobAnywhere == (alice :> {c, cd}) @@ (bob :> MCPath)

AllOfThem == [x \in Client |-> All]

OneAndThree == (alice :> 1) @@ (bob :> 3)
=============================================================================
