--------------------------- MODULE MCLockManager ---------------------------
(* LockManager on the tree  /, /a/  with few locks and a short clock.      *)
EXTENDS LockManager, TLC

CONSTANTS root, a, c1, c2, w1, w2, t1, t2, t3

MCPath == {root, a}
MCAncestor == {<<root, a>>}

ExclusiveDeep == [path |-> root, recursive |-> TRUE, share |-> "exclusive"]
SharedLeaf    == [path |-> a, recursive |-> FALSE, share |-> "shared"]
MCRequests == {SharedLeaf, ExclusiveDeep}

MCTimeouts == {1, 2, Infinite}
MCShortOrInfinite == {1, Infinite}

MCSymmetry == Permutations(Client) \cup Permutations(Worker) \cup Permutations(Token)
=============================================================================
