------------------------ MODULE MCSQLiteLockManager ------------------------
(* SQLiteLockManager on the tree  /, /a/  with one restart.                *)
EXTENDS SQLiteLockManager, TLC

CONSTANTS root, a, c1, c2, w1, w2, t1, t2

MCPath == {root, a}
MCAncestor == {<<root, a>>}

SharedRoot == [path |-> root, recursive |-> FALSE, share |-> "shared"]
MCRequests == {SharedRoot}

MCTimeouts == {1, 2}
=============================================================================
