---------------------------- MODULE MCLockTable ----------------------------
(* The lock table on the tree  /, /a/, /a/x/, /b/  with three tokens, and  *)
(* If headers of one and two lists, about the root and about /a/, for      *)
(* requests for /a/; beside them the times of locks around the carries of  *)
(* rounding.                                                               *)
EXTENDS IfHeader, LockTimes, TLC

CONSTANTS root, a, ax, b, t1, t2, t3, e1, tagA, tagB

MCPath == {root, a, ax, b}
MCAncestor == {<<root, a>>, <<root, b>>, <<root, ax>>, <<a, ax>>}
MCToken == {t1, t2, t3}
MCExpiration == {e1}
MCSymmetry == Permutations(MCToken)

MCEntityTagOf == [p \in MCPath |-> IF p = a THEN tagA ELSE Missing]
MCRequested == {a}

Submit(t) == Condition("token", t, FALSE)
NotLocked(t) == Condition("token", t, TRUE)
Tag(e) == Condition("tag", e, FALSE)
NotTag(e) == Condition("tag", e, TRUE)

\* Every kind of list, symmetric in the tokens.
ListsAbout(p) ==
  {List(p, {Submit(t)}) : t \in MCToken}
    \cup {List(p, {NotLocked(t)}) : t \in MCToken}
    \cup {List(p, {Submit(t), Tag(tagA)}) : t \in MCToken}
    \cup {List(p, {Submit(t), NotLocked(u)}) : t, u \in MCToken}
    \cup {List(p, {Tag(tagA), NotTag(tagB)}), List(p, {Tag(tagB)})}

AboutRoot == {List(root, {Submit(t)}) : t \in MCToken}

MCHeaders ==
  {<<l>> : l \in ListsAbout(root) \cup ListsAbout(a)}
    \cup {<<l, k>> : l, k \in ListsAbout(a)}
    \cup {<<l, k>> : l \in AboutRoot, k \in ListsAbout(a)}
\* Milliseconds around the boundaries of both units, with and without a part
\* of a millisecond, in the first seconds of a day.
Boundaries == {0, 1, 99, 100, 101, 900, 901, 999, 1000, 1001, 1999}
MCInstants == {ms * Millisecond + part : ms \in Boundaries, part \in {0, 1, Millisecond - 1}}
MCTimeouts == {0, 1, Millisecond - 1, Millisecond, 99 * Millisecond, 1500 * Millisecond,
               Second, 2 * Second, 90 * Second}
MCInfinite == 200 * Second
=============================================================================
