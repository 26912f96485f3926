----------------------------- MODULE LockScope -----------------------------
(***************************************************************************)
(* Which resources a lock covers, and when two locks are in each other's   *)
(* way: the private helpers Find, Compare and GetConflictingLocks of       *)
(* FubarDev.WebDavServer/Locking/LockManagerBase.cs.                       *)
(*                                                                         *)
(* A path is what BuildUrl makes of it, an absolute URL that always ends   *)
(* with a slash, so two paths are the same resource exactly when they are  *)
(* equal, and Uri.IsBaseOf is "is above, or equal".  Which path lies above *)
(* which is a constant: the proofs hold for every tree of resources.       *)
(***************************************************************************)

CONSTANTS
  Path,       \* the resources that can be locked
  Ancestor    \* <<p, q>> \in Ancestor: the collection p lies strictly above q

ASSUME AncestorIsForest ==
  /\ Ancestor \subseteq Path \X Path
  /\ \A p \in Path : <<p, p>> \notin Ancestor
  /\ \A p, q, r \in Path :
        <<p, q>> \in Ancestor /\ <<q, r>> \in Ancestor => <<p, r>> \in Ancestor
  /\ \A p, q, r \in Path :
        <<p, r>> \in Ancestor /\ <<q, r>> \in Ancestor
          => p = q \/ <<p, q>> \in Ancestor \/ <<q, p>> \in Ancestor

ShareMode == {"exclusive", "shared"}

\* What a client asks to lock: the fields of ILock the conflict rules look at.
LockScopes == [path : Path, recursive : BOOLEAN, share : ShareMode]

-----------------------------------------------------------------------------

IsBaseOf(left, right) == left = right \/ <<left, right>> \in Ancestor

\* Seeded bug: the recursive lock of a collection above is overlooked.
CompareNotUpwards(left, leftRecursive, right, rightRecursive) ==
  IF left = right THEN "Reference"
  ELSE IF IsBaseOf(left, right) /\ leftRecursive THEN "LeftIsParent"
  ELSE "NoMatch"

\* The position of `right' seen from `left'.  A relation counts only when the
\* upper of the two applies recursively.
Compare(left, leftRecursive, right, rightRecursive) ==
  IF left = right THEN "Reference"
  ELSE IF IsBaseOf(left, right) /\ leftRecursive THEN "LeftIsParent"
  ELSE IF IsBaseOf(right, left) /\ rightRecursive THEN "RightIsParent"
  ELSE "NoMatch"

\* The keys k of `held' whose lock table[k] is related to `path', by relation.
Find(table, held, path, withChildren, findParents) ==
  LET Related(result) ==
        {k \in held : Compare(path, withChildren,
                              table[k].path, table[k].recursive) = result}
  IN  [reference |-> Related("Reference"),
       child     |-> Related("LeftIsParent"),
       parent    |-> IF findParents THEN Related("RightIsParent") ELSE {}]

GetLocks(status) == status.reference \cup status.child \cup status.parent

\* An exclusive request is stopped by every lock it meets, a shared one only
\* by the exclusive ones.
GetConflictingLocks(table, status, share) ==
  IF share = "exclusive"
  THEN GetLocks(status)
  ELSE {k \in GetLocks(status) : table[k].share = "exclusive"}

\* The locks LockAsync refuses a request for.
ConflictingLocks(table, held, request) ==
  GetConflictingLocks(table,
                      Find(table, held, request.path, request.recursive, TRUE),
                      request.share)

\* Refresh: the same lock with a new expiration; it has a LastRefresh now.
Refreshed(lock, expires) == [lock EXCEPT !.expires = expires, !.refreshed = TRUE]

-----------------------------------------------------------------------------
(* What the helpers are for, said without them.                            *)

\* The resources a lock covers.
Scope(lock) ==
  {p \in Path : p = lock.path \/ (lock.recursive /\ <<lock.path, p>> \in Ancestor)}

\* Two locks may be held together.
Compatible(lock, other) ==
  \/ lock.share = "shared" /\ other.share = "shared"
  \/ Scope(lock) \cap Scope(other) = {}
=============================================================================
