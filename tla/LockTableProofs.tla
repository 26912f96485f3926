-------------------------- MODULE LockTableProofs --------------------------
(***************************************************************************)
(* Proofs about LockScope and LockTable, for every forest of resources and *)
(* every set of tokens and expirations.                                    *)
(***************************************************************************)
EXTENDS LockTable, TLAPS

\* Compare answers "NoMatch" exactly when no resource is covered by both: this
\* is what makes its three cases (two of them guarded by a recursive flag) a
\* complete conflict test.
LEMMA CompareDecidesOverlap ==
  ASSUME NEW lock, NEW other,
         lock.path \in Path, lock.recursive \in BOOLEAN,
         other.path \in Path, other.recursive \in BOOLEAN
  PROVE  Compare(lock.path, lock.recursive, other.path, other.recursive) = "NoMatch"
           <=> Scope(lock) \cap Scope(other) = {}
<1>1. ASSUME Compare(lock.path, lock.recursive, other.path, other.recursive) = "NoMatch",
             NEW p \in Scope(lock) \cap Scope(other)
      PROVE  FALSE
  <2>1. /\ lock.path # other.path
        /\ ~ (lock.recursive /\ <<lock.path, other.path>> \in Ancestor)
        /\ ~ (other.recursive /\ <<other.path, lock.path>> \in Ancestor)
    BY <1>1 DEF Compare, IsBaseOf
  <2>2. /\ p \in Path
        /\ p = lock.path \/ (lock.recursive /\ <<lock.path, p>> \in Ancestor)
        /\ p = other.path \/ (other.recursive /\ <<other.path, p>> \in Ancestor)
    BY <1>1 DEF Scope
  <2> QED  BY <2>1, <2>2, AncestorIsForest
<1>2. ASSUME Compare(lock.path, lock.recursive, other.path, other.recursive) # "NoMatch"
      PROVE  Scope(lock) \cap Scope(other) # {}
  <2>1. \/ lock.path = other.path
        \/ lock.recursive /\ <<lock.path, other.path>> \in Ancestor
        \/ other.recursive /\ <<other.path, lock.path>> \in Ancestor
    BY <1>2 DEF Compare, IsBaseOf
  <2>2. lock.path \in Scope(lock) /\ other.path \in Scope(other)
    BY DEF Scope
  <2>3. CASE lock.path = other.path  BY <2>2, <2>3
  <2>4. CASE lock.recursive /\ <<lock.path, other.path>> \in Ancestor
    BY <2>2, <2>4 DEF Scope
  <2>5. CASE other.recursive /\ <<other.path, lock.path>> \in Ancestor
    BY <2>2, <2>5 DEF Scope
  <2> QED  BY <2>1, <2>3, <2>4, <2>5
<1> QED  BY <1>1, <1>2

\* A request without conflicting locks is compatible with every lock held.
LEMMA NoConflictIsCompatible ==
  ASSUME NEW table, NEW held, NEW lock,
         lock.path \in Path, lock.recursive \in BOOLEAN, lock.share \in ShareMode,
         ConflictingLocks(table, held, lock) = {},
         NEW k \in held,
         table[k].path \in Path, table[k].recursive \in BOOLEAN,
         table[k].share \in ShareMode
  PROVE  Compatible(lock, table[k])
<1> DEFINE other == table[k]
<1> DEFINE rel == Compare(lock.path, lock.recursive, other.path, other.recursive)
<1>1. rel \in {"Reference", "LeftIsParent", "RightIsParent", "NoMatch"}
  BY DEF Compare
<1>2. CASE rel = "NoMatch"
  <2>1. Scope(lock) \cap Scope(other) = {}  BY <1>2, CompareDecidesOverlap
  <2> QED  BY <2>1 DEF Compatible
<1>3. CASE rel # "NoMatch"
  <2>1. k \in GetLocks(Find(table, held, lock.path, lock.recursive, TRUE))
    BY <1>1, <1>3 DEF GetLocks, Find
  <2>2. lock.share # "exclusive" /\ other.share # "exclusive"
    BY <2>1 DEF ConflictingLocks, GetConflictingLocks
  <2> QED  BY <2>2 DEF Compatible, ShareMode
<1> QED  BY <1>2, <1>3

-----------------------------------------------------------------------------

\* Every entry of the store is a lock, and its token was issued.
THEOREM TypeCorrect == Spec => []TypeOK
<1>1. Init => TypeOK
  BY DEF Init, TypeOK, Held
<1>2. TypeOK /\ [Next]_vars => TypeOK'
  <2> SUFFICES ASSUME TypeOK, [Next]_vars PROVE TypeOK'
    OBVIOUS
  <2> USE DEF TypeOK, Held
  <2>1. ASSUME NEW t \in Token, NEW lock \in ActiveLock, Grant(t, lock)
        PROVE  TypeOK'
    BY <2>1 DEF Grant
  <2>2. ASSUME NEW refreshed \in SUBSET Held,
               NEW newExpires \in [refreshed -> Expiration],
               Refresh(refreshed, newExpires)
        PROVE  TypeOK'
    <3>1. \A t \in refreshed : locks[t] \in ActiveLock
      BY <2>2 DEF Refresh
    <3>2. \A t \in refreshed : Refreshed(locks[t], newExpires[t]) \in ActiveLock
      BY <3>1 DEF Refreshed, ActiveLock
    <3>3. locks' \in [Token -> ActiveLock \cup {NoLock}]
      BY <2>2, <3>2 DEF Refresh
    <3>4. Held' \subseteq Held
      BY <2>2 DEF Refresh
    <3> QED  BY <2>2, <3>3, <3>4 DEF Refresh
  <2>3. ASSUME NEW t \in Token, Release(t)
        PROVE  TypeOK'
    BY <2>3 DEF Release
  <2>4. CASE UNCHANGED vars
    BY <2>4 DEF vars
  <2> QED  BY <2>1, <2>2, <2>3, <2>4 DEF Next
<1> QED  BY <1>1, <1>2, PTL DEF Spec

\* A refreshed lock covers what it covered before, under the same share mode.
LEMMA RefreshedKeepsScope ==
  ASSUME NEW lock \in ActiveLock, NEW expires \in Expiration
  PROVE  /\ Refreshed(lock, expires).share = lock.share
         /\ Scope(Refreshed(lock, expires)) = Scope(lock)
BY DEF Refreshed, ActiveLock, Scope

\* No resource is covered by an exclusive lock and by another lock, for every
\* set of resources, tokens and locks: the conflict test of LockAsync is enough,
\* and neither a refresh nor a release can undo what it established.
THEOREM ExclusiveMeansAloneHolds == Spec => []ExclusiveMeansAlone
<1>1. Init => ExclusiveMeansAlone
  BY DEF Init, ExclusiveMeansAlone, Held
<1>2. TypeOK /\ ExclusiveMeansAlone /\ [Next]_vars => ExclusiveMeansAlone'
  <2> SUFFICES ASSUME TypeOK, ExclusiveMeansAlone, [Next]_vars,
                      NEW t \in Held', NEW u \in Held', t # u
               PROVE  Compatible(locks'[t], locks'[u])
    BY DEF ExclusiveMeansAlone, Held
  <2>0. \A v \in Held : /\ v \in Token
                        /\ locks[v] \in ActiveLock
    BY DEF TypeOK, Held
  <2>1. ASSUME NEW v \in Token, NEW lock \in ActiveLock, Grant(v, lock)
        PROVE  Compatible(locks'[t], locks'[u])
    <3>1. \A w \in Held : Compatible(lock, locks[w])
      BY <2>0, <2>1, NoConflictIsCompatible DEF Grant, ActiveLock
    <3>2. \A w \in Held' : w = v \/ (w \in Held /\ locks'[w] = locks[w])
      BY <2>1 DEF Grant, Held, TypeOK
    <3>3. locks'[v] = lock
      BY <2>1 DEF Grant, TypeOK
    <3>4. CASE t # v /\ u # v
      BY <3>2, <3>4 DEF ExclusiveMeansAlone
    <3>5. CASE t = v
      BY <3>1, <3>2, <3>3, <3>5
    <3>6. CASE u = v
      BY <3>1, <3>2, <3>3, <3>6 DEF Compatible
    <3> QED  BY <3>4, <3>5, <3>6
  <2>2. ASSUME NEW refreshed \in SUBSET Held,
               NEW newExpires \in [refreshed -> Expiration],
               Refresh(refreshed, newExpires)
        PROVE  Compatible(locks'[t], locks'[u])
    <3>1. \A v \in Held' : /\ v \in Held
                           /\ locks'[v].share = locks[v].share
                           /\ Scope(locks'[v]) = Scope(locks[v])
      BY <2>0, <2>2, RefreshedKeepsScope DEF Refresh, Held
    <3> QED  BY <3>1 DEF ExclusiveMeansAlone, Compatible
  <2>3. ASSUME NEW v \in Token, Release(v)
        PROVE  Compatible(locks'[t], locks'[u])
    <3>1. \A w \in Held' : w \in Held /\ locks'[w] = locks[w]
      BY <2>3 DEF Release, Held, TypeOK
    <3> QED  BY <3>1 DEF ExclusiveMeansAlone
  <2>4. CASE UNCHANGED vars
    BY <2>4 DEF vars, ExclusiveMeansAlone, Held
  <2> QED  BY <2>1, <2>2, <2>3, <2>4 DEF Next
<1> QED  BY <1>1, <1>2, TypeCorrect, PTL DEF Spec

\* While it is held a lock keeps its scope and its share mode.
THEOREM RefreshKeepsScopeHolds == Spec => RefreshKeepsScope
<1> DEFINE Kept == \A t \in Token :
       locks[t] # NoLock /\ locks'[t] # NoLock =>
         /\ locks'[t].share = locks[t].share
         /\ Scope(locks'[t]) = Scope(locks[t])
<1>1. TypeOK /\ [Next]_vars => [Kept]_vars
  <2> SUFFICES ASSUME TypeOK, Next, NEW t \in Token,
                      locks[t] # NoLock, locks'[t] # NoLock
               PROVE  /\ locks'[t].share = locks[t].share
                      /\ Scope(locks'[t]) = Scope(locks[t])
    OBVIOUS
  <2>0. locks[t] \in ActiveLock
    BY DEF TypeOK
  <2>1. ASSUME NEW v \in Token, NEW lock \in ActiveLock, Grant(v, lock)
        PROVE  locks'[t] = locks[t]
    BY <2>1 DEF Grant, TypeOK, Held
  <2>2. ASSUME NEW refreshed \in SUBSET Held,
               NEW newExpires \in [refreshed -> Expiration],
               Refresh(refreshed, newExpires)
        PROVE  /\ locks'[t].share = locks[t].share
               /\ Scope(locks'[t]) = Scope(locks[t])
    BY <2>0, <2>2, RefreshedKeepsScope DEF Refresh, Held
  <2>3. ASSUME NEW v \in Token, Release(v)
        PROVE  locks'[t] = locks[t]
    BY <2>3 DEF Release, TypeOK
  <2> QED  BY <2>1, <2>2, <2>3 DEF Next
<1> QED  BY <1>1, TypeCorrect, PTL DEF Spec, RefreshKeepsScope
=============================================================================
