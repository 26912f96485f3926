----------------------------- MODULE LockTable -----------------------------
(***************************************************************************)
(* What a lock manager promises, whatever it stores its locks in: the      *)
(* contract of ILockManager (FubarDev.WebDavServer/Locking/ILockManager.cs)*)
(* with every transaction of LockManagerBase as one step.  LockManager     *)
(* shows how the code keeps this contract.                                 *)
(***************************************************************************)
EXTENDS LockScope

CONSTANTS
  Token,       \* the state tokens (GUIDs) a run may issue
  Expiration,  \* the values of IActiveLock.Expiration
  NoLock       \* "the store has no entry for this token"

ASSUME NoLockAssumption ==
  NoLock \notin [path : Path, recursive : BOOLEAN, share : ShareMode,
                 expires : Expiration, refreshed : BOOLEAN]

VARIABLES
  locks,    \* the committed store: the active lock of a token, or NoLock
  issued    \* the tokens handed out so far; a GUID is never issued twice

vars == <<locks, issued>>

\* IActiveLock; `refreshed' is "LastRefresh has a value".
ActiveLock == [path : Path, recursive : BOOLEAN, share : ShareMode,
               expires : Expiration, refreshed : BOOLEAN]

Held == {t \in Token : locks[t] # NoLock}

TypeOK ==
  /\ locks \in [Token -> ActiveLock \cup {NoLock}]
  /\ issued \subseteq Token
  /\ Held \subseteq issued

Init ==
  /\ locks = [t \in Token |-> NoLock]
  /\ issued = {}

-----------------------------------------------------------------------------

\* Seeded bug: a token is not written down.
GrantUnrecorded(t, lock) ==
  /\ t \notin issued
  /\ ConflictingLocks(locks, Held, lock) = {}
  /\ locks' = [locks EXCEPT ![t] = lock]
  /\ UNCHANGED issued

\* LockAsync: a lock nobody else's lock conflicts with gets a fresh token.
Grant(t, lock) ==
  /\ t \notin issued
  /\ ~ lock.refreshed
  /\ issued' = issued \cup {t}
  /\ locks' = [locks EXCEPT ![t] = lock]
  /\ ConflictingLocks(locks, Held, lock) = {}

\* RefreshLockAsync: the refreshed locks get a new expiration, no new scope.
Refresh(refreshed, newExpires) ==
  /\ refreshed # {}
  /\ refreshed \subseteq Held
  /\ locks' = [t \in Token |->
                 IF t \in refreshed THEN Refreshed(locks[t], newExpires[t])
                 ELSE locks[t]]
  /\ UNCHANGED issued

\* ReleaseAsync, for a client's UNLOCK as for an expired lock.
Release(t) ==
  /\ t \in Held
  /\ locks' = [locks EXCEPT ![t] = NoLock]
  /\ UNCHANGED issued

Next ==
  \/ \E t \in Token, lock \in ActiveLock : Grant(t, lock)
  \/ \E refreshed \in SUBSET Held : \E newExpires \in [refreshed -> Expiration] :
        Refresh(refreshed, newExpires)
  \/ \E t \in Token : Release(t)

Spec == Init /\ [][Next]_vars

-----------------------------------------------------------------------------
(* Properties *)

\* No resource is ever covered by an exclusive lock and by another lock at the
\* same time: what Find, Compare and GetConflictingLocks are there for.
ExclusiveMeansAlone ==
  \A t, u \in Held : t # u => Compatible(locks[t], locks[u])

\* While a lock is held nothing but its expiration changes; a refresh cannot
\* widen the scope past the conflict check or turn a shared lock exclusive.
RefreshKeepsScope ==
  [][\A t \in Token :
       locks[t] # NoLock /\ locks'[t] # NoLock =>
         /\ locks'[t].share = locks[t].share
         /\ Scope(locks'[t]) = Scope(locks[t])]_vars
=============================================================================
