------------------------- MODULE LockManagerProofs -------------------------
(***************************************************************************)
(* LockManager keeps the contract of LockTable, forgets no lock with a     *)
(* timeout, and releases none early that was not refreshed, for every      *)
(* number of clients, timer threads, tokens, resources and timeouts; and   *)
(* what SQLiteLockManager keeps of that across restarts and failing        *)
(* statements.                                                             *)
(***************************************************************************)
EXTENDS SQLiteLockManager, TLAPS

TableProofs == INSTANCE LockTableProofs

-----------------------------------------------------------------------------
(* The inductive invariant.  Only the process inside the transaction can    *)
(* be refreshing, and what it read at the beginning of the transaction is   *)
(* still what the store holds: nobody else can commit in between.  No       *)
(* transaction is open when the clock goes on to Horizon.                   *)

StoreTypeOK ==
  /\ locks \in [Token -> ActiveLock \cup {NoLock}]
  /\ issued \subseteq Token
  /\ Held \subseteq issued
  /\ now \in 0..Horizon
  /\ semaphore # NoOne => now <= MaxTime
  /\ call \in [Process -> Call]

StoreInv ==
  /\ StoreTypeOK
  /\ SnapshotsAreCurrent

RefreshCalls == [op : {"refresh"}, timeout : Timeouts,
                 found : Seq(Entry), refreshed : Seq(Entry)]

\* What a process can be in the middle of, case by case.
LEMMA CallTypes ==
  /\ Idle \in Call
  /\ \A c \in Call : c.op = "refresh" => c \in RefreshCalls
  /\ \A c \in Call : c.op = "track" => c \in [op : {"track"}, todo : Seq(Item)]
  /\ \A c \in Call : c.op \in {"untrack", "expire"} => c.item \in Item
  /\ RefreshCalls \subseteq Call
  /\ \A s \in Seq(Item) : [op |-> "track", todo |-> s] \in Call
  /\ \A i \in Item : /\ [op |-> "untrack", item |-> i] \in Call
                     /\ [op |-> "expire", item |-> i] \in Call
  /\ [op |-> "callback"] \in Call
BY DEF Call, RefreshCalls, Idle

\* The constructor of ActiveLock stays within the horizon while the clock runs.
LEMMA ExpirationTypes ==
  ASSUME now \in 0..Horizon, now <= MaxTime, NEW timeout \in Timeouts
  PROVE  ExpirationAfter(timeout) \in Expiration
BY BoundsAssumption DEF ExpirationAfter, Expiration

\* A refreshed lock is a lock.
LEMMA RefreshedTypes ==
  ASSUME NEW lock \in ActiveLock, NEW expires \in Expiration
  PROVE  Refreshed(lock, expires) \in ActiveLock
BY DEF Refreshed, ActiveLock

\* A step that leaves the store alone and in which no process enters or leaves
\* a transaction keeps the invariant.
LEMMA StoreUntouched ==
  ASSUME StoreInv, UNCHANGED storeVars, now' = now,
         NEW p \in Process, call[p].op # "refresh",
         NEW c \in Call, c.op # "refresh", Continue(p, c)
  PROVE  StoreInv'
<1> USE DEF storeVars, Continue
<1>1. StoreTypeOK'
  BY DEF StoreInv, StoreTypeOK, Held
<1>2. ASSUME NEW q \in Process, call'[q].op = "refresh"
      PROVE  SnapshotIsCurrent(q)'
  <2>1. q # p /\ call'[q] = call[q]
    BY <1>2 DEF StoreInv, StoreTypeOK
  <2> QED  BY <1>2, <2>1 DEF StoreInv, SnapshotsAreCurrent, SnapshotIsCurrent, Held
<1> QED  BY <1>1, <1>2 DEF StoreInv, SnapshotsAreCurrent

\* LockAsync adds a lock under a fresh token; since it runs alone, no refresh is
\* under way whose snapshot it could make stale.
LEMMA LockAsyncKeepsInv ==
  ASSUME StoreInv, NEW p \in Client, NEW request \in Requests,
         NEW timeout \in Timeouts, LockAsync(p, request, timeout)
  PROVE  StoreInv'
<1> DEFINE e == ExpirationAfter(timeout)
<1> DEFINE lock == [path |-> request.path, recursive |-> request.recursive,
                    share |-> request.share, expires |-> e, refreshed |-> FALSE]
<1>0. p \in Process  BY DEF Process
<1>1. PICK t \in Token \ issued :
        /\ issued' = issued \cup {t}
        /\ locks' = [locks EXCEPT ![t] = lock]
        /\ Continue(p, [op |-> "track", todo |-> <<[token |-> t, expires |-> e]>>])
  BY DEF LockAsync
<1>2. e \in Expiration  BY ExpirationTypes, BoundsAssumption DEF StoreInv, StoreTypeOK, LockAsync
<1>3. lock \in ActiveLock
  BY <1>2, BoundsAssumption DEF ActiveLock, LockScopes
<1>4. [op |-> "track", todo |-> <<[token |-> t, expires |-> e]>>] \in Call
  <2>1. <<[token |-> t, expires |-> e]>> \in Seq(Item)
    BY <1>2 DEF Item
  <2> QED  BY <2>1, CallTypes
<1>5. UNCHANGED <<now, semaphore>>  BY DEF LockAsync
<1>6. StoreTypeOK'
  BY <1>0, <1>1, <1>3, <1>4, <1>5 DEF StoreInv, StoreTypeOK, Held, Continue
<1>7. ASSUME NEW q \in Process, call'[q].op = "refresh"
      PROVE  FALSE
  <2>1. call[q].op = "refresh"
    BY <1>0, <1>1, <1>7 DEF Continue, StoreInv, StoreTypeOK
  <2>2. semaphore = q  BY <2>1 DEF StoreInv, SnapshotsAreCurrent, SnapshotIsCurrent
  <2> QED  BY <2>2, SentinelAssumption DEF LockAsync, TransactionMayBegin, Process
<1> QED  BY <1>6, <1>7 DEF StoreInv, SnapshotsAreCurrent

\* RefreshLockAsync starts from what the store holds.
LEMMA BeginRefreshKeepsInv ==
  ASSUME StoreInv, NEW p \in Client, NEW lists \in IfLists,
         NEW timeout \in Timeouts, BeginRefresh(p, lists, timeout)
  PROVE  StoreInv'
<1> DEFINE found == [i \in DOMAIN lists |-> [token |-> lists[i], lock |-> locks[lists[i]]]]
<1> DEFINE c == [op |-> "refresh", timeout |-> timeout, refreshed |-> << >>, found |-> found]
<1>0. p \in Process  BY DEF Process
<1>1. /\ \A i \in DOMAIN lists : lists[i] \in Held
      /\ semaphore = NoOne /\ semaphore' = p /\ now < MaxTime
      /\ call' = [call EXCEPT ![p] = c]
      /\ UNCHANGED <<locks, issued, now>>
  BY DEF BeginRefresh, TransactionMayBegin, Continue
<1>2. \A i \in DOMAIN lists : found[i] \in Entry
  BY <1>1 DEF StoreInv, StoreTypeOK, Held, Entry
<1>3. found \in Seq(Entry)
  <2>1. PICK n \in 1..MaxLists : DOMAIN lists = 1..n
    BY DEF IfLists
  <2> QED  BY <1>2, <2>1, BoundsAssumption
<1>4. c \in RefreshCalls
  BY <1>3 DEF RefreshCalls
<1>5. StoreTypeOK'
  BY <1>0, <1>1, <1>4, CallTypes, BoundsAssumption DEF StoreInv, StoreTypeOK, Held
<1>6. ASSUME NEW q \in Process, call'[q].op = "refresh"
      PROVE  SnapshotIsCurrent(q)'
  <2>1. q = p
    <3>1. q # p => call[q].op = "refresh"
      BY <1>0, <1>1, <1>6 DEF StoreInv, StoreTypeOK
    <3>2. q # p => semaphore = q
      BY <3>1 DEF StoreInv, SnapshotsAreCurrent, SnapshotIsCurrent
    <3> QED  BY <1>1, <3>2, SentinelAssumption DEF Process
  <2>2. call'[p] = c
    BY <1>0, <1>1 DEF StoreInv, StoreTypeOK
  <2>3. \A i \in DOMAIN found : found[i].token \in Held' /\ found[i].lock = locks'[found[i].token]
    BY <1>1 DEF Held
  <2> QED  BY <1>1, <2>1, <2>2, <2>3 DEF SnapshotIsCurrent
<1> QED  BY <1>5, <1>6 DEF StoreInv, SnapshotsAreCurrent

\* One round of the refresh changes the process's own copy only.
LEMMA RefreshOneKeepsInv ==
  ASSUME StoreInv, NEW p \in Process, RefreshOne(p)
  PROVE  StoreInv'
<1> DEFINE c == call[p]
<1> DEFINE old == Head(c.found)
<1> DEFINE e == ExpirationAfter(c.timeout)
<1> DEFINE new == [token |-> old.token, lock |-> Refreshed(old.lock, e)]
<1> DEFINE d == [c EXCEPT !.found = Tail(@), !.refreshed = Append(@, new)]
<1>1. /\ c.op = "refresh" /\ c.found # << >>
      /\ call' = [call EXCEPT ![p] = d]
      /\ UNCHANGED <<locks, issued, semaphore, now>>
  BY DEF RefreshOne, storeVars, Continue
<1>2. c \in RefreshCalls
  BY <1>1, CallTypes DEF StoreInv, StoreTypeOK
<1>3. SnapshotIsCurrent(p)
  BY <1>1 DEF StoreInv, SnapshotsAreCurrent
<1>4. c.found \in Seq(Entry) /\ c.refreshed \in Seq(Entry) /\ 1 \in DOMAIN c.found
  BY <1>1, <1>2 DEF RefreshCalls
<1>5. e \in Expiration
  BY <1>2, <1>3, ExpirationTypes, SentinelAssumption
     DEF StoreInv, StoreTypeOK, RefreshCalls, SnapshotIsCurrent, Process
<1>6. old \in Entry /\ old.token \in Held /\ old.lock = locks[old.token]
  BY <1>3, <1>4 DEF SnapshotIsCurrent
<1>7. new \in Entry
  BY <1>5, <1>6, RefreshedTypes DEF Entry
<1>8. /\ d \in RefreshCalls /\ d.op = "refresh"
      /\ d.found = Tail(c.found) /\ d.refreshed = Append(c.refreshed, new)
  <2>1. Tail(c.found) \in Seq(Entry) /\ Append(c.refreshed, new) \in Seq(Entry)
    BY <1>1, <1>4, <1>7
  <2> HIDE DEF new
  <2> QED  BY <1>2, <2>1 DEF RefreshCalls
<1>9. StoreTypeOK'
  BY <1>1, <1>8, CallTypes DEF StoreInv, StoreTypeOK, Held
<1>10. ASSUME NEW q \in Process, call'[q].op = "refresh"
       PROVE  SnapshotIsCurrent(q)'
  <2>1. q = p
    <3>1. q # p => call[q].op = "refresh"
      BY <1>1, <1>10 DEF StoreInv, StoreTypeOK
    <3> QED  BY <1>3, <3>1 DEF StoreInv, SnapshotsAreCurrent, SnapshotIsCurrent
  <2>2. call'[p] = d
    BY <1>1 DEF StoreInv, StoreTypeOK
  <2>3. \A i \in DOMAIN d.found : d.found[i].token \in Held /\ d.found[i].lock = locks[d.found[i].token]
    <3>1. \A i \in DOMAIN d.found : i + 1 \in DOMAIN c.found /\ d.found[i] = c.found[i + 1]
      BY <1>4, <1>8
    <3> QED  BY <1>3, <3>1 DEF SnapshotIsCurrent
  <2>4. \A i \in DOMAIN d.refreshed :
          /\ d.refreshed[i].token \in Held
          /\ \E x \in Expiration : d.refreshed[i].lock = Refreshed(locks[d.refreshed[i].token], x)
    <3>1. \A i \in DOMAIN d.refreshed :
            \/ i \in DOMAIN c.refreshed /\ d.refreshed[i] = c.refreshed[i]
            \/ d.refreshed[i] = new
      BY <1>4, <1>7, <1>8
    <3>2. new.token \in Held /\ new.lock = Refreshed(locks[new.token], e)
      BY <1>6
    <3> QED  BY <1>3, <1>5, <3>1, <3>2 DEF SnapshotIsCurrent
  <2>5. semaphore' = p
    BY <1>1, <1>3 DEF SnapshotIsCurrent
  <2>6. UNCHANGED <<locks, Held>>
    BY <1>1 DEF Held
  <2> HIDE DEF d
  <2> QED  BY <2>1, <2>2, <2>3, <2>4, <2>5, <2>6 DEF SnapshotIsCurrent
<1> QED  BY <1>9, <1>10 DEF StoreInv, SnapshotsAreCurrent

\* What RefreshLockAsync is about to write: for every lock it refreshed the
\* lock that is still held, with a new expiration.
LEMMA RefreshedAreHeld ==
  ASSUME StoreInv, NEW p \in Process, call[p].op = "refresh"
  PROVE  /\ call[p].refreshed \in Seq(Entry)
         /\ Updated(p) \subseteq Held
         /\ \A t \in Updated(p), i \in DOMAIN call[p].refreshed :
              IsLastVersion(p, t, i) =>
                \E e \in Expiration : call[p].refreshed[i].lock = Refreshed(locks[t], e)
<1>1. call[p].refreshed \in Seq(Entry)
  BY CallTypes DEF StoreInv, StoreTypeOK, RefreshCalls
<1>2. SnapshotIsCurrent(p)
  BY DEF StoreInv, SnapshotsAreCurrent
<1> QED  BY <1>1, <1>2 DEF SnapshotIsCurrent, Updated, IsLastVersion

\* The commit of a refresh writes locks that are still held.
LEMMA RefreshCommitKeepsInv ==
  ASSUME StoreInv, NEW p \in Process, RefreshCommit(p)
  PROVE  StoreInv'
<1> DEFINE c == call[p]
<1> DEFINE items == [i \in DOMAIN c.refreshed |-> ItemFor(c.refreshed[i])]
<1>1. /\ c.op = "refresh"
      /\ call' = [call EXCEPT ![p] = [op |-> "track", todo |-> items]]
      /\ semaphore' = NoOne /\ UNCHANGED <<issued, now>>
  BY DEF RefreshCommit, EndTransaction, Continue
<1>2. PICK last \in [Updated(p) -> DOMAIN c.refreshed] :
        /\ \A t \in Updated(p) : IsLastVersion(p, t, last[t])
        /\ locks' = [t \in Token |-> IF t \in Updated(p)
                                    THEN c.refreshed[last[t]].lock ELSE locks[t]]
  BY DEF RefreshCommit
<1>3. \A t \in Updated(p) : t \in Held /\ c.refreshed[last[t]].lock \in ActiveLock
  <2>1. c.refreshed \in Seq(Entry) /\ Updated(p) \subseteq Held
    BY <1>1, RefreshedAreHeld
  <2>2. \A t \in Updated(p) : c.refreshed[last[t]] \in Entry
    BY <1>2, <2>1
  <2> QED  BY <2>1, <2>2 DEF Entry
<1>4. items \in Seq(Item)
  <2>1. c.refreshed \in Seq(Entry)
    BY <1>1, RefreshedAreHeld
  <2>2. \A i \in DOMAIN c.refreshed : ItemFor(c.refreshed[i]) \in Item
    <3>1. \A i \in DOMAIN c.refreshed : c.refreshed[i] \in Entry
      BY <2>1
    <3> QED  BY <3>1 DEF ItemFor, Entry, Item, ActiveLock
  <2>3. PICK n \in Nat : DOMAIN c.refreshed = 1..n
    BY <2>1
  <2> QED  BY <2>2, <2>3
<1>5. StoreTypeOK'
  <2>1. locks' \in [Token -> ActiveLock \cup {NoLock}]
    BY <1>2, <1>3 DEF StoreInv, StoreTypeOK
  <2>2. Held' \subseteq Held
    BY <1>2, <1>3 DEF Held
  <2>3. call' \in [Process -> Call]
    BY <1>1, <1>4, CallTypes DEF StoreInv, StoreTypeOK
  <2> QED  BY <1>1, <2>1, <2>2, <2>3 DEF StoreInv, StoreTypeOK
<1>6. ASSUME NEW q \in Process, call'[q].op = "refresh"
      PROVE  FALSE
  <2>1. q # p /\ call[q].op = "refresh"
    BY <1>1, <1>6 DEF StoreInv, StoreTypeOK
  <2> QED  BY <1>1, <2>1 DEF StoreInv, SnapshotsAreCurrent, SnapshotIsCurrent
<1> QED  BY <1>5, <1>6 DEF StoreInv, SnapshotsAreCurrent

\* A release waits for the transactions of the others.
LEMMA ReleaseCommitKeepsInv ==
  ASSUME StoreInv, NEW p \in Process, NEW t \in Token, ReleaseCommit(p, t)
  PROVE  StoreInv'
<1>1. /\ semaphore = NoOne
      /\ locks[t] # NoLock
      /\ locks' = [locks EXCEPT ![t] = NoLock]
      /\ call' = [call EXCEPT ![p] = [op |-> "untrack", item |-> ItemOf(t)]]
      /\ UNCHANGED <<issued, now, semaphore>>
  BY DEF ReleaseCommit, TransactionMayBegin, Continue
<1>2. ItemOf(t) \in Item
  BY <1>1 DEF StoreInv, StoreTypeOK, ItemOf, Item, ActiveLock
<1>3. StoreTypeOK'
  BY <1>1, <1>2, CallTypes DEF StoreInv, StoreTypeOK, Held
<1>4. ASSUME NEW q \in Process, call'[q].op = "refresh"
      PROVE  FALSE
  <2>1. call[q].op = "refresh"
    BY <1>1, <1>4 DEF StoreInv, StoreTypeOK
  <2> QED  BY <1>1, <2>1, SentinelAssumption DEF StoreInv, SnapshotsAreCurrent, SnapshotIsCurrent, Process
<1> QED  BY <1>3, <1>4 DEF StoreInv, SnapshotsAreCurrent

\* Telling the clean-up task leaves the store alone.
LEMMA TrackKeepsInv ==
  ASSUME StoreInv, NEW p \in Process, Track(p)
  PROVE  StoreInv'
<1> DEFINE d == [call[p] EXCEPT !.todo = Tail(@)]
<1> DEFINE c == IF Len(call[p].todo) = 1 THEN Idle ELSE d
<1>1. /\ call[p].op = "track"
      /\ Continue(p, c)
      /\ UNCHANGED <<now, locks, issued, semaphore>>
  BY DEF Track, storeVars
<1>2. call[p] \in [op : {"track"}, todo : Seq(Item)]
  BY <1>1, CallTypes DEF StoreInv, StoreTypeOK
<1>3. d \in [op : {"track"}, todo : Seq(Item)]
  <2>1. call[p].todo # << >>
    BY DEF Track
  <2> QED  BY <1>2, <2>1
<1>4. c \in Call /\ c.op # "refresh"
  BY <1>3, CallTypes DEF Call, Idle
<1> QED  BY <1>1, <1>4, StoreUntouched DEF storeVars, StoreInv, StoreTypeOK

-----------------------------------------------------------------------------
(* The types of the clean-up task's variables.                              *)

CleanupTypeOK ==
  /\ IsABag(tracked) /\ BagToSet(tracked) \subseteq FiniteItem
  /\ mostRecent \in FiniteItem \cup {Null}
  /\ timer \in (0..Horizon) \cup {Off}

\* One more copy of an item.
LEMMA BagPlusOne ==
  ASSUME NEW S, NEW B, IsABag(B), BagToSet(B) \subseteq S, NEW i \in S
  PROVE  /\ IsABag(B (+) SetToBag({i}))
         /\ BagToSet(B (+) SetToBag({i})) \subseteq S
<1>1. DOMAIN (B (+) SetToBag({i})) = DOMAIN B \cup {i}
  BY DEF (+), SetToBag
<1>2. \A e \in DOMAIN B : B[e] \in Nat /\ B[e] > 0
  BY DEF IsABag
<1>3. B (+) SetToBag({i}) = [e \in DOMAIN B \cup {i} |->
         (IF e \in DOMAIN B THEN B[e] ELSE 0) + (IF e \in {i} THEN 1 ELSE 0)]
  BY DEF (+), SetToBag
<1>4. \A e \in DOMAIN B \cup {i} :
         /\ (B (+) SetToBag({i}))[e] \in Nat
         /\ (B (+) SetToBag({i}))[e] > 0
  BY <1>2, <1>3
<1> QED  BY <1>1, <1>3, <1>4 DEF IsABag, BagToSet

\* One copy of an item less.
LEMMA BagMinusOne ==
  ASSUME NEW S, NEW B, IsABag(B), BagToSet(B) \subseteq S, NEW i
  PROVE  /\ IsABag(B (-) SetToBag({i}))
         /\ BagToSet(B (-) SetToBag({i})) \subseteq S
<1> DEFINE less == [e \in DOMAIN B |-> IF e \in {i} THEN B[e] - 1 ELSE B[e]]
<1>1. B (-) SetToBag({i}) = [e \in {d \in DOMAIN less : less[d] > 0} |-> less[e]]
  BY DEF (-), SetToBag
<1>2. \A e \in DOMAIN B : B[e] \in Nat /\ B[e] > 0
  BY DEF IsABag
<1>3. \A e \in DOMAIN less : less[e] \in Nat
  BY <1>2
<1> HIDE DEF less
<1>4. DOMAIN less \subseteq S
  BY DEF less, BagToSet
<1> QED  BY <1>1, <1>3, <1>4 DEF IsABag, BagToSet

\* Waiting for another item keeps the types: the timer is never armed for a
\* time the clock cannot reach.
LEMMA SetMostRecentTypes ==
  ASSUME now \in 0..Horizon, CleanupTypeOK,
         NEW next \in FiniteItem \cup {Null}, SetMostRecent(next)
  PROVE  mostRecent' \in FiniteItem \cup {Null} /\ timer' \in (0..Horizon) \cup {Off}
BY BoundsAssumption DEF CleanupTypeOK, SetMostRecent, ConfigureTimer, FiniteItem

\* The next item to wait for is one of those the clean-up task tracks.
LEMMA FindMostRecentTypes ==
  ASSUME NEW items, BagToSet(items) \subseteq FiniteItem
  PROVE  FindMostRecentExpirationItem(items) \subseteq FiniteItem \cup {Null}
BY DEF FindMostRecentExpirationItem

\* LockCleanupTask.Add keeps the types.
LEMMA CleanupAddTypes ==
  ASSUME now \in 0..Horizon, CleanupTypeOK, NEW item \in Item, CleanupAdd(item)
  PROVE  CleanupTypeOK'
<1>1. CASE item.expires = Infinite
  BY <1>1 DEF CleanupAdd, cleanupVars, CleanupTypeOK
<1>2. CASE item.expires # Infinite
  <2>1. item \in FiniteItem
    BY <1>2 DEF Item, FiniteItem, Expiration
  <2>2. tracked' = tracked (+) SetToBag({item})
    BY <1>2 DEF CleanupAdd
  <2>3. IsABag(tracked') /\ BagToSet(tracked') \subseteq FiniteItem
    BY <2>1, <2>2, BagPlusOne DEF CleanupTypeOK
  <2>4. UNCHANGED <<mostRecent, timer>> \/ SetMostRecent(item)
    BY <1>2 DEF CleanupAdd
  <2>5. mostRecent' \in FiniteItem \cup {Null} /\ timer' \in (0..Horizon) \cup {Off}
    BY <2>1, <2>4, SetMostRecentTypes DEF CleanupTypeOK
  <2> QED  BY <2>3, <2>5 DEF CleanupTypeOK
<1> QED  BY <1>1, <1>2

\* LockCleanupTask.Remove keeps the types.
LEMMA CleanupRemoveTypes ==
  ASSUME now \in 0..Horizon, CleanupTypeOK, NEW item, CleanupRemove(item)
  PROVE  CleanupTypeOK'
<1>1. CASE ~ BagIn(item, tracked)
  BY <1>1 DEF CleanupRemove, cleanupVars, CleanupTypeOK
<1>2. CASE BagIn(item, tracked)
  <2>1. tracked' = tracked (-) SetToBag({item})
    BY <1>2 DEF CleanupRemove
  <2>2. IsABag(tracked') /\ BagToSet(tracked') \subseteq FiniteItem
    BY <2>1, BagMinusOne DEF CleanupTypeOK
  <2>3. \/ UNCHANGED <<mostRecent, timer>>
        \/ \E next \in FindMostRecentExpirationItem(tracked') : SetMostRecent(next)
    BY <1>2 DEF CleanupRemove
  <2>4. mostRecent' \in FiniteItem \cup {Null} /\ timer' \in (0..Horizon) \cup {Off}
    BY <2>2, <2>3, FindMostRecentTypes, SetMostRecentTypes DEF CleanupTypeOK
  <2> QED  BY <2>2, <2>4 DEF CleanupTypeOK
<1> QED  BY <1>1, <1>2

-----------------------------------------------------------------------------
(* Every action keeps both invariants.                                      *)

\* Next cannot leave the invariant: one step per action.
LEMMA NextKeepsInv ==
  ASSUME StoreInv, CleanupTypeOK, [Next]_vars
  PROVE  StoreInv'
<1>1. ASSUME NEW p \in Client, NEW request \in Requests, NEW timeout \in Timeouts,
             LockAsync(p, request, timeout)
      PROVE  StoreInv'
  BY <1>1, LockAsyncKeepsInv
<1>2. ASSUME NEW p \in Client, NEW lists \in IfLists, NEW timeout \in Timeouts,
             BeginRefresh(p, lists, timeout)
      PROVE  StoreInv'
  BY <1>2, BeginRefreshKeepsInv
<1>3. ASSUME NEW p \in Client, NEW t \in Token, ReleaseAsync(p, t)
      PROVE  StoreInv'
  BY <1>3, ReleaseCommitKeepsInv DEF ReleaseAsync, Process
<1>4. ASSUME NEW p \in Client, RefreshStep(p)
      PROVE  StoreInv'
  BY <1>4, RefreshOneKeepsInv, RefreshCommitKeepsInv DEF RefreshStep, Process
<1>5. ASSUME NEW p \in Process, Track(p)
      PROVE  StoreInv'
  BY <1>5, TrackKeepsInv
<1>6. ASSUME NEW p \in Process, Untrack(p)
      PROVE  StoreInv'
  <2>1. call[p].op = "untrack" /\ Continue(p, Idle) /\ now' = now /\ UNCHANGED storeVars
    BY <1>6 DEF Untrack
  <2>2. Idle \in Call /\ Idle.op # "refresh"
    BY CallTypes DEF Idle
  <2> QED  BY <2>1, <2>2, StoreUntouched DEF StoreInv, StoreTypeOK
<1>7. ASSUME NEW w \in Worker, TimerFires(w)
      PROVE  StoreInv'
  <2>1. /\ call[w].op # "refresh" /\ Continue(w, [op |-> "callback"])
        /\ now' = now /\ UNCHANGED storeVars /\ w \in Process
    BY <1>7 DEF TimerFires, Idle, Process
  <2> QED  BY <2>1, CallTypes, StoreUntouched DEF StoreInv, StoreTypeOK
<1>8. ASSUME NEW w \in Worker, TimerExpirationCallback(w)
      PROVE  StoreInv'
  <2>1. /\ call[w].op # "refresh" /\ now' = now /\ UNCHANGED storeVars /\ w \in Process
    BY <1>8 DEF TimerExpirationCallback, Process
  <2>2. CASE HasExpired(mostRecent)
    <3> DEFINE c == IF BagIn(mostRecent, tracked)
                    THEN [op |-> "expire", item |-> mostRecent] ELSE Idle
    <3>1. Continue(w, c)
      BY <1>8, <2>2 DEF TimerExpirationCallback
    <3>2. mostRecent \in Item
      BY <2>2 DEF HasExpired, CleanupTypeOK, FiniteItem, Item, Expiration
    <3>3. c \in Call /\ c.op # "refresh"
      BY <3>2, CallTypes DEF Idle
    <3> QED  BY <2>1, <3>1, <3>3, StoreUntouched DEF StoreInv, StoreTypeOK
  <2>3. CASE ~ HasExpired(mostRecent)
    <3>1. Continue(w, Idle)
      BY <1>8, <2>3 DEF TimerExpirationCallback
    <3> QED  BY <2>1, <3>1, CallTypes, StoreUntouched DEF StoreInv, StoreTypeOK, Idle
  <2> QED  BY <2>2, <2>3
<1>9. ASSUME NEW w \in Worker, ReleaseExpired(w)
      PROVE  StoreInv'
  <2>1. /\ w \in Process
        /\ call[w].item.token \in Token
        /\ ReleaseCommit(w, call[w].item.token)
    BY <1>9, CallTypes DEF ReleaseExpired, Process, StoreInv, StoreTypeOK, Item
  <2> QED  BY <2>1, ReleaseCommitKeepsInv
<1>10. ASSUME NEW w \in Worker, ExpiredIsGone(w)
       PROVE  StoreInv'
  <2>1. /\ w \in Process /\ call[w].op # "refresh" /\ Continue(w, Idle)
        /\ now' = now /\ UNCHANGED storeVars
    BY <1>10 DEF ExpiredIsGone, Process
  <2> QED  BY <2>1, CallTypes, StoreUntouched DEF StoreInv, StoreTypeOK, Idle
<1>11. CASE Tick
  <2>1. /\ now' \in 0..Horizon /\ UNCHANGED call /\ UNCHANGED storeVars
        /\ semaphore # NoOne => now' <= MaxTime
    BY <1>11, BoundsAssumption DEF Tick, TransactionMayBegin, StoreInv, StoreTypeOK
  <2> QED  BY <2>1 DEF StoreInv, SnapshotsAreCurrent, StoreTypeOK, SnapshotIsCurrent, Held, storeVars
<1>12. CASE UNCHANGED vars
  BY <1>12 DEF vars, StoreInv, SnapshotsAreCurrent, StoreTypeOK, SnapshotIsCurrent, Held
<1> QED  BY <1>1, <1>2, <1>3, <1>4, <1>5, <1>6, <1>7, <1>8, <1>9, <1>10, <1>11, <1>12
         DEF Next, WorkerStep

\* The types of everything TypeOK names beyond the store.
RestTypeOK ==
  /\ CleanupTypeOK
  /\ semaphore \in Process \cup {NoOne}
  /\ notified \in [Token -> Nat]

\* Every action keeps the types of the clean-up task, semaphore and events.
LEMMA NextKeepsTypes ==
  ASSUME StoreInv, RestTypeOK, [Next]_vars
  PROVE  RestTypeOK'
<1> USE DEF RestTypeOK
<1>0. now \in 0..Horizon /\ call \in [Process -> Call]
  BY DEF StoreInv, StoreTypeOK
<1>1. ASSUME NEW p \in Client, NEW request \in Requests, NEW timeout \in Timeouts,
             LockAsync(p, request, timeout)
      PROVE  RestTypeOK'
  BY <1>1 DEF LockAsync, cleanupVars, CleanupTypeOK
<1>2. ASSUME NEW p \in Client, NEW lists \in IfLists, NEW timeout \in Timeouts,
             BeginRefresh(p, lists, timeout)
      PROVE  RestTypeOK'
  BY <1>2 DEF BeginRefresh, cleanupVars, CleanupTypeOK, Process
<1>3. ASSUME NEW p, NEW t, ReleaseCommit(p, t)
      PROVE  RestTypeOK'
  BY <1>3 DEF ReleaseCommit, cleanupVars, CleanupTypeOK
<1>4. ASSUME NEW p \in Client, RefreshOne(p)
      PROVE  RestTypeOK'
  <2>1. PICK item : CleanupRemove(item)
    BY <1>4 DEF RefreshOne
  <2> QED  BY <1>0, <1>4, <2>1, CleanupRemoveTypes DEF RefreshOne, storeVars
<1>5. ASSUME NEW p \in Client, RefreshCommit(p)
      PROVE  RestTypeOK'
  BY <1>5 DEF RefreshCommit, EndTransaction, cleanupVars, CleanupTypeOK
<1>6. ASSUME NEW p \in Process, Track(p)
      PROVE  RestTypeOK'
  <2> DEFINE item == Head(call[p].todo)
  <2>1. CleanupAdd(item)
    BY <1>6 DEF Track
  <2>2. item \in Item
    <3>1. call[p].todo \in Seq(Item)
      BY <1>0, <1>6, CallTypes DEF Track
    <3> QED  BY <1>6, <3>1 DEF Track
  <2> QED  BY <1>0, <1>6, <2>1, <2>2, CleanupAddTypes DEF Track, storeVars
<1>7. ASSUME NEW p \in Process, Untrack(p)
      PROVE  RestTypeOK'
  <2>1. CleanupTypeOK'
    BY <1>0, <1>7, CleanupRemoveTypes DEF Untrack
  <2>2. notified' \in [Token -> Nat]
    <3>1. PICK t : notified' = [notified EXCEPT ![t] = notified[t] + 1]
      BY <1>7 DEF Untrack
    <3>2. notified \in [Token -> Nat]
      OBVIOUS
    <3>3. \A u \in Token : notified'[u] \in Nat
      BY <3>1, <3>2
    <3> QED  BY <3>1, <3>2, <3>3
  <2>3. UNCHANGED semaphore
    BY <1>7 DEF Untrack, storeVars
  <2> QED  BY <2>1, <2>2, <2>3
<1>8. ASSUME NEW w \in Worker, TimerFires(w)
      PROVE  RestTypeOK'
  BY <1>8 DEF TimerFires, storeVars, CleanupTypeOK
<1>9. ASSUME NEW w \in Worker, TimerExpirationCallback(w)
      PROVE  RestTypeOK'
  <2>1. PICK next : /\ SetMostRecent(next)
                    /\ \/ /\ tracked' = tracked (-) SetToBag({mostRecent})
                          /\ next \in FindMostRecentExpirationItem(tracked')
                       \/ /\ tracked' = tracked
                          /\ \/ next \in FindMostRecentExpirationItem(tracked)
                             \/ next = mostRecent
    BY <1>9 DEF TimerExpirationCallback
  <2>2. IsABag(tracked') /\ BagToSet(tracked') \subseteq FiniteItem
    <3>1. CASE tracked' = tracked
      BY <3>1 DEF CleanupTypeOK
    <3>2. CASE tracked' = tracked (-) SetToBag({mostRecent})
      BY <3>2, BagMinusOne DEF CleanupTypeOK
    <3> QED  BY <2>1, <3>1, <3>2
  <2>3. next \in FiniteItem \cup {Null}
    BY <2>1, <2>2, FindMostRecentTypes DEF CleanupTypeOK
  <2>4. CleanupTypeOK'
    BY <1>0, <2>1, <2>2, <2>3, SetMostRecentTypes DEF CleanupTypeOK
  <2> QED  BY <1>9, <2>4 DEF TimerExpirationCallback, storeVars
<1>10. ASSUME NEW w \in Worker, ExpiredIsGone(w)
       PROVE  RestTypeOK'
  BY <1>10 DEF ExpiredIsGone, storeVars, cleanupVars, CleanupTypeOK
<1>11. CASE Tick
  BY <1>11 DEF Tick, storeVars, cleanupVars, CleanupTypeOK
<1>12. CASE UNCHANGED vars
  BY <1>12 DEF vars, CleanupTypeOK
<1> QED  BY <1>1, <1>2, <1>3, <1>4, <1>5, <1>6, <1>7, <1>8, <1>9, <1>10, <1>11, <1>12
         DEF Next, WorkerStep, RefreshStep, ReleaseAsync, ReleaseExpired

\* The invariants hold before the first request.
LEMMA InitInv == Init => StoreInv /\ RestTypeOK
<1> SUFFICES ASSUME Init PROVE StoreInv /\ RestTypeOK
  OBVIOUS
<1>1. StoreInv
  <2>1. \A p \in Process : call[p].op # "refresh"
    BY DEF Init, Idle
  <2> QED  BY <2>1, CallTypes, BoundsAssumption DEF Init, StoreInv, SnapshotsAreCurrent, StoreTypeOK, Held
<1>2. IsABag(EmptyBag) /\ BagToSet(EmptyBag) = {}
  BY DEF IsABag, BagToSet, EmptyBag, SetToBag
<1> QED  BY <1>1, <1>2 DEF Init, RestTypeOK, CleanupTypeOK

\* What a transaction read stays what the store holds until it commits.
THEOREM StoreInvHolds == Spec => [](StoreInv /\ RestTypeOK)
<1>1. StoreInv /\ RestTypeOK /\ [Next]_vars => (StoreInv /\ RestTypeOK)'
  BY NextKeepsInv, NextKeepsTypes DEF RestTypeOK
<1> QED  BY <1>1, InitInv, PTL DEF Spec

\* What RefreshLockAsync read stays true until its commit, for every number of
\* concurrent requests: no update of another request is lost.
THEOREM SnapshotsAreCurrentHolds == Spec => []SnapshotsAreCurrent
<1>1. StoreInv => SnapshotsAreCurrent
  BY DEF StoreInv
<1> QED  BY <1>1, StoreInvHolds, PTL

\* Every variable of the lock manager and of its clean-up task keeps its type.
THEOREM TypeCorrect == Spec => []TypeOK
<1>1. StoreInv /\ RestTypeOK => TypeOK
  BY DEF StoreInv, StoreTypeOK, RestTypeOK, CleanupTypeOK, TypeOK
<1> QED  BY <1>1, StoreInvHolds, PTL

-----------------------------------------------------------------------------
(* The refinement.                                                          *)

\* LockTable's definitions, seen from here, are the ones of LockManager.
LEMMA SameDefinitions ==
  /\ Table!ActiveLock = ActiveLock
  /\ Table!Held = Held
  /\ \A table, held, request :
       Table!ConflictingLocks(table, held, request) = ConflictingLocks(table, held, request)
  /\ \A lock, expires : Table!Refreshed(lock, expires) = Refreshed(lock, expires)
BY DEF Table!ActiveLock, ActiveLock, Table!Held, Held, Table!ShareMode, ShareMode,
       Table!ConflictingLocks, ConflictingLocks, Table!GetConflictingLocks,
       GetConflictingLocks, Table!GetLocks, GetLocks, Table!Find, Find,
       Table!Compare, Compare, Table!IsBaseOf, IsBaseOf, Table!Refreshed, Refreshed

\* A successful LockAsync is a Grant of the contract.
LEMMA LockAsyncIsGrant ==
  ASSUME StoreInv, NEW p \in Client, NEW request \in Requests,
         NEW timeout \in Timeouts, LockAsync(p, request, timeout)
  PROVE  Table!Next
<1> DEFINE lock == [path |-> request.path, recursive |-> request.recursive,
                    share |-> request.share, expires |-> ExpirationAfter(timeout),
                    refreshed |-> FALSE]
<1>1. PICK t \in Token \ issued : /\ issued' = issued \cup {t}
                                 /\ locks' = [locks EXCEPT ![t] = lock]
  BY DEF LockAsync
<1>2. ExpirationAfter(timeout) \in Expiration
  BY ExpirationTypes, BoundsAssumption DEF StoreInv, StoreTypeOK, LockAsync
<1>3. lock \in ActiveLock
  BY <1>2, BoundsAssumption DEF ActiveLock, LockScopes
<1>4. ConflictingLocks(locks, Held, request) = {}
  BY DEF LockAsync, MayLock
<1>5. ConflictingLocks(locks, Held, lock) = ConflictingLocks(locks, Held, request)
  BY DEF ConflictingLocks
<1>6. Table!Grant(t, lock)
  BY <1>1, <1>4, <1>5, SameDefinitions DEF Table!Grant
<1> QED  BY <1>3, <1>6, SameDefinitions DEF Table!Next

\* The commit of RefreshLockAsync, seen from the store, refreshes what is held
\* at that moment although it was computed from an earlier reading.
LEMMA RefreshCommitIsRefresh ==
  ASSUME StoreInv, NEW p \in Process, RefreshCommit(p)
  PROVE  Table!Next \/ UNCHANGED <<locks, issued>>
<1> DEFINE new == [t \in Updated(p) |-> locks'[t]]
<1>1. PICK last \in [Updated(p) -> DOMAIN call[p].refreshed] :
        /\ \A t \in Updated(p) : IsLastVersion(p, t, last[t])
        /\ locks' = [t \in Token |-> IF t \in Updated(p)
                                    THEN call[p].refreshed[last[t]].lock ELSE locks[t]]
  BY DEF RefreshCommit
<1>2. /\ Updated(p) \subseteq Held
      /\ \A t \in Updated(p) : \E e \in Expiration : new[t] = Refreshed(locks[t], e)
  BY <1>1, RefreshedAreHeld DEF RefreshCommit, Held
<1>3. UNCHANGED issued
  BY DEF RefreshCommit
<1>4. CASE Updated(p) = {}
  BY <1>1, <1>3, <1>4 DEF StoreInv, StoreTypeOK
<1>5. CASE Updated(p) # {}
  <2> DEFINE newExpires == [t \in Updated(p) |-> new[t].expires]
  <2>1. \A t \in Updated(p) : /\ newExpires[t] \in Expiration
                              /\ new[t] = Refreshed(locks[t], newExpires[t])
    <3> SUFFICES ASSUME NEW t \in Updated(p)
                 PROVE  /\ newExpires[t] \in Expiration
                        /\ new[t] = Refreshed(locks[t], newExpires[t])
      OBVIOUS
    <3>1. PICK e \in Expiration : new[t] = Refreshed(locks[t], e)
      BY <1>2
    <3>2. locks[t] \in ActiveLock
      BY <1>2 DEF StoreInv, StoreTypeOK, Held
    <3>3. Refreshed(locks[t], e).expires = e
      BY <3>2 DEF Refreshed, ActiveLock
    <3> QED  BY <3>1, <3>3
  <2>2. newExpires \in [Updated(p) -> Expiration]
    BY <2>1
  <2>3. locks' = [t \in Token |-> IF t \in Updated(p)
                                THEN Refreshed(locks[t], newExpires[t]) ELSE locks[t]]
    BY <1>1, <1>2, <2>1 DEF Held
  <2>4. Table!Refresh(Updated(p), newExpires)
    BY <1>2, <1>3, <1>5, <2>3, SameDefinitions DEF Table!Refresh
  <2> QED  BY <1>2, <2>2, <2>4, SameDefinitions DEF Table!Next
<1> QED  BY <1>4, <1>5

\* The commit of ReleaseAsync is a Release of the contract.
LEMMA ReleaseCommitIsRelease ==
  ASSUME NEW p, NEW t \in Token, ReleaseCommit(p, t)
  PROVE  Table!Next
<1>1. Table!Release(t)
  BY SameDefinitions DEF ReleaseCommit, Table!Release, Held
<1> QED  BY <1>1 DEF Table!Next

\* Every step of the code is a step of the contract or leaves the store alone.
LEMMA StepSimulation ==
  ASSUME StoreInv, [Next]_vars
  PROVE  [Table!Next]_(Table!vars)
<1> USE DEF Table!vars
<1>1. ASSUME NEW p \in Client, NEW request \in Requests, NEW timeout \in Timeouts,
             LockAsync(p, request, timeout)
      PROVE  Table!Next
  BY <1>1, LockAsyncIsGrant
<1>2. ASSUME NEW p \in Client, RefreshCommit(p)
      PROVE  [Table!Next]_(Table!vars)
  BY <1>2, RefreshCommitIsRefresh DEF Process
<1>3. ASSUME NEW p \in Client, NEW t \in Token, ReleaseAsync(p, t)
      PROVE  Table!Next
  BY <1>3, ReleaseCommitIsRelease DEF ReleaseAsync
<1>4. ASSUME NEW w \in Worker, ReleaseExpired(w)
      PROVE  Table!Next
  <2>1. call[w].item.token \in Token
    BY <1>4, CallTypes DEF ReleaseExpired, Process, StoreInv, StoreTypeOK, Item
  <2> QED  BY <1>4, <2>1, ReleaseCommitIsRelease DEF ReleaseExpired
<1>5. ASSUME NEW p, NEW lists, NEW timeout, BeginRefresh(p, lists, timeout)
      PROVE  UNCHANGED <<locks, issued>>
  BY <1>5 DEF BeginRefresh
<1>6. ASSUME NEW p, RefreshOne(p) \/ Track(p) \/ Untrack(p)
      PROVE  UNCHANGED <<locks, issued>>
  BY <1>6 DEF RefreshOne, Track, Untrack, storeVars
<1>7. ASSUME NEW w, TimerFires(w) \/ TimerExpirationCallback(w) \/ ExpiredIsGone(w)
      PROVE  UNCHANGED <<locks, issued>>
  BY <1>7 DEF TimerFires, TimerExpirationCallback, ExpiredIsGone, storeVars
<1>8. Tick \/ UNCHANGED vars => UNCHANGED <<locks, issued>>
  BY DEF Tick, vars, storeVars
<1> QED  BY <1>1, <1>2, <1>3, <1>4, <1>5, <1>6, <1>7, <1>8
         DEF Next, WorkerStep, RefreshStep

\* LockManagerBase keeps the contract of the lock table, for every number of
\* concurrent requests, timer threads, locks and resources.
THEOREM ContractHolds == Spec => Contract
<1>1. Init => Table!Init
  BY DEF Init, Table!Init
<1> QED  BY <1>1, StepSimulation, StoreInvHolds, PTL DEF Spec, Contract, Table!Spec

\* Whatever keeps the contract keeps exclusive locks alone: the theorem about
\* the lock table, seen from here.
LEMMA ContractExcludes == Contract => []ExclusiveMeansAlone
<1>1. TableProofs!NoLockAssumption /\ TableProofs!AncestorIsForest
  BY SentinelAssumption, AncestorIsForest
  DEF TableProofs!NoLockAssumption, TableProofs!AncestorIsForest,
      TableProofs!ShareMode, ShareMode, Expiration
<1>2. TableProofs!Spec => []TableProofs!ExclusiveMeansAlone
  BY <1>1, TableProofs!ExclusiveMeansAloneHolds, PTL
<1>3. Table!Init => TableProofs!Init
  BY DEF Table!Init, TableProofs!Init
<1>4. [Table!Next]_(Table!vars) => [TableProofs!Next]_(TableProofs!vars)
  <2>1. Table!ActiveLock = TableProofs!ActiveLock /\ Table!Held = TableProofs!Held
    BY DEF Table!ActiveLock, TableProofs!ActiveLock, Table!Held, TableProofs!Held,
           Table!ShareMode, TableProofs!ShareMode
  <2>2. \A t, lock : Table!Grant(t, lock) => TableProofs!Grant(t, lock)
    BY <2>1 DEF Table!Grant, TableProofs!Grant,
       Table!ConflictingLocks, TableProofs!ConflictingLocks,
       Table!GetConflictingLocks, TableProofs!GetConflictingLocks,
       Table!GetLocks, TableProofs!GetLocks, Table!Find, TableProofs!Find,
       Table!Compare, TableProofs!Compare, Table!IsBaseOf, TableProofs!IsBaseOf
  <2>3. \A refreshed, newExpires :
          Table!Refresh(refreshed, newExpires) => TableProofs!Refresh(refreshed, newExpires)
    BY <2>1 DEF Table!Refresh, TableProofs!Refresh, Table!Refreshed, TableProofs!Refreshed
  <2>4. \A t : Table!Release(t) => TableProofs!Release(t)
    BY <2>1 DEF Table!Release, TableProofs!Release
  <2> QED  BY <2>1, <2>2, <2>3, <2>4
           DEF Table!Next, TableProofs!Next, Table!vars, TableProofs!vars
<1>5. Contract => TableProofs!Spec
  BY <1>3, <1>4, PTL DEF Contract, Table!Spec, TableProofs!Spec
<1>6. TableProofs!ExclusiveMeansAlone => ExclusiveMeansAlone
  BY DEF TableProofs!ExclusiveMeansAlone, TableProofs!Compatible, TableProofs!Scope,
     TableProofs!Held, ExclusiveMeansAlone, Compatible, Scope, Held
<1> QED  BY <1>2, <1>5, <1>6, PTL

\* No resource is ever covered by an exclusive lock and by another lock, however
\* requests and timer callbacks interleave.
THEOREM ExclusiveMeansAloneHolds == Spec => []ExclusiveMeansAlone
BY ContractHolds, ContractExcludes, PTL

-----------------------------------------------------------------------------
(* LockReleased is raised once.  A process that is about to raise it has    *)
(* removed the lock itself, and nobody else can remove it again.            *)

ReleaseInv ==
  /\ ReleasedOnce
  /\ \A t \in Token : notified[t] > 0 => t \in issued /\ locks[t] = NoLock
  /\ \A p \in Process : call[p].op = "untrack" =>
       /\ call[p].item.token \in issued
       /\ locks[call[p].item.token] = NoLock
       /\ notified[call[p].item.token] = 0
  /\ \A p, q \in Process :
       p # q /\ call[p].op = "untrack" /\ call[q].op = "untrack"
         => call[p].item.token # call[q].item.token

\* No step brings a released token back: what a refresh writes was held.
LEMMA DeadStayDead ==
  ASSUME StoreInv, [Next]_vars, NEW t \in issued, locks[t] = NoLock
  PROVE  t \in issued' /\ locks'[t] = NoLock
<1>0. t \in Token /\ locks \in [Token -> ActiveLock \cup {NoLock}]
  BY DEF StoreInv, StoreTypeOK
<1>1. ASSUME NEW p \in Client, NEW request \in Requests, NEW timeout \in Timeouts,
             LockAsync(p, request, timeout)
      PROVE  t \in issued' /\ locks'[t] = NoLock
  BY <1>0, <1>1 DEF LockAsync
<1>2. ASSUME NEW p \in Client, RefreshCommit(p)
      PROVE  t \in issued' /\ locks'[t] = NoLock
  <2>1. t \notin Updated(p)
    BY <1>2, RefreshedAreHeld DEF RefreshCommit, Process, Held
  <2>2. locks'[t] = locks[t]
    BY <1>0, <1>2, <2>1 DEF RefreshCommit
  <2> QED  BY <1>2, <2>2 DEF RefreshCommit
<1>3. ASSUME NEW p, NEW u, ReleaseCommit(p, u)
      PROVE  t \in issued' /\ locks'[t] = NoLock
  BY <1>0, <1>3 DEF ReleaseCommit
<1>4. ASSUME NEW p, NEW lists, NEW timeout, BeginRefresh(p, lists, timeout)
      PROVE  UNCHANGED <<locks, issued>>
  BY <1>4 DEF BeginRefresh
<1>5. ASSUME NEW p, RefreshOne(p) \/ Track(p) \/ Untrack(p)
      PROVE  UNCHANGED <<locks, issued>>
  BY <1>5 DEF RefreshOne, Track, Untrack, storeVars
<1>6. ASSUME NEW w, TimerFires(w) \/ TimerExpirationCallback(w) \/ ExpiredIsGone(w)
      PROVE  UNCHANGED <<locks, issued>>
  BY <1>6 DEF TimerFires, TimerExpirationCallback, ExpiredIsGone, storeVars
<1>7. Tick \/ UNCHANGED vars => UNCHANGED <<locks, issued>>
  BY DEF Tick, vars, storeVars
<1> QED  BY <1>1, <1>2, <1>3, <1>4, <1>5, <1>6, <1>7
         DEF Next, WorkerStep, RefreshStep, ReleaseAsync, ReleaseExpired

\* A step that raises no event and in which nobody has just released a lock.
LEMMA QuietStep ==
  ASSUME StoreInv, ReleaseInv, [Next]_vars, UNCHANGED notified,
         \A p \in Process : call'[p].op = "untrack" => call'[p] = call[p]
  PROVE  ReleaseInv'
BY DeadStayDead DEF ReleaseInv, ReleasedOnce, StoreInv, StoreTypeOK

\* The process that removes a lock is the only one about to raise its event.
LEMMA ReleaseCommitKeepsReleaseInv ==
  ASSUME StoreInv, RestTypeOK, ReleaseInv, [Next]_vars,
         NEW p \in Process, NEW t \in Token, ReleaseCommit(p, t)
  PROVE  ReleaseInv'
<1>1. /\ locks[t] # NoLock /\ locks' = [locks EXCEPT ![t] = NoLock]
      /\ call' = [call EXCEPT ![p] = [op |-> "untrack", item |-> ItemOf(t)]]
      /\ UNCHANGED <<issued, notified>>
  BY DEF ReleaseCommit, Continue
<1>2. t \in issued /\ locks'[t] = NoLock
  BY <1>1 DEF StoreInv, StoreTypeOK, Held
<1>3. notified[t] = 0
  BY <1>1 DEF ReleaseInv, RestTypeOK
<1>4. \A q \in Process : /\ q # p => call'[q] = call[q]
                         /\ q = p => call'[q].item.token = t
  BY <1>1 DEF StoreInv, StoreTypeOK, ItemOf
<1>5. \A q \in Process : q # p /\ call[q].op = "untrack" => call[q].item.token # t
  BY <1>1 DEF ReleaseInv
<1> QED  BY <1>1, <1>2, <1>3, <1>4, <1>5, DeadStayDead DEF ReleaseInv, ReleasedOnce

\* The event is raised for a token nobody else is about to raise it for.
LEMMA UntrackKeepsReleaseInv ==
  ASSUME StoreInv, RestTypeOK, ReleaseInv, [Next]_vars, NEW p \in Process, Untrack(p)
  PROVE  ReleaseInv'
<1> DEFINE t == call[p].item.token
<1>1. /\ call[p].op = "untrack"
      /\ notified' = [notified EXCEPT ![t] = @ + 1]
      /\ call' = [call EXCEPT ![p] = Idle]
      /\ UNCHANGED <<locks, issued>>
  BY DEF Untrack, Continue, storeVars
<1>2. t \in issued /\ t \in Token /\ locks[t] = NoLock /\ notified[t] = 0
  BY <1>1 DEF ReleaseInv, StoreInv, StoreTypeOK
<1>3. \A u \in Token : notified'[u] = IF u = t THEN 1 ELSE notified[u]
  BY <1>1, <1>2 DEF RestTypeOK
<1>4. \A q \in Process : call'[q].op = "untrack" => q # p /\ call'[q] = call[q]
  BY <1>1 DEF StoreInv, StoreTypeOK, Idle
<1>5. \A q \in Process : q # p /\ call[q].op = "untrack" => call[q].item.token # t
  BY <1>1 DEF ReleaseInv
<1> QED  BY <1>1, <1>2, <1>3, <1>4, <1>5 DEF ReleaseInv, ReleasedOnce, StoreInv, StoreTypeOK

\* Every action keeps the invariant; only a release and its event touch it.
LEMMA NextKeepsReleaseInv ==
  ASSUME StoreInv, RestTypeOK, ReleaseInv, [Next]_vars
  PROVE  ReleaseInv'
<1> DEFINE Quiet == /\ UNCHANGED notified
                    /\ \A p \in Process : call'[p].op = "untrack" => call'[p] = call[p]
<1>0. call \in [Process -> Call]
  BY DEF StoreInv, StoreTypeOK
<1>1. ASSUME NEW p, NEW c, UNCHANGED notified, Continue(p, c), c.op # "untrack"
      PROVE  Quiet
  BY <1>0, <1>1 DEF Continue
<1>2. ASSUME NEW p \in Client, NEW request \in Requests, NEW timeout \in Timeouts,
             LockAsync(p, request, timeout)
      PROVE  Quiet
  BY <1>1, <1>2 DEF LockAsync
<1>3. ASSUME NEW p, NEW lists, NEW timeout, BeginRefresh(p, lists, timeout)
      PROVE  Quiet
  BY <1>1, <1>3 DEF BeginRefresh
<1>4. ASSUME NEW p \in Process, RefreshOne(p)
      PROVE  Quiet
  <2>1. call[p] \in RefreshCalls
    BY <1>0, <1>4, CallTypes DEF RefreshOne
  <2>2. PICK found, refreshed :
          Continue(p, [call[p] EXCEPT !.found = found, !.refreshed = refreshed])
    BY <1>4 DEF RefreshOne
  <2>3. [call[p] EXCEPT !.found = found, !.refreshed = refreshed].op = "refresh"
    BY <1>4, <2>1 DEF RefreshOne, RefreshCalls
  <2>4. UNCHANGED notified
    BY <1>4 DEF RefreshOne
  <2> QED  BY <1>1, <2>2, <2>3, <2>4
<1>5. ASSUME NEW p, RefreshCommit(p)
      PROVE  Quiet
  BY <1>1, <1>5 DEF RefreshCommit
<1>6. ASSUME NEW p \in Process, Track(p)
      PROVE  Quiet
  <2>1. call[p] \in [op : {"track"}, todo : Seq(Item)]
    BY <1>0, <1>6, CallTypes DEF Track
  <2>2. PICK c : Continue(p, c) /\ c.op \in {"track", "idle"}
    BY <1>6, <2>1 DEF Track, Idle
  <2> QED  BY <1>1, <1>6, <2>2 DEF Track
<1>7. ASSUME NEW w, TimerFires(w)
      PROVE  Quiet
  BY <1>1, <1>7 DEF TimerFires
<1>8. ASSUME NEW w, TimerExpirationCallback(w)
      PROVE  Quiet
  <2>1. PICK c : Continue(w, c) /\ c.op \in {"expire", "idle"}
    BY <1>8 DEF TimerExpirationCallback, Idle
  <2> QED  BY <1>1, <1>8, <2>1 DEF TimerExpirationCallback
<1>9. ASSUME NEW w, ExpiredIsGone(w)
      PROVE  Quiet
  BY <1>1, <1>9 DEF ExpiredIsGone, Idle
<1>10. Tick \/ UNCHANGED vars => Quiet
  BY DEF Tick, vars
<1>11. Quiet => ReleaseInv'
  BY QuietStep
<1>12. ASSUME NEW p \in Client, NEW t \in Token, ReleaseAsync(p, t)
       PROVE  ReleaseInv'
  BY <1>12, ReleaseCommitKeepsReleaseInv DEF ReleaseAsync, Process
<1>13. ASSUME NEW w \in Worker, ReleaseExpired(w)
       PROVE  ReleaseInv'
  <2>1. call[w].item.token \in Token /\ w \in Process
    BY <1>0, <1>13, CallTypes DEF ReleaseExpired, Process, Item
  <2> QED  BY <1>13, <2>1, ReleaseCommitKeepsReleaseInv DEF ReleaseExpired
<1>14. ASSUME NEW p \in Process, Untrack(p)
       PROVE  ReleaseInv'
  BY <1>14, UntrackKeepsReleaseInv
<1> HIDE DEF Quiet
<1> QED  BY <1>2, <1>3, <1>4, <1>5, <1>6, <1>7, <1>8, <1>9, <1>10, <1>11, <1>12, <1>13, <1>14
         DEF Next, WorkerStep, RefreshStep, Process

\* Whoever is about to raise the event of a lock is the only one, and the first.
LEMMA ReleaseInvHolds == Spec => []ReleaseInv
<1>1. Init => ReleaseInv
  BY DEF Init, ReleaseInv, ReleasedOnce, Idle
<1>2. StoreInv /\ RestTypeOK /\ ReleaseInv /\ [Next]_vars => ReleaseInv'
  BY NextKeepsReleaseInv
<1> QED  BY <1>1, <1>2, StoreInvHolds, PTL DEF Spec

\* LockReleased is raised at most once for a state token, for every number of
\* requests and timer callbacks that try to release the lock.
THEOREM ReleasedOnceHolds == Spec => []ReleasedOnce
<1>1. ReleaseInv => ReleasedOnce
  BY DEF ReleaseInv
<1> QED  BY <1>1, ReleaseInvHolds, PTL

-----------------------------------------------------------------------------
(* What is in a bag.                                                        *)

\* After an item was added to the tracked ones.
LEMMA AddedIsIn ==
  ASSUME NEW B, NEW i, NEW x
  PROVE  BagIn(x, B (+) SetToBag({i})) <=> x = i \/ BagIn(x, B)
BY DEF BagIn, BagToSet, (+), SetToBag

\* After one copy of an item was removed, every other item is still there.
LEMMA OthersStay ==
  ASSUME NEW B, IsABag(B), NEW i, NEW x
  PROVE  /\ BagIn(x, B (-) SetToBag({i})) => BagIn(x, B)
         /\ x # i /\ BagIn(x, B) => BagIn(x, B (-) SetToBag({i}))
<1> DEFINE less == [e \in DOMAIN B |-> IF e \in {i} THEN B[e] - 1 ELSE B[e]]
<1>1. B (-) SetToBag({i}) = [e \in {d \in DOMAIN less : less[d] > 0} |-> less[e]]
  BY DEF (-), SetToBag
<1>2. \A e \in DOMAIN B : B[e] \in Nat /\ B[e] > 0
  BY DEF IsABag
<1> QED  BY <1>1, <1>2 DEF BagIn, BagToSet

\* A bag without items is the empty bag, so some item can be found in any other.
LEMMA EmptyHasNone ==
  ASSUME NEW B, IsABag(B)
  PROVE  B = EmptyBag <=> \A x : ~ BagIn(x, B)
BY DEF IsABag, EmptyBag, SetToBag, BagIn, BagToSet

\* FindMostRecentExpirationItem finds an item that is tracked, or nothing is.
LEMMA FoundIsTracked ==
  ASSUME NEW B, IsABag(B), BagToSet(B) \subseteq FiniteItem,
         NEW next \in FindMostRecentExpirationItem(B)
  PROVE  /\ next = Null => B = EmptyBag
         /\ next # Null => BagIn(next, B)
<1>1. CASE B = EmptyBag
  BY <1>1 DEF FindMostRecentExpirationItem
<1>2. CASE B # EmptyBag
  <2>1. next \in BagToSet(B)
    BY <1>2 DEF FindMostRecentExpirationItem
  <2>2. next # Null
    BY <2>1, SentinelAssumption DEF FiniteItem
  <2> QED  BY <2>1, <2>2 DEF BagIn
<1> QED  BY <1>1, <1>2

-----------------------------------------------------------------------------
(* The timer waits for an item that is tracked.                             *)

\* The timer is armed for the item it waits for, or has just fired.
Armed ==
  \/ timer # Off /\ (timer <= mostRecent.expires \/ timer <= now)
  \/ \E w \in Worker : call[w].op = "callback"

TimerInv ==
  /\ mostRecent = Null => tracked = EmptyBag
  /\ mostRecent # Null => BagIn(mostRecent, tracked) /\ Armed

\* Whatever item the clean-up task waits for next, its timer is armed.
LEMMA SetMostRecentArms ==
  ASSUME now \in 0..Horizon, now' = now,
         NEW next \in FiniteItem \cup {Null}, SetMostRecent(next),
         next = Null => tracked' = EmptyBag,
         next # Null => BagIn(next, tracked')
  PROVE  TimerInv'
<1>1. CASE next = Null
  BY <1>1 DEF SetMostRecent, TimerInv
<1>2. CASE next # Null
  <2>1. /\ next.expires \in 0..Horizon
        /\ mostRecent' = next
        /\ timer' = IF next.expires < now THEN now ELSE next.expires
    BY <1>2 DEF SetMostRecent, ConfigureTimer, FiniteItem
  <2>2. timer' # Off /\ (timer' <= next.expires \/ timer' <= now)
    BY <2>1, SentinelAssumption, BoundsAssumption
  <2> QED  BY <1>2, <2>1, <2>2 DEF TimerInv, Armed
<1> QED  BY <1>1, <1>2

\* Adding an item leaves the timer armed.
LEMMA CleanupAddKeepsTimer ==
  ASSUME now \in 0..Horizon, now' = now, CleanupTypeOK, TimerInv,
         NEW item \in Item, CleanupAdd(item),
         \A w \in Worker : call[w].op = "callback" => call'[w] = call[w]
  PROVE  TimerInv'
<1>1. CASE UNCHANGED cleanupVars
  BY <1>1 DEF cleanupVars, TimerInv, Armed
<1>2. CASE item.expires # Infinite
  <2>1. item \in FiniteItem
    BY <1>2 DEF Item, FiniteItem, Expiration
  <2>2. tracked' = tracked (+) SetToBag({item})
    BY <1>2 DEF CleanupAdd
  <2>3. CASE SetMostRecent(item)
    <3>1. item # Null
      BY <2>1, SentinelAssumption DEF FiniteItem
    <3> QED  BY <2>1, <2>2, <2>3, <3>1, AddedIsIn, SetMostRecentArms
  <2>4. CASE mostRecent # Null /\ UNCHANGED <<mostRecent, timer>>
    <3>1. BagIn(mostRecent, tracked')
      BY <2>2, <2>4, AddedIsIn DEF TimerInv
    <3> QED  BY <2>4, <3>1 DEF TimerInv, Armed
  <2> QED  BY <1>2, <2>3, <2>4 DEF CleanupAdd
<1> QED  BY <1>1, <1>2 DEF CleanupAdd

\* Removing an item leaves the timer armed: when it was the one the timer waits
\* for another one is found, if there is any.
LEMMA CleanupRemoveKeepsTimer ==
  ASSUME now \in 0..Horizon, now' = now, CleanupTypeOK, TimerInv,
         NEW item, CleanupRemove(item),
         \A w \in Worker : call[w].op = "callback" => call'[w] = call[w]
  PROVE  TimerInv'
<1>1. CASE UNCHANGED cleanupVars
  BY <1>1 DEF cleanupVars, TimerInv, Armed
<1>2. CASE BagIn(item, tracked)
  <2>1. tracked' = tracked (-) SetToBag({item})
    BY <1>2 DEF CleanupRemove
  <2>2. IsABag(tracked') /\ BagToSet(tracked') \subseteq FiniteItem
    BY <2>1, BagMinusOne DEF CleanupTypeOK
  <2>3. mostRecent # Null
    BY <1>2, EmptyHasNone DEF TimerInv, CleanupTypeOK
  <2>4. CASE item.token = mostRecent.token
    <3>1. PICK next \in FindMostRecentExpirationItem(tracked') : SetMostRecent(next)
      BY <1>2, <2>3, <2>4 DEF CleanupRemove
    <3>2. next \in FiniteItem \cup {Null}
      BY <2>2, FindMostRecentTypes
    <3> QED  BY <2>2, <3>1, <3>2, FoundIsTracked, SetMostRecentArms
  <2>5. CASE item.token # mostRecent.token
    <3>1. BagIn(mostRecent, tracked')
      BY <2>1, <2>3, <2>5, OthersStay DEF TimerInv, CleanupTypeOK
    <3>2. UNCHANGED <<mostRecent, timer>>
      BY <1>2, <2>5 DEF CleanupRemove
    <3> QED  BY <2>3, <3>1, <3>2 DEF TimerInv, Armed
  <2> QED  BY <2>4, <2>5
<1> QED  BY <1>1, <1>2 DEF CleanupRemove

\* The callback does what it was fired for: it arms the timer again.
LEMMA CallbackArms ==
  ASSUME StoreInv, CleanupTypeOK, TimerInv, NEW w \in Worker, TimerExpirationCallback(w)
  PROVE  TimerInv'
<1>0. now \in 0..Horizon /\ now' = now
  BY DEF TimerExpirationCallback, StoreInv, StoreTypeOK
<1>1. CASE HasExpired(mostRecent)
  <2>1. PICK next \in FindMostRecentExpirationItem(tracked') : SetMostRecent(next)
    BY <1>1 DEF TimerExpirationCallback
  <2>2. IsABag(tracked') /\ BagToSet(tracked') \subseteq FiniteItem
    <3>1. tracked' = tracked (-) SetToBag({mostRecent})
      BY <1>1 DEF TimerExpirationCallback
    <3> QED  BY <3>1, BagMinusOne DEF CleanupTypeOK
  <2>3. next \in FiniteItem \cup {Null}
    BY <2>2, FindMostRecentTypes
  <2> QED  BY <1>0, <2>1, <2>2, <2>3, FoundIsTracked, SetMostRecentArms
<1>2. CASE ~ HasExpired(mostRecent)
  <2>1. PICK next : /\ SetMostRecent(next)
                    /\ IF mostRecent = Null THEN next \in FindMostRecentExpirationItem(tracked)
                       ELSE next = mostRecent
    BY <1>2 DEF TimerExpirationCallback
  <2>2. tracked' = tracked
    BY <1>2 DEF TimerExpirationCallback
  <2>3. CASE mostRecent = Null
    <3>1. next \in FiniteItem \cup {Null}
      BY <2>1, <2>3, FindMostRecentTypes DEF CleanupTypeOK
    <3> QED  BY <1>0, <2>1, <2>2, <2>3, <3>1, FoundIsTracked, SetMostRecentArms DEF CleanupTypeOK
  <2>4. CASE mostRecent # Null
    BY <1>0, <2>1, <2>2, <2>4, SetMostRecentArms DEF CleanupTypeOK, TimerInv
  <2> QED  BY <2>3, <2>4
<1> QED  BY <1>1, <1>2

\* A step that leaves the clean-up task alone and ends no callback.
LEMMA CleanupUntouched ==
  ASSUME TimerInv, UNCHANGED cleanupVars, now' = now,
         \A w \in Worker : call[w].op = "callback" => call'[w] = call[w]
  PROVE  TimerInv'
BY DEF TimerInv, Armed, cleanupVars

\* Every action keeps the timer armed.
LEMMA NextKeepsTimer ==
  ASSUME StoreInv, RestTypeOK, TimerInv, [Next]_vars
  PROVE  TimerInv'
<1> DEFINE NoCallbackEnds == \A w \in Worker : call[w].op = "callback" => call'[w] = call[w]
<1>0. now \in 0..Horizon /\ call \in [Process -> Call] /\ CleanupTypeOK
  BY DEF StoreInv, StoreTypeOK, RestTypeOK
<1>1. ASSUME NEW p, NEW c, Continue(p, c), call[p].op # "callback"
      PROVE  NoCallbackEnds
  BY <1>0, <1>1 DEF Continue, Process
<1>2. ASSUME NEW p, NEW request, NEW timeout, LockAsync(p, request, timeout)
      PROVE  TimerInv'
  <2>1. PICK c : Continue(p, c)
    BY <1>2 DEF LockAsync
  <2> QED  BY <1>1, <1>2, <2>1, CleanupUntouched DEF LockAsync, Idle
<1>3. ASSUME NEW p, NEW lists, NEW timeout, BeginRefresh(p, lists, timeout)
      PROVE  TimerInv'
  <2>1. PICK c : Continue(p, c)
    BY <1>3 DEF BeginRefresh
  <2> QED  BY <1>1, <1>3, <2>1, CleanupUntouched DEF BeginRefresh, Idle
<1>4. ASSUME NEW p, RefreshOne(p)
      PROVE  TimerInv'
  <2>1. PICK item, c : CleanupRemove(item) /\ Continue(p, c)
    BY <1>4 DEF RefreshOne
  <2>2. NoCallbackEnds /\ now' = now
    BY <1>1, <1>4, <2>1 DEF RefreshOne
  <2> QED  BY <1>0, <2>1, <2>2, CleanupRemoveKeepsTimer
<1>5. ASSUME NEW p, RefreshCommit(p)
      PROVE  TimerInv'
  <2>1. PICK c : Continue(p, c)
    BY <1>5 DEF RefreshCommit
  <2> QED  BY <1>1, <1>5, <2>1, CleanupUntouched DEF RefreshCommit
<1>6. ASSUME NEW p \in Process, Track(p)
      PROVE  TimerInv'
  <2>1. PICK c : Continue(p, c)
    BY <1>6 DEF Track
  <2>2. NoCallbackEnds /\ now' = now /\ CleanupAdd(Head(call[p].todo))
    BY <1>1, <1>6, <2>1 DEF Track
  <2>3. Head(call[p].todo) \in Item
    <3>1. call[p].todo \in Seq(Item)
      BY <1>0, <1>6, CallTypes DEF Track
    <3> QED  BY <1>6, <3>1 DEF Track
  <2> QED  BY <1>0, <2>2, <2>3, CleanupAddKeepsTimer
<1>7. ASSUME NEW p, Untrack(p)
      PROVE  TimerInv'
  <2>1. NoCallbackEnds /\ now' = now /\ CleanupRemove(call[p].item)
    BY <1>1, <1>7 DEF Untrack
  <2> QED  BY <1>0, <2>1, CleanupRemoveKeepsTimer
<1>8. ASSUME NEW p, NEW t, ReleaseCommit(p, t), call[p].op # "callback"
      PROVE  TimerInv'
  <2>1. PICK c : Continue(p, c)
    BY <1>8 DEF ReleaseCommit
  <2> QED  BY <1>1, <1>8, <2>1, CleanupUntouched DEF ReleaseCommit
<1>9. ASSUME NEW w \in Worker, TimerFires(w)
      PROVE  TimerInv'
  <2>1. call'[w].op = "callback"
    BY <1>0, <1>9 DEF TimerFires, Continue, Process
  <2> QED  BY <1>9, <2>1 DEF TimerFires, TimerInv, Armed
<1>10. ASSUME NEW w, ExpiredIsGone(w)
       PROVE  TimerInv'
  BY <1>1, <1>10, CleanupUntouched DEF ExpiredIsGone
<1>11. CASE Tick
  <2>1. now' = now + 1 /\ UNCHANGED call /\ UNCHANGED cleanupVars
    BY <1>11 DEF Tick
  <2>2. timer # Off => (timer <= now => timer <= now')
    BY <1>0, <2>1, BoundsAssumption DEF CleanupTypeOK
  <2> QED  BY <2>1, <2>2 DEF TimerInv, Armed, cleanupVars
<1>12. CASE UNCHANGED vars
  BY <1>12 DEF vars, TimerInv, Armed
<1>13. ASSUME NEW w \in Worker, TimerExpirationCallback(w)
       PROVE  TimerInv'
  BY <1>0, <1>13, CallbackArms
<1>14. ASSUME NEW p, NEW t, ReleaseAsync(p, t)
       PROVE  TimerInv'
  BY <1>8, <1>14 DEF ReleaseAsync, Idle
<1>15. ASSUME NEW w, ReleaseExpired(w)
       PROVE  TimerInv'
  BY <1>8, <1>15 DEF ReleaseExpired
<1> QED  BY <1>2, <1>3, <1>4, <1>5, <1>6, <1>7, <1>9, <1>10, <1>11, <1>12, <1>13, <1>14, <1>15
         DEF Next, WorkerStep, RefreshStep

-----------------------------------------------------------------------------
(* A lock with a timeout is tracked or in somebody's hand.                  *)

\* FiniteLocksAreKept, but for some locks: those a store reads from a table, or
\* has lost, when it may fail.
KeptBut(S) ==
  \A t \in Held \ S :
     locks[t].expires # Infinite =>
       BagIn(ItemOf(t), tracked) \/ \E p \in Process : InHand(p, t)

\* A step that leaves the store alone and takes nothing out of the clean-up
\* task but what somebody then has in hand.
LEMMA KeptIfNotLost ==
  ASSUME NEW S, KeptBut(S), UNCHANGED locks,
         \A t \in Held \ S : locks[t].expires # Infinite =>
           /\ BagIn(ItemOf(t), tracked) =>
                BagIn(ItemOf(t), tracked') \/ \E p \in Process : InHand(p, t)'
           /\ \A p \in Process : InHand(p, t) =>
                BagIn(ItemOf(t), tracked') \/ InHand(p, t)'
  PROVE  KeptBut(S)'
BY DEF KeptBut, Held, ItemOf

\* What others have in hand they keep, as long as the lock does not change.
LEMMA OthersKeepInHand ==
  ASSUME NEW p \in Process, NEW q \in Process, call'[q] = call[q],
         NEW t \in Token, locks'[t] = locks[t], InHand(q, t)
  PROVE  InHand(q, t)'
BY DEF InHand, ItemOf, Updated

\* LockAsync: the new lock is in the hand of the request that made it.
LEMMA LockAsyncKeeps ==
  ASSUME NEW S, StoreInv, KeptBut(S), NEW p \in Client, NEW request \in Requests,
         NEW timeout \in Timeouts, LockAsync(p, request, timeout)
  PROVE  KeptBut(S)'
<1> DEFINE e == ExpirationAfter(timeout)
<1> DEFINE lock == [path |-> request.path, recursive |-> request.recursive,
                    share |-> request.share, expires |-> e, refreshed |-> FALSE]
<1>0. p \in Process /\ call \in [Process -> Call] /\ locks \in [Token -> ActiveLock \cup {NoLock}]
  BY DEF Process, StoreInv, StoreTypeOK
<1>1. PICK u \in Token \ issued :
        /\ locks' = [locks EXCEPT ![u] = lock]
        /\ call' = [call EXCEPT ![p] = [op |-> "track", todo |-> <<[token |-> u, expires |-> e]>>]]
  BY DEF LockAsync, Continue
<1>2. call[p] = Idle /\ tracked' = tracked
  BY DEF LockAsync, cleanupVars
<1>3. ASSUME NEW t \in Held', t \notin S, locks'[t].expires # Infinite
      PROVE  BagIn(ItemOf(t), tracked)' \/ \E q \in Process : InHand(q, t)'
  <2>1. CASE t = u
    <3>1. ItemOf(t)' = [token |-> u, expires |-> e]
      BY <1>0, <1>1, <2>1 DEF ItemOf
    <3>2. call'[p].op = "track" /\ call'[p].todo = <<ItemOf(t)'>>
      BY <1>0, <1>1, <3>1
    <3>3. InHand(p, t)'
      BY <3>2 DEF InHand
    <3> QED  BY <1>0, <3>3
  <2>2. CASE t # u
    <3>1. t \in Held /\ locks'[t] = locks[t] /\ t \in Token
      BY <1>0, <1>1, <2>2 DEF Held
    <3>2. CASE BagIn(ItemOf(t), tracked)
      BY <1>2, <3>1, <3>2 DEF ItemOf
    <3>3. ASSUME NEW q \in Process, InHand(q, t) PROVE InHand(q, t)'
      <4>1. q # p
        BY <1>2, <3>3 DEF InHand, Idle
      <4> QED  BY <1>0, <1>1, <3>1, <3>3, <4>1, OthersKeepInHand
    <3>4. BagIn(ItemOf(t), tracked) \/ \E q \in Process : InHand(q, t)
      BY <1>3, <3>1 DEF KeptBut
    <3> QED  BY <3>2, <3>3, <3>4
  <2> QED  BY <2>1, <2>2
<1> QED  BY <1>3 DEF KeptBut

\* RefreshLockAsync begins: nobody loses anything.
LEMMA BeginRefreshKeeps ==
  ASSUME NEW S, StoreInv, KeptBut(S), NEW p \in Client, NEW lists, NEW timeout,
         BeginRefresh(p, lists, timeout)
  PROVE  KeptBut(S)'
<1>0. call[p] = Idle /\ UNCHANGED <<locks, tracked>> /\ p \in Process
  BY DEF BeginRefresh, cleanupVars, Process
<1>1. \A q \in Process : q # p => call'[q] = call[q]
  BY DEF BeginRefresh, Continue, StoreInv, StoreTypeOK
<1>2. ASSUME NEW t \in Held, NEW q \in Process, InHand(q, t)
      PROVE  InHand(q, t)'
  <2>1. q # p
    BY <1>0, <1>2 DEF InHand, Idle
  <2> QED  BY <1>0, <1>1, <1>2, <2>1, OthersKeepInHand DEF Held
<1> QED  BY <1>0, <1>2, KeptIfNotLost

\* One round of RefreshLockAsync takes the committed version of its lock from
\* the clean-up task, and has the next one in hand.
LEMMA RefreshOneKeeps ==
  ASSUME NEW S, StoreInv, RestTypeOK, KeptBut(S), NEW p \in Process, RefreshOne(p)
  PROVE  KeptBut(S)'
<1> DEFINE c == call[p]
           old == Head(c.found)
           new == [token |-> old.token,
                   lock |-> Refreshed(old.lock, ExpirationAfter(c.timeout))]
<1>1. /\ c.op = "refresh" /\ c.found # << >>
      /\ Continue(p, [c EXCEPT !.found = Tail(@), !.refreshed = Append(@, new)])
      /\ CleanupRemove(ItemFor(old))
      /\ UNCHANGED locks
  BY DEF RefreshOne, storeVars
<1>2. c \in RefreshCalls /\ call \in [Process -> Call]
  BY <1>1, CallTypes DEF StoreInv, StoreTypeOK
<1> HIDE DEF new
<1>3. /\ call'[p].op = "refresh" /\ call'[p].refreshed = Append(c.refreshed, new)
      /\ \A q \in Process : q # p => call'[q] = call[q]
  BY <1>1, <1>2 DEF Continue, RefreshCalls
<1>4. c.refreshed \in Seq(Entry) /\ c.found \in Seq(Entry)
  BY <1>2 DEF RefreshCalls
<1>5. /\ Len(Append(c.refreshed, new)) = Len(c.refreshed) + 1
      /\ \A i \in DOMAIN c.refreshed : i \in DOMAIN Append(c.refreshed, new)
                                       /\ Append(c.refreshed, new)[i] = c.refreshed[i]
      /\ Len(c.refreshed) + 1 \in DOMAIN Append(c.refreshed, new)
      /\ Append(c.refreshed, new)[Len(c.refreshed) + 1] = new
  BY <1>4
<1>6. Updated(p) \subseteq Updated(p)' /\ old.token \in Updated(p)'
  <2>1. new.token = old.token
    BY DEF new
  <2> QED  BY <1>3, <1>5, <2>1 DEF Updated
<1>7. \A t \in Held : t \in Updated(p)' => InHand(p, t)'
  BY <1>3 DEF InHand
<1>8. ASSUME NEW t \in Held, BagIn(ItemOf(t), tracked), t # old.token
      PROVE  BagIn(ItemOf(t), tracked')
  <2>1. ItemOf(t) # ItemFor(old)
    BY <1>8 DEF ItemOf, ItemFor
  <2>2. tracked' = tracked \/ tracked' = tracked (-) SetToBag({ItemFor(old)})
    BY <1>1 DEF CleanupRemove, cleanupVars
  <2>3. IsABag(tracked)
    BY DEF RestTypeOK, CleanupTypeOK
  <2>4. BagIn(ItemOf(t), tracked (-) SetToBag({ItemFor(old)}))
    BY <1>8, <2>1, <2>3, OthersStay
  <2> QED  BY <1>8, <2>2, <2>4
<1>9. ASSUME NEW t \in Held, NEW q \in Process, InHand(q, t)
      PROVE  InHand(q, t)'
  <2>1. CASE q = p
    BY <1>1, <1>6, <1>7, <1>9, <2>1 DEF InHand
  <2>2. CASE q # p
    BY <1>1, <1>3, <1>9, <2>2, OthersKeepInHand DEF Held
  <2> QED  BY <2>1, <2>2
<1> QED  BY <1>1, <1>6, <1>7, <1>8, <1>9, KeptIfNotLost

\* The commit of RefreshLockAsync: what is committed is what it has in hand.
LEMMA RefreshCommitKeeps ==
  ASSUME NEW S, StoreInv, KeptBut(S), NEW p \in Process, RefreshCommit(p)
  PROVE  KeptBut(S)'
<1> DEFINE c == call[p]
           items == [i \in DOMAIN c.refreshed |-> ItemFor(c.refreshed[i])]
<1>0. call \in [Process -> Call] /\ locks \in [Token -> ActiveLock \cup {NoLock}]
  BY DEF StoreInv, StoreTypeOK
<1>1. /\ c.op = "refresh" /\ tracked' = tracked
      /\ call' = [call EXCEPT ![p] = [op |-> "track", todo |-> items]]
  BY DEF RefreshCommit, Continue, cleanupVars
<1>2. PICK last \in [Updated(p) -> DOMAIN c.refreshed] :
        /\ \A t \in Updated(p) : IsLastVersion(p, t, last[t])
        /\ locks' = [t \in Token |-> IF t \in Updated(p)
                                    THEN c.refreshed[last[t]].lock ELSE locks[t]]
  BY DEF RefreshCommit
<1>3. Updated(p) \subseteq Held
  BY <1>1, RefreshedAreHeld
<1>4. ASSUME NEW t \in Held'
      PROVE  t \in Held /\ t \in Token
  BY <1>2, <1>3, <1>4 DEF Held
<1>5. ASSUME NEW t \in Updated(p)
      PROVE  InHand(p, t)'
  <2>1. locks'[t] = c.refreshed[last[t]].lock /\ c.refreshed[last[t]].token = t
    BY <1>2, <1>3, <1>5 DEF Held, IsLastVersion
  <2>2. last[t] \in DOMAIN items /\ items[last[t]] = ItemOf(t)'
    BY <1>2, <1>5, <2>1 DEF ItemFor, ItemOf
  <2>3. call'[p].op = "track" /\ call'[p].todo = items
    BY <1>0, <1>1
  <2> HIDE DEF items
  <2> QED  BY <2>2, <2>3 DEF InHand
<1>6. ASSUME NEW t \in Held, t \notin S, t \notin Updated(p), locks[t].expires # Infinite
      PROVE  BagIn(ItemOf(t), tracked)' \/ \E q \in Process : InHand(q, t)'
  <2>1. t \in Token /\ locks'[t] = locks[t] /\ ItemOf(t)' = ItemOf(t)
    BY <1>2, <1>6 DEF Held, ItemOf
  <2>2. ASSUME NEW q \in Process, InHand(q, t) PROVE InHand(q, t)'
    <3>1. q # p
      BY <1>1, <1>6, <2>2 DEF InHand
    <3> QED  BY <1>0, <1>1, <2>1, <2>2, <3>1, OthersKeepInHand
  <2>3. BagIn(ItemOf(t), tracked) \/ \E q \in Process : InHand(q, t)
    BY <1>6 DEF KeptBut
  <2> QED  BY <1>1, <2>1, <2>2, <2>3
<1>7. ASSUME NEW t \in Held', t \notin S, locks'[t].expires # Infinite
      PROVE  BagIn(ItemOf(t), tracked)' \/ \E q \in Process : InHand(q, t)'
  <2>1. CASE t \in Updated(p)
    BY <1>5, <2>1
  <2>2. CASE t \notin Updated(p)
    <3>1. t \in Held /\ locks'[t] = locks[t]
      BY <1>2, <1>4, <1>7, <2>2
    <3> QED  BY <1>6, <1>7, <2>2, <3>1
  <2> QED  BY <2>1, <2>2
<1> QED  BY <1>7 DEF KeptBut

\* What a request has in hand it gives to the clean-up task, one after another.
LEMMA TrackKeeps ==
  ASSUME NEW S, StoreInv, RestTypeOK, KeptBut(S), NEW p \in Process, Track(p)
  PROVE  KeptBut(S)'
<1> DEFINE c == call[p]
           item == Head(c.todo)
<1>1. /\ c.op = "track" /\ c.todo # << >> /\ UNCHANGED locks
      /\ CleanupAdd(item)
      /\ Continue(p, IF Len(c.todo) = 1 THEN Idle ELSE [c EXCEPT !.todo = Tail(@)])
  BY DEF Track, storeVars
<1>2. c \in [op : {"track"}, todo : Seq(Item)] /\ call \in [Process -> Call]
  BY <1>1, CallTypes DEF StoreInv, StoreTypeOK
<1>3. \A x : BagIn(x, tracked) => BagIn(x, tracked')
  BY <1>1, AddedIsIn DEF CleanupAdd, cleanupVars
<1>4. item.expires # Infinite => BagIn(item, tracked')
  BY <1>1, AddedIsIn DEF CleanupAdd
<1>5. \A i \in DOMAIN c.todo :
        \/ c.todo[i] = item
        \/ Len(c.todo) # 1 /\ i - 1 \in DOMAIN Tail(c.todo) /\ Tail(c.todo)[i - 1] = c.todo[i]
  BY <1>1, <1>2
<1>6. Len(c.todo) # 1 => call'[p] = [c EXCEPT !.todo = Tail(@)]
  BY <1>1, <1>2 DEF Continue
<1>7. Len(c.todo) # 1 => call'[p].op = "track" /\ call'[p].todo = Tail(c.todo)
  BY <1>2, <1>6
<1>8. \A q \in Process : q # p => call'[q] = call[q]
  BY <1>1, <1>2 DEF Continue
<1>9. ASSUME NEW t \in Held, locks[t].expires # Infinite, NEW q \in Process, InHand(q, t)
      PROVE  BagIn(ItemOf(t), tracked') \/ InHand(q, t)'
  <2>1. CASE q # p
    BY <1>1, <1>8, <1>9, <2>1, OthersKeepInHand DEF Held
  <2>2. CASE q = p
    <3>1. PICK i \in DOMAIN c.todo : c.todo[i] = ItemOf(t)
      BY <1>1, <1>9, <2>2 DEF InHand
    <3>2. CASE ItemOf(t) = item
      BY <1>4, <1>9, <3>2 DEF ItemOf
    <3>3. CASE ItemOf(t) # item
      <4>1. ItemOf(t)' = ItemOf(t)
        BY <1>1 DEF ItemOf
      <4>2. /\ call'[p].op = "track"
            /\ i - 1 \in DOMAIN call'[p].todo /\ call'[p].todo[i - 1] = ItemOf(t)
        BY <1>5, <1>7, <3>1, <3>3
      <4> QED  BY <2>2, <4>1, <4>2 DEF InHand
    <3> QED  BY <3>2, <3>3
  <2> QED  BY <2>1, <2>2
<1> QED  BY <1>1, <1>3, <1>9, KeptIfNotLost

\* A release: the lock is no longer to be kept, and all the others are.
LEMMA ReleaseCommitKeeps ==
  ASSUME NEW S, StoreInv, KeptBut(S), NEW p \in Process, NEW u \in Token, ReleaseCommit(p, u),
         \A t \in Held : InHand(p, t) => t = u
  PROVE  KeptBut(S)'
<1>1. /\ locks' = [locks EXCEPT ![u] = NoLock] /\ tracked' = tracked
      /\ call' = [call EXCEPT ![p] = [op |-> "untrack", item |-> ItemOf(u)]]
      /\ call \in [Process -> Call] /\ locks \in [Token -> ActiveLock \cup {NoLock}]
  BY DEF ReleaseCommit, Continue, cleanupVars, StoreInv, StoreTypeOK
<1>2. ASSUME NEW t \in Held', t \notin S, locks'[t].expires # Infinite
      PROVE  BagIn(ItemOf(t), tracked)' \/ \E q \in Process : InHand(q, t)'
  <2>1. t \in Held /\ t \in Token /\ t # u /\ locks'[t] = locks[t] /\ ItemOf(t)' = ItemOf(t)
    BY <1>1, <1>2 DEF Held, ItemOf
  <2>2. ASSUME NEW q \in Process, InHand(q, t) PROVE InHand(q, t)'
    <3>1. q # p
      BY <2>1, <2>2
    <3> QED  BY <1>1, <2>1, <2>2, <3>1, OthersKeepInHand
  <2>3. BagIn(ItemOf(t), tracked) \/ \E q \in Process : InHand(q, t)
    BY <1>2, <2>1 DEF KeptBut
  <2> QED  BY <1>1, <2>1, <2>2, <2>3
<1> QED  BY <1>2 DEF KeptBut

\* The end of a release makes the clean-up task forget what is not held anyway.
LEMMA UntrackKeeps ==
  ASSUME NEW S, StoreInv, RestTypeOK, ReleaseInv, KeptBut(S), NEW p \in Process, Untrack(p)
  PROVE  KeptBut(S)'
<1> DEFINE item == call[p].item
<1>1. /\ call[p].op = "untrack" /\ UNCHANGED locks
      /\ CleanupRemove(item) /\ Continue(p, Idle)
  BY DEF Untrack, storeVars
<1>2. \A q \in Process : q # p => call'[q] = call[q]
  BY <1>1 DEF Continue, StoreInv, StoreTypeOK
<1>3. tracked' = tracked \/ tracked' = tracked (-) SetToBag({item})
  BY <1>1 DEF CleanupRemove, cleanupVars
<1>4. ASSUME NEW t \in Held, BagIn(ItemOf(t), tracked)
      PROVE  BagIn(ItemOf(t), tracked')
  <2>1. ItemOf(t) # item
    BY <1>1 DEF ReleaseInv, ItemOf, Held
  <2>2. IsABag(tracked)
    BY DEF RestTypeOK, CleanupTypeOK
  <2>3. BagIn(ItemOf(t), tracked (-) SetToBag({item}))
    BY <1>4, <2>1, <2>2, OthersStay
  <2> QED  BY <1>3, <1>4, <2>3
<1>5. ASSUME NEW t \in Held, NEW q \in Process, InHand(q, t)
      PROVE  InHand(q, t)'
  <2>1. q # p
    BY <1>1, <1>5 DEF InHand
  <2> QED  BY <1>1, <1>2, <1>5, <2>1, OthersKeepInHand DEF Held
<1> QED  BY <1>1, <1>4, <1>5, KeptIfNotLost

\* The callback takes an expired item away and has it in hand.
LEMMA CallbackKeeps ==
  ASSUME NEW S, StoreInv, RestTypeOK, KeptBut(S), NEW w \in Worker, TimerExpirationCallback(w)
  PROVE  KeptBut(S)'
<1>0. w \in Process /\ call \in [Process -> Call] /\ IsABag(tracked)
  BY DEF Process, StoreInv, StoreTypeOK, RestTypeOK, CleanupTypeOK
<1>1. call[w].op = "callback" /\ UNCHANGED locks
  BY DEF TimerExpirationCallback, storeVars
<1>2. PICK c : Continue(w, c)
  BY DEF TimerExpirationCallback
<1>3. \A q \in Process : q # w => call'[q] = call[q]
  BY <1>0, <1>2 DEF Continue
<1>4. ASSUME NEW t \in Held, NEW q \in Process, InHand(q, t)
      PROVE  InHand(q, t)'
  <2>1. q # w
    BY <1>1, <1>4 DEF InHand
  <2> QED  BY <1>0, <1>1, <1>3, <1>4, <2>1, OthersKeepInHand DEF Held
<1>5. ASSUME NEW t \in Held, BagIn(ItemOf(t), tracked)
      PROVE  BagIn(ItemOf(t), tracked') \/ InHand(w, t)'
  <2>1. CASE ~ HasExpired(mostRecent)
    BY <1>5, <2>1 DEF TimerExpirationCallback
  <2>2. CASE HasExpired(mostRecent) /\ ItemOf(t) # mostRecent
    <3>1. tracked' = tracked (-) SetToBag({mostRecent})
      BY <2>2 DEF TimerExpirationCallback
    <3> QED  BY <1>0, <1>5, <2>2, <3>1, OthersStay
  <2>3. CASE HasExpired(mostRecent) /\ ItemOf(t) = mostRecent
    <3>1. call'[w] = [op |-> "expire", item |-> ItemOf(t)]
      BY <1>0, <1>5, <2>3 DEF TimerExpirationCallback, Continue
    <3> QED  BY <3>1 DEF InHand, ItemOf
  <2> QED  BY <2>1, <2>2, <2>3
<1> QED  BY <1>0, <1>1, <1>4, <1>5, KeptIfNotLost

\* A step in which somebody without anything in hand goes on to something else.
LEMMA EmptyHanded ==
  ASSUME NEW S, StoreInv, KeptBut(S), UNCHANGED <<locks, tracked>>,
         NEW p, NEW c, Continue(p, c),
         \A t \in Held \ S : ~ InHand(p, t)
  PROVE  KeptBut(S)'
<1>1. \A q \in Process : q # p => call'[q] = call[q]
  BY DEF Continue, StoreInv, StoreTypeOK
<1>2. ASSUME NEW t \in Held \ S, NEW q \in Process, InHand(q, t)
      PROVE  InHand(q, t)'
  <2>1. q # p
    BY <1>2
  <2>2. t \in Token
    BY DEF Held
  <2> QED  BY <1>1, <1>2, <2>1, <2>2 DEF InHand, ItemOf, Updated
<1> QED  BY <1>2, KeptIfNotLost

\* Every action keeps the locks with a timeout in sight.
LEMMA NextKeepsFinite ==
  ASSUME NEW S, StoreInv, RestTypeOK, ReleaseInv, KeptBut(S), [Next]_vars
  PROVE  KeptBut(S)'
<1>1. ASSUME NEW p \in Client, NEW request \in Requests, NEW timeout \in Timeouts,
             LockAsync(p, request, timeout)
      PROVE  KeptBut(S)'
  BY <1>1, LockAsyncKeeps
<1>2. ASSUME NEW p \in Client, NEW lists, NEW timeout, BeginRefresh(p, lists, timeout)
      PROVE  KeptBut(S)'
  BY <1>2, BeginRefreshKeeps
<1>3. ASSUME NEW p \in Client, RefreshStep(p)
      PROVE  KeptBut(S)'
  BY <1>3, RefreshOneKeeps, RefreshCommitKeeps DEF RefreshStep, Process
<1>4. ASSUME NEW p \in Client, NEW t \in Token, ReleaseAsync(p, t)
      PROVE  KeptBut(S)'
  <2>1. \A u \in Held : ~ InHand(p, u)
    BY <1>4 DEF ReleaseAsync, InHand, Idle
  <2> QED  BY <1>4, <2>1, ReleaseCommitKeeps DEF ReleaseAsync, Process
<1>5. ASSUME NEW p \in Process, Track(p) \/ Untrack(p)
      PROVE  KeptBut(S)'
  BY <1>5, TrackKeeps, UntrackKeeps
<1>6. ASSUME NEW w \in Worker, TimerFires(w)
      PROVE  KeptBut(S)'
  <2>1. \A u \in Held : ~ InHand(w, u)
    BY <1>6 DEF TimerFires, InHand, Idle
  <2>2. UNCHANGED <<locks, tracked>> /\ Continue(w, [op |-> "callback"])
    BY <1>6 DEF TimerFires, storeVars
  <2> QED  BY <2>1, <2>2, EmptyHanded
<1>7. ASSUME NEW w \in Worker, TimerExpirationCallback(w)
      PROVE  KeptBut(S)'
  BY <1>7, CallbackKeeps
<1>8. ASSUME NEW w \in Worker, ReleaseExpired(w)
      PROVE  KeptBut(S)'
  <2>1. call[w].item.token \in Token /\ w \in Process
    BY <1>8, CallTypes DEF ReleaseExpired, Process, StoreInv, StoreTypeOK, Item
  <2>2. \A t \in Held : InHand(w, t) => t = call[w].item.token
    BY <1>8 DEF ReleaseExpired, InHand
  <2> QED  BY <1>8, <2>1, <2>2, ReleaseCommitKeeps DEF ReleaseExpired
<1>9. ASSUME NEW w \in Worker, ExpiredIsGone(w)
      PROVE  KeptBut(S)'
  <2>1. \A u \in Held : ~ InHand(w, u)
    BY <1>9 DEF ExpiredIsGone, InHand, Held
  <2>2. UNCHANGED <<locks, tracked>> /\ Continue(w, Idle)
    BY <1>9 DEF ExpiredIsGone, storeVars, cleanupVars
  <2> QED  BY <2>1, <2>2, EmptyHanded
<1>10. CASE Tick \/ UNCHANGED vars
  <2>1. UNCHANGED <<locks, tracked, call>>
    BY <1>10 DEF Tick, vars, storeVars, cleanupVars
  <2>2. \A t \in Held, q \in Process : InHand(q, t) => InHand(q, t)'
    BY <2>1 DEF InHand, ItemOf, Updated
  <2> QED  BY <2>1, <2>2, KeptIfNotLost
<1> QED  BY <1>1, <1>2, <1>3, <1>4, <1>5, <1>6, <1>7, <1>8, <1>9, <1>10
         DEF Next, WorkerStep

\* The timer is armed for something tracked, or nothing is tracked.
LEMMA TimerInvHolds == Spec => []TimerInv
<1>1. Init => TimerInv
  BY DEF Init, TimerInv
<1>2. StoreInv /\ RestTypeOK /\ TimerInv /\ [Next]_vars => TimerInv'
  BY NextKeepsTimer
<1> QED  BY <1>1, <1>2, StoreInvHolds, PTL DEF Spec

\* No lock with a timeout is forgotten, however refreshes, releases and the
\* timer interleave.
THEOREM FiniteLocksAreKeptHolds == Spec => []FiniteLocksAreKept
<1>1. Init => FiniteLocksAreKept
  BY DEF Init, FiniteLocksAreKept, Held
<1>2. FiniteLocksAreKept <=> KeptBut({})
  BY DEF FiniteLocksAreKept, KeptBut
<1>3. StoreInv /\ RestTypeOK /\ ReleaseInv /\ KeptBut({}) /\ [Next]_vars => KeptBut({})'
  BY NextKeepsFinite
<1> QED  BY <1>1, <1>2, <1>3, StoreInvHolds, ReleaseInvHolds, PTL DEF Spec

\* Of every lock that is to expire the clean-up task knows, or is about to know,
\* and it never sleeps over one.
THEOREM ExpirationIsWatchedHolds == Spec => []ExpirationIsWatched
<1>1. RestTypeOK /\ TimerInv => TimerIsArmed
  BY DEF TimerInv, TimerIsArmed, Armed
<1>2. TimerIsArmed /\ FiniteLocksAreKept => ExpirationIsWatched
  BY DEF ExpirationIsWatched
<1> QED  BY <1>1, <1>2, StoreInvHolds, TimerInvHolds, FiniteLocksAreKeptHolds, PTL

-----------------------------------------------------------------------------
(* Only locks that were refreshed die early: of every other lock there is    *)
(* one version, and it is the one the clean-up task has.                    *)

\* An item of a lock that was never refreshed is the version that is committed.
Genuine(item) ==
  /\ item.token \in issued
  /\ item.token \in Held /\ ~ locks[item.token].refreshed
       => item.expires = locks[item.token].expires

ItemsInv ==
  /\ \A item \in BagToSet(tracked) : Genuine(item)
  /\ \A p \in Process : call[p].op = "track" =>
       \A i \in DOMAIN call[p].todo : Genuine(call[p].todo[i])
  /\ \A p \in Process : call[p].op = "expire" =>
       /\ Genuine(call[p].item)
       /\ call[p].item.expires \in 0..now

\* A lock changes by being refreshed or released only.
LEMMA IssuedLocksChange ==
  ASSUME StoreInv, [Next]_vars, NEW t \in issued
  PROVE  /\ t \in issued'
         /\ locks'[t] = locks[t] \/ locks'[t] = NoLock \/ locks'[t].refreshed
<1>0. t \in Token /\ locks \in [Token -> ActiveLock \cup {NoLock}]
  BY DEF StoreInv, StoreTypeOK
<1>1. ASSUME NEW p \in Client, NEW request \in Requests, NEW timeout \in Timeouts,
             LockAsync(p, request, timeout)
      PROVE  t \in issued' /\ locks'[t] = locks[t]
  BY <1>0, <1>1 DEF LockAsync
<1>2. ASSUME NEW p \in Client, RefreshCommit(p)
      PROVE  t \in issued' /\ (locks'[t] = locks[t] \/ locks'[t].refreshed)
  <2>1. t \in issued'
    BY <1>2 DEF RefreshCommit
  <2>2. PICK last \in [Updated(p) -> DOMAIN call[p].refreshed] :
          /\ \A u \in Updated(p) : IsLastVersion(p, u, last[u])
          /\ locks' = [u \in Token |-> IF u \in Updated(p)
                                      THEN call[p].refreshed[last[u]].lock ELSE locks[u]]
    BY <1>2 DEF RefreshCommit
  <2>3. CASE t \notin Updated(p)
    BY <1>0, <2>1, <2>2, <2>3
  <2>4. CASE t \in Updated(p)
    <3>0. /\ last[t] \in DOMAIN call[p].refreshed /\ IsLastVersion(p, t, last[t])
          /\ locks'[t] = call[p].refreshed[last[t]].lock
          /\ call[p].op = "refresh" /\ p \in Process
      BY <1>0, <1>2, <2>2, <2>4 DEF RefreshCommit, Process
    <3>1. PICK e \in Expiration : locks'[t] = Refreshed(locks[t], e)
      BY <2>4, <3>0, RefreshedAreHeld
    <3>2. locks[t] \in ActiveLock
      BY <1>0, <1>2, <2>4, RefreshedAreHeld DEF RefreshCommit, Process, Held
    <3>3. locks'[t].refreshed
      BY <3>1, <3>2 DEF Refreshed, ActiveLock
    <3> QED  BY <2>1, <3>3
  <2> QED  BY <2>3, <2>4
<1>3. ASSUME NEW p, NEW u, ReleaseCommit(p, u)
      PROVE  t \in issued' /\ (locks'[t] = locks[t] \/ locks'[t] = NoLock)
  BY <1>0, <1>3 DEF ReleaseCommit
<1>4. ASSUME NEW p, NEW lists, NEW timeout, BeginRefresh(p, lists, timeout)
      PROVE  UNCHANGED <<locks, issued>>
  BY <1>4 DEF BeginRefresh
<1>5. ASSUME NEW p, RefreshOne(p) \/ Track(p) \/ Untrack(p)
      PROVE  UNCHANGED <<locks, issued>>
  BY <1>5 DEF RefreshOne, Track, Untrack, storeVars
<1>6. ASSUME NEW w, TimerFires(w) \/ TimerExpirationCallback(w) \/ ExpiredIsGone(w)
      PROVE  UNCHANGED <<locks, issued>>
  BY <1>6 DEF TimerFires, TimerExpirationCallback, ExpiredIsGone, storeVars
<1>7. Tick \/ UNCHANGED vars => UNCHANGED <<locks, issued>>
  BY DEF Tick, vars, storeVars
<1> QED  BY <1>1, <1>2, <1>3, <1>4, <1>5, <1>6, <1>7
         DEF Next, WorkerStep, RefreshStep, ReleaseAsync, ReleaseExpired

\* Genuine, after the step.
StillGenuine(item) ==
  /\ item.token \in issued'
  /\ item.token \in Held' /\ ~ locks'[item.token].refreshed
       => item.expires = locks'[item.token].expires

\* So what is genuine stays genuine.
LEMMA GenuineStays ==
  ASSUME StoreInv, [Next]_vars
  PROVE  \A item : Genuine(item) => StillGenuine(item)
<1> SUFFICES ASSUME NEW item, Genuine(item) PROVE StillGenuine(item)
  OBVIOUS
<1>1. item.token \in issued /\ item.token \in Token
  BY DEF Genuine, StoreInv, StoreTypeOK
<1>2. /\ item.token \in issued'
      /\ \/ locks'[item.token] = locks[item.token]
         \/ locks'[item.token] = NoLock
         \/ locks'[item.token].refreshed
  BY <1>1, IssuedLocksChange
<1> QED  BY <1>1, <1>2 DEF Genuine, StillGenuine, Held

\* The parts of the invariant, after a step.
LEMMA PartsOfItems ==
  ASSUME \A item : BagIn(item, tracked') => StillGenuine(item),
         \A q \in Process : call'[q].op = "track" =>
           \A i \in DOMAIN call'[q].todo : StillGenuine(call'[q].todo[i]),
         \A q \in Process : call'[q].op = "expire" =>
           StillGenuine(call'[q].item) /\ call'[q].item.expires \in 0..now'
  PROVE  ItemsInv'
BY DEF ItemsInv, Genuine, StillGenuine, BagIn

\* Processes that do not move have genuine items in hand still.
LEMMA HandsStayGenuine ==
  ASSUME StoreInv, ItemsInv, [Next]_vars, now' >= now, now' \in Nat,
         NEW q \in Process, call'[q] = call[q]
  PROVE  /\ call'[q].op = "track" =>
              \A i \in DOMAIN call'[q].todo : StillGenuine(call'[q].todo[i])
         /\ call'[q].op = "expire" =>
              StillGenuine(call'[q].item) /\ call'[q].item.expires \in 0..now'
<1>1. now \in Nat
  BY BoundsAssumption DEF StoreInv, StoreTypeOK
<1> QED  BY <1>1, GenuineStays DEF ItemsInv

\* A step that brings nothing new to the clean-up task or to anybody's hands.
LEMMA NothingNew ==
  ASSUME StoreInv, ItemsInv, [Next]_vars, now' = now,
         \A item : BagIn(item, tracked') => BagIn(item, tracked),
         NEW p, NEW c, Continue(p, c), c.op \notin {"track", "expire"}
  PROVE  ItemsInv'
<1>0. now \in Nat /\ now' \in Nat /\ now' >= now
  BY BoundsAssumption DEF StoreInv, StoreTypeOK
<1>1. \A q \in Process : call'[q] = call[q] \/ call'[q] = c
  BY DEF Continue, StoreInv, StoreTypeOK
<1>2. \A item : BagIn(item, tracked') => StillGenuine(item)
  BY GenuineStays DEF ItemsInv, BagIn
<1>3. ASSUME NEW q \in Process
      PROVE  /\ call'[q].op = "track" =>
                  \A i \in DOMAIN call'[q].todo : StillGenuine(call'[q].todo[i])
             /\ call'[q].op = "expire" =>
                  StillGenuine(call'[q].item) /\ call'[q].item.expires \in 0..now'
  <2>1. CASE call'[q] = call[q]
    BY <1>0, <2>1, HandsStayGenuine
  <2>2. CASE call'[q] = c
    BY <2>2
  <2> QED  BY <1>1, <2>1, <2>2
<1> QED  BY <1>2, <1>3, PartsOfItems

\* A step in which one process gets genuine items to track.
LEMMA NewInHand ==
  ASSUME StoreInv, ItemsInv, [Next]_vars, now' = now, tracked' = tracked,
         NEW p, NEW todo, Continue(p, [op |-> "track", todo |-> todo]),
         \A i \in DOMAIN todo : StillGenuine(todo[i])
  PROVE  ItemsInv'
<1>0. now \in Nat /\ now' \in Nat /\ now' >= now
  BY BoundsAssumption DEF StoreInv, StoreTypeOK
<1>1. \A q \in Process : call'[q] = call[q] \/ call'[q] = [op |-> "track", todo |-> todo]
  BY DEF Continue, StoreInv, StoreTypeOK
<1>2. \A item : BagIn(item, tracked') => StillGenuine(item)
  BY GenuineStays DEF ItemsInv, BagIn
<1>3. ASSUME NEW q \in Process
      PROVE  /\ call'[q].op = "track" =>
                  \A i \in DOMAIN call'[q].todo : StillGenuine(call'[q].todo[i])
             /\ call'[q].op = "expire" =>
                  StillGenuine(call'[q].item) /\ call'[q].item.expires \in 0..now'
  <2>1. CASE call'[q] = call[q]
    BY <1>0, <2>1, HandsStayGenuine
  <2>2. CASE call'[q] = [op |-> "track", todo |-> todo]
    BY <2>2
  <2> QED  BY <1>1, <2>1, <2>2
<1> QED  BY <1>2, <1>3, PartsOfItems

\* The item of a new lock is genuine.
LEMMA LockAsyncIsGenuine ==
  ASSUME StoreInv, ItemsInv, [Next]_vars, NEW p \in Client, NEW request, NEW timeout,
         LockAsync(p, request, timeout)
  PROVE  ItemsInv'
<1> DEFINE e == ExpirationAfter(timeout)
<1> DEFINE lock == [path |-> request.path, recursive |-> request.recursive,
                    share |-> request.share, expires |-> e, refreshed |-> FALSE]
<1>1. PICK t \in Token \ issued :
        /\ issued' = issued \cup {t}
        /\ locks' = [locks EXCEPT ![t] = lock]
        /\ Continue(p, [op |-> "track", todo |-> <<[token |-> t, expires |-> e]>>])
  BY DEF LockAsync
<1> DEFINE item == [token |-> t, expires |-> e]
<1>2. locks'[t] = lock /\ t \in issued'
  BY <1>1 DEF StoreInv, StoreTypeOK
<1>3. StillGenuine(item)
  BY <1>2 DEF StillGenuine
<1>4. UNCHANGED <<now, tracked>>
  BY DEF LockAsync, cleanupVars
<1> HIDE DEF item
<1>5. \A i \in DOMAIN <<item>> : StillGenuine(<<item>>[i])
  BY <1>3
<1>6. Continue(p, [op |-> "track", todo |-> <<item>>])
  BY <1>1 DEF item
<1> QED  BY <1>4, <1>5, <1>6, NewInHand

\* The items of a refresh are about locks that now were refreshed.
LEMMA RefreshCommitIsGenuine ==
  ASSUME StoreInv, ItemsInv, [Next]_vars, NEW p \in Process, RefreshCommit(p)
  PROVE  ItemsInv'
<1> DEFINE c == call[p]
           items == [i \in DOMAIN c.refreshed |-> ItemFor(c.refreshed[i])]
<1>1. /\ c.op = "refresh" /\ UNCHANGED <<now, issued, tracked>>
      /\ Continue(p, [op |-> "track", todo |-> items])
  BY DEF RefreshCommit, cleanupVars
<1>2. PICK last \in [Updated(p) -> DOMAIN c.refreshed] :
        /\ \A t \in Updated(p) : IsLastVersion(p, t, last[t])
        /\ locks' = [t \in Token |-> IF t \in Updated(p)
                                    THEN c.refreshed[last[t]].lock ELSE locks[t]]
  BY DEF RefreshCommit
<1>3. ASSUME NEW t \in Updated(p)
      PROVE  locks'[t].refreshed /\ t \in issued'
  <2>1. t \in Held /\ t \in Token /\ locks[t] \in ActiveLock
    BY <1>1, <1>3, RefreshedAreHeld DEF StoreInv, StoreTypeOK, Held
  <2>2. /\ last[t] \in DOMAIN c.refreshed /\ IsLastVersion(p, t, last[t])
        /\ locks'[t] = c.refreshed[last[t]].lock
    BY <1>2, <1>3, <2>1
  <2>3. PICK e \in Expiration : locks'[t] = Refreshed(locks[t], e)
    BY <1>1, <1>3, <2>2, RefreshedAreHeld
  <2>4. t \in issued'
    BY <1>1, <2>1 DEF StoreInv, StoreTypeOK
  <2> QED  BY <2>1, <2>3, <2>4 DEF Refreshed, ActiveLock
<1>4. ASSUME NEW i \in DOMAIN items
      PROVE  StillGenuine(items[i])
  <2>1. items[i].token \in Updated(p)
    BY DEF ItemFor, Updated
  <2> QED  BY <1>3, <2>1 DEF StillGenuine
<1> HIDE DEF items
<1> QED  BY <1>1, <1>4, NewInHand

\* What goes from a hand to the clean-up task is genuine there.
LEMMA TrackIsGenuine ==
  ASSUME StoreInv, RestTypeOK, ItemsInv, [Next]_vars, NEW p \in Process, Track(p)
  PROVE  ItemsInv'
<1> DEFINE c == call[p]
           item == Head(c.todo)
<1>0. now \in Nat /\ now' \in Nat /\ now' >= now /\ now' = now
  BY BoundsAssumption DEF StoreInv, StoreTypeOK, Track
<1>1. /\ c.op = "track" /\ c.todo # << >>
      /\ CleanupAdd(item)
      /\ Continue(p, IF Len(c.todo) = 1 THEN Idle ELSE [c EXCEPT !.todo = Tail(@)])
  BY DEF Track
<1>2. c \in [op : {"track"}, todo : Seq(Item)] /\ call \in [Process -> Call]
  BY <1>1, CallTypes DEF StoreInv, StoreTypeOK
<1>3. \A i \in DOMAIN c.todo : StillGenuine(c.todo[i])
  BY <1>1, GenuineStays DEF ItemsInv
<1>4. 1 \in DOMAIN c.todo /\ item = c.todo[1]
  BY <1>1, <1>2
<1>5. ASSUME NEW x, BagIn(x, tracked')
      PROVE  StillGenuine(x)
  <2>1. x = item \/ BagIn(x, tracked)
    BY <1>1, <1>5, AddedIsIn DEF CleanupAdd, cleanupVars
  <2>2. BagIn(x, tracked) => StillGenuine(x)
    BY GenuineStays DEF ItemsInv, BagIn
  <2> QED  BY <1>3, <1>4, <2>1, <2>2
<1>6. \A i \in DOMAIN Tail(c.todo) : i + 1 \in DOMAIN c.todo /\ Tail(c.todo)[i] = c.todo[i + 1]
  BY <1>1, <1>2
<1>7. ASSUME NEW q \in Process
      PROVE  /\ call'[q].op = "track" =>
                  \A i \in DOMAIN call'[q].todo : StillGenuine(call'[q].todo[i])
             /\ call'[q].op = "expire" =>
                  StillGenuine(call'[q].item) /\ call'[q].item.expires \in 0..now'
  <2>1. CASE q # p
    <3>1. call'[q] = call[q]
      BY <1>1, <1>2, <2>1 DEF Continue
    <3> QED  BY <1>0, <3>1, HandsStayGenuine
  <2>2. CASE q = p /\ Len(c.todo) = 1
    BY <1>1, <1>2, <2>2 DEF Continue, Idle
  <2>3. CASE q = p /\ Len(c.todo) # 1
    <3>1. call'[p] = [c EXCEPT !.todo = Tail(@)]
      BY <1>1, <1>2, <2>3 DEF Continue
    <3>2. call'[p].op = "track" /\ call'[p].todo = Tail(c.todo)
      BY <1>2, <3>1
    <3>3. \A i \in DOMAIN Tail(c.todo) : StillGenuine(Tail(c.todo)[i])
      BY <1>3, <1>6
    <3> QED  BY <2>3, <3>2, <3>3
  <2> QED  BY <2>1, <2>2, <2>3
<1> QED  BY <1>5, <1>7, PartsOfItems

\* The callback takes an item that is tracked and that has expired.
LEMMA CallbackIsGenuine ==
  ASSUME StoreInv, RestTypeOK, ItemsInv, [Next]_vars, NEW w \in Worker,
         TimerExpirationCallback(w)
  PROVE  ItemsInv'
<1>0. /\ now \in Nat /\ now' \in Nat /\ now' >= now /\ now' = now
      /\ w \in Process /\ call \in [Process -> Call] /\ IsABag(tracked)
  BY BoundsAssumption
  DEF StoreInv, StoreTypeOK, TimerExpirationCallback, Process, RestTypeOK, CleanupTypeOK
<1>1. CASE HasExpired(mostRecent) /\ BagIn(mostRecent, tracked)
  <2>1. tracked' = tracked (-) SetToBag({mostRecent})
    BY <1>1 DEF TimerExpirationCallback
  <2>2. \A item : BagIn(item, tracked') => BagIn(item, tracked)
    BY <1>0, <2>1, OthersStay
  <2>3. \A item : BagIn(item, tracked') => StillGenuine(item)
    BY <2>2, GenuineStays DEF ItemsInv, BagIn
  <2>4. StillGenuine(mostRecent)
    BY <1>1, GenuineStays DEF ItemsInv, BagIn
  <2>5. call'[w] = [op |-> "expire", item |-> mostRecent]
    BY <1>0, <1>1 DEF TimerExpirationCallback, Continue
  <2>6. mostRecent.expires \in 0..now'
    BY <1>0, <1>1 DEF HasExpired, RestTypeOK, CleanupTypeOK, FiniteItem
  <2>7. ASSUME NEW q \in Process
        PROVE  /\ call'[q].op = "track" =>
                    \A i \in DOMAIN call'[q].todo : StillGenuine(call'[q].todo[i])
               /\ call'[q].op = "expire" =>
                    StillGenuine(call'[q].item) /\ call'[q].item.expires \in 0..now'
    <3>1. CASE q = w
      BY <2>4, <2>5, <2>6, <3>1
    <3>2. CASE q # w
      <4>1. call'[q] = call[q]
        BY <1>0, <1>1, <3>2 DEF TimerExpirationCallback, Continue
      <4> QED  BY <1>0, <4>1, HandsStayGenuine
    <3> QED  BY <3>1, <3>2
  <2> QED  BY <2>3, <2>7, PartsOfItems
<1>2. CASE ~ (HasExpired(mostRecent) /\ BagIn(mostRecent, tracked))
  <2>1. Continue(w, Idle)
    BY <1>2 DEF TimerExpirationCallback
  <2>2. tracked' = tracked \/ tracked' = tracked (-) SetToBag({mostRecent})
    BY DEF TimerExpirationCallback
  <2>3. \A item : BagIn(item, tracked') => BagIn(item, tracked)
    BY <1>0, <2>2, OthersStay
  <2> QED  BY <1>0, <2>1, <2>3, NothingNew DEF Idle
<1> QED  BY <1>1, <1>2

\* Every action keeps the items genuine.
LEMMA NextKeepsItems ==
  ASSUME StoreInv, RestTypeOK, ItemsInv, [Next]_vars
  PROVE  ItemsInv'
<1>0. call \in [Process -> Call] /\ IsABag(tracked)
  BY DEF StoreInv, StoreTypeOK, RestTypeOK, CleanupTypeOK
<1>1. ASSUME NEW p \in Client, NEW request, NEW timeout, LockAsync(p, request, timeout)
      PROVE  ItemsInv'
  BY <1>1, LockAsyncIsGenuine
<1>2. ASSUME NEW p, NEW lists, NEW timeout, BeginRefresh(p, lists, timeout)
      PROVE  ItemsInv'
  <2>1. PICK c : Continue(p, c) /\ c.op = "refresh"
    BY <1>2 DEF BeginRefresh
  <2>2. now' = now /\ tracked' = tracked
    BY <1>2 DEF BeginRefresh, cleanupVars
  <2> QED  BY <2>1, <2>2, NothingNew
<1>3. ASSUME NEW p \in Process, RefreshOne(p)
      PROVE  ItemsInv'
  <2>1. call[p] \in RefreshCalls
    BY <1>0, <1>3, CallTypes DEF RefreshOne
  <2>2. PICK item, found, refreshed :
          /\ Continue(p, [call[p] EXCEPT !.found = found, !.refreshed = refreshed])
          /\ CleanupRemove(item)
    BY <1>3 DEF RefreshOne
  <2>3. [call[p] EXCEPT !.found = found, !.refreshed = refreshed].op = "refresh"
    BY <1>3, <2>1 DEF RefreshOne, RefreshCalls
  <2>4. \A x : BagIn(x, tracked') => BagIn(x, tracked)
    BY <1>0, <2>2, OthersStay DEF CleanupRemove, cleanupVars
  <2>5. now' = now
    BY <1>3 DEF RefreshOne
  <2> QED  BY <2>2, <2>3, <2>4, <2>5, NothingNew
<1>4. ASSUME NEW p \in Process, RefreshCommit(p)
      PROVE  ItemsInv'
  BY <1>4, RefreshCommitIsGenuine
<1>5. ASSUME NEW p \in Process, Track(p)
      PROVE  ItemsInv'
  BY <1>5, TrackIsGenuine
<1>6. ASSUME NEW p, Untrack(p)
      PROVE  ItemsInv'
  <2>1. CleanupRemove(call[p].item) /\ Continue(p, Idle) /\ now' = now
    BY <1>6 DEF Untrack
  <2>2. \A x : BagIn(x, tracked') => BagIn(x, tracked)
    BY <1>0, <2>1, OthersStay DEF CleanupRemove, cleanupVars
  <2> QED  BY <2>1, <2>2, NothingNew DEF Idle
<1>7. ASSUME NEW p, NEW t, ReleaseCommit(p, t)
      PROVE  ItemsInv'
  <2>1. /\ Continue(p, [op |-> "untrack", item |-> ItemOf(t)])
        /\ now' = now /\ tracked' = tracked
    BY <1>7 DEF ReleaseCommit, cleanupVars
  <2> QED  BY <2>1, NothingNew
<1>8. ASSUME NEW w, TimerFires(w)
      PROVE  ItemsInv'
  <2>1. Continue(w, [op |-> "callback"]) /\ now' = now /\ tracked' = tracked
    BY <1>8 DEF TimerFires
  <2> QED  BY <2>1, NothingNew
<1>9. ASSUME NEW w \in Worker, TimerExpirationCallback(w)
      PROVE  ItemsInv'
  BY <1>9, CallbackIsGenuine
<1>10. ASSUME NEW w, ExpiredIsGone(w)
       PROVE  ItemsInv'
  BY <1>10, NothingNew DEF ExpiredIsGone, cleanupVars, Idle
<1>11. CASE Tick \/ UNCHANGED vars
  <2>1. /\ UNCHANGED <<call, tracked>>
        /\ now \in Nat /\ now' \in Nat /\ now' >= now
    BY <1>11, BoundsAssumption DEF Tick, vars, cleanupVars, StoreInv, StoreTypeOK
  <2>2. \A q \in Process : call'[q] = call[q]
    BY <2>1
  <2>3. \A item : BagIn(item, tracked') => StillGenuine(item)
    BY <2>1, GenuineStays DEF ItemsInv, BagIn
  <2> QED  BY <2>1, <2>2, <2>3, HandsStayGenuine, PartsOfItems
<1> QED  BY <1>1, <1>2, <1>3, <1>4, <1>5, <1>6, <1>7, <1>8, <1>9, <1>10, <1>11
         DEF Next, WorkerStep, RefreshStep, ReleaseAsync, ReleaseExpired, Process

\* A timer thread that releases a lock does so for the item its callback took.
LEMMA OnlyReleaseExpiredReleases ==
  ASSUME StoreInv, [Next]_vars, NEW w \in Worker, NEW t \in Token,
         call[w].op = "expire", locks[t] # NoLock, locks'[t] = NoLock, call'[w] # call[w]
  PROVE  ReleaseExpired(w)
<1>0. call \in [Process -> Call] /\ locks \in [Token -> ActiveLock \cup {NoLock}] /\ t \in issued
  BY DEF StoreInv, StoreTypeOK, Held
<1>1. w \in Process /\ w \notin Client
  BY SentinelAssumption DEF Process
<1>2. \A p, c : Continue(p, c) => p = w
  BY <1>0, <1>1 DEF Continue
<1>3. ASSUME NEW p \in Client, NEW request, NEW timeout, LockAsync(p, request, timeout)
      PROVE  FALSE
  BY <1>1, <1>2, <1>3 DEF LockAsync
<1>4. ASSUME NEW p \in Client, NEW u, ReleaseAsync(p, u)
      PROVE  FALSE
  BY <1>1, <1>2, <1>4 DEF ReleaseAsync, ReleaseCommit
<1>5. ASSUME NEW p \in Client, RefreshCommit(p)
      PROVE  FALSE
  BY <1>1, <1>2, <1>5 DEF RefreshCommit
<1>6. ASSUME NEW p, NEW lists, NEW timeout, BeginRefresh(p, lists, timeout)
      PROVE  FALSE
  BY <1>6 DEF BeginRefresh
<1>7. ASSUME NEW p, RefreshOne(p) \/ Track(p) \/ Untrack(p)
      PROVE  FALSE
  BY <1>7 DEF RefreshOne, Track, Untrack, storeVars
<1>8. ASSUME NEW v, TimerFires(v) \/ TimerExpirationCallback(v) \/ ExpiredIsGone(v)
      PROVE  FALSE
  BY <1>8 DEF TimerFires, TimerExpirationCallback, ExpiredIsGone, storeVars
<1>9. ASSUME Tick \/ UNCHANGED vars
      PROVE  FALSE
  BY <1>9 DEF Tick, vars, storeVars
<1>10. ASSUME NEW v \in Worker, ReleaseExpired(v)
       PROVE  v = w
  BY <1>2, <1>10 DEF ReleaseExpired, ReleaseCommit
<1> QED  BY <1>3, <1>4, <1>5, <1>6, <1>7, <1>8, <1>9, <1>10
         DEF Next, WorkerStep, RefreshStep

\* The timer never releases a lock before it expires, unless the lock had been
\* refreshed: a refresh can leave a stale version with the clean-up task.
THEOREM OnlyRefreshedDieEarlyHolds == Spec => OnlyRefreshedDieEarly
<1>1. Init => ItemsInv
  <2>1. BagToSet(EmptyBag) = {}
    BY DEF BagToSet, EmptyBag, SetToBag
  <2> QED  BY <2>1 DEF Init, ItemsInv, Idle
<1>2. StoreInv /\ RestTypeOK /\ ItemsInv /\ [Next]_vars => ItemsInv'
  BY NextKeepsItems
<1>3. ASSUME StoreInv, ItemsInv, [Next]_vars, NEW w \in Worker, NEW t \in Token,
             call[w].op = "expire", locks[t] # NoLock, locks'[t] = NoLock, call'[w] # call[w]
      PROVE  locks[t].refreshed \/ locks[t].expires <= now
  <2>1. ReleaseExpired(w) /\ w \in Process
    BY <1>3, OnlyReleaseExpiredReleases DEF Process
  <2>2. t = call[w].item.token
    BY <1>3, <2>1 DEF ReleaseExpired, ReleaseCommit, StoreInv, StoreTypeOK
  <2>3. Genuine(call[w].item) /\ call[w].item.expires \in 0..now
    BY <1>3, <2>1 DEF ItemsInv
  <2>4. t \in Held
    BY <1>3 DEF Held
  <2> QED  BY <2>2, <2>3, <2>4 DEF Genuine
<1>4. StoreInv /\ ItemsInv /\ [Next]_vars =>
        [\A w \in Worker, t \in Token :
           call[w].op = "expire" /\ locks[t] # NoLock /\ locks'[t] = NoLock
             /\ call'[w] # call[w]
           => locks[t].refreshed \/ locks[t].expires <= now]_vars
  BY <1>3
<1> QED  BY <1>1, <1>2, <1>4, StoreInvHolds, PTL DEF Spec, OnlyRefreshedDieEarly

-----------------------------------------------------------------------------
(* Across restarts and failing statements.  The invariant is that of the    *)
(* store, and the types of the rest.                                        *)

Inv == StoreInv /\ RestTypeOK

\* A semaphore that is taken for nothing keeps the invariant: nobody was inside.
LEMMA BeginFailsKeepsInv ==
  ASSUME Inv, NEW p \in Client, BeginFails(p)
  PROVE  Inv'
<1>1. /\ semaphore = NoOne /\ semaphore' = p /\ now < MaxTime /\ p \in Process
      /\ UNCHANGED <<locks, issued, now, call, notified, tracked, mostRecent, timer>>
  BY DEF BeginFails, TransactionMayBegin, cleanupVars, Process
<1>2. \A q \in Process : call[q].op # "refresh"
  BY <1>1, SentinelAssumption DEF Inv, StoreInv, SnapshotsAreCurrent, SnapshotIsCurrent, Process
<1>3. StoreTypeOK'
  BY <1>1, BoundsAssumption DEF Inv, StoreInv, StoreTypeOK, Held
<1>4. RestTypeOK'
  BY <1>1 DEF Inv, RestTypeOK, CleanupTypeOK
<1> QED  BY <1>1, <1>2, <1>3, <1>4 DEF Inv, StoreInv, SnapshotsAreCurrent

\* A process that only gives up its transaction keeps the invariant.
LEMMA RefreshFailsKeepsInv ==
  ASSUME Inv, NEW p \in Client, RefreshFails(p)
  PROVE  Inv'
<1>1. /\ call[p].op = "refresh" /\ semaphore' \in {NoOne, p} /\ semaphore = p
      /\ call' = [call EXCEPT ![p] = Idle]
      /\ UNCHANGED <<locks, issued, now, notified, tracked, mostRecent, timer>>
  <2>1. SnapshotIsCurrent(p)
    BY DEF RefreshFails, Inv, StoreInv, SnapshotsAreCurrent, Process
  <2> QED  BY <2>1 DEF RefreshFails, EndTransaction, Continue, cleanupVars, SnapshotIsCurrent
<1>2. StoreTypeOK'
  BY <1>1, CallTypes DEF Inv, StoreInv, StoreTypeOK, Held
<1>3. ASSUME NEW q \in Process, call'[q].op = "refresh"
      PROVE  FALSE
  <2>1. q # p /\ call[q].op = "refresh"
    BY <1>1, <1>3 DEF Inv, StoreInv, StoreTypeOK, Idle, Process
  <2> QED  BY <1>1, <2>1 DEF Inv, StoreInv, SnapshotsAreCurrent, SnapshotIsCurrent, Process
<1>4. RestTypeOK'
  BY <1>1 DEF Inv, RestTypeOK, CleanupTypeOK, Process
<1> QED  BY <1>2, <1>3, <1>4 DEF Inv, StoreInv, SnapshotsAreCurrent

\* A restart finds the committed store and nothing else.
LEMMA RestartKeepsInv ==
  ASSUME Inv, Restart
  PROVE  Inv'
<1>1. /\ semaphore' = NoOne /\ tracked' = EmptyBag /\ mostRecent' = Null /\ timer' = Off
      /\ call' = [p \in Process |-> Idle]
      /\ UNCHANGED <<locks, issued, now, notified>>
  BY DEF Restart
<1>2. StoreInv'
  BY <1>1, CallTypes DEF Inv, StoreInv, StoreTypeOK, SnapshotsAreCurrent, Held, Idle
<1>3. IsABag(EmptyBag) /\ BagToSet(EmptyBag) = {}
  BY DEF IsABag, BagToSet, EmptyBag, SetToBag
<1>4. RestTypeOK'
  BY <1>1, <1>3 DEF Inv, RestTypeOK, CleanupTypeOK
<1> QED  BY <1>2, <1>4 DEF Inv

\* Telling the clean-up task about a lock of the table leaves the store alone.
LEMMA LoadOneKeepsInv ==
  ASSUME Inv, NEW p \in Client, LoadOne(p), loading \subseteq Held
  PROVE  Inv'
<1>1. PICK t \in loading : CleanupAdd(ItemOf(t))
  BY DEF LoadOne
<1>2. UNCHANGED <<locks, issued, semaphore, now, call, notified>>
  BY DEF LoadOne, storeVars
<1>3. ItemOf(t) \in Item
  BY <1>1 DEF Inv, StoreInv, StoreTypeOK, Held, ItemOf, Item, ActiveLock
<1>4. CleanupTypeOK'
  BY <1>1, <1>3, CleanupAddTypes DEF Inv, StoreInv, StoreTypeOK, RestTypeOK
<1> QED  BY <1>2, <1>4 DEF Inv, StoreInv, StoreTypeOK, SnapshotsAreCurrent,
                          SnapshotIsCurrent, Held, RestTypeOK

\* Nobody commits while the table is being loaded.
LoadInv ==
  /\ SQLiteTypeOK
  /\ loading # {} => ~ initialized /\ loader # NoOne

\* Steps that begin no transaction leave the store alone.
LEMMA TimerStepIsQuiet ==
  ASSUME TimerStep
  PROVE  [Next]_vars /\ UNCHANGED <<locks, issued>>
BY DEF TimerStep, Tick, TimerFires, TimerExpirationCallback, storeVars, Next, WorkerStep

\* Every step keeps the invariants of the store and of the load.
LEMMA SQLiteNextKeepsInv ==
  ASSUME Inv, LoadInv, [SQLiteNext]_sqliteVars
  PROVE  Inv' /\ LoadInv'
<1> USE DEF LoadInv, SQLiteTypeOK, initVars
<1>1. CASE initialized /\ Next /\ UNCHANGED initVars
  BY <1>1, NextKeepsInv, NextKeepsTypes DEF Inv, RestTypeOK
<1>2. CASE ~ initialized /\ TimerStep /\ UNCHANGED initVars
  <2>1. Inv'
    BY <1>2, TimerStepIsQuiet, NextKeepsInv, NextKeepsTypes DEF Inv, RestTypeOK
  <2>2. Held' = Held
    BY <1>2, TimerStepIsQuiet DEF Held
  <2> QED  BY <1>2, <2>1, <2>2
<1>3. ASSUME NEW p \in Client, BeginLoad(p)
      PROVE  Inv' /\ LoadInv'
  <2>1. Inv' /\ Held' = Held
    BY <1>3, NextKeepsInv, NextKeepsTypes DEF BeginLoad, Inv, RestTypeOK, vars, Held
  <2> QED  BY <1>3, <2>1, SentinelAssumption DEF BeginLoad
<1>4. ASSUME NEW p \in Client, LoadOne(p)
      PROVE  Inv' /\ LoadInv'
  <2>1. Inv' /\ Held' = Held
    BY <1>4, LoadOneKeepsInv DEF LoadOne, storeVars, Held
  <2> QED  BY <1>4, <2>1 DEF LoadOne
<1>5. ASSUME NEW p \in Client, EndLoad(p)
      PROVE  Inv' /\ LoadInv'
  <2>1. Inv'
    BY <1>5, NextKeepsInv, NextKeepsTypes DEF EndLoad, Inv, RestTypeOK, vars
  <2> QED  BY <1>5, <2>1 DEF EndLoad
<1>9. ASSUME NEW p \in Client, BeginFails(p)
      PROVE  Inv' /\ LoadInv'
  <2>1. Inv' /\ Held' = Held
    BY <1>9, BeginFailsKeepsInv DEF BeginFails, Held
  <2> QED  BY <1>9, <2>1 DEF BeginFails
<1>6. ASSUME NEW p \in Client, RefreshFails(p)
      PROVE  Inv' /\ LoadInv'
  <2>1. Inv' /\ Held' = Held
    BY <1>6, RefreshFailsKeepsInv DEF RefreshFails, Held
  <2>2. SnapshotIsCurrent(p)
    BY <1>6 DEF RefreshFails, Inv, StoreInv, SnapshotsAreCurrent, Process
  <2>3. Updated(p) \subseteq Token
    BY <2>2 DEF SnapshotIsCurrent, Updated, Held
  <2>4. jammed' \in BOOLEAN
    BY <1>6 DEF RefreshFails
  <2> QED  BY <1>6, <2>1, <2>3, <2>4 DEF RefreshFails
<1>7. CASE Restart
  <2>1. Inv'
    BY <1>7, RestartKeepsInv
  <2>2. restarts' \in 0..MaxRestarts
    BY <1>7, SQLiteAssumption DEF Restart
  <2>3. /\ initialized' = FALSE /\ loader' = NoOne /\ loading' = {} /\ forgotten' = {}
        /\ jammed' = FALSE
    BY <1>7 DEF Restart
  <2> QED  BY <2>1, <2>2, <2>3
<1>8. CASE UNCHANGED sqliteVars
  <2>1. Inv' /\ Held' = Held
    BY <1>8, NextKeepsInv, NextKeepsTypes DEF sqliteVars, Inv, RestTypeOK, vars, Held
  <2> QED  BY <1>8, <2>1 DEF sqliteVars
<1> QED  BY <1>1, <1>2, <1>3, <1>4, <1>5, <1>6, <1>7, <1>8, <1>9 DEF SQLiteNext, LoadStep

\* The invariants hold in every state the server can reach.
THEOREM SQLiteInvHolds == SQLiteSpec => [](Inv /\ LoadInv)
<1>1. SQLiteInit => Inv /\ LoadInv
  <2> SUFFICES ASSUME SQLiteInit PROVE Inv /\ LoadInv
    OBVIOUS
  <2>1. Inv
    BY InitInv DEF SQLiteInit, Inv
  <2>2. restarts \in 0..MaxRestarts
    BY SQLiteAssumption DEF SQLiteInit
  <2> QED  BY <2>1, <2>2 DEF SQLiteInit, LoadInv, SQLiteTypeOK
<1>2. Inv /\ LoadInv /\ [SQLiteNext]_sqliteVars => (Inv /\ LoadInv)'
  BY SQLiteNextKeepsInv
<1> QED  BY <1>1, <1>2, PTL DEF SQLiteSpec

\* While the table is loaded, what is still to be handed to the clean-up task
\* is held: nobody releases a lock behind the back of the load.
THEOREM SQLiteTypeCorrect == SQLiteSpec => []SQLiteTypeOK
<1>1. Inv /\ LoadInv => SQLiteTypeOK
  BY DEF LoadInv
<1> QED  BY <1>1, SQLiteInvHolds, PTL

\* The contract of the lock table holds across restarts and failing statements:
\* no lock appears, vanishes or changes its scope because of either.
THEOREM SQLiteContractHolds == SQLiteSpec => Contract
<1>1. SQLiteInit => Table!Init
  BY DEF SQLiteInit, Init, Table!Init
<1>2. Inv /\ [SQLiteNext]_sqliteVars => [Table!Next]_(Table!vars)
  <2> SUFFICES ASSUME Inv, [SQLiteNext]_sqliteVars
               PROVE  [Table!Next]_(Table!vars)
    OBVIOUS
  <2>1. CASE Next
    BY <2>1, StepSimulation DEF Inv
  <2>2. CASE UNCHANGED <<locks, issued>>
    BY <2>2 DEF Table!vars
  <2>3. Next \/ UNCHANGED <<locks, issued>>
    BY TimerStepIsQuiet DEF SQLiteNext, BeginLoad, LoadStep, LoadOne, EndLoad,
       BeginFails, RefreshFails, Restart, sqliteVars, vars, storeVars
  <2> QED  BY <2>1, <2>2, <2>3
<1> QED  BY <1>1, <1>2, SQLiteInvHolds, PTL DEF SQLiteSpec, Contract, Table!Spec

\* Exclusive locks stay alone across restarts.
THEOREM SQLiteExclusiveMeansAlone == SQLiteSpec => []ExclusiveMeansAlone
BY SQLiteContractHolds, ContractExcludes, PTL

-----------------------------------------------------------------------------
(* Restarts keep the timeouts.  The locks still to be loaded and those of a *)
(* refresh that failed are the ones LockManager's invariant leaves out.     *)

TimeoutsInv == initialized \/ loader # NoOne => KeptBut(forgotten \cup loading)

\* LockReleased is raised once across restarts, too: who is about to raise it
\* when the server stops never does.
LEMMA SQLiteNextKeepsReleaseInv ==
  ASSUME Inv, ReleaseInv, [SQLiteNext]_sqliteVars
  PROVE  ReleaseInv'
<1>1. CASE [Next]_vars
  BY <1>1, NextKeepsReleaseInv DEF Inv
<1>2. ASSUME UNCHANGED <<locks, issued, notified>>,
             \A q \in Process : call'[q] = call[q] \/ call'[q] = Idle
      PROVE  ReleaseInv'
  BY <1>2 DEF ReleaseInv, ReleasedOnce, Idle
<1>3. ASSUME NEW p \in Client, LoadOne(p)
      PROVE  ReleaseInv'
  BY <1>2, <1>3 DEF LoadOne, storeVars
<1>4. ASSUME NEW p \in Client, RefreshFails(p)
      PROVE  ReleaseInv'
  BY <1>2, <1>4 DEF RefreshFails, Continue, Inv, StoreInv, StoreTypeOK
<1>5. CASE Restart
  BY <1>2, <1>5 DEF Restart
<1>6. ASSUME NEW p \in Client, BeginFails(p)
      PROVE  ReleaseInv'
  BY <1>2, <1>6 DEF BeginFails
<1> QED  BY <1>1, <1>3, <1>4, <1>5, <1>6, TimerStepIsQuiet
         DEF SQLiteNext, LoadStep, BeginLoad, EndLoad, sqliteVars

\* A lock that is loaded is tracked, if it has a timeout.
LEMMA LoadOneKeepsTimeouts ==
  ASSUME Inv, NEW p, LoadOne(p), KeptBut(forgotten \cup loading)
  PROVE  KeptBut(forgotten \cup loading)'
<1>1. PICK t \in loading : CleanupAdd(ItemOf(t)) /\ loading' = loading \ {t}
  BY DEF LoadOne
<1>2. UNCHANGED <<forgotten, locks, call>>
  BY DEF LoadOne, storeVars
<1>3. \A x : BagIn(x, tracked) => BagIn(x, tracked')
  BY <1>1, AddedIsIn DEF CleanupAdd, cleanupVars
<1>4. locks[t].expires # Infinite => BagIn(ItemOf(t), tracked')
  BY <1>1, AddedIsIn DEF CleanupAdd, ItemOf
<1>5. ASSUME NEW u \in Held', u \notin (forgotten \cup loading)', locks'[u].expires # Infinite
      PROVE  BagIn(ItemOf(u), tracked)' \/ \E q \in Process : InHand(q, u)'
  <2>1. u \in Held /\ ItemOf(u)' = ItemOf(u) /\ locks[u].expires # Infinite
    BY <1>2, <1>5 DEF Held, ItemOf
  <2>2. CASE u = t
    BY <1>4, <2>1, <2>2
  <2>3. CASE u # t
    <3>1. BagIn(ItemOf(u), tracked) \/ \E q \in Process : InHand(q, u)
      BY <1>1, <1>2, <1>5, <2>1, <2>3 DEF KeptBut
    <3>2. \A q \in Process : InHand(q, u) => InHand(q, u)'
      BY <1>2 DEF InHand, ItemOf, Updated
    <3> QED  BY <1>3, <2>1, <3>1, <3>2
  <2> QED  BY <2>2, <2>3
<1> QED  BY <1>5 DEF KeptBut

\* A refresh that fails leaves out the locks it had in hand, and no others.
LEMMA RefreshFailsKeepsTimeouts ==
  ASSUME Inv, NEW p \in Client, RefreshFails(p), KeptBut(forgotten \cup loading)
  PROVE  KeptBut(forgotten \cup loading)'
<1> DEFINE T == forgotten \cup Updated(p) \cup loading
<1>1. /\ call[p].op = "refresh" /\ UNCHANGED <<locks, tracked>> /\ Continue(p, Idle)
      /\ (forgotten \cup loading)' = T
  BY DEF RefreshFails, cleanupVars
<1>2. PICK S : S = T
  OBVIOUS
<1>3. KeptBut(S)
  BY <1>2 DEF KeptBut
<1>4. \A t \in Held \ S : ~ InHand(p, t)
  BY <1>1, <1>2 DEF InHand
<1>5. KeptBut(S)'
  BY <1>1, <1>3, <1>4, EmptyHanded DEF Inv
<1> QED  BY <1>1, <1>2, <1>5 DEF KeptBut

\* Every step of the server keeps the timeouts.
LEMMA SQLiteNextKeepsTimeouts ==
  ASSUME Inv, LoadInv, ReleaseInv, TimeoutsInv, [SQLiteNext]_sqliteVars
  PROVE  TimeoutsInv'
<1>1. ASSUME [Next]_vars, UNCHANGED initVars
      PROVE  TimeoutsInv'
  <2>1. PICK S : S = forgotten \cup loading
    OBVIOUS
  <2>2. KeptBut(S) => KeptBut(S)'
    BY <1>1, NextKeepsFinite DEF Inv
  <2>3. KeptBut(forgotten \cup loading) => KeptBut(S)
    BY <2>1
  <2>4. KeptBut(S)' => KeptBut(forgotten \cup loading)'
    BY <1>1, <2>1 DEF KeptBut, initVars
  <2> QED  BY <1>1, <2>2, <2>3, <2>4 DEF TimeoutsInv, initVars
<1>2. ASSUME NEW p \in Client, BeginLoad(p)
      PROVE  TimeoutsInv'
  <2>1. loading' = Held /\ Held' = Held
    BY <1>2 DEF BeginLoad, vars, Held
  <2> QED  BY <2>1 DEF TimeoutsInv, KeptBut
<1>3. ASSUME NEW p \in Client, LoadOne(p)
      PROVE  TimeoutsInv'
  <2>1. loader # NoOne
    BY <1>3, SentinelAssumption DEF LoadOne
  <2> QED  BY <1>3, <2>1, LoadOneKeepsTimeouts DEF TimeoutsInv
<1>4. ASSUME NEW p \in Client, EndLoad(p)
      PROVE  TimeoutsInv'
  <2>1. loader # NoOne
    BY <1>4, SentinelAssumption DEF EndLoad
  <2>2. UNCHANGED <<locks, tracked, call, forgotten, loading>>
    BY <1>4 DEF EndLoad, vars
  <2> QED  BY <2>1, <2>2 DEF TimeoutsInv, KeptBut, Held, ItemOf, InHand, Updated
<1>5. ASSUME NEW p \in Client, RefreshFails(p)
      PROVE  TimeoutsInv'
  BY <1>5, RefreshFailsKeepsTimeouts DEF TimeoutsInv, RefreshFails
<1>8. ASSUME NEW p \in Client, BeginFails(p)
      PROVE  TimeoutsInv'
  <2>1. UNCHANGED <<locks, tracked, call, forgotten, loading, initialized, loader>>
    BY <1>8 DEF BeginFails, cleanupVars
  <2> QED  BY <2>1 DEF TimeoutsInv, KeptBut, Held, ItemOf, InHand, Updated
<1>6. CASE Restart
  BY <1>6 DEF Restart, TimeoutsInv
<1>7. CASE UNCHANGED sqliteVars
  BY <1>1, <1>7 DEF sqliteVars
<1> QED  BY <1>1, <1>2, <1>3, <1>4, <1>5, <1>6, <1>7, <1>8, TimerStepIsQuiet
         DEF SQLiteNext, LoadStep

\* No lock with a timeout is forgotten across restarts, also when timer callbacks
\* run while the table is loaded; only a refresh that fails may lose sight of one.
THEOREM RestartKeepsTimeoutsHolds == SQLiteSpec => []RestartKeepsTimeouts
<1>1. SQLiteInit => ReleaseInv /\ TimeoutsInv
  BY DEF SQLiteInit, Init, ReleaseInv, ReleasedOnce, Idle, TimeoutsInv
<1>2. Inv /\ LoadInv /\ ReleaseInv /\ TimeoutsInv /\ [SQLiteNext]_sqliteVars
        => (ReleaseInv /\ TimeoutsInv)'
  BY SQLiteNextKeepsReleaseInv, SQLiteNextKeepsTimeouts
<1>3. TimeoutsInv => RestartKeepsTimeouts
  BY DEF TimeoutsInv, RestartKeepsTimeouts, KeptBut
<1> QED  BY <1>1, <1>2, <1>3, SQLiteInvHolds, PTL DEF SQLiteSpec

-----------------------------------------------------------------------------
(* The semaphore across failures.                                           *)

\* Only RefreshLockAsync takes the semaphore beyond a step, and gives it back.
LEMMA SemaphoreIsForRefresh ==
  ASSUME Inv, [Next]_vars
  PROVE  \/ semaphore' = NoOne
         \/ semaphore' # NoOne /\ call'[semaphore'].op = "refresh"
         \/ semaphore' = semaphore /\ call'[semaphore] = call[semaphore]
         \/ semaphore' = semaphore /\ call[semaphore].op # "refresh"
<1> USE DEF Inv, StoreInv, StoreTypeOK, RestTypeOK
<1>1. ASSUME NEW p \in Process, NEW c, Continue(p, c), UNCHANGED semaphore,
             call[p].op # "refresh" \/ c.op = "refresh"
      PROVE  \/ semaphore' = NoOne
             \/ semaphore' # NoOne /\ call'[semaphore'].op = "refresh"
             \/ semaphore' = semaphore /\ call'[semaphore] = call[semaphore]
             \/ semaphore' = semaphore /\ call[semaphore].op # "refresh"
  <2>1. call' = [call EXCEPT ![p] = c]
    BY <1>1 DEF Continue
  <2>2. CASE semaphore = p
    BY <1>1, <2>1, <2>2, SentinelAssumption DEF Process
  <2>3. CASE semaphore # p
    BY <1>1, <2>1, <2>3
  <2> QED  BY <2>2, <2>3
<1>2. ASSUME NEW p \in Client, NEW request \in Requests, NEW timeout \in Timeouts,
             LockAsync(p, request, timeout)
      PROVE  semaphore' = NoOne
  BY <1>2 DEF LockAsync, TransactionMayBegin
<1>3. ASSUME NEW p \in Client, NEW lists \in IfLists, NEW timeout \in Timeouts,
             BeginRefresh(p, lists, timeout)
      PROVE  semaphore' # NoOne /\ call'[semaphore'].op = "refresh"
  BY <1>3, SentinelAssumption DEF BeginRefresh, Continue, Process
<1>4. ASSUME NEW p \in Process, NEW t, ReleaseCommit(p, t)
      PROVE  semaphore' = NoOne
  BY <1>4 DEF ReleaseCommit, TransactionMayBegin
<1>5. ASSUME NEW p \in Client, RefreshOne(p)
      PROVE  /\ UNCHANGED semaphore
             /\ \E c : Continue(p, c) /\ c.op = "refresh"
  <2>1. PICK c : Continue(p, c) /\ \E f, r : c = [call[p] EXCEPT !.found = f, !.refreshed = r]
    BY <1>5 DEF RefreshOne
  <2>2. call[p].op = "refresh" /\ call[p] \in Call /\ UNCHANGED semaphore
    BY <1>5 DEF RefreshOne, storeVars, Process
  <2>3. call[p] \in RefreshCalls
    BY <2>2, CallTypes
  <2>4. c.op = "refresh"
    BY <2>1, <2>2, <2>3 DEF RefreshCalls
  <2> QED  BY <2>1, <2>2, <2>4
<1>6. ASSUME NEW p \in Client, RefreshCommit(p)
      PROVE  semaphore' = NoOne
  BY <1>6 DEF RefreshCommit, EndTransaction
<1>7. ASSUME NEW p \in Process, Track(p) \/ Untrack(p)
      PROVE  UNCHANGED semaphore /\ call[p].op # "refresh" /\ \E c : Continue(p, c)
  BY <1>7 DEF Track, Untrack, storeVars
<1>8. ASSUME NEW w \in Worker, TimerFires(w) \/ TimerExpirationCallback(w) \/ ExpiredIsGone(w)
      PROVE  UNCHANGED semaphore /\ call[w].op # "refresh" /\ \E c : Continue(w, c)
  BY <1>8 DEF TimerFires, TimerExpirationCallback, ExpiredIsGone, storeVars, Idle
<1>9. CASE Tick \/ UNCHANGED vars
  BY <1>9 DEF Tick, storeVars, vars
<1> QED  BY <1>1, <1>2, <1>3, <1>4, <1>5, <1>6, <1>7, <1>8, <1>9
         DEF Next, RefreshStep, WorkerStep, ReleaseAsync, ReleaseExpired, Process

\* A statement that fails inside a transaction leaves nobody waiting: the
\* semaphore is with a refresh that is under way, or BeginTransaction or Rollback
\* threw and the server has not been restarted since.
THEOREM SemaphoreIsReleasedHolds == SQLiteSpec => []SemaphoreIsReleased
<1>1. SQLiteInit => SemaphoreIsReleased
  BY DEF SQLiteInit, Init, SemaphoreIsReleased
<1>2. Inv /\ LoadInv /\ SemaphoreIsReleased /\ [SQLiteNext]_sqliteVars => SemaphoreIsReleased'
  <2> SUFFICES ASSUME Inv, LoadInv, SemaphoreIsReleased, [SQLiteNext]_sqliteVars
               PROVE  SemaphoreIsReleased'
    OBVIOUS
  <2>1. CASE [Next]_vars /\ UNCHANGED jammed
    BY <2>1, SemaphoreIsForRefresh DEF SemaphoreIsReleased
  <2>2. CASE UNCHANGED <<semaphore, call, jammed>>
    BY <2>2 DEF SemaphoreIsReleased
  <2>3. ASSUME NEW p \in Client, BeginFails(p) \/ RefreshFails(p)
        PROVE  SemaphoreIsReleased'
    BY <2>3 DEF BeginFails, RefreshFails, EndTransaction, SemaphoreIsReleased
  <2>4. CASE Restart
    BY <2>4 DEF Restart, SemaphoreIsReleased
  <2> QED  BY <2>1, <2>2, <2>3, <2>4, TimerStepIsQuiet
           DEF SQLiteNext, BeginLoad, LoadStep, LoadOne, EndLoad, storeVars, sqliteVars,
               vars, initVars
<1> QED  BY <1>1, <1>2, SQLiteInvHolds, PTL DEF SQLiteSpec
=============================================================================
