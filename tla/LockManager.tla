---------------------------- MODULE LockManager ----------------------------
(***************************************************************************)
(* The lock manager as the code runs it: LockManagerBase over a store with *)
(* one transaction at a time (InMemoryLockManager's semaphore), together   *)
(* with LockCleanupTask, the timer that releases expired locks.            *)
(*                                                                         *)
(* Transactions exclude each other and publish their result on commit, so  *)
(* one that touches nothing else is one step.  What the code does after    *)
(* the commit (telling the clean-up task, raising LockReleased) and what   *)
(* RefreshLockAsync does before it are steps of their own: other requests  *)
(* and the timer run in between.  Each `lock (_syncRoot)' section of the   *)
(* clean-up task is one step.                                              *)
(***************************************************************************)
EXTENDS LockScope, Naturals, Sequences, Bags

CONSTANTS
  Client,      \* requests that run concurrently
  Worker,      \* thread pool threads that run timer callbacks
  Token,       \* the state tokens (GUIDs) a run may issue; bounds the locks
  Requests,    \* the locks clients ask for
  Timeouts,    \* the timeouts clients ask for, Infinite among them or not
  MaxTime,     \* bound: from then on no lock is issued and no refresh begins
  Horizon,     \* bound: the clock stops here, when all locks have expired
  MaxLists,    \* bound: the number of lists in the If header of a refresh
  MaxTracked,  \* bound: no refresh begins when the clean-up task knows so many items
  Infinite,    \* TimeoutHeader.Infinite, and the expiration it leads to
  NoLock,      \* "the store has no entry for this token"
  Null,        \* null: no item to wait for
  NoOne,       \* the semaphore is free
  Off          \* the timer is deactivated

ASSUME BoundsAssumption ==
  /\ MaxTime \in Nat
  /\ Horizon \in Nat /\ MaxTime <= Horizon
  /\ MaxLists \in Nat /\ MaxTracked \in Nat
  /\ \A d \in Timeouts : d = Infinite \/ (d \in Nat \ {0} /\ MaxTime + d <= Horizon)
  /\ Requests \subseteq LockScopes
ASSUME SentinelAssumption ==
  /\ Infinite \notin Nat
  /\ Off \notin Nat
  /\ Client \cap Worker = {}
  /\ NoOne \notin Client \cup Worker
  /\ Null \notin [token : Token, expires : 0..Horizon]
  /\ NoLock \notin [path : Path, recursive : BOOLEAN, share : ShareMode,
                    expires : (0..Horizon) \cup {Infinite}, refreshed : BOOLEAN]

Process == Client \cup Worker

VARIABLES
  locks,       \* the committed store: the active lock of a token, or NoLock
  issued,      \* the tokens handed out so far
  semaphore,   \* the process inside a transaction of several steps, or NoOne
  now,         \* the system clock
  tracked,     \* _activeLocks: the bag of items the clean-up task knows
  mostRecent,  \* _mostRecentExpirationLockItem
  timer,       \* when the timer is due, or Off
  call,        \* what each process is in the middle of
  notified     \* how often LockReleased was raised for a token (history)

storeVars   == <<locks, issued, semaphore>>
cleanupVars == <<tracked, mostRecent, timer>>
vars == <<locks, issued, semaphore, now, tracked, mostRecent, timer, call, notified>>

Expiration == (0..Horizon) \cup {Infinite}
\* IActiveLock; `refreshed' is "LastRefresh has a value".
ActiveLock == [path : Path, recursive : BOOLEAN, share : ShareMode,
               expires : Expiration, refreshed : BOOLEAN]
\* ActiveLockItem: the version of a lock that was handed to the clean-up task.
Item == [token : Token, expires : Expiration]
FiniteItem == [token : Token, expires : 0..Horizon]

Held == {t \in Token : locks[t] # NoLock}
ItemOf(t) == [token |-> t, expires |-> locks[t].expires]

\* A lock as RefreshLockAsync read or made it.
Entry == [token : Token, lock : ActiveLock]
ItemFor(entry) == [token |-> entry.token, expires |-> entry.lock.expires]

Idle == [op |-> "idle"]
Call ==
  {Idle}
  \cup [op : {"track"}, todo : Seq(Item)]                  \* after a commit
  \cup [op : {"refresh"}, timeout : Timeouts,              \* inside RefreshLockAsync
        found : Seq(Entry), refreshed : Seq(Entry)]
  \cup [op : {"untrack"}, item : Item]                     \* ReleaseAsync, after the commit
  \cup [op : {"callback"}]                                 \* timer fired, callback not yet run
  \cup [op : {"expire"}, item : Item]                      \* callback about to call ReleaseAsync

TypeOK ==
  /\ locks \in [Token -> ActiveLock \cup {NoLock}]
  /\ issued \subseteq Token
  /\ semaphore \in Process \cup {NoOne}
  /\ now \in 0..Horizon
  /\ IsABag(tracked) /\ BagToSet(tracked) \subseteq FiniteItem
  /\ mostRecent \in FiniteItem \cup {Null}
  /\ timer \in (0..Horizon) \cup {Off}
  /\ call \in [Process -> Call]
  /\ notified \in [Token -> Nat]

Init ==
  /\ locks = [t \in Token |-> NoLock]
  /\ issued = {}
  /\ semaphore = NoOne
  /\ now = 0
  /\ tracked = EmptyBag
  /\ mostRecent = Null
  /\ timer = Off
  /\ call = [p \in Process |-> Idle]
  /\ notified = [t \in Token |-> 0]

Continue(p, next) == call' = [call EXCEPT ![p] = next]

\* Seeded bugs: the transactions of a store do not exclude each other; the
\* timeout is counted twice.
AlwaysMayBegin == TRUE
ExpirationTooLate(timeout) == IF timeout = Infinite THEN Infinite ELSE now + timeout + timeout

\* BeginTransactionAsync waits until nobody is inside a transaction.
TransactionMayBegin == semaphore = NoOne
\* Dispose of the transaction.
EndTransaction == semaphore' = NoOne

\* The constructor of ActiveLock: a lock expires `timeout' after it was issued
\* or last refreshed.
ExpirationAfter(timeout) == IF timeout = Infinite THEN Infinite ELSE now + timeout

-----------------------------------------------------------------------------
(* LockCleanupTask: the body of its critical sections.                      *)

\* ConfigureTimer; a due time in the past fires at once.
ConfigureTimer(item) == timer' = IF item.expires < now THEN now ELSE item.expires

\* FindMostRecentExpirationItem takes the first key of a hash table: some item.
FindMostRecentExpirationItem(items) ==
  IF items = EmptyBag THEN {Null} ELSE BagToSet(items)

\* Seeded bug: the timer is not armed for the new item.
SetWithoutTimer(next) == mostRecent' = next /\ UNCHANGED timer

\* The item to wait for becomes `next'; without one the timer is left as it is.
SetMostRecent(next) ==
  /\ mostRecent' = next
  /\ IF next = Null THEN UNCHANGED timer ELSE ConfigureTimer(next)

\* Seeded bug: an item that is not the next to expire is thrown away.
AddNextOnly(item) ==
  IF item.expires = Infinite \/ (mostRecent # Null /\ item.expires >= mostRecent.expires)
  THEN UNCHANGED cleanupVars
  ELSE /\ tracked' = tracked (+) SetToBag({item})
       /\ SetMostRecent(item)

CleanupAdd(item) ==
  IF item.expires = Infinite
  THEN UNCHANGED cleanupVars
  ELSE /\ tracked' = tracked (+) SetToBag({item})
       /\ IF mostRecent # Null /\ item.expires >= mostRecent.expires
          THEN UNCHANGED <<mostRecent, timer>>
          ELSE SetMostRecent(item)

CleanupRemove(item) ==
  IF ~ BagIn(item, tracked)
  THEN UNCHANGED cleanupVars
  ELSE /\ tracked' = tracked (-) SetToBag({item})
       /\ IF mostRecent # Null /\ item.token = mostRecent.token
          THEN \E next \in FindMostRecentExpirationItem(tracked') : SetMostRecent(next)
          ELSE UNCHANGED <<mostRecent, timer>>

-----------------------------------------------------------------------------
(* LockManagerBase                                                          *)

\* Seeded bug: locks of the collections above are not looked for.
MayLockBelow(request) ==
  GetConflictingLocks(locks,
    Find(locks, Held, request.path, request.recursive, FALSE), request.share) = {}

MayLock(request) == ConflictingLocks(locks, Held, request) = {}

\* LockAsync up to its commit.  A request that meets a conflicting lock gets
\* those locks as an answer and changes nothing.
LockAsync(p, request, timeout) ==
  /\ call[p] = Idle
  /\ now < MaxTime
  /\ TransactionMayBegin
  /\ MayLock(request)
  /\ \E t \in Token \ issued :
       /\ issued' = issued \cup {t}
       /\ locks' = [locks EXCEPT ![t] =
                      [path |-> request.path, recursive |-> request.recursive,
                       share |-> request.share, expires |-> ExpirationAfter(timeout),
                       refreshed |-> FALSE]]
       /\ Continue(p, [op |-> "track",
                       todo |-> <<[token |-> t, expires |-> ExpirationAfter(timeout)]>>])
  /\ UNCHANGED <<semaphore, now, notified>> /\ UNCHANGED cleanupVars

\* RefreshLockAsync opens its transaction; each list of the If header that can
\* be met finds a lock, and two lists may find the same one.  When none does it
\* answers with an error and changes nothing.
BeginRefresh(p, lists, timeout) ==
  /\ call[p] = Idle
  /\ now < MaxTime /\ BagCardinality(tracked) < MaxTracked
  /\ TransactionMayBegin
  /\ lists # << >> /\ \A i \in DOMAIN lists : lists[i] \in Held
  /\ semaphore' = p
  /\ Continue(p, [op |-> "refresh", timeout |-> timeout, refreshed |-> << >>,
                  found |-> [i \in DOMAIN lists |->
                               [token |-> lists[i], lock |-> locks[lists[i]]]]])
  /\ UNCHANGED <<locks, issued, now, notified>> /\ UNCHANGED cleanupVars

\* One round of its loop: compute the refreshed lock, and make the clean-up
\* task forget the old one although nothing is committed yet.
RefreshOne(p) ==
  /\ call[p].op = "refresh"
  /\ call[p].found # << >>
  /\ LET old == Head(call[p].found)
         new == Refreshed(old.lock, ExpirationAfter(call[p].timeout))
     IN  /\ CleanupRemove(ItemFor(old))
         /\ Continue(p, [call[p] EXCEPT
                           !.found = Tail(@),
                           !.refreshed = Append(@, [token |-> old.token, lock |-> new])])
  /\ UNCHANGED <<now, notified>> /\ UNCHANGED storeVars

\* The locks the refresh of process p has computed a new version of, and the
\* last version of each.
Updated(p) == {call[p].refreshed[i].token : i \in DOMAIN call[p].refreshed}
IsLastVersion(p, t, i) ==
  /\ call[p].refreshed[i].token = t
  /\ \A j \in DOMAIN call[p].refreshed : call[p].refreshed[j].token = t => j <= i

\* UpdateAsync for every refreshed lock in turn, then commit.
RefreshCommit(p) ==
  /\ call[p].op = "refresh"
  /\ call[p].found = << >>
  /\ \E last \in [Updated(p) -> DOMAIN call[p].refreshed] :
       /\ \A t \in Updated(p) : IsLastVersion(p, t, last[t])
       /\ locks' = [t \in Token |-> IF t \in Updated(p)
                                   THEN call[p].refreshed[last[t]].lock ELSE locks[t]]
  /\ EndTransaction
  /\ Continue(p, [op |-> "track", todo |-> [i \in DOMAIN call[p].refreshed |->
                                             ItemFor(call[p].refreshed[i])]])
  /\ UNCHANGED <<issued, now, notified>> /\ UNCHANGED cleanupVars

\* The clean-up task learns of a lock LockAsync or RefreshLockAsync committed.
Track(p) ==
  /\ call[p].op = "track"
  /\ call[p].todo # << >>
  /\ CleanupAdd(Head(call[p].todo))
  /\ Continue(p, IF Len(call[p].todo) = 1 THEN Idle
                 ELSE [call[p] EXCEPT !.todo = Tail(@)])
  /\ UNCHANGED <<now, notified>> /\ UNCHANGED storeVars

\* ReleaseAsync up to its commit, for a lock that is there and whose path was
\* given; in the other cases it changes nothing.
ReleaseCommit(p, t) ==
  /\ TransactionMayBegin
  /\ locks[t] # NoLock
  /\ locks' = [locks EXCEPT ![t] = NoLock]
  /\ Continue(p, [op |-> "untrack", item |-> ItemOf(t)])
  /\ UNCHANGED <<issued, semaphore, now, notified>> /\ UNCHANGED cleanupVars

\* A client may release every lock whose token it has seen; lock discovery
\* shows the tokens of all locks.
ReleaseAsync(p, t) == call[p] = Idle /\ ReleaseCommit(p, t)

\* The end of ReleaseAsync: forget the lock, raise LockReleased.
Untrack(p) ==
  /\ call[p].op = "untrack"
  /\ CleanupRemove(call[p].item)
  /\ notified' = [notified EXCEPT ![call[p].item.token] = @ + 1]
  /\ Continue(p, Idle)
  /\ UNCHANGED now /\ UNCHANGED storeVars

-----------------------------------------------------------------------------
(* The timer                                                                *)

\* The clock.  The last refresh has done its work before Horizon comes close.
Tick ==
  /\ now < MaxTime \/ (now < Horizon /\ TransactionMayBegin)
  /\ now' = now + 1
  /\ UNCHANGED <<call, notified>> /\ UNCHANGED storeVars /\ UNCHANGED cleanupVars

\* The one-shot timer queues its callback.
TimerFires(w) ==
  /\ timer # Off
  /\ timer <= now
  /\ call[w] = Idle
  /\ timer' = Off
  /\ Continue(w, [op |-> "callback"])
  /\ UNCHANGED <<now, notified, tracked, mostRecent>> /\ UNCHANGED storeVars

\* Seeded bug: the callback trusts the timer and does not look at the clock.
HasItem(item) == item # Null

HasExpired(item) == item # Null /\ item.expires <= now

\* The critical section of TimerExpirationCallback.
TimerExpirationCallback(w) ==
  /\ call[w].op = "callback"
  /\ IF HasExpired(mostRecent)
     THEN /\ tracked' = tracked (-) SetToBag({mostRecent})
          /\ \E next \in FindMostRecentExpirationItem(tracked') : SetMostRecent(next)
          /\ Continue(w, IF BagIn(mostRecent, tracked)
                         THEN [op |-> "expire", item |-> mostRecent] ELSE Idle)
     ELSE /\ \E next \in IF mostRecent = Null
                         THEN FindMostRecentExpirationItem(tracked)
                         ELSE {mostRecent} : SetMostRecent(next)
          /\ Continue(w, Idle)
          /\ UNCHANGED tracked
  /\ UNCHANGED <<now, notified>> /\ UNCHANGED storeVars

\* ... which then releases the lock, by token, outside the critical section.
ReleaseExpired(w) ==
  /\ call[w].op = "expire"
  /\ ReleaseCommit(w, call[w].item.token)

ExpiredIsGone(w) ==
  /\ call[w].op = "expire"
  /\ TransactionMayBegin
  /\ locks[call[w].item.token] = NoLock
  /\ Continue(w, Idle)
  /\ UNCHANGED <<now, notified>> /\ UNCHANGED storeVars /\ UNCHANGED cleanupVars

-----------------------------------------------------------------------------

\* The lists of an If header that find a lock, by the lock they find.
IfLists == UNION {[1..n -> Token] : n \in 1..MaxLists}

RefreshStep(p) == RefreshOne(p) \/ RefreshCommit(p)
WorkerStep(w) == TimerExpirationCallback(w) \/ ReleaseExpired(w) \/ ExpiredIsGone(w)

Next ==
  \/ \E p \in Client :
       \/ \E request \in Requests, timeout \in Timeouts : LockAsync(p, request, timeout)
       \/ \E lists \in IfLists, timeout \in Timeouts : BeginRefresh(p, lists, timeout)
       \/ \E t \in Token : ReleaseAsync(p, t)
       \/ RefreshStep(p)
  \/ \E p \in Process : Track(p) \/ Untrack(p)
  \/ \E w \in Worker : TimerFires(w) \/ WorkerStep(w)
  \/ Tick

Spec == Init /\ [][Next]_vars

-----------------------------------------------------------------------------
(* Properties *)

\* The manager keeps the contract of LockTable: every step is one of its
\* steps or leaves the store alone, however requests and timer interleave.
Table == INSTANCE LockTable
Contract == Table!Spec

\* No resource is covered by an exclusive lock and by another lock.
ExclusiveMeansAlone ==
  \A t, u \in Held : t # u => Compatible(locks[t], locks[u])

\* LockReleased is raised at most once for a state token, however an UNLOCK
\* races the timer or another UNLOCK, and whatever a refresh re-writes.
ReleasedOnce == \A t \in Token : notified[t] <= 1

\* Inside RefreshLockAsync: the locks it works on are still held, and differ
\* from the versions it has made of them in expiration and LastRefresh only.
SnapshotIsCurrent(p) ==
  /\ semaphore = p
  /\ \A i \in DOMAIN call[p].found :
       LET entry == call[p].found[i]
       IN  entry.token \in Held /\ entry.lock = locks[entry.token]
  /\ \A i \in DOMAIN call[p].refreshed :
       LET entry == call[p].refreshed[i]
       IN  /\ entry.token \in Held
           /\ \E e \in Expiration : entry.lock = Refreshed(locks[entry.token], e)

\* What RefreshLockAsync read at its beginning is what the store holds until it
\* commits: its commit loses nobody else's lock, refresh or release.
SnapshotsAreCurrent ==
  \A p \in Process : call[p].op = "refresh" => SnapshotIsCurrent(p)

\* Process p is about to hand this version of lock t to the clean-up task, has
\* just taken it from there, or is about to release the lock.
InHand(p, t) ==
  \/ call[p].op = "track" /\ \E i \in DOMAIN call[p].todo : call[p].todo[i] = ItemOf(t)
  \/ call[p].op = "refresh" /\ t \in Updated(p)
  \/ call[p].op = "expire" /\ t = call[p].item.token

\* A lock with a timeout is never forgotten: the clean-up task tracks exactly
\* the version of it that is committed, or somebody holds it in hand.
FiniteLocksAreKept ==
  \A t \in Held :
     locks[t].expires # Infinite =>
       \/ BagIn(ItemOf(t), tracked)
       \/ \E p \in Process : InHand(p, t)

\* The timer never sleeps while something is tracked: one of the tracked items
\* is the one it waits for, and the timer is armed for it or has just fired.
TimerIsArmed ==
  tracked # EmptyBag =>
    /\ mostRecent # Null
    /\ BagIn(mostRecent, tracked)
    /\ \/ timer # Off /\ (timer <= mostRecent.expires \/ timer <= now)
       \/ \E w \in Worker : call[w].op = "callback"

\* Nothing that is to expire is out of sight: of every lock with a timeout the
\* clean-up task knows, or is about to know, and it is never asleep over one.
ExpirationIsWatched == FiniteLocksAreKept /\ TimerIsArmed

\* The timer releases a lock early only if that lock was refreshed.
OnlyRefreshedDieEarly ==
  [][\A w \in Worker, t \in Token :
       call[w].op = "expire" /\ locks[t] # NoLock /\ locks'[t] = NoLock
         /\ call'[w] # call[w]
       => locks[t].refreshed \/ locks[t].expires <= now]_vars

-----------------------------------------------------------------------------
(* What the comments promise and the code does not do.                      *)

\* "The lock is automatically released after the expiration of the timeout"
\* (ILock.Timeout): the timer never releases a lock that has not expired.
NeverReleasedEarly ==
  [][\A w \in Worker, t \in Token :
       call[w].op = "expire" /\ locks[t] # NoLock /\ locks'[t] = NoLock
         /\ call'[w] # call[w]
       => locks[t].expires # Infinite /\ locks[t].expires <= now]_vars
=============================================================================
