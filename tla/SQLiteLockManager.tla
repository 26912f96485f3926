------------------------- MODULE SQLiteLockManager -------------------------
(***************************************************************************)
(* The lock manager whose store is an SQLite database                      *)
(* (FubarDev.WebDavServer.Locking.SQLite/SQLiteLockManager.cs): locks      *)
(* outlive the server process, the clean-up task does not.  The first      *)
(* transaction after a start tells the clean-up task about every lock in   *)
(* the database.  Statements may fail, which rolls the transaction back;   *)
(* beginning a transaction and rolling it back may fail as well, and leave *)
(* the semaphore taken.                                                    *)
(***************************************************************************)
EXTENDS LockManager

CONSTANTS
  StoreMayFail, \* whether statements on the database may fail
  MaxRestarts   \* bound: the number of restarts of the server

ASSUME SQLiteAssumption == StoreMayFail \in BOOLEAN /\ MaxRestarts \in Nat

VARIABLES
  initialized,  \* _initialized
  loader,       \* the process inside `lock (_initSync)', or NoOne
  loading,      \* the locks it has not yet handed to the clean-up task
  restarts,
  forgotten,    \* the locks a refresh that failed made the clean-up task forget (history)
  jammed        \* whether a failure left the semaphore taken for good (history)

initVars == <<initialized, loader, loading, restarts, forgotten, jammed>>
sqliteVars == <<vars, initVars>>

SQLiteTypeOK ==
  /\ initialized \in BOOLEAN
  /\ loader \in Client \cup {NoOne}
  /\ loading \subseteq Held
  /\ restarts \in 0..MaxRestarts
  /\ forgotten \subseteq Token
  /\ jammed \in BOOLEAN

SQLiteInit ==
  /\ Init
  /\ initialized = FALSE
  /\ loader = NoOne
  /\ loading = {}
  /\ restarts = 0
  /\ forgotten = {}
  /\ jammed = FALSE

-----------------------------------------------------------------------------

\* Seeded bug: _initialized is set before the table is handed over.
BeginLoadFlagFirst(p) ==
  /\ ~ initialized
  /\ loader = NoOne
  /\ initialized' = TRUE
  /\ loader' = p
  /\ loading' = Held
  /\ UNCHANGED <<restarts, forgotten, jammed>> /\ UNCHANGED vars

\* BeginTransactionAsync of the first request: it enters `lock (_initSync)'
\* and reads the table; every other transaction waits for it.  When reading
\* fails nothing has changed, and the next request tries again.
BeginLoad(p) ==
  /\ ~ initialized
  /\ loader = NoOne
  /\ loader' = p
  /\ loading' = Held
  /\ UNCHANGED <<initialized, restarts, forgotten, jammed>> /\ UNCHANGED vars

\* Seeded bug: locks that expired while the server was down are skipped.
LoadLiving(p) ==
  /\ loader = p
  /\ \E t \in loading :
       /\ IF locks[t].expires # Infinite /\ locks[t].expires <= now
          THEN UNCHANGED cleanupVars ELSE CleanupAdd(ItemOf(t))
       /\ loading' = loading \ {t}
  /\ UNCHANGED <<initialized, loader, restarts, forgotten, jammed>>
  /\ UNCHANGED <<now, call, notified>> /\ UNCHANGED storeVars

\* LockCleanupTask.Add for one lock of the table.
LoadOne(p) ==
  /\ loader = p
  /\ \E t \in loading :
       /\ CleanupAdd(ItemOf(t))
       /\ loading' = loading \ {t}
  /\ UNCHANGED <<initialized, loader, restarts, forgotten, jammed>>
  /\ UNCHANGED <<now, call, notified>> /\ UNCHANGED storeVars

\* Seeded bug: the request goes on before the whole table is handed over.
EndLoadEarly(p) ==
  /\ loader = p
  /\ initialized' = TRUE
  /\ loader' = NoOne
  /\ loading' = {}
  /\ UNCHANGED <<restarts, forgotten, jammed>> /\ UNCHANGED vars

EndLoad(p) ==
  /\ loader = p
  /\ loading = {}
  /\ initialized' = TRUE
  /\ loader' = NoOne
  /\ UNCHANGED <<loading, restarts, forgotten, jammed>> /\ UNCHANGED vars

LoadStep(p) == LoadOne(p) \/ EndLoad(p)

\* Seeded bugs: the transaction that failed is not disposed of; the database
\* is created anew at every start.
RefreshFailsForGood(p) ==
  /\ StoreMayFail
  /\ call[p].op = "refresh"
  /\ Continue(p, Idle)
  /\ UNCHANGED <<locks, issued, semaphore, now, notified>> /\ UNCHANGED cleanupVars
  /\ UNCHANGED initVars
RestartEmpty ==
  /\ restarts < MaxRestarts
  /\ restarts' = restarts + 1
  /\ locks' = [t \in Token |-> NoLock]
  /\ semaphore' = NoOne
  /\ call' = [p \in Process |-> Idle]
  /\ tracked' = EmptyBag /\ mostRecent' = Null /\ timer' = Off
  /\ initialized' = FALSE /\ loader' = NoOne /\ loading' = {} /\ forgotten' = {}
  /\ jammed' = FALSE
  /\ UNCHANGED <<issued, now, notified>>

\* BeginTransaction throws after the semaphore was taken, in whatever the client
\* asked for: there is no transaction yet whose Dispose would release it.  The
\* request ends with an error and every later one waits.  (In the callback of
\* the timer, which is async void, the exception ends the process: Restart.)
BeginFails(p) ==
  /\ StoreMayFail
  /\ initialized
  /\ call[p] = Idle
  /\ now < MaxTime
  /\ TransactionMayBegin
  /\ semaphore' = p
  /\ jammed' = TRUE
  /\ UNCHANGED <<locks, issued, now, call, notified>> /\ UNCHANGED cleanupVars
  /\ UNCHANGED <<initialized, loader, loading, restarts, forgotten>>

\* A statement of RefreshLockAsync fails: its transaction is rolled back and
\* the request ends with an error; what the clean-up task was told stays so.
\* The semaphore is released after the rollback, unless that throws too.  In
\* LockAsync and ReleaseAsync a failing statement changes nothing else.
RefreshFails(p) ==
  /\ StoreMayFail
  /\ call[p].op = "refresh"
  /\ \/ EndTransaction /\ UNCHANGED jammed
     \/ jammed' = TRUE /\ UNCHANGED semaphore
  /\ Continue(p, Idle)
  /\ forgotten' = forgotten \cup Updated(p)
  /\ UNCHANGED <<locks, issued, now, notified>> /\ UNCHANGED cleanupVars
  /\ UNCHANGED <<initialized, loader, loading, restarts>>

\* The server stops at any point, for an exception nobody catches too, and starts
\* again: what was committed is there, everything else starts anew.
Restart ==
  /\ restarts < MaxRestarts
  /\ restarts' = restarts + 1
  /\ semaphore' = NoOne
  /\ tracked' = EmptyBag
  /\ mostRecent' = Null
  /\ timer' = Off
  /\ call' = [p \in Process |-> Idle]
  /\ initialized' = FALSE
  /\ loader' = NoOne
  /\ loading' = {}
  /\ forgotten' = {}
  /\ jammed' = FALSE
  /\ UNCHANGED <<locks, issued, now, notified>>

\* Steps that begin no transaction do not wait for the load.
TimerStep == Tick \/ \E w \in Worker : TimerFires(w) \/ TimerExpirationCallback(w)

SQLiteNext ==
  \/ initialized /\ Next /\ UNCHANGED initVars
  \/ ~ initialized /\ TimerStep /\ UNCHANGED initVars
  \/ \E p \in Client : BeginLoad(p) \/ LoadStep(p) \/ BeginFails(p) \/ RefreshFails(p)
  \/ Restart

SQLiteSpec == SQLiteInit /\ [][SQLiteNext]_sqliteVars

\* A request that was begun is carried on, the clock advances and the timer
\* fires when it is due.  Entering a transaction needs strong fairness: the
\* semaphore is free again and again, and SemaphoreSlim serves its waiters.
\* Nobody has to come and begin the load; once begun it is carried on.  The
\* server need not stop.
SQLiteFairness ==
  /\ \A p \in Client : /\ WF_sqliteVars(LoadStep(p))
                       /\ WF_sqliteVars(initialized /\ RefreshStep(p) /\ UNCHANGED initVars)
  /\ \A p \in Process :
        /\ WF_sqliteVars(initialized /\ Track(p) /\ UNCHANGED initVars)
        /\ WF_sqliteVars(initialized /\ Untrack(p) /\ UNCHANGED initVars)
  /\ WF_sqliteVars((\E w \in Worker : TimerFires(w)) /\ UNCHANGED initVars)
  /\ \A w \in Worker :
        /\ WF_sqliteVars(TimerExpirationCallback(w) /\ UNCHANGED initVars)
        /\ SF_sqliteVars(/\ initialized
                         /\ ReleaseExpired(w) \/ ExpiredIsGone(w)
                         /\ UNCHANGED initVars)
  /\ WF_sqliteVars(Tick /\ UNCHANGED initVars)

FairSQLiteSpec == SQLiteSpec /\ SQLiteFairness
-----------------------------------------------------------------------------
(* Properties *)

\* A restart loses no lock's expiration: from the moment somebody begins to load
\* the table every lock with a timeout waits to be handed over, is tracked or in
\* somebody's hand, also while timer callbacks run during the load; only the
\* locks of a refresh that failed are not, until the next restart.
RestartKeepsTimeouts ==
  initialized \/ loader # NoOne =>
    \A t \in Held \ forgotten : locks[t].expires # Infinite =>
      t \in loading \/ BagIn(ItemOf(t), tracked) \/ \E p \in Process : InHand(p, t)

\* Whoever has the semaphore is inside a transaction, and there is nobody left
\* behind by a statement that failed: what jams the store is BeginTransaction or
\* Rollback that throws, and nothing but a restart clears that.
SemaphoreIsReleased ==
  semaphore # NoOne => jammed \/ call[semaphore].op = "refresh"

\* A lock that expired, before a restart or after it, is released once somebody
\* has used the lock manager, unless the server stops again, a refresh of it
\* failed, or the store is jammed.
ExpiredIsReleasedOnceLoaded ==
  \A t \in Token :
    (initialized /\ locks[t] # NoLock /\ locks[t].expires # Infinite /\ locks[t].expires <= now)
      ~> (~ initialized \/ t \in forgotten \/ jammed \/ locks[t] = NoLock
            \/ locks[t].expires = Infinite \/ locks[t].expires > now)

\* Every request and every callback comes to an end, also when statements of
\* others fail and are rolled back, unless the store is jammed.
CallsReturn == \A p \in Process : call[p] # Idle ~> call[p] = Idle \/ jammed
=============================================================================
