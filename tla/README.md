# TLA+ models of FubarDev.WebDavServer

This directory holds TLA+ specifications of the WebDAV server library in
`src/src` and of the scripts of its documentation site (`src/docs`, `src/tools`),
TLC configurations that check them on small instances, and theorems
about them that the TLA+ proof system (TLAPS) checks for every value of the
constants. `PROJECT.json` lists the runs, the theorems, the lines of code every
definition stands for, and the hazards the properties are aimed at.

Run everything from this directory:

    tlc -config LockManagerRaces.cfg MCLockManager.tla    # one model-checking run
    tlapm LockManagerProofs.tla                           # one module's proofs

## 1. The system

Two programs live in the repository: the server, and the scripts that make and
run its documentation site.

A WebDAV server as a library for ASP.NET Core. One request is one task; tasks
run concurrently on the thread pool and share the lock manager, the file system
and the property store.

| component | code (under `src/src`) | state it keeps | operations |
|---|---|---|---|
| lock manager | `FubarDev.WebDavServer/Locking/LockManagerBase.cs` with `FubarDev.WebDavServer.Locking.InMemory`, `….Locking.SQLite` | the active locks by state token; one transaction at a time (semaphore) | `LockAsync`, `LockImplicitAsync`, `RefreshLockAsync`, `ReleaseAsync`, `GetLocksAsync`, `GetAffectedLocksAsync` |
| lock clean-up | `Locking/LockCleanupTask.cs` | tracked items by expiration, the item waited for, a one-shot timer | `Add`, `Remove`, `TimerExpirationCallback` |
| lock times | `Locking/DefaultLockTimeRounding.cs`, `Locking/DefaultTimeoutPolicy.cs`, `Model/Headers/TimeoutHeader.cs` | none | rounding, choice of a timeout, parsing |
| request conditions | `Model/Headers/If*.cs`, `EntityTag*.cs`, `Utils/RequestHeaderExtensions.cs` | none | which `If` lists a request meets, which entity tags match |
| handlers | `Handlers/Impl/*.cs` | temporary locks during a request | LOCK, UNLOCK, PUT, DELETE, MKCOL, COPY, MOVE, GET/HEAD, PROPFIND, PROPPATCH, OPTIONS |
| copy/move engine | `Engines/RecursiveExecutionEngine.cs`, `Engines/Local`, `Engines/Remote` | the tree of results | recursive copy and move within a file system, between two, to another server |
| file systems | `….FileSystem.InMemory`, `.DotNet`, `.SQLite`, `FileSystem/PathTraversalEngine.cs` | the tree of collections and documents | select, create, copy, move, delete, open for reading and writing |
| property stores | `….Props.Store.InMemory`, `.SQLite`, `.TextFile`, `Props/` | dead properties and entity tags by path | get, set, remove, update the entity tag |
| ranges | `Model/Headers/Range*.cs`, `Utils/StreamView.cs`, `GetResults` | the window of a stream | which byte ranges a GET answers, which bytes it sends |
| dispatch and glue | `Dispatchers/`, `WebDavServer.cs`, `….AspNetCore` | none | routing of a request to its handler, formatting of the answer |

The documentation is built by DocFX, which runs the JavaScript of
`tools/docfx-templates/default` in its own process, page by page, and read in a
browser:

| component | code | state it keeps | operations |
|---|---|---|---|
| templates | `common.js`, `ManagedReference*.js`, `RestApi*.js`, `conceptual*.js`, `toc.html.js` | none; a transform writes into the model it was given | the model of a page to what its mustache template shows, its bookmarks, its links to the source |
| page scripts | `docs/styles/docfx.js` (the same file under `tools/…/styles`) | the elements of the page and their classes, the search box, the results | navigation bar, sidebar, breadcrumb, filter, outline, highlighting, footer, search |
| search worker | `docs/styles/search-worker.js` | index and stop words | loads both, answers queries |

### How they interact

A handler selects its target in the file system, takes an implicit lock from
the lock manager (the locks named in the `If` header, or a temporary lock of its
own), changes the file system and the property store, and releases what it took
when the implicit lock is disposed of. The lock manager tells the clean-up task
of every lock with a timeout; the clean-up task calls `ReleaseAsync` back from a
timer thread. `LockReleased` is raised for every released lock. GET takes no
lock at all and meets a PUT in the data and the entity tag of the document.

DocFX asks a template for the bookmarks of a page before it transforms the page;
links from elsewhere are made from the bookmarks, anchors from the transformed
model. In the browser the page asks for the navigation bar and the table of
contents, its worker for the index and the stop words; page and worker talk by
messages.

### What is hard

* Requests and timer callbacks interleave inside one lock operation: the
  transactions exclude each other, the clean-up task's critical sections exclude
  each other, but one operation touches both in turn.
* A timer callback that is on its way when its lock is refreshed, released, or
  when the timer is re-armed.
* The SQLite store outlives the process, the clean-up task does not; statements
  of a transaction may fail.
* A handler selects its target before it has the lock.
* Temporary locks never expire: who does not release one leaves it for good.
* PROPPATCH promises all or nothing over a store without transactions; COPY and
  MOVE go on after a failure of one member.
* The in-memory stores and file system are shared and not synchronised; GET reads
  length, entity tag and data at different moments.
* On the site, answers to requests and messages come in any order while the
  visitor types, filters and scrolls; what one callback left in the page the next
  one finds.

### What makes each part correct

* **Lock manager**: two locks that cover a common resource are both shared; a
  refresh changes nothing but expiration and does not write over what others
  committed; `LockReleased` once per lock.
* **Lock clean-up**: a lock with a timeout is never forgotten, released some time
  after it expired, and not before.
* **SQLite store**: both of the above across restarts and failing statements;
  a transaction that fails does not keep the others out.
* **Handlers**: temporary locks end with their request; what is under a client's
  exclusive lock changes by that client's requests only; no request takes
  another client's lock away from a resource that is still there.
* **PROPPATCH**: a refused request leaves every property that it alone named as it
  was, an accepted one leaves what its last instruction said; no mixed answers; a
  client that knows the entity tag knows the properties.
* **Copy and move**: a transfer whose results are all successes is complete, with
  its properties (but for one case, section 6); what Overwrite: F protects stays; a
  transfer changes nothing outside of what it locked.
* **If header and lock times**: an `If` header holds when RFC 4918 says so, and the
  locks it lets a request work under cover what the request asks for; rounding is
  never early and less than one unit late, a lock lives as long as its client was
  told.
* **GET**: who knows the entity tag of a document at rest has its body; a range
  answer consists of the bytes asked for.
* **Documentation**: links land on anchors; the page shows all of its model, with
  the right marks; what the visitor sees does not depend on the order in which
  things arrived, and a search is answered.
* **Stores and file systems**: the three property stores implement one abstract
  store.

## 2. Plan

In this order; all but the last two are done.

1. `LockScope`, `LockTable`, `LockManager`: the conflict rules, the contract, the
   concurrent implementation; with proofs.
2. `SQLiteLockManager`: restarts and failing statements; with proofs.
3. `PropPatch`: undoing over a store without transactions.
4. `FileSystem` and `Requests`: the handlers for LOCK, UNLOCK, PUT, MKCOL and
   DELETE over locks, in-memory file system and properties; implements
   `LockTable`.
5. `CopyMove`: the MOVE and COPY handlers and the recursive engine over the state
   of `Requests`.
6. `IfHeader` and `LockTimes`: what a request submits and how long a lock lives;
   with proofs, checked together with `LockTable`.
7. `DocModel`, `DocPage`, `DocSite`: the documentation from model to page.
8. `GetDocument`: GET, HEAD and ranges against PUT; with proofs.
9. `PropertyStores` (abstract store, three implementations), `PathTraversal`.
10. The SQLite file system, PROPFIND, the remote copy engine.

Every module that is proved about is written without RECURSIVE operators, its
actions are one per operation or critical section, and its constants come with
named assumptions.

## 3. The modules

### LockScope: which locks are in each other's way

`Compare`, `Find`, `GetConflictingLocks` and `Refresh` of `LockManagerBase`, as
operators. A path is a member of the constant `Path`; which path lies above which
is the constant `Ancestor`, any forest (`AncestorIsForest`), so the theorems hold
for every tree of resources. `Uri.IsBaseOf` becomes this relation: `BuildUrl`
ends every path with a slash, and for those the two agree. `Scope` and
`Compatible` say what the helpers are for without using them.

### LockTable: the contract

Two variables: `locks` (the active lock of a state token, or `NoLock`) and
`issued` (tokens handed out). `Grant`, `Refresh` and `Release` are the three
changes a transaction can make.

### LockManager: the implementation

| variable | code |
|---|---|
| `locks` | the dictionary of `InMemoryLockManager` as last committed |
| `semaphore` | the `SemaphoreSlim` of `InMemoryLockManager`; only `RefreshLockAsync` holds it across steps |
| `tracked`, `mostRecent`, `timer` | `_activeLocks`, `_mostRecentExpirationLockItem`, `_timer` of `LockCleanupTask` |
| `call` | the program counter and local variables of every request and timer callback |
| `issued`, `now`, `notified` | the GUIDs used, the system clock, how often `LockReleased` was raised |

`LockAsync` is one step up to its commit and one `Track` step; `RefreshLockAsync`
is `BeginRefresh`, `RefreshOne` for every lock it found, `RefreshCommit` and
`Track` for every lock; `ReleaseAsync` is `ReleaseCommit` and `Untrack`. Every
`lock (_syncRoot)` section of the clean-up task is one operator (`CleanupAdd`,
`CleanupRemove`, `TimerExpirationCallback`). `TimerFires` is the one-shot timer
queueing its callback, the callback runs later, and releases the lock later
still. Clients may release a lock they did not take, for lock discovery shows
all tokens.

### IfHeader

Extends `LockTable` by `FindMatchingIfConditionListAsync` and `LockImplicitAsync`
of `LockManagerBase`: a header is a sequence of lists, a list a path and a set of
conditions, each a token or an entity tag and maybe negated. `AffectingLocks` and
`FoundLocks` are the locks looked up for a path (once, from its first list:
`FirstOn`), `SuccessfulLists` the lists that hold, `UsedLocks` those a request
then works under. The state is that of `LockTable`: the properties are about
every header in every table that can be reached.

### LockTimes

Pure functions on ticks: `RoundInstant` and `RoundTimeout` are
`DefaultLockTimeRounding`, `SelectTimeout` is `DefaultTimeoutPolicy`, `ExpirationOf`
and `ReportedSeconds` what `ActiveLock` and the lockdiscovery property make of
them. It extends `LockTable` and adds nothing to its state: the table holds an
expiration as a value of a set, and the property says of every table with a lock
what those values are, for every instant and offer.

### SQLiteLockManager

Extends `LockManager` by the load of the table into the clean-up task
(`BeginLoad`, `LoadOne`, `EndLoad` inside `lock (_initSync)`), a `Restart` at any
point, and two failures: `RefreshFails`, a statement that throws inside
`RefreshLockAsync`, so that the transaction is rolled back and, unless that throws as
well, the semaphore released; and `BeginFails`, a `BeginTransaction` that throws
after the semaphore was taken, which nobody releases then. History variables:
`forgotten`, the locks a failing refresh had already told the clean-up task to
forget; `jammed`, one of the two failures left the semaphore taken, until a restart.

### PropPatch

`PropPatchHandler.PropPatchAsync` for one resource and several requests: one
action per way an instruction can go, then the undoing from the last change to
the first, or the entity tags of the resource and of the collections above. A
call of the property store is one step. `task[r].properties` is the dictionary
of property objects a request works with, `task[r].changes` its list of
`ChangeItem`s. Values are two model values. Properties are of the four kinds the
code treats differently: arbitrary dead ones, the display name (predefined and
dead, read lazily), the writeable live date, the protected entity tag. `Named(r)` are
the dead properties a request names, `Contested` those that two requests name, `Own(r)`
those that no other one names.

### FileSystem

The objects of the in-memory file system and the properties kept by path, what
can be done to them (`Create`, `Remove`), and the walk from the root to what a
path names (`Select`). Removal is by name and creation fails when the name is
taken, as in `InMemoryDirectory`. Entries are numbered because requests hold on
to objects that are no longer in the tree.

### Requests

| variable | code |
|---|---|
| `entries` | the objects of the in-memory file system: `InMemoryDirectory._children` as `members`, the data of `InMemoryFile` as who wrote it |
| `props` | whose dead properties `InMemoryPropertyStore` has for a path |
| `locks`, `issued` | the lock manager, by its contract |
| `task` | what a handler is doing: its selection (`found`), its implicit lock, the locks DELETE is going to release |
| `known` | the tokens a client was told |
| `left` | how many requests a client sends yet (bound) |
| `lost` | temporary locks whose release was cancelled (history) |

A handler is cut where others can come in between: selection (`Begin`), implicit
lock (`LockImplicit`), the calls that change the file system and the properties
(`Open`, `Write`, `WriteProperties`, `Make`, `Delete`), the release of affected
locks (`FindAffected`, `ReleaseAffected`), disposal (`Dispose`). LOCK is
`LockRequest`, `LockSelect`, `LockCreate`. `HangUp` is a client that goes away:
the next call that looks at the cancellation token throws. That a
handler goes on working with an entry that is no longer in the tree is part of
the model. The property `Contract` is the refinement: these steps use the lock
manager only as `LockTable` allows.

### CopyMove

Extends `Requests` by COPY and MOVE. `work[c]` holds what a transfer knows beside its
task: the destination and what was selected there, the lock on the source, the listing
`GetNodeAsync` made, the stack of collections the engine is in (`Frame`), the results
with their level in the tree. The handler is cut at its selections and locks
(`TransferRequest`, `LockSource`, `SelectDestination`, `LockDestination`,
`DisposeDestination`, `DisposeSource`; MOVE goes on with `FindAffected` of `Requests`),
the engine at each document and collection (`StartDocument`, `StartCollection`,
`EngineDocument`, `EngineCollection`, `EngineFinish`). What an action does to the file
system is an operator of its own: `CopyTo` and `MoveTo` for the actions within a file
system, `Stream` for those between two. The engine collects the properties of a source
before the action and sets them after it; of those that look their value up when they
are asked for (`Late`: displayname, getcontentlanguage, getcontenttype) it has collected
nothing yet (`Collected`), and what it sets is what their path has then (`ReadOf`).
`Throw` is an exception nobody catches on the way. `alone` is a history variable: nobody
else has changed anything since the request began. Names are the elements of paths here,
because the engine appends names to the destination. The listing is taken at once; the
calls for one document are one step.

### GetDocument

| variable | code |
|---|---|
| `data`, `written` | `InMemoryFile.Data`: whose body, and how much of it has come |
| `etag` | `InMemoryEntry.ETag`; a new `EntityTag` is one more than the last |
| `put` | where a PUT is between `CreateAsync` and `UpdateETagAsync` |
| `get` | where a GET or HEAD is, with its local variables: ranges, tag, parts |
| `answer`, `cache` | what a client got last, and the last whole body with its tag (history) |

A PUT is `Create` (the empty stream becomes the document), `Write` for each part of the
body, `EndOfBody` (also when the client hangs up), `Dispose`, `DisposeTag` and
`UpdateETag`. A GET is `ValidateAsync` (If-Match, If-None-Match), `Normalize` and
`CheckRanges`, which read the length each for itself, `TellETag`, and then
`OpenDocument` (HEAD ends before that, with the status GET would have), or `OpenRange`
for each range and `SendRanges`, which reads the length once more. `NormalizeRanges` is
`RangeHeader.Normalize` with its sorting and merging. The shared temporary locks of PUT
do not keep PUT requests apart (`Requests`), so they are left out here.

### DocModel, DocPage, DocSite

`DocModel` has the transforms as functions from models to models: members grouped
by kind (`GroupChildren`), bookmarks and anchors (`GetBookmarks`,
`ReferenceAnchors`), operations of an API by tag (`TransformRest`), its parameters
in the path (`FormatParams`), schemas with `allOf` (`ResolveAllOf`,
`TransformProperties`), links to the source (`GetGitInfo`, `GetRemoteUrl`,
`GetViewSourceHref`, `GetImproveTheDocHref`): an address is a host, a name, https or
ssh, a branch and a file. A JavaScript exception is the value
`TypeError`. A uid is a sequence of characters as far as `getHtmlId` tells them
apart.

`DocPage` has one action for each callback of the event loop: `NavArrives` and
`SideArrives` for the two requests, `FilterInput`, `Scroll` and `FooterFaded` for the
sidebar, `KeyUp`, `OnMessage` and `TurnPage` for the search, and `StopWordsArrive`,
`IndexArrives` and `Answer` for the worker; `Open` is the start of `docfx.js`, with
the highlighting and the outline. Elements of the page are kept as the classes and
texts the code reads again. `toWorker` and `toPage` are the queues of messages.

`DocSite` composes both: a page is built from a model, or from a table of contents
and a text, and then visited.

Definitions marked "Seeded bug" are plausible wrong versions of the definition
next to them; no specification uses them. `PROJECT.json` pairs each with the
property that notices when it takes the definition's place.

## 4. The runs

| run | instance | question |
|---|---|---|
| `lock_table` | tree of four paths, three tokens; `If` headers of one and two lists; instants around every carry of the rounding | are only compatible locks granted, does an `If` header admit whom it should, do locks live as long as was told, is a maximum kept |
| `lock_races` | two clients, two timer threads, two tokens, timeouts 1 and 2 | does the store keep the contract, is no finite lock forgotten and the timer always armed, is `LockReleased` raised once |
| `lock_early` | as `lock_races` | violation: a lock just refreshed is released |
| `sqlite_restart` | one client, one timer thread, timeouts 1 and 2, one restart, failing statements, `BeginTransaction` and `Rollback`, fairness | contract and timeouts across restarts and failures, expired locks go after a restart, a statement that fails and is rolled back blocks nobody (a `BeginTransaction` or `Rollback` that throws does) |
| `prop_patch` | two requests, 108 bodies of two and three instructions against two, one of which names a property of the first as well; throwing writes | all or nothing for answered requests as to what they alone name, uniform answers, entity tags |
| `prop_patch_removal` | one body | violation: the removal of a property is not undone |
| `requests` | two clients, one and three requests, a tree of three paths, three tokens, exclusive and shared locks of infinite depth, expiry, hanging up | locks and changes of resources agree |
| `copy_move` | one transfer of a document or of a collection of two levels, against two requests of another client (lock, create, delete, move); the destination is missing, a document, or has the same members; properties that are read late among the others | are transfers complete but for what section 6 tells, is Overwrite: F kept, do their locks cover what they change |
| `copy_move_lost` | the same with one request each | violation: a MOVE that loses a document is answered with success |
| `get_document` | a document of three bytes, PUT of one and of four that may be cut off, one reader; while nobody writes, every list of one or two ranges with positions up to 3 and many of three | does a client that knows the tag have the body, are ranges answered with their bytes |
| `get_document_etag` | two readers, one PUT | violation: one entity tag for two bodies |
| `doc_site` | models with up to three members, sources, texts and contributions in three repositories, two operations, three parameters, schemas of up to two parts; two pages, a table of contents three levels deep, three filters, three queries and four keys, fairness | do links land, is all of the model shown, is the page the same in whatever order things come, is a search answered |

Several properties that ask one question are one conjunction of named parts:
`ExpirationIsWatched` (`FiniteLocksAreKept`, `TimerIsArmed`), `RequestsAreTidy` and
`TransferIsTidy` (types, and temporary locks end), `RequestsAreConsistent`,
`IfHeaderIsHonoured`, `TimesAreKept`, `ModelsAreShown`, `SchemasAreShown`,
`SidebarIsOrderFree`, `PageIsConsistent`.

Why the bounds are enough:

* Locks. Conflicts are between two locks, so two tokens show every conflict and
  the third in `lock_table` what happens to bystanders; a tree of a collection,
  its member, a member of that and an unrelated path has every relation `Compare`
  tells apart. The races are between a refresh, a release and a callback: two
  clients and a timer thread, or one client and two timer threads. A clock of
  three or four ticks with timeouts 1 and 2 has locks that expire in the order of
  their issue and in the other one. `MaxTime` and `Horizon` stop the clock when
  the last lock has expired; no request begins after `MaxTime`. `MaxTracked`
  keeps a refresh of the same lock from filling the bag. The theorems hold for
  every value of these bounds.
* If headers. A list refers to one path and is judged by the locks found for it;
  two lists on the same path, or on the path and one above it, are all that can
  influence each other. The lists are all kinds of at most two conditions.
* Lock times. The units are 100 and 1000 milliseconds; the instants lie on, right
  before and right after multiples of both, with and without a part of a
  millisecond. The proofs are for all of them.
* GET. What a GET mixes up are length, tag and data before and after each step of
  a PUT: two PUT requests overlap in every way, one with a shorter and one with a
  longer body. Merging compares neighbours after sorting: two ranges with positions
  on, before and behind the end of the document show each case, three the one in
  which the remembered end is that of the first. `LoneRangeLists` keeps the many
  lists out of the interleavings.
* Documentation. Groups, tags and parameters are told apart by neighbours and kinds:
  three of each. The toc has a branch with a leaf, a leaf, and a branch in a branch.
  Four keys are two queries, an emptied box and one more query. A visitor reads,
  filters or searches (`activity`), for these share only the navigation bar.
* PROPPATCH. A failure has an instruction before it that is undone and one after
  it that is skipped: three instructions. The same property twice, and the
  order of undoing, need two. The second request works on another property of
  the same resource, or on one of the first request's and fails: those two do disturb
  each other (section 6), up to another value under the same entity tag when both
  fail, and what is claimed of the other properties holds nevertheless.
* Requests. `Begin` to `Dispose` of one request against three requests of the
  other client: enough to replace what was selected (DELETE, MKCOL) and lock it.
  A path that was a collection becomes a document that way and the other way round.
  The root can be named by one of them, whose DELETE is refused. Three tokens are a
  lock of each client and a temporary one; tokens that are gone do not come back.
* COPY and MOVE. The collection has a document, and a collection with a document
  in it: two levels, so that there is a last level for `Depth: 1`, a level whose
  results are reported and one whose results are not. Both ways of transferring a
  document, all depths, both values of Overwrite, and the root as destination.
  Two requests of the other client replace the destination and lock what they put
  there; its MOVE takes a document out of the source and puts one in the engine's
  way.

Symmetry is used for clients, timer threads and tokens, in runs without liveness
properties only. Every run but those of `GetDocument` says CHECK_DEADLOCK FALSE because
the bounded system stops: tokens, requests, keys or the clock run out.

**Fairness.** Two runs have liveness properties. `SQLiteFairness` assumes that a
request or callback that was begun is carried on (weak fairness of each step),
that the clock advances, and that a timer that is due fires: the thread pool and
the operating system do that. Taking the semaphore needs strong fairness: it is
free again and again, and `SemaphoreSlim` does not starve a waiter. New requests
need no fairness: nobody has to send any. After a restart nobody has to begin the
load, so `ExpiredIsReleasedOnceLoaded` speaks of what happens once somebody has; the
load itself is carried on once begun. `FairSpec` of `DocSite` assumes that the browser
delivers messages to worker and page; that requests are answered, or that the
visitor types, is not assumed. No fairness is assumed elsewhere: no step of
a handler waits for another request.

## 5. The proofs

`tlapm` checks eight modules; all theorems hold for every forest of resources, every set
of tokens, clients, timer threads, timeouts, headers, bodies and bounds that meets the
assumptions named in the modules (`AncestorIsForest`, `NoLockAssumption`,
`BoundsAssumption`, `SentinelAssumption`, `SQLiteAssumption`, `HeadersAssumption`,
`TimesAssumption`, `SizeAssumption`, `RequestsAssumption`, `ConstantsAssumption`). These
say only that the bounds are numbers, that no lock issued before `MaxTime` expires after
`Horizon`, that an `If` header is made of lists about paths, a PROPPATCH body of
instructions, that `Above` is the next of the `Ancestor`s of a path and every set of
paths has a topmost one, that the trees to begin with are trees, that for transfers a
path is the sequence of its names and what lies below a source has a path below the
destination, and that the sentinels are neither data nor names. Where a theorem needs
more, its statement begins with it.

**LockTableProofs.** `CompareDecidesOverlap` shows that `Compare` finds a relation
exactly when two scopes meet; it needs that the ancestors of a path form a
chain. From it `NoConflictIsCompatible`: a request that meets no conflicting lock
is compatible with all. With that, `ExclusiveMeansAlone` is inductive together
with the type invariant (a refresh keeps scope and share mode, a release only
takes locks away). `RefreshKeepsScope` is an action property from the type
invariant.

**LockManagerProofs.** The inductive invariant is `StoreInv`: types, and
`SnapshotsAreCurrent`: while a process is inside `RefreshLockAsync` it holds the
semaphore, the locks it read are what the store holds, and those it computed
differ in expiration only. Without that conjunct the commit of a refresh could
be anything as far as the store is concerned. `RestTypeOK` types the clean-up
task (the bag needs two lemmas about adding and taking away one item).
`ContractHolds` then maps every step to a step of `LockTable` or a stutter;
`ExclusiveMeansAloneHolds` carries the theorem of `LockTable` over.
`ReleasedOnceHolds` needs the invariant that a token that was reported is not
held, and that at most one process is about to report it and then the token
has not been reported; `DeadStayDead` comes from the contract.

Its second part is about expiration. `TimerInv` is what `TimerIsArmed` needs to
be inductive: without an item to wait for nothing is tracked, and the item waited
for is tracked; whenever `LockCleanupTask` waits for another item it goes through
`SetMostRecent`, which arms the timer (`SetMostRecentArms`).
`FiniteLocksAreKept` is inductive given that what is being untracked is not held
(`ReleaseInv`): a refresh takes the committed version away and has the next one in
hand, the callback takes it and is about to release it. The lemmas are about
`KeptBut(S)`, the same for all locks but those in S, for the store that is loaded
from a table. `OnlyRefreshedDieEarlyHolds` follows from `ItemsInv`: as long as a lock
was not refreshed, every item about it is the version that is committed, in the
clean-up task and in everybody's hands, and what a callback took had expired.

Its third part is about `SQLiteLockManager`: the same invariant with `LoadInv` for the
load. A restart empties every call and the semaphore, which the invariant allows,
and leaves the store alone, which the contract allows; a failing refresh gives up
its transaction without touching the store. `SemaphoreIsReleasedHolds` is inductive:
the semaphore is taken by a process inside a refresh, or `jammed` says why not.
`RestartKeepsTimeoutsHolds` uses the
lemmas about `KeptBut` for the locks that are neither still to be loaded nor lost by
a refresh that failed.

**LockHeadersProofs.** For `IfHeader` nothing new is inductive: the theorems follow
from the invariants of `LockTable` for every header. `UsedLocksCoverHolds` goes from the
used locks to the locks found for a list (`FoundIsCovering`: they are held and
cover the path the list is about) and by the ancestors to the request;
`OwnTokenAdmitsHolds` goes the other way: a lock that covers the requested path is
found from a list about any path above. The first list on a path
exists by the library's theorem on minimal elements.

For `LockTimes` it is arithmetic: `PartsOfTime` takes a value apart into seconds,
milliseconds and a rest, then there is one case for each rounding mode.
`ToldIsKeptHolds` puts rounding, expiration and the report together.
`SelectionKeepsMaximumHolds` reduces the choice to the largest element of a bounded set
that is not empty (`LongestIsLongest`, by the library's theorem on minimal elements).
`TimesAreKeptHolds` states them of every state.

**GetDocumentProofs.** `CacheIsCoherent` is about moments at rest only, so the
invariant is about the others: `TagsArePast`, no client and no GET that has read the
tag but not the data has a tag that is yet to come; `TagTellsBody`, the current tag
goes with the current body unless some PUT owes a new tag. Whatever a PUT changes it
owes a tag afterwards, and what pays is a tag nobody can have. How long a body is
and how ranges are merged does not matter to the proof.

`RangesAreServedHolds` needs both. What `NormalizeRanges` returns
(`NormalizeRangesMerges`) holds for every list of ranges and every length: `SortsExist`,
an order exists, since the next range can be inserted into one; `FoldingExists`, so does
the function that `FoldLeft` chooses; `MergedInv`, what holds of the ranges merged so
far. Its hard part is that of each group only the end of the first range is remembered:
a range that joins the group still overlaps or touches that first one, so nothing is
served that was not asked for. `RangesInv` says of a request that nobody disturbed
(`Undisturbed`: the entity tag is the one it began with, and no PUT owes a new one) that
the parts it has and the ranges it has yet to open are of the document as it is
(`UpToDate`), and of an answer that it `IsRight`; a PUT that comes meanwhile makes the
tag another one before it ends.

**PropPatchProofs.** `RequestsAreConsistentHolds`: the types of `PropPatch` and
`AnswersAreUniform`, for any number of overlapping requests, any bodies and any
writes that throw. `Recorded` says what a request has written down at each point
of the handler: one change for every instruction it has looked at, and while it
undoes them a failure among them and nothing but failures behind the change that
is next (`AdvanceIsGood`, `UndoneIsGood`). That nothing is undone without a
failure, and that a request that throws gives no answer, does the rest.

The other three theorems are about values, of the properties that no other request
names: the lock two requests on the same property share does not keep them apart, and
the undoing of one puts back what it read before the other one wrote (section 6).
Nothing is assumed of the bodies; what is proved of a request and the properties
in `own` is proved for every set `own` that no other request names (`Mine`), which
only gets smaller when others begin (`MineIsLess`, `KeptOfLess`). `ValuesInv` adds to
`Recorded`, for each request and the store:
`Undoable`, a change that touched the store has in `old` what the changes before
it left (this is what makes undoing backwards right when a name comes twice);
`LookedUp`, a value in the dictionary of properties is the one in the store, so that
`old` is right although it is read once only; `Restored`, a name that none of the
changes still to be undone touched holds what the request found; `Applied`, while
nothing has failed, a name holds what its last instruction said. Steps
of others keep all of it because they touch other names (`KeptElsewhere`). When the undoing
has come to the first change, `Restored` is `RefusedIsUndoneHolds`, and `Applied` is
`AcceptedIsAppliedHolds`.

`ETagTellsPropertiesHolds` needs to know what holds while somebody is at the
resource (`TagsInv`): as long as the entity tag is the one a request found when
nobody was there, every property that is not contested is what it found, except those
that somebody under way names, and these were the same when that one came; whoever
has gone past the resource in replacing entity tags has made the tag a newer one
(`Replaces`, which does not ask who else names what).

**RequestsProofs.** The inductive invariant `Inv` has five parts. `StateInv`: types, the
in-memory file system is a tree (`FileSystemInv`: every object, also a removed one,
stays below the collection it was made in), tokens that were held or told were issued.
`SelectionInv`: what a handler selected before its lock still fits its path,
although others have changed the tree since, because objects are made and removed
but never moved (`Evolves`). `OwnInv`: the locks a client knows of, submits or
has just taken are its own. `PowerInv`: a handler goes by the lock it asked for or by
the submitted one that covered its path, as long as these are held, and what a DELETE
is about to release lies at or below its path. `ExplicitInv`: what LOCK grants has a
depth and a share that can be asked for. The fifth is `TemporaryLocksEnd` itself.
The hard lemmas are about `Select`, which walks down a path: it is a recursive
function, and no prover here knows how to induct over it. They take a topmost path
at which the claim fails (`Topmost`, an assumption on `Path`) and look at the
collection above it (`WalkToExists`, `SelectFits`, `SelectElsewhere`).

`ContractHolds` maps every step to a step of `LockTable`; the theorem of `LockTable` that
an exclusive lock is alone comes back through the contract as `LocksAreApartHolds`.
On it rests `RespectsLocksHolds`: whoever changes what is seen at a path either holds
a lock that covers it (`CoveringLock`), and then nobody else does (`KeptOut`), or is a
request that lost its lock or deletes what it found otherwise, which the property
names. The lemmas `...IsLocal` say of every action which paths look different after it.
`GrantedLocksSurviveHolds` does the same for the locks: `ReleasesOnlyBelowRoot`, a
DELETE that releases locks of resources that are there is one of the root, which was
refused. If it goes by an exclusive lock, nobody else has a lock (`RootIsAlone`); if by
a shared one, the code does drop the shared locks of others, and `SharesRoot` says so.
Both assume `FALSE \notin Depths`: without that the code does let one client change
or drop what another one has locked (section 6).

**CopyMoveProofs.** `TransfersInv` takes the invariant of `Requests` and says what a
transfer goes by at each stage (`WorkInv`): what was selected still fits its path
(`TransferInv`), the listing names members of collections, which are in the listing
themselves (`ListingInv`), and on the stack every target has the path that belongs
to its source, each collection is in the one below it, and what is left to do are
members of the source (`StackInv`). Others create and remove entries all the time;
all of it is kept because an object never changes its path, its kind or its parent
(`...Evolves`). `TransferLocksEnd` is proved along with it: a temporary lock that is held
is one of the two its owner will dispose of. `TransferProgress` is what a step of one
client owes to the invariants of all; there is one lemma for every action. The listing
is a recursive function, of which `LevelsExist` first has to show that it exists.
`TransferIsTidyHolds` follows; `TransferContractHolds` and
`TransferLocksAreApartHolds` carry over what `RequestsProofs` has for the others.

`TransferRespectsLocksHolds` takes two more things. `MayWorkInv` says by which locks a
transfer goes (`GoesBy`: those it asked for, or the one it submitted, which covers its
path), and that a listing of Depth 0 names no members. The lemmas `...Elsewhere`
say where each step of the engine is seen: below the destination, for a MOVE below the
source too, and with Depth 0 at the destination alone as long as that is what it was
(`LeavesAlone`). What the engine changes is therefore what its locks cover, and
these do not overlap with the exclusive lock of another client (`TransferKeptOut`).
It assumes `FALSE \notin Depths` like `RespectsLocksHolds`.

**CopyMoveAloneProofs.** What is only claimed of a transfer that nobody interferes with
(`alone`): what others do to both sides it cannot see.

`OverwriteForbiddenHolds` assumes nothing more. That no document at the destination is
replaced when `Execute` refuses every target it finds sounds obvious, and is not: the
engine looks for a target by name in the collection it is at, and takes a collection it
created for empty. `KeepsInv` says why that finds everything (`InSight`): whoever selects
the path of a target on the stack comes to that very entry, and below a target that the
engine created there was no document before. It says too what a transfer knows until
then (`before` is what is seen, `found` is what the destination comes to), and that the
targets on the stack lie below one another (`Nested`), so that the properties a
collection gets at last are not a document's. What has to stay in sight are the
guarded documents and the targets (`Spared`); none of them is at or below the source,
for source and destination are apart, so that a MOVE may take the source away
(`EngineFinishSpares`).

`TransferIsCompleteHolds` assumes nothing more either. `CompletesInv` follows a transfer
that nobody interferes with, and that had only successes until now, over its whole walk
(`Walks`). Each path that was to come along (`Wanted`: at or below the source, down to
the depth) is there already (`Brought`), is that of a collection the engine is at, or
lies below a member it has still to take (`Underway`). The members still to be taken are
what they were, with all that is below them (`Intact`), and no two of them lie within
one another, nor is a collection on the stack below any of them; so a document that is
moved away, or a collection that is removed on the way up, takes nothing with it that
was still wanted (`DocumentBrought`, `EngineFinishWalks`). That whoever enters a
collection leaves out nothing needs that the listing has all its members down to the
depth (`ListsAll`, from `Listing` by the least level that would be missing one) and that
what is below a seen collection is seen through one of them (`MemberAbove`,
`SeenAllTheWay`). A frame has the properties its collection and the collections among
its members had when it was made (`Remembers`), for a MOVE drops them before they are
set at the target. The images of different paths are different (`ImagesDiffer`), and
neither side reaches into the other. At the end the stack is empty: nothing is underway,
so everything is brought. A COPY never touches its source (`LeavesSource`), and after a
MOVE nothing is seen at or below its path (`Gone`). A property that is read late is
still there when it is read, unless its document was streamed and deleted, which is what
`LosesProperty` says.

**Model-checked only**: the liveness properties (no prover for fairness and
ENABLED is available), and the documentation site, whose modules use RECURSIVE
operators. There is no induction over data but the
one by a least counterexample.

## 6. Where the code differs from what is written

Shown by runs that find a violation; `findings` in `PROJECT.json` quotes the
sentence that is contradicted:

* A timer callback releases by token, after its critical section: a lock that was
  refreshed meanwhile dies early (`lock_early`). `OnlyRefreshedDieEarly` is what
  remains true.
* Undoing the removal of a property throws, and the removal stays
  (`prop_patch_removal`). `RefusedIsUndone` is true of requests that are answered.
* MOVE deletes the source collection although a member could not be moved, and the
  answer leaves out results from two levels down (`copy_move_lost`).
  `TransferIsComplete` is what remains true: when every result is a success.

* A GET during a PUT answers a part of the new body under the old entity tag
  (`get_document_etag`). `CacheIsCoherent` is what remains true.

Allowed for by a property, which says where its limit is:

* DELETE chooses a flat or recursive lock by the entry it saw before it had the
  lock, so a member under another client's exclusive lock can be deleted
  (`DeleteHandler.cs:83`; RFC 4918, section 9.6.1). `RespectsLocks` says that this,
  and a request whose own lock is gone, are the only ways to change what another
  client has locked.
* DELETE releases the affected locks whatever came of it (`DeleteHandler.cs:114`). A
  DELETE of the root is refused (403), and if it goes by a shared lock of the root it
  takes away the shared locks that others have on resources, which are all still
  there. `GrantedLocksSurvive` names this case (`SharesRoot`), of which the instance of
  `requests` has some, and says that it is the only one.
* MOVE between file systems loses the properties that look their value up when they
  are asked for: `GetWriteableProperties` collects objects, not values
  (`RecursiveExecutionEngine.cs:187`), the action deletes the source with all it has in
  the property store (`MoveBetweenFileSystemsTargetAction.cs:42` and `:54`,
  `InMemoryFile.cs:66`), and only then `SetPropertiesAsync` asks displayname,
  getcontentlanguage and getcontenttype for their values (`DisplayNameProperty.cs:53`):
  what a client had stored is gone, and the answer tells only successes.
  `TransferIsComplete` leaves out this case (`LosesProperty`) and asks for all others:
  COPY, MOVE within a file system, collections, and properties that were read from the
  store at once.
* PROPPATCH requests on the same property share its lock, so the one that fails writes
  its old value over the other's (`PropPatchHandler.cs:256`), and neither of the two
  that fail replaces the entity tag although the value may be another one in the end.
  The properties are about what no two requests name; the instance of `prop_patch` has
  requests that do.
* `BeginTransaction` is called after the semaphore was taken
  (`SQLiteLockManager.cs:137`): if it throws, the semaphore stays taken, and every later
  request on locks waits until the server starts again. So it does if `Rollback` throws
  (`:209`), before the `Release` in the next line. `SemaphoreIsReleased` and
  `CallsReturn` name both (`jammed`) and say that no other failure has this effect.
* Ranges: a range that lies inside another one makes it shorter, for the merge takes
  the end of the last one (`RangeHeader.cs:178`): `0-9,2-3` is answered with 0 to 3,
  and later ranges are compared with the end of the first. `RangesAreServed` asks for
  all bytes unless ranges are nested.
* A filter leaves an empty branch visible when it is three levels deep
  (`docfx.js:440`); `FilterKeepsMatches` speaks of the branches of leaves.

Seen while modelling and outside of the instances or properties above:

* If header: `Not ["etag"]` alone is never true and `Not <token>` alone always
  (`IfHeaderCondition.cs:54`); a second list on a path finds no locks if the first one
  submits no token (`LockManagerBase.cs:596`); a list about a collection is judged by
  the locks that cover the request only. A refresh finds only locks whose root is
  the path of the list (`:261`; RFC 4918, section 9.10.2, lets any lock that
  covers it be refreshed), and throws when no list needs a token (`:295`).
* Lock times: the documentation of `AllowInfiniteTimeout` says "Gets or sets a value
  indicating whether the timeout may be infinite" (`DefaultTimeoutPolicyOptions.cs:15`);
  the code takes infinite timeouts out of the choice when it is true and leaves them
  in when it is false (`DefaultTimeoutPolicy.cs:34`). `SelectTimeout` is modelled with
  that, and no property takes a stand on it: `TimesAreKept` is about the finite offers
  and the maximum. Rounding a timeout up
  to seconds adds the second and keeps the milliseconds
  (`DefaultLockTimeRounding.cs:70`); with a maximum that is no full second the client
  is told up to half a second more than the lock has (`ActiveLockExtensions.cs:26`); a
  timeout beyond 2^32 - 2 milliseconds makes the timer throw
  (`LockCleanupTask.cs:240`).
* GET: a suffix longer than the document, or a range that begins at its end, ends in
  an exception instead of the whole document or 416; a last position behind the end
  is answered 416 instead of being cut (`GetHeadHandler.cs:97`,
  `WebDavPartialDocumentResult.cs:99`). The modification date of an in-memory document
  never changes (`InMemoryFile.cs:180`), so If-Modified-Since answers 304 for new data.
  PUT with an If-None-Match that fails answers 304 instead of 412; two PUT requests
  with the same If-Match may both pass, for it is looked at before the lock
  (`PutHandler.cs:71`).
* Documentation site: the search is off in the published pages (no `docfx:rel`); a
  query typed before the index is ready waits for the next key; a navigation bar that
  cannot be loaded leaves the search box dead, a table of contents that cannot is
  asked for endlessly. An allOf inside an allOf loses entries, and lists of required
  names are merged by position (`RestApi.common.js:137`); a required property that is
  an object loses its mark (`:187`). A contribution repository without a git remote
  ends the build (`common.js:163`).
* A refresh tells the clean-up task to forget the old lock before its commit; if
  the commit fails nothing releases the lock any more (`LockManagerBase.cs:282`);
  `ExpiredIsReleasedOnceLoaded` allows for it.
* A COPY with Depth 0 to a destination that was missing when it was selected
  removes whatever is there when the document is copied, also with Overwrite: F,
  a collection with locked members included (`InMemoryFile.cs:99`);
  `TransferRespectsLocks` names this case (`Stale`), and `OverwriteForbidden` is
  about transfers nobody interferes with.
* MOVE releases the locks on and below its source after it gave back its own, also
  when the source is still there (`CopyMoveHandlerBase.cs:233`); what was put into
  the source meanwhile is deleted with it; within the in-memory file system MOVE
  cannot replace a document (`InMemoryFile.cs:143`).
* A request that hangs up while its temporary lock is released leaves the lock,
  which is infinite (`ImplicitLock.cs:112`); `TemporaryLocksEnd` allows for it.
* A LOCK that is answered 409 keeps its lock (`LockHandler.cs:145`).
* A lock with Depth 0 does not protect the members of its collection, and shared
  temporary locks let one client write what another one has a shared lock on
  (`DeleteHandler.cs:64`, `PutHandler.cs:81`); a token in an `If` header admits a
  DELETE of a collection whose members others have locked
  (`LockManagerBase.cs:205`). This is why `requests` has locks of infinite depth only,
  and why `RespectsLocks` is about exclusive ones.
* The dead properties of the members of a deleted collection stay
  (`DeleteHandler.cs:87`).
* Undoing a change of a date writes the old date to the property store, not to
  the entry (`PropPatchHandler.cs:256`); removing a display name that was never
  set is refused (`:382`).
* `FindMostRecentExpirationItem` takes any item, not the next to expire
  (`LockCleanupTask.cs:214`): locks may be released late, but are
  (`ExpiredIsReleasedOnceLoaded`).

## 7. What is not modelled

`components` in `PROJECT.json` has the list. Could be added: the property stores, path
traversal with `.` and `..`, the SQLite file system, PROPFIND, preconditions of the
methods that write. Left out for good: XML and header formatting, logging, dispatch, the
ASP.NET Core integration, MIME detection and the vendored user-agent parser,
which keep no state; the .NET file system, whose state is the operating
system's; the build script, jQuery, lunr and the other vendored files of the site.

Inside the modelled parts: unsynchronised dictionaries of the in-memory file system and
property store are taken as atomic calls; `Requests` has no `If-Match` and
`If-None-Match`, no entity tags and paths without a trailing slash, an `If` header is
one list with one token; `CopyMove` has no live properties, no clients that hang up, no
other server as destination, and its properties are about sources and destinations that
lie apart; a resource has one dead property, and the default values of late ones (which
a transfer stores at the target, or not, as they differ from those of the target) are
left out; `LockManager` takes timeouts as given numbers of ticks; a statement of
`SQLiteLockManager` fails inside a refresh only, for elsewhere it changes nothing but
what `jammed` says; `IfHeader` has no tags of other servers and no refresh; `LockTimes`
no negative timeouts; `GetDocument` no weak tags and no dates, and its document exists;
`DocModel` has no texts, examples and document links of an API and no allOf inside an
allOf, `DocPage` no search without a worker, no tables and alerts, and no heights.

Known hazards without a property, for what the code does there is in section 6 or
undefined: unsynchronised dictionaries (`InMemoryDirectory.cs:138`), the first
reading of an entity tag of a resource that has other properties
(`InMemoryPropertyStore.cs:126`), `..` in a path (`PathTraversalEngine.cs:110`), source
and destination of a transfer within each other (`CopyMoveHandlerBase.cs:212`).
