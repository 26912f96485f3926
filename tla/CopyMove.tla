------------------------------ MODULE CopyMove ------------------------------
(***************************************************************************)
(* COPY and MOVE within the server: CopyMoveHandlerBase takes its locks,   *)
(* the RecursiveExecutionEngine walks through a listing of the source that *)
(* was made at the beginning, and the local target actions copy or move    *)
(* one document after the other.  All of it runs among the requests of the *)
(* module Requests, whose state it shares.                                 *)
(*                                                                         *)
(* A path is the sequence of its names.  A resource has at most one dead   *)
(* property; live properties and entity tags are left out, and so are      *)
(* clients that hang up during a COPY or MOVE.                             *)
(***************************************************************************)
EXTENDS Requests

CONSTANTS
  Transfers,    \* Transfers[c]: the <<source, destination>> pairs c asks for
  Infinite,     \* the order value of Depth infinity
  CopyDepths,   \* the Depth headers of COPY: 0, 1, Infinite
  Overwrites,   \* the Overwrite headers: TRUE for T, FALSE for F
  InFileSystem, \* TRUE: PreferFastest, documents are copied by CopyToAsync and moved
                \* by MoveToAsync; FALSE: PreferCrossFileSystem, by streams
  Late          \* the values of those dead properties that are not read from the store
                \* before they are needed: DAV:displayname and its like

Within(p, q) == p = q \/ <<p, q>> \in Ancestor

\* Where q, which is at or below `from', comes to be when that goes to `to'.
Moved(q, from, to) == to \o SubSeq(q, Len(from) + 1, Len(q))

ASSUME CopyMoveAssumption ==
  /\ Root = <<>>
  /\ \A p \in Path : p \in Seq({p[i] : i \in DOMAIN p})
  /\ \A p \in Path \ {Root} : p = Append(Above[p], p[Len(p)])
  /\ \A c \in Client :
       /\ Transfers[c] \subseteq Path \X Path
       /\ \A pair \in Transfers[c], q \in Path :
            Within(pair[1], q) => Moved(q, pair[1], pair[2]) \in Path
  /\ Infinite \in Nat \ {0} /\ CopyDepths \subseteq {0, 1, Infinite}
  /\ Overwrites \subseteq BOOLEAN /\ InFileSystem \subseteq BOOLEAN
  /\ "none" \notin Late

VARIABLES
  work,    \* work[c]: what the COPY or MOVE of c knows beside its task
  alone    \* alone[c]: no other request changed anything since it began (history)

transferVars == <<vars, work, alone>>

NoWork == [destination |-> Root, depth |-> 0, overwrite |-> FALSE, inside |-> FALSE,
           found |-> Nothing, sourceLock |-> NoToken, listing |-> <<>>, stack |-> <<>>,
           results |-> {}, before |-> <<>>]

-----------------------------------------------------------------------------
(* What a target action does to a file system fs, with its properties.      *)

Outcome(fs, ok) == [fs |-> fs, ok |-> ok]
Now == [entries |-> entries, props |-> props]

\* DeleteAsync of the entry e takes away what has its name now.
TakeAway(fs, e) ==
  LET it == fs.entries[e]
  IN  IF Members(fs.entries, it.parent, it.path) = {} THEN fs
      ELSE [entries |-> Remove(fs.entries, it.path, it.parent),
            props   |-> [fs.props EXCEPT ![it.path] = "none"]]

\* InMemoryFile.CopyToAsync, to p in the collection `parent': whatever has the
\* name is replaced.
CopyTo(fs, e, p, parent) ==
  Outcome([entries |-> Create(Remove(fs.entries, p, parent), "document", p, parent,
                              fs.entries[e].data),
           props   |-> [fs.props EXCEPT ![p] = fs.props[fs.entries[e].path]]], TRUE)

\* InMemoryFile.MoveToAsync throws when the name is taken, and when the source
\* is not there any more, but then there is a copy already.  The properties of
\* the source stay under its path.
MoveTo(fs, e, p, parent) ==
  LET it == fs.entries[e]
      es == Create(fs.entries, "document", p, parent, it.data)
  IN  IF ~ CanCreate(fs.entries, p, parent) THEN Outcome(fs, FALSE)
      ELSE IF Members(es, it.parent, it.path) = {} THEN Outcome([fs EXCEPT !.entries = es], FALSE)
      ELSE Outcome([entries |-> Remove(es, it.path, it.parent),
                    props   |-> [fs.props EXCEPT ![p] = fs.props[it.path]]], TRUE)

\* The actions between file systems: a document is created unless there is a
\* target, the data goes through a stream, MOVE deletes the source.
Stream(fs, e, p, parent, target, moves) ==
  LET data == fs.entries[e].data
      es   == IF target = 0 THEN Create(fs.entries, "document", p, parent, data)
              ELSE [fs.entries EXCEPT ![target].data = data]
      done == [fs EXCEPT !.entries = es]
  IN  IF target = 0 /\ ~ CanCreate(fs.entries, p, parent) THEN Outcome(fs, FALSE)
      ELSE Outcome(IF moves THEN TakeAway(done, e) ELSE done, TRUE)

\* What the engine knows of a dead property with the value v of a source when it
\* collects its properties, before the target action.
Collected(v) == IF v \in Late THEN "none" ELSE v

\* What becomes of it when the properties are set, after the action: a late one is
\* read now, by the path q of the source.
ReadOf(fs, q, collected) == IF fs.props[q] \in Late THEN fs.props[q] ELSE collected

\* EntryTarget.SetPropertiesAsync: a property the source does not have is left.
SetProperties(fs, p, properties) ==
  IF properties = "none" THEN fs ELSE [fs EXCEPT !.props[p] = properties]

-----------------------------------------------------------------------------
(* The RecursiveExecutionEngine. *)

Moves(c) == task[c].method = "MOVE"

\* GetNodeAsync: the members of the collections down to a depth, as they are
\* when the engine starts.
Listing(es, top, depth) ==
  LET level[k \in 0..depth] ==
        IF k = 0 THEN {top}
        ELSE {m \in UNION {es[d].members : d \in level[k - 1]} : es[m].kind = "collection"}
  IN  [d \in UNION {level[k] : k \in 0..depth} |->
         IF d \in level[depth] THEN {} ELSE es[d].members]

\* One collection the engine is at: from where, to where, and what is left.
Frame(listing, source, target, created, properties) ==
  LET Kind(kind) == {m \in listing[source] : entries[m].kind = kind}
  IN  [source |-> source, target |-> target, created |-> created,
       properties |-> properties,
       documents |-> Kind("document"), collections |-> Kind("collection"),
       memberProperties |-> [m \in Kind("collection") |-> Collected(props[entries[m].path])]]

\* Seeded bug: the Overwrite header is not looked at.
ExecuteAlways(c, e, p, parent, target) ==
  LET q == entries[e].path
      outcome == IF ~ work[c].inside THEN Stream(Now, e, p, parent, target, Moves(c))
                 ELSE IF Moves(c) THEN MoveTo(Now, e, p, parent)
                 ELSE CopyTo(Now, e, p, parent)
      properties == ReadOf(outcome.fs, q, Collected(props[q]))
  IN  IF outcome.ok THEN [fs     |-> SetProperties(outcome.fs, p, properties),
                          status |-> IF target = 0 THEN "Created" ELSE "Overwritten"]
      ELSE [fs |-> outcome.fs, status |-> "OverwriteFailed"]

\* The document e goes to p in `parent', where `target' is (0: nothing): the
\* file system after it, and the status.
Execute(c, e, p, parent, target) ==
  LET q == entries[e].path
      outcome == IF ~ work[c].inside THEN Stream(Now, e, p, parent, target, Moves(c))
                 ELSE IF Moves(c) THEN MoveTo(Now, e, p, parent)
                 ELSE CopyTo(Now, e, p, parent)
      properties == ReadOf(outcome.fs, q, Collected(props[q]))
  IN  IF target # 0 /\ ~ work[c].overwrite THEN [fs |-> Now, status |-> "CannotOverwrite"]
      ELSE IF outcome.ok THEN [fs     |-> SetProperties(outcome.fs, p, properties),
                               status |-> IF target = 0 THEN "Created" ELSE "Overwritten"]
      ELSE [fs     |-> outcome.fs,
            status |-> IF target = 0 THEN "CreateFailed" ELSE "OverwriteFailed"]

Result(status, level) == {[status |-> status, level |-> level]}

Becomes(fs) == entries' = fs.entries /\ props' = fs.props
Works(c, w) == work' = [work EXCEPT ![c] = w]

Top(c)   == Head(work[c].stack)
Level(c) == Len(work[c].stack) - 1

\* Seeded bug: a member is given the topmost name of its path.
PathInFirst(target, e) == Append(entries[target].path, entries[e].path[1])

\* The path of the member e of the source, at the destination.
PathIn(target, e) == Append(entries[target].path, entries[e].path[Len(entries[e].path)])

\* The member of the target collection with e's name, 0 when there is none: a
\* collection the engine created is taken to be empty.
TargetOf(frame, e) ==
  LET there == Members(entries, frame.target, PathIn(frame.target, e))
  IN  IF frame.created \/ there = {} THEN 0 ELSE CHOOSE m \in there : TRUE

-----------------------------------------------------------------------------
(* The handler. *)

\* Nothing changes when there is no source (404).
TransferRequest(c, method, pair, depth, overwrite, inside, submitted, resource) ==
  /\ Sends(c, method)
  /\ LET found == Select(entries, pair[1])
     IN  IF IsMissing(found) THEN UNCHANGED <<task, work, alone>>
         ELSE /\ task' = [task EXCEPT ![c] =
                   [Idle EXCEPT !.pc = IF method = "MOVE" THEN "lock source" ELSE "select destination",
                                !.method = method, !.path = pair[1], !.found = found,
                                !.submitted = submitted, !.resource = resource]]
              /\ Works(c, [NoWork EXCEPT !.destination = pair[2], !.depth = depth,
                                         !.overwrite = overwrite, !.inside = inside,
                                         !.before = [p \in Path |-> View(entries, props, p)]])
              /\ alone' = [alone EXCEPT ![c] = TRUE]
  /\ UNCHANGED <<entries, props, locks, issued, known>>

LockSource(c) ==
  /\ task[c].pc = "lock source"
  /\ LET lock == Lock(c, task[c].path, TRUE, "shared", TRUE)
     IN  \/ \E t \in Token \cup {NoToken} :
              /\ Permitted(c, lock, t)
              /\ GoTo(c, "select destination") /\ Works(c, [work[c] EXCEPT !.sourceLock = t])
         \/ Denied(c, lock) /\ Answer(c) /\ Works(c, NoWork)
  /\ UNCHANGED <<entries, props>>

\* The collection the destination is a member of has to be there (409).
SelectDestination(c) ==
  /\ task[c].pc = "select destination"
  /\ LET found == Select(entries, work[c].destination)
     IN  /\ GoTo(c, IF found.missing > 1 THEN "dispose source" ELSE "lock destination")
         /\ Works(c, [work[c] EXCEPT !.found = found])
  /\ UNCHANGED <<entries, props, locks, issued>>

\* Seeded bug: the lock on the destination is for the collection alone.
LockDestinationFlat(c) ==
  /\ task[c].pc = "lock destination"
  /\ LET lock == Lock(c, work[c].destination, FALSE, "shared", TRUE)
     IN  \/ \E t \in Token \cup {NoToken} :
              /\ Permitted(c, lock, t)
              /\ task' = [task EXCEPT ![c].pc = "start", ![c].lock = t]
         \/ Denied(c, lock) /\ GoTo(c, "dispose source")
  /\ UNCHANGED <<entries, props, work>>

LockDestination(c) ==
  /\ task[c].pc = "lock destination"
  /\ LET lock == Lock(c, work[c].destination, Moves(c) \/ work[c].depth # 0, "shared", TRUE)
     IN  \/ \E t \in Token \cup {NoToken} :
              /\ Permitted(c, lock, t)
              /\ task' = [task EXCEPT ![c].pc = "start", ![c].lock = t]
         \/ Denied(c, lock) /\ GoTo(c, "dispose source")
  /\ UNCHANGED <<entries, props, work>>

Starts(c, kind) == task[c].pc = "start" /\ entries[task[c].found.entry].kind = kind

\* An exception: the root collection as the destination, or a collection that
\* cannot be created.
Throw(c) ==
  /\ GoTo(c, "dispose destination")
  /\ Works(c, [work[c] EXCEPT !.stack = <<>>, !.results = {}])
  /\ UNCHANGED <<entries, props>>

StartOnRoot(c) ==
  /\ task[c].pc = "start" /\ work[c].found.entry = 1
  /\ Throw(c)
  /\ UNCHANGED <<locks, issued>>

\* A document goes to a document or to nothing, never to a collection.
StartDocument(c) ==
  /\ Starts(c, "document") /\ work[c].found.entry # 1
  /\ LET found == work[c].found
         done  == IF found.result = "FoundCollection"
                  THEN [fs |-> Now, status |-> "OverwriteFailed"]
                  ELSE Execute(c, task[c].found.entry, work[c].destination,
                               found.collection, found.entry)
     IN  Becomes(done.fs) /\ Works(c, [work[c] EXCEPT !.results = Result(done.status, 0)])
  /\ GoTo(c, "dispose destination")
  /\ UNCHANGED <<locks, issued>>

\* A collection goes to a collection or to nothing, never to a document.
StartCollection(c) ==
  /\ Starts(c, "collection") /\ work[c].found.entry # 1
  /\ LET source  == task[c].found.entry
         found   == work[c].found
         listing == Listing(entries, source, work[c].depth)
         frame(target) == Frame(listing, source, target, IsMissing(found),
                                Collected(props[entries[source].path]))
         Enter(target) == /\ Works(c, [work[c] EXCEPT !.listing = listing,
                                                      !.stack = <<frame(target)>>])
                          /\ GoTo(c, "engine")
         Fail(status) == /\ Works(c, [work[c] EXCEPT !.results = Result(status, 0)])
                         /\ GoTo(c, "dispose destination")
     IN  CASE found.result = "FoundDocument" ->
                Fail("OverwriteFailed") /\ UNCHANGED entries
           [] found.result = "FoundCollection" -> Enter(found.entry) /\ UNCHANGED entries
           [] IsMissing(found) /\ CanCreate(entries, work[c].destination, found.collection) ->
                /\ entries' = Create(entries, "collection", work[c].destination,
                                     found.collection, "empty")
                /\ Enter(Len(entries) + 1)
           [] OTHER -> Fail("CreateFailed") /\ UNCHANGED entries
  /\ UNCHANGED <<props, locks, issued>>

AtWork(c) == task[c].pc = "engine"

\* The documents of a collection come first; a collection in the way stays.
EngineDocument(c, e) ==
  /\ AtWork(c) /\ e \in Top(c).documents
  /\ LET top    == Top(c)
         target == TargetOf(top, e)
         done   == IF target # 0 /\ entries[target].kind = "collection"
                   THEN [fs |-> Now, status |-> "OverwriteFailed"]
                   ELSE Execute(c, e, PathIn(top.target, e), top.target, target)
     IN  /\ Becomes(done.fs)
         /\ Works(c, [work[c] EXCEPT
              !.stack = <<[top EXCEPT !.documents = @ \ {e}]>> \o Tail(@),
              !.results = @ \cup Result(done.status, Level(c) + 1)])
  /\ UNCHANGED <<task, locks, issued>>

\* Then the collections in it: the engine goes into one that is there, or that
\* it creates; a document in the way stays; and when the name of one to create
\* was taken, nobody catches the exception.
EngineCollection(c, e) ==
  /\ AtWork(c) /\ Top(c).documents = {} /\ e \in Top(c).collections
  /\ LET top    == Top(c)
         target == TargetOf(top, e)
         p      == PathIn(top.target, e)
         rest   == <<[top EXCEPT !.collections = @ \ {e}]>> \o Tail(work[c].stack)
         Enter(to, created) ==
           Works(c, [work[c] EXCEPT
             !.stack = <<Frame(work[c].listing, e, to, created,
                               top.memberProperties[e])>> \o rest])
     IN  \/ /\ target # 0 /\ entries[target].kind = "document"
            /\ Works(c, [work[c] EXCEPT !.stack = rest,
                 !.results = @ \cup Result("OverwriteFailed", Level(c) + 1)])
            /\ UNCHANGED <<entries, props, task>>
         \/ /\ target # 0 /\ entries[target].kind = "collection"
            /\ Enter(target, FALSE)
            /\ UNCHANGED <<entries, props, task>>
         \/ /\ target = 0 /\ CanCreate(entries, p, top.target)
            /\ entries' = Create(entries, "collection", p, top.target, "empty")
            /\ Enter(Len(entries) + 1, TRUE)
            /\ UNCHANGED <<props, task>>
         \/ /\ target = 0 /\ ~ CanCreate(entries, p, top.target)
            /\ Throw(c)
  /\ UNCHANGED <<locks, issued>>

\* Seeded bug: the properties are read only now, from the path of the source,
\* and MOVE deletes the source before it.
EngineFinishLate(c) ==
  /\ AtWork(c) /\ Top(c).documents = {} /\ Top(c).collections = {}
  /\ LET top    == Top(c)
         fs     == IF Moves(c) /\ top.source # 1 THEN TakeAway(Now, top.source) ELSE Now
     IN  /\ Becomes(SetProperties(fs, entries[top.target].path,
                                   fs.props[entries[top.source].path]))
         /\ Works(c, [work[c] EXCEPT !.stack = Tail(@),
                                     !.results = @ \cup Result("Created", Level(c))])
  /\ IF Level(c) = 0 THEN GoTo(c, "dispose destination") ELSE UNCHANGED task
  /\ UNCHANGED <<locks, issued>>

\* At last the collection gets its properties, and MOVE deletes the source,
\* whatever became of its members; the root collection cannot be deleted.
EngineFinish(c) ==
  /\ AtWork(c) /\ Top(c).documents = {} /\ Top(c).collections = {}
  /\ LET top    == Top(c)
         fs     == SetProperties(Now, entries[top.target].path,
                                 ReadOf(Now, entries[top.source].path, top.properties))
         status == IF Moves(c) /\ top.source = 1 THEN "CleanupFailed" ELSE "Created"
     IN  /\ Becomes(IF Moves(c) /\ top.source # 1 THEN TakeAway(fs, top.source) ELSE fs)
         /\ Works(c, [work[c] EXCEPT !.stack = Tail(@),
                                     !.results = @ \cup Result(status, Level(c))])
  /\ IF Level(c) = 0 THEN GoTo(c, "dispose destination") ELSE UNCHANGED task
  /\ UNCHANGED <<locks, issued>>

\* Seeded bug: the lock is disposed of only when the engine came to a result.
DisposeDestinationOnSuccess(c) ==
  /\ task[c].pc = "dispose destination"
  /\ IF task[c].lock = NoToken \/ work[c].results = {} THEN UNCHANGED locks
     ELSE Released(task[c].lock)
  /\ task' = [task EXCEPT ![c].pc = "dispose source", ![c].lock = NoToken]
  /\ UNCHANGED <<entries, props, issued, work>>

DisposeDestination(c) ==
  /\ task[c].pc = "dispose destination"
  /\ IF task[c].lock = NoToken THEN UNCHANGED locks ELSE Released(task[c].lock)
  /\ task' = [task EXCEPT ![c].pc = "dispose source", ![c].lock = NoToken]
  /\ UNCHANGED <<entries, props, issued, work>>

\* A MOVE that came to a result goes on to release the locks on its source.
DisposeSource(c) ==
  /\ task[c].pc = "dispose source"
  /\ IF work[c].sourceLock = NoToken THEN UNCHANGED locks ELSE Released(work[c].sourceLock)
  /\ IF Moves(c) /\ work[c].results # {} THEN GoTo(c, "affected") ELSE Answer(c)
  /\ Works(c, NoWork)
  /\ UNCHANGED <<entries, props, issued>>

-----------------------------------------------------------------------------

Engine(c) ==
  \/ StartOnRoot(c) \/ StartDocument(c) \/ StartCollection(c)
  \/ \E e \in DOMAIN entries : EngineDocument(c, e) \/ EngineCollection(c, e)
  \/ EngineFinish(c)

Handler(c) ==
  \/ LockSource(c) \/ SelectDestination(c) \/ LockDestination(c)
  \/ DisposeDestination(c) \/ DisposeSource(c)

TransferSent(c) ==
  \E pair \in Transfers[c], overwrite \in Overwrites, inside \in InFileSystem,
     submitted \in known[c] \cup {NoToken} :
    \E resource \in IF submitted = NoToken THEN {Root} ELSE {pair[1], pair[2]} :
      \/ \E depth \in CopyDepths :
           TransferRequest(c, "COPY", pair, depth, overwrite, inside, submitted, resource)
      \/ TransferRequest(c, "MOVE", pair, Infinite, overwrite, inside, submitted, resource)

\* Whoever else is at a COPY or MOVE is not alone when something changes.
Interferes(others) ==
  alone' = [c \in Client |-> alone[c] /\ (c \notin others \/ UNCHANGED <<entries, props>>)]

TransferInit == Init /\ work = [c \in Client |-> NoWork] /\ alone = [c \in Client |-> FALSE]

TransferNext ==
  \/ Next /\ UNCHANGED work /\ Interferes(Client)
  \/ \E c \in Client :
       \/ TransferSent(c) /\ UNCHANGED lost
       \/ /\ Engine(c) \/ Handler(c)
          /\ Interferes(Client \ {c})
          /\ UNCHANGED <<known, left, lost>>

TransferSpec == TransferInit /\ [][TransferNext]_transferVars

-----------------------------------------------------------------------------
(* Properties *)

Apart(c)      == ~ Within(task[c].path, work[c].destination)
                 /\ ~ Within(work[c].destination, task[c].path)
Engaged(c)    == task[c].pc \in {"engine", "dispose destination"}
Source(c)     == {q \in Path : Within(task[c].path, q)}
Image(c, q)   == Moved(q, task[c].path, work[c].destination)
Was(c, p)     == work[c].before[p]
Is(p)         == View(entries, props, p)

\* Flatten: what the answer is made from are the results of the collection and of
\* its members, and not of theirs.
Flattened(c) == {r \in work[c].results : r.level <= 1}

Succeeded(results) ==
  LET statuses == {r.status : r \in results}
  IN  statuses # {} /\ statuses \subseteq {"Created", "Overwritten"}

\* The engine is at corresponding collections: the one it creates or fills has
\* the path its source has below the top, whatever others do to both.
TransferTypeOK ==
  /\ TypeOK
  /\ \A c \in Client : \A i \in 1..Len(work[c].stack) :
       LET frame == work[c].stack[i]
       IN  /\ entries[frame.target].path = Image(c, entries[frame.source].path)
           /\ entries[frame.source].kind = "collection"
           /\ entries[frame.target].kind = "collection"
           /\ i < Len(work[c].stack) =>
                entries[frame.source].parent = work[c].stack[i + 1].source
  /\ \A c \in Client : work[c].stack # <<>> => task[c].pc = "engine"

\* The temporary locks of a COPY or MOVE, up to two, end with it, in whatever
\* way the engine ends; those of other requests may be lost with their client.
TransferLocksEnd ==
  \A t \in Held \ Explicit :
    \/ t \in {task[locks[t].owner].lock, work[locks[t].owner].sourceLock}
    \/ t \in lost

\* The state of a transfer is in order at every moment.
TransferIsTidy == TransferTypeOK /\ TransferLocksEnd

\* A document that MOVE has streamed is deleted with its stored properties before
\* those that are read late are looked for, and they are lost.
LosesProperty(c, was) ==
  Moves(c) /\ ~ work[c].inside /\ was[1] = "document" /\ was[3] \in Late

\* When nobody interferes and every result is a success, each resource of the
\* source down to the depth is at the destination, with its data and, but for what
\* LosesProperty names, its dead property; COPY has left the source as it was, MOVE
\* has left nothing.
TransferIsComplete ==
  \A c \in Client :
    /\ task[c].pc = "dispose destination" /\ alone[c] /\ Apart(c)
    /\ Succeeded(work[c].results)
    => \A q \in Source(c) :
         /\ Was(c, q) # <<>> /\ Len(q) - Len(task[c].path) <= work[c].depth =>
              LET was == Was(c, q) is == Is(Image(c, q))
              IN  /\ is # <<>> /\ is[1] = was[1] /\ is[2] = was[2]
                  /\ was[3] # "none" /\ ~ LosesProperty(c, was) => is[3] = was[3]
         /\ Is(q) = IF Moves(c) THEN <<>> ELSE Was(c, q)

\* With "Overwrite: F" a document at the destination stays what it was, at
\* every level of the tree and at every moment.
OverwriteForbidden ==
  \A c \in Client :
    Engaged(c) /\ alone[c] /\ Apart(c) /\ ~ work[c].overwrite =>
      \A q \in Path :
        Within(work[c].destination, q) /\ Was(c, q) # <<>> /\ Was(c, q)[1] = "document"
        => Is(q) = Was(c, q)

\* The destination of c is not what it was when c looked at it, and c has only
\* locked the resource itself there.
Stale(c) ==
  /\ task[c].lock \in Held /\ ~ locks[task[c].lock].recursive
  /\ Select(entries, work[c].destination).entry # work[c].found.entry

\* The locks that COPY and MOVE take at the beginning cover every resource that
\* they change: what is under the exclusive lock of another client changes only
\* by a request whose own locks were taken away, or that has not noticed what
\* became of its destination.
TransferRespectsLocks ==
  [][\A t \in Explicit, p \in Path :
       /\ locks[t].share = "exclusive"
       /\ p \in Scope(locks[t])
       /\ Changes(p)
       => \E c \in Client :
            /\ By(c) \/ work'[c] # work[c]
            /\ \/ c = locks[t].owner
               \/ ~ Protected(c)
               \/ work[c].sourceLock \notin Held \cup {NoToken}
               \/ Stale(c)]_transferVars

-----------------------------------------------------------------------------
(* What the code says of itself and does not do. *)

\* The answer to a MOVE is made from "all action results for all
\* sub-collections, documents and their child elements": when it tells only
\* successes, then no document is lost.
NothingLostSilently ==
  \A c \in Client :
    /\ task[c].pc = "dispose destination" /\ alone[c] /\ Apart(c)
    /\ Succeeded(Flattened(c))
    => \A q \in Source(c) :
         Was(c, q) # <<>> /\ Was(c, q)[1] = "document" /\ Moves(c) =>
           \E p \in {q, Image(c, q)} : Is(p) # <<>> /\ Is(p)[2] = Was(c, q)[2]
=============================================================================
