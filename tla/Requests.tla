------------------------------ MODULE Requests ------------------------------
(***************************************************************************)
(* The requests that change resources, and how they use locks: the         *)
(* handlers for LOCK, UNLOCK, PUT, MKCOL and DELETE over the in-memory     *)
(* file system.  A handler first selects the entries its path names, then  *)
(* gets a lock, and only then works with what it selected; everything in   *)
(* between may be done by other requests.                                  *)
(*                                                                         *)
(* The lock manager is taken by its contract, one step per call; that      *)
(* these steps keep the contract is the property Contract.  A path has no  *)
(* trailing slash, and no request carries If-Match or If-None-Match.       *)
(***************************************************************************)
EXTENDS FileSystem, LockScope, FiniteSets

CONSTANTS
  Client,       \* the users; each sends one request at a time
  Token,        \* the state tokens
  NoLock,       \* "the lock manager has no lock for this token"
  NoToken,      \* "no token"
  Trees,        \* the entries there may be at first, the root collection first
  Named,        \* Named[c]: the paths c sends requests for
  Methods,      \* Methods[c]: the methods c uses
  Shares,       \* the share modes they lock with
  Depths,       \* TRUE: they lock with Depth infinity; FALSE: with Depth 0
  LocksExpire,  \* the locks of clients may expire
  Cancellation, \* clients may hang up during a request
  Requests      \* Requests[c]: how many requests c sends

\* A tree of entries, each in a collection that is in it, with the root first.
IsTree(tree) ==
  /\ Len(tree) \in Nat \ {0} /\ DOMAIN tree = 1..Len(tree)
  /\ tree[1].path = Root /\ tree[1].kind = "collection"
  /\ \A e \in DOMAIN tree :
       /\ tree[e].path \in Path /\ tree[e].kind \in {"collection", "document"}
       /\ \A d \in DOMAIN tree : tree[d].path = tree[e].path => d = e
       /\ e # 1 => \E d \in DOMAIN tree : /\ tree[d].path = Above[tree[e].path]
                                         /\ tree[d].kind = "collection"

\* Ancestor says which collections a path goes through, the last one being
\* Above; they are finitely many, so in any set of paths one is topmost.
ASSUME RequestsAssumption ==
  /\ Root \in Path /\ Above \in [Path \ {Root} -> Path]
  /\ \A p \in Path \ {Root}, q \in Path :
       <<q, p>> \in Ancestor <=> q = Above[p] \/ <<q, Above[p]>> \in Ancestor
  /\ \A q \in Path : <<q, Root>> \notin Ancestor
  /\ \A ps \in SUBSET Path : ps # {} => \E p \in ps : \A q \in ps : <<q, p>> \notin Ancestor
  /\ \A tree \in Trees : IsTree(tree)
  /\ Shares \subseteq ShareMode /\ Depths \subseteq BOOLEAN
  /\ Named \in [Client -> SUBSET Path]
  /\ NoToken \notin Token
  /\ NoLock \notin [path : Path, recursive : BOOLEAN, share : ShareMode,
                    owner : Client, temporary : BOOLEAN]
  /\ NoLock \notin [path : Path, recursive : BOOLEAN, share : ShareMode,
                    expires : {"any"}, refreshed : BOOLEAN]
  /\ Requests \in [Client -> Nat]

VARIABLES
  locks,     \* the active lock of a token, or NoLock
  issued,    \* the tokens handed out
  task,      \* task[c]: what c's request is doing
  known,     \* known[c]: the tokens c was told and has not unlocked
  left,      \* left[c]: how many requests c will send yet
  lost       \* the temporary locks whose release was cancelled (history)

vars == <<entries, props, locks, issued, task, known, left, lost>>

Held      == {t \in Token : locks[t] # NoLock}
Explicit  == {t \in Held : ~ locks[t].temporary}
Fresh     == CHOOSE t \in Token \ issued : TRUE  \* which GUID is of no matter

-----------------------------------------------------------------------------

Idle == [pc |-> "idle", method |-> "none", path |-> Root,
         submitted |-> NoToken, resource |-> Root,   \* If: <resource> (<submitted>)
         found |-> Nothing, lock |-> NoToken, entry |-> 0, remove |-> {}]

Lock(c, p, recursive, share, temporary) ==
  [path |-> p, recursive |-> recursive, share |-> share,
   owner |-> c, temporary |-> temporary]

TypeOK ==
  /\ IsFileSystem(entries)
  /\ DOMAIN props = Path
  /\ \A t \in Held : locks[t] \in [path : Path, recursive : BOOLEAN, share : ShareMode,
                                   owner : Client, temporary : BOOLEAN]
  /\ issued \subseteq Token
  /\ \A c \in Client : /\ known[c] \subseteq issued
                       /\ task[c].remove \subseteq issued
                       /\ task[c].lock \in issued \cup {NoToken}

Init ==
  /\ \E tree \in Trees :
       /\ entries = Planted(tree)
       /\ props = [p \in Path |->
                     IF \E e \in DOMAIN tree : tree[e].path = p
                     THEN tree[CHOOSE e \in DOMAIN tree : tree[e].path = p].props
                     ELSE "none"]
  /\ locks = [t \in Token |-> NoLock]
  /\ issued = {}
  /\ task = [c \in Client |-> Idle]
  /\ known = [c \in Client |-> {}]
  /\ left = Requests
  /\ lost = {}

-----------------------------------------------------------------------------
(* Steps of every request. *)

Sends(c, method) ==
  /\ task[c].pc = "idle" /\ left[c] > 0 /\ method \in Methods[c]
  /\ left' = [left EXCEPT ![c] = @ - 1]

At(c, method, pc) == task[c].method = method /\ task[c].pc = pc

GoTo(c, pc)  == task' = [task EXCEPT ![c].pc = pc]
Answer(c)    == task' = [task EXCEPT ![c] = Idle]

\* LockAsync: the lock is granted, under a token that is new.
Granted(t, lock) ==
  /\ Token \ issued # {}
  /\ ConflictingLocks(locks, Held, lock) = {}
  /\ t = Fresh
  /\ locks' = [locks EXCEPT ![t] = lock]
  /\ issued' = issued \cup {t}

Refused(lock) == ConflictingLocks(locks, Held, lock) # {} /\ UNCHANGED <<locks, issued>>

Released(t) == locks' = [locks EXCEPT ![t] = NoLock]

\* PUT, MKCOL and DELETE begin alike: they select what the path names, and
\* answer at once when that is not what the method is for (404, 405, 403, 409).
Serves(method, found) ==
  CASE method = "PUT"    -> found.result \in {"FoundDocument", "MissingDocumentOrCollection"}
    [] method = "MKCOL"  -> found.missing = 1
    [] method = "DELETE" -> ~ IsMissing(found)

\* The client may put one token it knows into an If header.
Begin(c, method, p, submitted) ==
  /\ Sends(c, method)
  /\ LET found == Select(entries, p)
     IN  IF Serves(method, found)
         THEN task' = [task EXCEPT ![c] =
                [Idle EXCEPT !.pc = "lock", !.method = method, !.path = p,
                             !.submitted = submitted, !.resource = p,
                             !.found = found]]
         ELSE UNCHANGED task
  /\ UNCHANGED <<entries, props, locks, issued, known>>

\* Seeded bug: a DELETE locks a collection without its members.
RequirementsFlat(c) ==
  LET exclusive == task[c].method = "DELETE"
  IN  Lock(c, task[c].path, FALSE, IF exclusive THEN "exclusive" ELSE "shared", TRUE)

\* lockRequirements of the three handlers.
Requirements(c) ==
  LET exclusive == task[c].method = "DELETE"
  IN  Lock(c, task[c].path,
           exclusive /\ task[c].found.result = "FoundCollection",
           IF exclusive THEN "exclusive" ELSE "shared", TRUE)

\* Seeded bug: a temporary lock is given to everybody, without a conflict check.
LockImplicitUnchecked(c) ==
  /\ task[c].pc = "lock" /\ Token \ issued # {}
  /\ locks' = [locks EXCEPT ![Fresh] = Requirements(c)]
  /\ issued' = issued \cup {Fresh}
  /\ task' = [task EXCEPT ![c].pc = "act", ![c].lock = Fresh]
  /\ UNCHANGED <<entries, props, known, left>>

\* The If header of c has a list for what is to be locked.
Submits(c, lock) ==
  task[c].submitted # NoToken /\ IsBaseOf(task[c].resource, lock.path)

\* LockImplicitAsync gives c the right to go on: without such a list by a
\* temporary lock t of its own, with one by the lock the list names, which has
\* to be on the path or above.
Permitted(c, lock, t) ==
  \/ ~ Submits(c, lock) /\ Granted(t, lock)
  \/ /\ Submits(c, lock) /\ t = NoToken
     /\ task[c].submitted \in GetLocks(Find(locks, Held, lock.path, FALSE, TRUE))
     /\ UNCHANGED <<locks, issued>>

\* ... or it refuses: 423 without a list, 404 with one.
Denied(c, lock) ==
  \/ ~ Submits(c, lock) /\ Refused(lock)
  \/ /\ Submits(c, lock)
     /\ task[c].submitted \notin GetLocks(Find(locks, Held, lock.path, FALSE, TRUE))
     /\ UNCHANGED <<locks, issued>>

LockImplicit(c) ==
  /\ task[c].pc = "lock"
  /\ \/ \E t \in Token \cup {NoToken} :
          /\ Permitted(c, Requirements(c), t)
          /\ task' = [task EXCEPT ![c].pc = "act", ![c].lock = t]
     \/ Denied(c, Requirements(c)) /\ Answer(c)
  /\ UNCHANGED <<entries, props, known, left>>

\* The end of every handler that took a lock: DisposeAsync of the lock, which
\* is nothing for a client's lock and may find a temporary one gone.
Dispose(c) ==
  /\ task[c].pc = "dispose"
  /\ IF task[c].lock = NoToken THEN UNCHANGED locks ELSE Released(task[c].lock)
  /\ Answer(c)
  /\ UNCHANGED <<entries, props, issued, known, left>>

-----------------------------------------------------------------------------
(* LOCK and UNLOCK. *)

LockRequest(c, p, recursive, share) ==
  /\ Sends(c, "LOCK")
  /\ LET lock == Lock(c, p, recursive, share, FALSE)
     IN  \/ \E t \in Token :
              /\ Granted(t, lock)
              /\ task' = [task EXCEPT ![c] =
                   [Idle EXCEPT !.pc = "select", !.method = "LOCK", !.path = p, !.lock = t]]
         \/ Refused(lock) /\ UNCHANGED task
  /\ UNCHANGED <<entries, props, known>>

\* The client is told its token.
Tell(c) == known' = [known EXCEPT ![c] = @ \cup {task[c].lock}]

\* The resource is there (200); it can be created; or its collection is
\* missing (409), which returns past the handler that gives the lock back.
LockSelect(c) ==
  /\ At(c, "LOCK", "select")
  /\ LET found == Select(entries, task[c].path)
     IN  CASE found.missing = 0 -> Answer(c) /\ Tell(c)
           [] found.missing = 1 ->
                task' = [task EXCEPT ![c].pc = "create", ![c].found = found] /\ UNCHANGED known
           [] OTHER -> Answer(c) /\ UNCHANGED known
  /\ UNCHANGED <<entries, props, locks, issued, left>>

LockCreate(c) ==
  /\ At(c, "LOCK", "create")
  /\ LET parent == task[c].found.collection
     IN  \/ /\ CanCreate(entries, task[c].path, parent)
            /\ entries' = Create(entries, "document", task[c].path, parent, "empty")
            /\ Answer(c) /\ Tell(c)
         \/ /\ ~ CanCreate(entries, task[c].path, parent)
            /\ GoTo(c, "dispose")                    \* the catch block releases
            /\ UNCHANGED <<entries, known>>
  /\ UNCHANGED <<props, locks, issued, left>>

\* UNLOCK with the path of the lock; its answer to a client whose lock is gone
\* changes nothing.
Unlock(c, t) ==
  /\ Sends(c, "UNLOCK") /\ t \in known[c]
  /\ Released(t)
  /\ known' = [known EXCEPT ![c] = @ \ {t}]
  /\ UNCHANGED <<entries, props, issued, task>>

\* The clean-up task releases a client's lock; a temporary one is infinite.
Expire(t) ==
  /\ LocksExpire /\ t \in Explicit
  /\ Released(t)
  /\ UNCHANGED <<entries, props, issued, task, known, left>>

-----------------------------------------------------------------------------
(* PUT and MKCOL. *)

\* The document is there, or is created unless its collection is missing too or
\* its name was taken meanwhile; CreateAsync empties it.
Open(c) ==
  /\ At(c, "PUT", "act")
  /\ LET found == task[c].found
         creates == found.missing = 1 /\ CanCreate(entries, task[c].path, found.collection)
         Opened(e) == task' = [task EXCEPT ![c].pc = "write", ![c].entry = e]
     IN  \/ /\ found.result = "FoundDocument"
            /\ entries' = [entries EXCEPT ![found.entry].data = "empty"]
            /\ Opened(found.entry)
         \/ /\ creates
            /\ entries' = Create(entries, "document", task[c].path, found.collection, "empty")
            /\ Opened(Len(entries) + 1)
         \/ /\ IsMissing(found) /\ ~ creates
            /\ GoTo(c, "dispose")
            /\ UNCHANGED entries
  /\ UNCHANGED <<props, locks, issued, known, left>>

\* The body arrives; Dispose of the stream makes it the document's data.
Write(c) ==
  /\ At(c, "PUT", "write")
  /\ entries' = [entries EXCEPT ![task[c].entry].data = c]
  /\ GoTo(c, "properties")
  /\ UNCHANGED <<props, locks, issued, known, left>>

\* The dead properties of a document that was there are removed, the content
\* type is stored if the request has one: under the path, whatever is there.
WriteProperties(c) ==
  /\ At(c, "PUT", "properties")
  /\ LET p == task[c].path
         kept == IF task[c].found.result = "FoundDocument" THEN "none" ELSE props[p]
     IN  \E new \in {c, kept} : props' = [props EXCEPT ![p] = new]
  /\ GoTo(c, "dispose")
  /\ UNCHANGED <<entries, locks, issued, known, left>>

\* Seeded bug: the lock is disposed of only when MKCOL succeeds.
MakeUndisposed(c) ==
  /\ At(c, "MKCOL", "act")
  /\ LET parent == task[c].found.collection
     IN  \/ /\ CanCreate(entries, task[c].path, parent)
            /\ entries' = Create(entries, "collection", task[c].path, parent, "empty")
            /\ GoTo(c, "dispose")
         \/ ~ CanCreate(entries, task[c].path, parent) /\ Answer(c) /\ UNCHANGED entries
  /\ UNCHANGED <<props, locks, issued, known, left>>

Make(c) ==
  /\ At(c, "MKCOL", "act")
  /\ LET parent == task[c].found.collection
     IN  \/ /\ CanCreate(entries, task[c].path, parent)
            /\ entries' = Create(entries, "collection", task[c].path, parent, "empty")
         \/ ~ CanCreate(entries, task[c].path, parent) /\ UNCHANGED entries  \* 403
  /\ GoTo(c, "dispose")
  /\ UNCHANGED <<props, locks, issued, known, left>>

-----------------------------------------------------------------------------
(* DELETE. *)

\* The root collection cannot be deleted (403).  The dead properties of the
\* entry go, those of the members of a collection stay.
Delete(c) ==
  /\ At(c, "DELETE", "act")
  /\ IF task[c].path = Root THEN UNCHANGED <<entries, props>>
     ELSE /\ entries' = Remove(entries, task[c].path, entries[task[c].found.entry].parent)
          /\ props' = [props EXCEPT ![task[c].path] = "none"]
  /\ GoTo(c, "affected")
  /\ UNCHANGED <<locks, issued, known, left>>

\* GetAffectedLocksAsync, whether the resource is gone or not.
FindAffected(c) ==
  /\ task[c].pc = "affected"
  /\ task' = [task EXCEPT ![c].pc = "release",
       ![c].remove = GetLocks(Find(locks, Held, task[c].path, TRUE, FALSE))]
  /\ UNCHANGED <<entries, props, locks, issued, known, left>>

\* The affected locks are released one after the other.
ReleaseAffected(c) ==
  /\ task[c].pc = "release"
  /\ \/ \E t \in task[c].remove :
          /\ Released(t)
          /\ task' = [task EXCEPT ![c].remove = @ \ {t}]
     \/ task[c].remove = {} /\ GoTo(c, "dispose") /\ UNCHANGED locks
  /\ UNCHANGED <<entries, props, issued, known, left>>

-----------------------------------------------------------------------------

\* The client hangs up.  A call that looks at the request's cancellation token
\* throws: reading the body, whose stream is closed with what had arrived, and
\* every transaction of the lock manager, the release of the lock included.
HangUp(c) ==
  /\ Cancellation
  /\ task[c].pc \in {"write", "affected", "release", "dispose"}
  /\ IF task[c].pc = "write"
     THEN entries' = [entries EXCEPT ![task[c].entry].data = "torn"]
     ELSE UNCHANGED entries
  /\ lost' = lost \cup ({task[c].lock} \ {NoToken})
  /\ Answer(c)
  /\ UNCHANGED <<props, locks, issued, known, left>>

Step(c) ==
  \/ LockImplicit(c) \/ Dispose(c) \/ LockSelect(c) \/ LockCreate(c)
  \/ Open(c) \/ Write(c) \/ WriteProperties(c) \/ Make(c)
  \/ Delete(c) \/ FindAffected(c) \/ ReleaseAffected(c)

Sent(c) ==
  \/ \E p \in Named[c], method \in {"PUT", "MKCOL", "DELETE"}, t \in known[c] \cup {NoToken} :
       Begin(c, method, p, t)
  \/ \E p \in Named[c], recursive \in Depths, share \in Shares : LockRequest(c, p, recursive, share)
  \/ \E t \in Token : Unlock(c, t)

Next ==
  \/ /\ \/ \E c \in Client : Sent(c) \/ Step(c)
        \/ \E t \in Token : Expire(t)
     /\ UNCHANGED lost
  \/ \E c \in Client : HangUp(c)

Spec == Init /\ [][Next]_vars

-----------------------------------------------------------------------------
(* Properties *)

\* A temporary lock lasts as long as the request it was taken for: no path
\* through a handler, an error least of all, leaves it behind, where nothing
\* would ever remove it (DisposeAsync in the finally blocks).  The release can
\* only be cancelled, by a client that hangs up.
TemporaryLocksEnd ==
  \A t \in Held \ Explicit : task[locks[t].owner].lock = t \/ t \in lost

\* The state of the requests is in order at every moment.
RequestsAreTidy == TypeOK /\ TemporaryLocksEnd

\* The step is one of c's request.
By(c) == task'[c] # task[c] \/ left'[c] # left[c]

\* The request of c still has the locks it began under, and what it selected
\* is what its path names.
Protected(c) ==
  /\ {task[c].submitted, task[c].lock} \subseteq Held \cup {NoToken}
  /\ task[c].method = "DELETE" => Select(entries, task[c].path).entry = task[c].found.entry

\* What lies under the exclusive lock of a client changes only by that
\* client's requests, be it by a request that began before the lock was there.
\* The locks a request takes at its beginning have to see to that: nothing
\* looks at the locks again.
RespectsLocks ==
  [][\A t \in Explicit, p \in Path :
       /\ locks[t].share = "exclusive"
       /\ p \in Scope(locks[t])
       /\ Changes(p)
       => \E c \in Client : By(c) /\ (c = locks[t].owner \/ ~ Protected(c))]_vars

\* c, whose lock is shared, has been refused to delete the root collection: its
\* request releases the locks on all resources nevertheless, and what it may
\* take so is a shared lock t of another client.
SharesRoot(c, t) ==
  /\ task[c].path = Root
  /\ task[c].submitted \in Held
  /\ {locks[t].share, locks[task[c].submitted].share} = {"shared"}

\* No request of another client takes a lock away, be it a temporary one, from
\* a resource that is still there; DELETE releases the locks it finds only
\* after it removed the resource, unless it is refused to (SharesRoot).
GrantedLocksSurvive ==
  [][\A t \in Held, c \in Client :
       /\ t \notin Held' /\ ~ IsMissing(Select(entries, locks[t].path))
       /\ By(c)
       => c = locks[t].owner \/ ~ Protected(c) \/ SharesRoot(c, t)]_vars

\* The lock manager as the handlers use it keeps its contract.
Manager == INSTANCE LockTable WITH
  Expiration <- {"any"},
  locks <- [t \in Token |->
              IF locks[t] = NoLock THEN NoLock
              ELSE [path |-> locks[t].path, recursive |-> locks[t].recursive,
                    share |-> locks[t].share, expires |-> "any", refreshed |-> FALSE]]
Contract == Manager!Spec
=============================================================================
