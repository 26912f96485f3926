------------------------------ MODULE IfHeader ------------------------------
(***************************************************************************)
(* Which locks a request may work under: LockManagerBase.LockImplicitAsync *)
(* and FindMatchingIfConditionListAsync with the lists and conditions of   *)
(* the If header (Model/Headers/IfHeaderList.cs, IfHeaderCondition.cs),    *)
(* over the lock table of a moment.  FindMatchingIfConditionListAsync      *)
(* reads the locks in one transaction, so one state is all it sees.        *)
(***************************************************************************)
EXTENDS LockTable, Naturals, Sequences

CONSTANTS
  Headers,      \* the If headers to judge: sequences of lists
  Requested,    \* the paths requests are for
  EntityTagOf,  \* what SelectAsync and GetEntityTagAsync give for a path ...
  Missing       \* ... or there is nothing at that path

ASSUME HeadersAssumption ==
  /\ Requested \subseteq Path
  /\ \A header \in Headers :
        /\ Len(header) \in Nat
        /\ DOMAIN header = 1..Len(header)
        /\ \A i \in DOMAIN header :
             /\ header[i].path \in Path
             /\ \A c \in header[i].conditions :
                  /\ c.kind \in {"token", "tag"} /\ c.not \in BOOLEAN
                  /\ c = [kind |-> c.kind, value |-> c.value, not |-> c.not]

\* IfHeaderCondition: a state token or an entity tag, maybe with a Not.  An
\* IfHeaderList has the path it is about and a set of conditions.
Condition(kind, value, not) == [kind |-> kind, value |-> value, not |-> not]
List(path, conditions) == [path |-> path, conditions |-> conditions]

RequiresEntityTag(list) == \E c \in list.conditions : c.kind = "tag" /\ ~ c.not
RequiresStateToken(list) == \E c \in list.conditions : c.kind = "token" /\ ~ c.not

\* An entity tag nobody looked up matches nothing, with a Not neither.
Matches(c, etag, tokens) ==
  IF c.kind = "tag"
  THEN etag # Missing /\ (etag = c.value <=> ~ c.not)
  ELSE c.value \in tokens <=> ~ c.not

IsMatch(list, etag, tokens) ==
  \A c \in list.conditions : Matches(c, etag, tokens)

-----------------------------------------------------------------------------
(* FindMatchingIfConditionListAsync for a request for the resource p       *)

AffectingLocks(p) ==
  LET status == Find(locks, Held, p, FALSE, TRUE)
  IN  status.parent \cup status.reference

\* Lists about p or a collection above it are looked at.
IsRelevant(list, p) ==
  Compare(list.path, TRUE, p, FALSE) \in {"LeftIsParent", "Reference"}

\* Seeded bug: all locks are taken for affecting ones.
FoundAnywhere(list, p) ==
  IF RequiresStateToken(list)
  THEN GetLocks(Find(locks, Held, list.path, list.path # p, TRUE))
  ELSE {}

FoundLocks(list, p) ==
  IF RequiresStateToken(list)
  THEN GetLocks(Find(locks, AffectingLocks(p), list.path, list.path # p, TRUE))
  ELSE {}

\* The first list about the path of list i: it makes the PathInfo, so its locks
\* are what later lists about that path are judged by, too.
FirstOn(header, i) ==
  CHOOSE j \in DOMAIN header :
    /\ header[j].path = header[i].path
    /\ \A k \in DOMAIN header : header[k].path = header[i].path => j <= k

LockTokens(header, i, p) == FoundLocks(header[FirstOn(header, i)], p)

\* The entity tag is looked up by the first list that needs it.
KnownTag(header, i) ==
  IF \E j \in DOMAIN header : /\ j <= i
                              /\ header[j].path = header[i].path
                              /\ RequiresEntityTag(header[j])
  THEN EntityTagOf[header[i].path]
  ELSE Missing

RelevantLists(header, p) == {i \in DOMAIN header : IsRelevant(header[i], p)}

SuccessfulLists(header, p) ==
  {i \in RelevantLists(header, p) :
     IsMatch(header[i], KnownTag(header, i), LockTokens(header, i, p))}

-----------------------------------------------------------------------------
(* LockImplicitAsync *)

ListsWithToken(header, p) ==
  {i \in SuccessfulLists(header, p) : RequiresStateToken(header[i])}

\* The locks a request works under: those the first successful list names.
UsedLocks(header, p) ==
  LET matched == ListsWithToken(header, p)
      first == {i \in matched : \A k \in matched : i <= k}
  IN  {t \in Token :
         \E i \in first : Condition("token", t, FALSE) \in header[i].conditions}

\* "use" those locks, take a temporary "lock", or "refuse" the request.
LockImplicit(header, p) ==
  LET successful == SuccessfulLists(header, p)
  IN  IF RelevantLists(header, p) = {} THEN "lock"
      ELSE IF \E i \in successful : RequiresStateToken(header[i]) THEN "use"
      ELSE IF successful # {} THEN "lock"
      ELSE "refuse"

-----------------------------------------------------------------------------
(* Properties *)

\* The locks that cover a resource, by scope.
CoveringLocks(p) == {t \in Held : p \in Scope(locks[t])}

\* A request that an If header lets in without a lock of its own works under
\* at least one lock, and only under locks that are held and cover what it
\* asks for: the token of a lock elsewhere in the tree opens nothing
\* (LockImplicitAsync's usedLocks; every handler goes on without locking).
UsedLocksCover ==
  \A header \in Headers, p \in Requested :
    LockImplicit(header, p) = "use" =>
      LET used == UsedLocks(header, p)
      IN  used # {} /\ used \subseteq CoveringLocks(p)

\* Who submits the token of a lock gets in wherever the lock reaches, whether
\* the list is about the resource itself, about the root of the lock or about
\* a collection above, and works under that lock (affectingLocks against the
\* second Find of FindMatchingIfConditionListAsync).
OwnTokenAdmits ==
  \A t \in Held, p \in Requested, q \in Path :
    p \in Scope(locks[t]) /\ IsBaseOf(q, p) =>
      LET header == <<List(q, {Condition("token", t, FALSE)})>>
      IN  /\ LockImplicit(header, p) = "use"
          /\ UsedLocks(header, p) = {t}

\* RFC 4918 section 10.4: a list about a resource holds when each of its
\* conditions agrees with the state of that resource.
Holds(list) ==
  \A c \in list.conditions :
    (IF c.kind = "tag" THEN EntityTagOf[list.path] = c.value
     ELSE c.value \in CoveringLocks(list.path)) <=> ~ c.not

\* A list about the requested resource is successful exactly when it holds,
\* tags, tokens and negations mixed, and whatever other lists come before it.
\* Left out is what the code does not look up: a tag only mentioned with Not,
\* and the locks when the first list about the resource names no token.
ListsAreJudgedRight ==
  \A header \in Headers, p \in Requested : \A i \in DOMAIN header :
    /\ header[i].path = p
    /\ RequiresStateToken(header[FirstOn(header, i)])
    /\ (\E c \in header[i].conditions : c.kind = "tag")
         => KnownTag(header, i) # Missing
    => (i \in SuccessfulLists(header, p) <=> Holds(header[i]))

\* The If header, all in all.
IfHeaderIsHonoured == UsedLocksCover /\ OwnTokenAdmits /\ ListsAreJudgedRight
=============================================================================
