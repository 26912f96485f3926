----------------------------- MODULE FileSystem -----------------------------
(***************************************************************************)
(* The in-memory file system and the dead properties of its entries, and   *)
(* how a path is looked up in it (PathTraversalEngine, SelectionResult).   *)
(*                                                                         *)
(* An entry is an object that requests may hold on to after it was removed *)
(* or replaced, so entries are numbered and numbers are never used again;  *)
(* the property store knows entries by their paths only.  Read-only file   *)
(* systems and mount points are left out.                                  *)
(***************************************************************************)
EXTENDS Naturals, Sequences

CONSTANTS
  Root,    \* the path of the root collection
  Above    \* Above[p]: the path of the collection p is a member of

VARIABLES
  entries,   \* the objects of the file system, by number; 1 is the root
  props      \* props[p]: the dead properties the property store has for p

-----------------------------------------------------------------------------
(* What can be done to entries es. *)

\* InMemoryDirectory._children is keyed by name: `members' by path.
Members(es, d, p) == {e \in es[d].members : es[e].path = p}

NewEntry(kind, p, parent, data) ==
  [kind |-> kind, path |-> p, parent |-> parent, members |-> {}, data |-> data]

\* CreateDocument and CreateCollection; the caller saw to it that no entry
\* has the name, for then they throw.
Create(es, kind, p, parent, data) ==
  Append([es EXCEPT ![parent].members = @ \cup {Len(es) + 1}],
         NewEntry(kind, p, parent, data))

CanCreate(es, p, parent) == Members(es, parent, p) = {}

\* Remove takes the entry away that has the name now, whichever it is.
Remove(es, p, parent) ==
  [es EXCEPT ![parent].members = @ \ Members(es, parent, p)]

-----------------------------------------------------------------------------
(* Looking a path up. *)

Found(es, e) ==
  [result |-> IF es[e].kind = "collection" THEN "FoundCollection" ELSE "FoundDocument",
   entry |-> e, missing |-> 0,
   collection |-> IF es[e].kind = "collection" THEN e ELSE es[e].parent]

\* SelectAsync(p): from the root down, one name at a time.
Select(es, path) ==
  LET walk[p \in DOMAIN Above \cup {Root}] ==
        IF p = Root THEN Found(es, 1)
        ELSE LET up == walk[Above[p]]
             IN  CASE up.result = "FoundCollection" ->
                        IF Members(es, up.entry, p) = {}
                        THEN [up EXCEPT !.result = "MissingDocumentOrCollection",
                                        !.entry = 0, !.missing = 1]
                        ELSE Found(es, CHOOSE e \in Members(es, up.entry, p) : TRUE)
                   [] up.result = "FoundDocument" ->  \* a document named as a collection
                        [up EXCEPT !.result = "MissingCollection",
                                   !.entry = 0, !.missing = 2]
                   [] OTHER -> [up EXCEPT !.missing = @ + 1]
  IN  walk[path]

IsMissing(found) == found.missing # 0

Nothing == [result |-> "MissingCollection", entry |-> 0, missing |-> 0, collection |-> 0]

-----------------------------------------------------------------------------

\* What there is to read in an entry.
Content(entry) == IF entry.kind = "document" THEN entry.data ELSE "empty"

\* What clients see at a path: its kind, its content, and the properties.
View(es, ps, p) ==
  LET found == Select(es, p)
  IN  IF IsMissing(found) THEN <<>>
      ELSE <<es[found.entry].kind, Content(es[found.entry]), ps[p]>>
Changes(p) == View(entries, props, p) # View(entries', props', p)

\* The entries a tree lists, and their properties: its records name the path,
\* kind, data and properties of each, the root collection first.
Planted(tree) ==
  [e \in DOMAIN tree |->
     [NewEntry(tree[e].kind, tree[e].path, 0, tree[e].data) EXCEPT
        !.parent = IF e = 1 THEN 0
                   ELSE CHOOSE d \in DOMAIN tree : tree[d].path = Above[tree[e].path],
        !.members = {m \in DOMAIN tree \ {1} : Above[tree[m].path] = tree[e].path}]]

\* A well-formed file system: every member knows its collection, and a name is
\* there once.
IsFileSystem(es) ==
  \A e \in DOMAIN es :
    /\ es[e].kind \in {"collection", "document"}
    /\ es[e].kind = "document" => es[e].members = {}
    /\ \A m, n \in es[e].members :
         /\ es[m].parent = e /\ Above[es[m].path] = es[e].path
         /\ es[m].path = es[n].path => m = n
=============================================================================
