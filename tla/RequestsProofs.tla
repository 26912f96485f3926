--------------------------- MODULE RequestsProofs ---------------------------
(***************************************************************************)
(* The requests that change resources keep the file system in order, use   *)
(* the lock manager as LockTable allows, leave no temporary lock behind    *)
(* and respect the locks of others: for every tree of resources and every  *)
(* number of clients, requests, tokens and hang-ups.                       *)
(***************************************************************************)
EXTENDS Requests, TLAPS

-----------------------------------------------------------------------------
(* The invariant. *)

Data == {"empty", "torn"} \cup Client
          \cup UNION {{tree[e].data : e \in DOMAIN tree} : tree \in Trees}

Entry == [kind : {"collection", "document"}, path : Path, parent : Nat,
          members : SUBSET Nat, data : Data]

\* Every object, also one that was removed, stays below the collection it was
\* made in.
FileSystemInv(es) ==
  /\ es \in Seq(Entry) /\ 1 \in DOMAIN es
  /\ es[1].kind = "collection" /\ es[1].path = Root
  /\ \A e \in DOMAIN es :
       /\ es[e].members \subseteq DOMAIN es \ {1}
       /\ e # 1 => /\ es[e].path # Root /\ es[e].parent \in DOMAIN es
                   /\ es[es[e].parent].kind = "collection"
                   /\ es[es[e].parent].path = Above[es[e].path]
  /\ IsFileSystem(es)

Selection == [result : {"FoundCollection", "FoundDocument",
                        "MissingDocumentOrCollection", "MissingCollection"},
              entry : Nat, missing : Nat, collection : Nat]

\* What was selected for p once is an object with that path, or there is none.
Fits(es, found, p) ==
  /\ found \in Selection
  /\ found.missing = 0 =>
       /\ found.entry \in DOMAIN es /\ es[found.entry].path = p
       /\ es[found.entry].kind = "collection" =>
            found.result = "FoundCollection" /\ found.collection = found.entry
       /\ es[found.entry].kind = "document" =>
            found.result = "FoundDocument" /\ found.collection = es[found.entry].parent
  /\ found.missing # 0 =>
       /\ found.result \in {"MissingDocumentOrCollection", "MissingCollection"}
       /\ found.entry = 0 /\ p # Root
  /\ found.missing = 1 =>
       /\ found.collection \in DOMAIN es
       /\ es[found.collection].kind = "collection" /\ es[found.collection].path = Above[p]

Tokens == Token \cup {NoToken}

Stage == {"idle", "lock", "act", "write", "properties", "affected", "release",
          "dispose", "select", "create", "lock source", "select destination",
          "lock destination", "start", "engine", "dispose destination",
          "dispose source"}

Task == [pc : Stage,
         method : {"none", "LOCK", "PUT", "MKCOL", "DELETE", "COPY", "MOVE"},
         path : Path, submitted : Tokens, resource : Path, found : Selection,
         lock : Tokens, entry : Nat, remove : SUBSET Token]

ActiveLock == [path : Path, recursive : BOOLEAN, share : ShareMode,
               owner : Client, temporary : BOOLEAN]

Writing == {"PUT", "MKCOL", "DELETE"}
Begun   == {"act", "write", "properties", "affected", "release", "dispose"}

\* What is in the variables.
StateInv ==
  /\ FileSystemInv(entries)
  /\ DOMAIN props = Path
  /\ locks \in [Token -> ActiveLock \cup {NoLock}]
  /\ issued \subseteq Token /\ Held \subseteq issued
  /\ known \in [Client -> SUBSET issued]
  /\ task \in [Client -> Task]
  /\ left \in [Client -> Nat]

\* What c's request goes by: an object once selected, one it has opened, and
\* one it has removed, which nobody can put back.
SelectionInv(c) ==
  LET t == task[c] IN
  /\ t.method \in Writing /\ t.pc # "idle" =>
       /\ Fits(entries, t.found, t.path)
       /\ Serves(t.method, t.found)
       /\ t.pc \in {"lock"} \cup Begun
  /\ t.pc = "create" => Fits(entries, t.found, t.path) /\ t.found.missing = 1
  /\ t.pc = "write" => /\ t.entry \in DOMAIN entries /\ entries[t.entry].path = t.path
                       /\ entries[t.entry].kind = "document"
  /\ t.method = "DELETE" /\ t.pc \in {"affected", "release", "dispose"} /\ t.path # Root =>
       t.found.entry \notin entries[entries[t.found.entry].parent].members

\* Whose the locks are that c has to do with.
OwnInv(c) ==
  LET t == task[c] IN
  /\ {t.submitted, t.lock} \subseteq issued \cup {NoToken}
  /\ t.remove \subseteq issued
  /\ \A u \in Held : u \in known[c] \cup {t.submitted} =>
       locks[u].owner = c /\ ~ locks[u].temporary
  /\ t.lock \in Held => locks[t.lock].owner = c
  /\ t.pc = "idle" => t = Idle

\* The locks c's request goes by: what it asked for, or the one it submitted.
PowerInv(c) ==
  LET t == task[c] IN
  /\ t.pc = "lock" => t.lock = NoToken
  /\ t.pc \in Begun /\ t.method \in Writing =>
       IF t.lock # NoToken THEN t.lock \in Held => locks[t.lock] = Requirements(c)
       ELSE /\ t.submitted # NoToken
            /\ t.submitted \in Held => t.path \in Scope(locks[t.submitted])
  /\ t.method = "LOCK" /\ t.pc # "idle" =>
       /\ t.pc \in {"select", "create", "dispose"} /\ t.lock # NoToken
       /\ t.lock \in Held => locks[t.lock].path = t.path /\ ~ locks[t.lock].temporary
  /\ \A u \in t.remove \cap Held : IsBaseOf(t.path, locks[u].path)

ExplicitInv ==
  \A t \in Explicit : locks[t].recursive \in Depths /\ locks[t].share \in Shares

Inv ==
  /\ StateInv
  /\ \A c \in Client : SelectionInv(c) /\ OwnInv(c) /\ PowerInv(c)
  /\ ExplicitInv
  /\ TemporaryLocksEnd

-----------------------------------------------------------------------------
(* What Select computes.  Its function is defined by recursion along the    *)
(* path; that there is such a function has to be shown.                     *)

\* One name further: `up' is what the path above p came to.
OneDown(es, up, p) ==
  CASE up.result = "FoundCollection" ->
         IF Members(es, up.entry, p) = {}
         THEN [up EXCEPT !.result = "MissingDocumentOrCollection",
                         !.entry = 0, !.missing = 1]
         ELSE Found(es, CHOOSE e \in Members(es, up.entry, p) : TRUE)
    [] up.result = "FoundDocument" ->
         [up EXCEPT !.result = "MissingCollection", !.entry = 0, !.missing = 2]
    [] OTHER -> [up EXCEPT !.missing = @ + 1]

WalkAt(es, w, p) == IF p = Root THEN Found(es, 1) ELSE OneDown(es, w[Above[p]], p)

Walk(es) == CHOOSE w : w = [p \in DOMAIN Above \cup {Root} |-> WalkAt(es, w, p)]

LEMMA SelectIsWalk ==
  ASSUME NEW es, NEW p
  PROVE  Select(es, p) = Walk(es)[p]
BY DEF Select, Walk, WalkAt, OneDown

LEMMA AboveIsAncestor ==
  ASSUME NEW p \in Path \ {Root}
  PROVE  /\ Above[p] \in Path /\ <<Above[p], p>> \in Ancestor
         /\ Above[p] # p
BY RequestsAssumption, AncestorIsForest

LEMMA Topmost ==
  ASSUME NEW ps, ps \subseteq Path, ps # {}
  PROVE  \E p \in ps : \A q \in ps : <<q, p>> \notin Ancestor
BY RequestsAssumption

UpTo(p) == {q \in Path : q = p \/ <<q, p>> \in Ancestor}

LEMMA UpToIsClosed ==
  ASSUME NEW p \in Path, NEW q \in UpTo(p), q # Root
  PROVE  /\ Above[q] \in UpTo(p) /\ Above[q] # p
         /\ q # p => UpTo(q) \subseteq UpTo(p)
<1>1. q \in Path /\ Above[q] \in Path /\ <<Above[q], q>> \in Ancestor
  BY AboveIsAncestor DEF UpTo
<1> QED  BY <1>1, AncestorIsForest DEF UpTo

\* The walk along one path only.
WalkTo(es, w, p) == w = [q \in UpTo(p) |-> WalkAt(es, w, q)]

LEMMA WalksAgree ==
  ASSUME NEW es, NEW p \in Path, NEW q \in Path, NEW v, NEW w,
         WalkTo(es, v, p), WalkTo(es, w, q)
  PROVE  \A r \in UpTo(p) \cap UpTo(q) : v[r] = w[r]
<1> DEFINE bad == {r \in UpTo(p) \cap UpTo(q) : v[r] # w[r]}
<1> SUFFICES ASSUME bad # {}  PROVE FALSE
  OBVIOUS
<1>1. PICK r \in bad : \A s \in bad : <<s, r>> \notin Ancestor
  BY Topmost DEF UpTo
<1>2. /\ r \in UpTo(p) /\ r \in UpTo(q) /\ v[r] # w[r]
      /\ v[r] = WalkAt(es, v, r) /\ w[r] = WalkAt(es, w, r)
  BY <1>1 DEF WalkTo
<1>3. r # Root
  BY <1>2 DEF WalkAt
<1>4. Above[r] \in UpTo(p) \cap UpTo(q) /\ <<Above[r], r>> \in Ancestor
  BY <1>2, <1>3, UpToIsClosed, AboveIsAncestor DEF UpTo
<1>5. v[Above[r]] = w[Above[r]]
  BY <1>1, <1>4
<1> QED  BY <1>2, <1>3, <1>5 DEF WalkAt

LEMMA WalkToExists ==
  ASSUME NEW es
  PROVE  \A p \in Path : \E w : WalkTo(es, w, p)
<1> DEFINE bad == {p \in Path : ~ \E w : WalkTo(es, w, p)}
<1> SUFFICES ASSUME bad # {}  PROVE FALSE
  OBVIOUS
<1>1. PICK p \in bad : \A q \in bad : <<q, p>> \notin Ancestor
  BY Topmost
<1> DEFINE to[q \in UpTo(p) \ {p}] == CHOOSE w : WalkTo(es, w, q)
           at(q) == to[q][q]
           new   == IF p = Root THEN Found(es, 1) ELSE OneDown(es, at(Above[p]), p)
           walk  == [q \in UpTo(p) |-> IF q = p THEN new ELSE at(q)]
<1>2. p \in UpTo(p)
  BY DEF UpTo
<1>3. \A q \in UpTo(p) \ {p} : WalkTo(es, to[q], q)
  <2> SUFFICES ASSUME NEW q \in UpTo(p) \ {p}  PROVE WalkTo(es, to[q], q)
    OBVIOUS
  <2>1. \E w : WalkTo(es, w, q)
    BY <1>1 DEF UpTo
  <2> QED  BY <2>1
<1> HIDE DEF to
<1>4. \A q \in UpTo(p) : walk[q] = WalkAt(es, walk, q)
  <2> SUFFICES ASSUME NEW q \in UpTo(p)  PROVE walk[q] = WalkAt(es, walk, q)
    OBVIOUS
  <2>1. CASE q = Root
    <3>1. CASE q = p
      BY <2>1, <3>1 DEF WalkAt
    <3>2. CASE q # p
      <4>1. to[q][q] = WalkAt(es, to[q], q)
        BY <1>3, <3>2 DEF WalkTo, UpTo
      <4> QED  BY <2>1, <3>2, <4>1 DEF WalkAt
    <3> QED  BY <3>1, <3>2
  <2>2. CASE q # Root
    <3>1. Above[q] \in UpTo(p) \ {p}
      BY <2>2, UpToIsClosed
    <3>2. walk[Above[q]] = at(Above[q])
      BY <3>1
    <3>3. CASE q = p
      BY <2>2, <3>2, <3>3 DEF WalkAt
    <3>4. CASE q # p
      <4>1. WalkTo(es, to[q], q) /\ WalkTo(es, to[Above[q]], Above[q])
        BY <1>3, <3>1, <3>4
      <4>2. q \in Path /\ Above[q] \in Path /\ q \in UpTo(q) /\ Above[q] \in UpTo(Above[q])
            /\ Above[q] \in UpTo(q)
        BY <2>2, AboveIsAncestor DEF UpTo
      <4>3. to[q][Above[q]] = to[Above[q]][Above[q]]
        BY <4>1, <4>2, WalksAgree
      <4>4. to[q][q] = WalkAt(es, to[q], q)
        BY <4>1, <4>2 DEF WalkTo
      <4> QED  BY <2>2, <3>2, <3>4, <4>3, <4>4 DEF WalkAt
    <3> QED  BY <3>3, <3>4
  <2> QED  BY <2>1, <2>2
<1>5. WalkTo(es, walk, p)
  BY <1>4 DEF WalkTo
<1> HIDE DEF walk
<1> QED  BY <1>1, <1>5

LEMMA WalkIsDefined ==
  ASSUME NEW es
  PROVE  \A p \in Path : Walk(es)[p] = WalkAt(es, Walk(es), p)
<1> DEFINE to[p \in Path] == CHOOSE w : WalkTo(es, w, p)
           walk == [p \in DOMAIN Above \cup {Root} |-> to[p][p]]
<1>1. DOMAIN Above \cup {Root} = Path
  <2>1. Root \in Path /\ DOMAIN Above = Path \ {Root}
    BY RequestsAssumption
  <2> QED  BY <2>1
<1>2. \A p \in Path : WalkTo(es, to[p], p)
  BY WalkToExists
<1> HIDE DEF to
<1>3. \A p \in Path : walk[p] = WalkAt(es, walk, p)
  <2> SUFFICES ASSUME NEW p \in Path  PROVE walk[p] = WalkAt(es, walk, p)
    OBVIOUS
  <2>1. p \in UpTo(p) /\ to[p][p] = WalkAt(es, to[p], p)
    BY <1>2 DEF WalkTo, UpTo
  <2>2. CASE p = Root
    BY <1>1, <2>1, <2>2 DEF WalkAt
  <2>3. CASE p # Root
    <3>1. Above[p] \in Path /\ Above[p] \in UpTo(p) /\ Above[p] \in UpTo(Above[p])
      BY <2>3, AboveIsAncestor DEF UpTo
    <3>2. to[p][Above[p]] = to[Above[p]][Above[p]]
      BY <1>2, <3>1, WalksAgree
    <3> QED  BY <1>1, <2>1, <2>3, <3>1, <3>2 DEF WalkAt
  <2> QED  BY <2>2, <2>3
<1>4. walk = [p \in DOMAIN Above \cup {Root} |-> WalkAt(es, walk, p)]
  BY <1>1, <1>3
<1> HIDE DEF walk
<1>5. Walk(es) = [p \in DOMAIN Above \cup {Root} |-> WalkAt(es, Walk(es), p)]
  BY <1>4 DEF Walk
<1> QED  BY <1>1, <1>5

\* Select goes down name by name.
LEMMA SelectDown ==
  ASSUME NEW es
  PROVE  /\ Select(es, Root) = Found(es, 1)
         /\ \A p \in Path \ {Root} : Select(es, p) = OneDown(es, Select(es, Above[p]), p)
BY WalkIsDefined, SelectIsWalk, RequestsAssumption DEF WalkAt

-----------------------------------------------------------------------------
(* The file system.                                                         *)

LEMMA SelectFits ==
  ASSUME NEW es, FileSystemInv(es), NEW p \in Path
  PROVE  Fits(es, Select(es, p), p)
<1> DEFINE bad == {q \in Path : ~ Fits(es, Select(es, q), q)}
<1> SUFFICES ASSUME bad # {}  PROVE FALSE
  OBVIOUS
<1>1. PICK q \in bad : \A r \in bad : <<r, q>> \notin Ancestor
  BY Topmost
<1>0. /\ es \in Seq(Entry) /\ 1 \in DOMAIN es
      /\ \A e \in DOMAIN es : /\ es[e] \in Entry /\ e \in Nat
                              /\ es[e].kind \in {"collection", "document"}
                              /\ es[e].members \subseteq DOMAIN es
      /\ es[1].kind = "collection" /\ es[1].path = Root
  <2>1. es \in Seq(Entry) /\ \A e \in DOMAIN es : es[e] \in Entry /\ e \in Nat
    BY DEF FileSystemInv
  <2>2. \A e \in DOMAIN es : es[e].members \subseteq DOMAIN es
    BY DEF FileSystemInv
  <2>3. \A e \in DOMAIN es : es[e].kind \in {"collection", "document"}
    BY <2>1 DEF Entry
  <2> QED  BY <2>1, <2>2, <2>3 DEF FileSystemInv
<1>q. q \in Path
  OBVIOUS
<1>f. ASSUME NEW e \in DOMAIN es, es[e].path = q
      PROVE  Fits(es, Found(es, e), q)
  BY <1>0, <1>f DEF Found, Fits, Entry, Selection
<1>2. CASE q = Root
  BY <1>0, <1>f, <1>2, SelectDown DEF Fits
<1>3. CASE q # Root
  <2> DEFINE up == Select(es, Above[q])
  <2>1. Above[q] \in Path /\ Fits(es, up, Above[q]) /\ Select(es, q) = OneDown(es, up, q)
    BY <1>1, <1>3, AboveIsAncestor, SelectDown
  <2> HIDE DEF up
  <2>2. up \in Selection
    BY <2>1 DEF Fits
  <2>3. CASE up.result = "FoundCollection"
    <3>1. /\ up.missing = 0 /\ up.entry \in DOMAIN es /\ es[up.entry].path = Above[q]
          /\ es[up.entry].kind = "collection" /\ up.collection = up.entry
      BY <1>0, <2>1, <2>3 DEF Fits
    <3>2. CASE Members(es, up.entry, q) = {}
      <4> DEFINE n == [up EXCEPT !.result = "MissingDocumentOrCollection",
                                 !.entry = 0, !.missing = 1]
      <4>1. OneDown(es, up, q) = n
        BY <2>3, <3>2 DEF OneDown
      <4>2. n.result = "MissingDocumentOrCollection" /\ n.entry = 0 /\ n.missing = 1
            /\ n.collection = up.entry /\ n \in Selection
        BY <1>0, <2>2, <3>1 DEF Selection
      <4> HIDE DEF n
      <4>3. Fits(es, n, q)
        BY <1>3, <3>1, <4>2 DEF Fits
      <4> QED  BY <2>1, <4>1, <4>3
    <3>3. CASE Members(es, up.entry, q) # {}
      <4>1. PICK e \in Members(es, up.entry, q) : OneDown(es, up, q) = Found(es, e)
        BY <2>3, <3>3 DEF OneDown
      <4>2. e \in DOMAIN es /\ es[e].path = q
        BY <1>0, <3>1, <4>1 DEF Members
      <4> QED  BY <1>1, <1>f, <2>1, <4>1, <4>2
    <3> QED  BY <3>2, <3>3
  <2>4. CASE up.result = "FoundDocument"
    <3> DEFINE n == [up EXCEPT !.result = "MissingCollection", !.entry = 0, !.missing = 2]
    <3>1. OneDown(es, up, q) = n
      BY <2>4 DEF OneDown
    <3>2. n.result = "MissingCollection" /\ n.entry = 0 /\ n.missing = 2 /\ n \in Selection
      BY <2>2 DEF Selection
    <3> HIDE DEF n
    <3>3. Fits(es, n, q)
      BY <1>3, <3>2 DEF Fits
    <3> QED  BY <2>1, <3>1, <3>3
  <2>5. CASE up.result \notin {"FoundCollection", "FoundDocument"}
    <3> DEFINE n == [up EXCEPT !.missing = @ + 1]
    <3>1. OneDown(es, up, q) = n
      BY <2>5 DEF OneDown
    <3>2. up.missing # 0
      BY <1>0, <2>1, <2>5 DEF Fits
    <3>3. n.result = up.result /\ n.entry = 0 /\ n.missing = up.missing + 1 /\ n \in Selection
      BY <2>1, <2>2, <3>2 DEF Selection, Fits
    <3>4. up.missing \in Nat /\ n.missing # 0 /\ n.missing # 1
      BY <2>2, <3>2, <3>3 DEF Selection
    <3> HIDE DEF n
    <3>5. n.result \in {"MissingDocumentOrCollection", "MissingCollection"}
      BY <2>2, <2>5, <3>3 DEF Selection
    <3>6. Fits(es, n, q)
      BY <1>3, <3>3, <3>4, <3>5 DEF Fits
    <3> QED  BY <2>1, <3>1, <3>6
  <2> QED  BY <2>3, <2>4, <2>5
<1> QED  BY <1>2, <1>3

\* What an operation may do to the objects there were: kind, path and
\* collection stay, and an object that was taken away is not put back.
Evolves(es, fs) ==
  \A e \in DOMAIN es :
    /\ e \in DOMAIN fs
    /\ fs[e].kind = es[e].kind /\ fs[e].path = es[e].path /\ fs[e].parent = es[e].parent
    /\ fs[e].members \cap DOMAIN es \subseteq es[e].members

LEMMA FitsEvolves ==
  ASSUME NEW es, NEW fs, Evolves(es, fs), NEW found, NEW p, Fits(es, found, p)
  PROVE  Fits(fs, found, p)
BY DEF Evolves, Fits

\* The entries with other members or other data.
LEMMA FileSystemShrinks ==
  ASSUME NEW es, FileSystemInv(es), NEW fs, fs \in Seq(Entry), DOMAIN fs = DOMAIN es,
         \A e \in DOMAIN es : /\ fs[e].kind = es[e].kind /\ fs[e].path = es[e].path
                              /\ fs[e].parent = es[e].parent
                              /\ fs[e].members \subseteq es[e].members
  PROVE  FileSystemInv(fs) /\ Evolves(es, fs)
<1>1. Evolves(es, fs)
  BY DEF Evolves
<1>2. \A e \in DOMAIN es : fs[e].members \subseteq DOMAIN es
  BY DEF FileSystemInv
<1>3. IsFileSystem(fs)
  BY <1>2 DEF FileSystemInv, IsFileSystem
<1> QED  BY <1>1, <1>3 DEF FileSystemInv

\* fs is es without the member of d that has the name p.
Shrunk(es, fs, p, d) ==
  /\ DOMAIN fs = DOMAIN es
  /\ \A e \in DOMAIN es : /\ fs[e].data = es[e].data
                          /\ fs[e].members = IF e = d THEN es[e].members \ Members(es, d, p)
                                             ELSE es[e].members

LEMMA RemoveKeeps ==
  ASSUME NEW es, FileSystemInv(es), NEW p, NEW d \in DOMAIN es,
         NEW fs, fs = Remove(es, p, d)
  PROVE  FileSystemInv(fs) /\ Evolves(es, fs) /\ Shrunk(es, fs, p, d)
<1> DEFINE new == [es[d] EXCEPT !.members = @ \ Members(es, d, p)]
<1>1. es \in Seq(Entry) /\ \A e \in DOMAIN es : es[e] \in Entry
  BY DEF FileSystemInv
<1>2. /\ new.kind = es[d].kind /\ new.path = es[d].path /\ new.parent = es[d].parent
      /\ new.data = es[d].data
      /\ new.members = es[d].members \ Members(es, d, p) /\ new \in Entry
  BY <1>1 DEF Entry
<1>3. DOMAIN fs = DOMAIN es /\ \A e \in DOMAIN es : fs[e] = IF e = d THEN new ELSE es[e]
  BY DEF Remove
<1> HIDE DEF new
<1>4. fs \in Seq(Entry)
  <2>1. fs = [es EXCEPT ![d] = new]
    BY DEF Remove, new
  <2> QED  BY <1>1, <1>2, <2>1
<1>5. FileSystemInv(fs) /\ Evolves(es, fs)
  BY <1>2, <1>3, <1>4, FileSystemShrinks
<1>6. Shrunk(es, fs, p, d)
  BY <1>2, <1>3 DEF Shrunk
<1> QED  BY <1>5, <1>6

\* fs is es but for the data of d.
Stored(es, fs, d) ==
  \A e \in DOMAIN es : /\ fs[e].members = es[e].members
                       /\ e # d => fs[e].data = es[e].data

LEMMA PutKeeps ==
  ASSUME NEW es, FileSystemInv(es), NEW d \in DOMAIN es, NEW data \in Data,
         NEW fs, fs = [es EXCEPT ![d].data = data]
  PROVE  FileSystemInv(fs) /\ Evolves(es, fs) /\ Stored(es, fs, d)
<1> DEFINE new == [es[d] EXCEPT !.data = data]
<1>1. es \in Seq(Entry) /\ \A e \in DOMAIN es : es[e] \in Entry
  BY DEF FileSystemInv
<1>2. /\ new.kind = es[d].kind /\ new.path = es[d].path /\ new.parent = es[d].parent
      /\ new.members = es[d].members /\ new \in Entry
  BY <1>1 DEF Entry
<1>3. DOMAIN fs = DOMAIN es /\ \A e \in DOMAIN es : fs[e] = IF e = d THEN new ELSE es[e]
  OBVIOUS
<1>4. fs = [es EXCEPT ![d] = new]
  OBVIOUS
<1> HIDE DEF new
<1>5. fs \in Seq(Entry)
  BY <1>1, <1>2, <1>4
<1>6. FileSystemInv(fs) /\ Evolves(es, fs)
  BY <1>2, <1>3, <1>5, FileSystemShrinks
<1>7. Stored(es, fs, d)
  BY <1>2, <1>3 DEF Stored
<1> QED  BY <1>6, <1>7

\* fs is es with one more entry, in the collection d.
Grown(es, fs, kind, p, d, data) ==
  /\ Len(es) \in Nat /\ Len(es) + 1 \notin DOMAIN es
  /\ DOMAIN fs = DOMAIN es \cup {Len(es) + 1}
  /\ fs[Len(es) + 1] = NewEntry(kind, p, d, data)
  /\ \A e \in DOMAIN es : /\ fs[e].data = es[e].data
                          /\ fs[e].members = IF e = d THEN es[e].members \cup {Len(es) + 1}
                                             ELSE es[e].members

LEMMA CreateKeeps ==
  ASSUME NEW es, FileSystemInv(es), NEW kind \in {"collection", "document"},
         NEW p \in Path \ {Root}, NEW d \in DOMAIN es, es[d].kind = "collection",
         es[d].path = Above[p], CanCreate(es, p, d), NEW data \in Data,
         NEW fs, fs = Create(es, kind, p, d, data)
  PROVE  FileSystemInv(fs) /\ Evolves(es, fs) /\ Grown(es, fs, kind, p, d, data)
<1> DEFINE n == Len(es) + 1
           old == [es[d] EXCEPT !.members = @ \cup {n}]
           new == NewEntry(kind, p, d, data)
           mid == [es EXCEPT ![d] = old]
<1>1. /\ es \in Seq(Entry) /\ \A e \in DOMAIN es : es[e] \in Entry
      /\ Len(es) \in Nat /\ DOMAIN es = 1..Len(es) /\ n \in Nat /\ n \notin DOMAIN es
      /\ d \in Nat
  BY DEF FileSystemInv
<1>2. /\ old.kind = es[d].kind /\ old.path = es[d].path /\ old.parent = es[d].parent
      /\ old.data = es[d].data
      /\ old.members = es[d].members \cup {n} /\ old \in Entry
  BY <1>1 DEF Entry
<1>3. /\ new.kind = kind /\ new.path = p /\ new.parent = d /\ new.members = {} /\ new.data = data
      /\ new \in Entry
  BY <1>1 DEF Entry, NewEntry
<1>4. fs = Append(mid, new)
  BY DEF Create
<1> HIDE DEF old, new
<1>5. mid \in Seq(Entry) /\ DOMAIN mid = DOMAIN es /\ Len(mid) = Len(es)
      /\ \A e \in DOMAIN es : mid[e] = IF e = d THEN old ELSE es[e]
  BY <1>1, <1>2
<1> HIDE DEF mid
<1>6. /\ fs \in Seq(Entry) /\ DOMAIN fs = DOMAIN es \cup {n}
      /\ fs[n] = new /\ \A e \in DOMAIN es : fs[e] = IF e = d THEN old ELSE es[e]
  <2>1. fs \in Seq(Entry) /\ Len(fs) = n
    BY <1>3, <1>4, <1>5
  <2>2. DOMAIN fs = DOMAIN es \cup {n}
    BY <1>1, <2>1
  <2>3. fs[n] = new /\ \A e \in 1..Len(mid) : fs[e] = mid[e]
    <3>1. LET ap == Append(mid, new)
          IN  ap[Len(mid) + 1] = new /\ \A e \in 1..Len(mid) : ap[e] = mid[e]
      BY <1>3, <1>5
    <3>2. Len(mid) + 1 = n
      BY <1>5
    <3> QED  BY <1>4, <3>1, <3>2
  <2> QED  BY <1>1, <1>5, <2>1, <2>2, <2>3
<1> HIDE DEF n
<1>7. \A e \in DOMAIN es :
        /\ fs[e].kind = es[e].kind /\ fs[e].path = es[e].path /\ fs[e].parent = es[e].parent
        /\ fs[e].data = es[e].data
        /\ fs[e].members = IF e = d THEN es[e].members \cup {n} ELSE es[e].members
  BY <1>2, <1>6
<1>8. Evolves(es, fs)
  <2>1. \A e \in DOMAIN es : fs[e].members \cap DOMAIN es \subseteq es[e].members
    <3> SUFFICES ASSUME NEW e \in DOMAIN es, NEW m \in fs[e].members \cap DOMAIN es
                 PROVE  m \in es[e].members
      OBVIOUS
    <3>1. m # n
      BY <1>1
    <3>2. m \in es[e].members \cup {n}
      BY <1>7
    <3> QED  BY <3>1, <3>2
  <2>2. DOMAIN es \subseteq DOMAIN fs
    BY <1>6
  <2> QED  BY <1>7, <2>1, <2>2 DEF Evolves
<1>9. /\ 1 \in DOMAIN es /\ es[1].kind = "collection" /\ es[1].path = Root
      /\ IsFileSystem(es)
      /\ \A e \in DOMAIN es :
           /\ es[e].members \subseteq DOMAIN es \ {1}
           /\ e # 1 => /\ es[e].path # Root /\ es[e].parent \in DOMAIN es
                       /\ es[es[e].parent].kind = "collection"
                       /\ es[es[e].parent].path = Above[es[e].path]
  BY DEF FileSystemInv
<1>10. n # 1
  BY <1>1, <1>9
<1>11. \A e \in DOMAIN fs :
       /\ fs[e].members \subseteq DOMAIN fs \ {1}
       /\ e # 1 => /\ fs[e].path # Root /\ fs[e].parent \in DOMAIN fs
                   /\ fs[fs[e].parent].kind = "collection"
                   /\ fs[fs[e].parent].path = Above[fs[e].path]
  <2>1. ASSUME NEW e \in DOMAIN es
        PROVE  /\ fs[e].members \subseteq DOMAIN fs \ {1}
               /\ e # 1 => /\ fs[e].path # Root /\ fs[e].parent \in DOMAIN fs
                           /\ fs[fs[e].parent].kind = "collection"
                           /\ fs[fs[e].parent].path = Above[fs[e].path]
    <3>1. es[e].members \subseteq DOMAIN es \ {1}
      BY <1>9
    <3>2. fs[e].members \subseteq es[e].members \cup {n}
      BY <1>7
    <3>3. e # 1 => /\ es[e].path # Root /\ es[e].parent \in DOMAIN es
                   /\ es[es[e].parent].kind = "collection"
                   /\ es[es[e].parent].path = Above[es[e].path]
      BY <1>9
    <3>4. e # 1 => LET d0 == es[e].parent IN
                   /\ fs[e].path = es[e].path /\ fs[e].parent = d0 /\ d0 \in DOMAIN fs
                   /\ fs[d0].kind = es[d0].kind /\ fs[d0].path = es[d0].path
      BY <1>6, <1>7, <3>3
    <3> QED  BY <1>6, <1>10, <3>1, <3>2, <3>3, <3>4
  <2>2. /\ fs[n].members = {} /\ fs[n].path = p /\ fs[n].parent = d
        /\ fs[d].kind = "collection" /\ fs[d].path = Above[p]
    BY <1>3, <1>6, <1>7
  <2> QED  BY <1>6, <2>1, <2>2
<1>12. IsFileSystem(fs)
  <2> SUFFICES ASSUME NEW e \in DOMAIN fs
               PROVE  /\ fs[e].kind \in {"collection", "document"}
                      /\ fs[e].kind = "document" => fs[e].members = {}
                      /\ \A m, k \in fs[e].members :
                           /\ fs[m].parent = e /\ Above[fs[m].path] = fs[e].path
                           /\ fs[m].path = fs[k].path => m = k
    BY DEF IsFileSystem
  <2>1. CASE e = n
    BY <1>3, <1>6, <2>1
  <2>2. CASE e # n
    <3>1. e \in DOMAIN es
      BY <1>6, <2>2
    <3>2. \A m \in es[e].members : fs[m].path = es[m].path /\ fs[m].parent = es[m].parent
                                   /\ m # n /\ m \in DOMAIN es
      <4>1. n \notin DOMAIN es
        BY <1>1 DEF n
      <4>2. es[e].members \subseteq DOMAIN es
        BY <1>9, <3>1
      <4> QED  BY <1>7, <4>1, <4>2
    <3>3. /\ es[e].kind \in {"collection", "document"}
          /\ es[e].kind = "document" => es[e].members = {}
          /\ \A m, k \in es[e].members :
               /\ es[m].parent = e /\ Above[es[m].path] = es[e].path
               /\ es[m].path = es[k].path => m = k
      BY <1>9, <3>1 DEF IsFileSystem
    <3>4. CASE e # d
      <4>1. fs[e].members = es[e].members /\ fs[e].kind = es[e].kind /\ fs[e].path = es[e].path
        BY <1>7, <3>1, <3>4
      <4> QED  BY <3>2, <3>3, <4>1
    <3>5. CASE e = d
      <4>1. fs[e].members = es[e].members \cup {n} /\ fs[e].kind = es[e].kind
            /\ fs[e].path = es[e].path
        BY <1>7, <3>1, <3>5
      <4>2. fs[n].parent = e /\ Above[fs[n].path] = fs[e].path /\ fs[n].path = p
        BY <1>3, <1>6, <1>7, <3>5
      <4>3. \A m \in es[e].members : es[m].path # p
        BY <3>5 DEF CanCreate, Members
      <4> QED  BY <3>2, <3>3, <3>5, <4>1, <4>2, <4>3
    <3> QED  BY <3>4, <3>5
  <2> QED  BY <2>1, <2>2
<1>13. fs[1].kind = "collection" /\ fs[1].path = Root
  BY <1>7, <1>9
<1>14. FileSystemInv(fs)
  BY <1>6, <1>9, <1>11, <1>12, <1>13 DEF FileSystemInv
<1>15. Grown(es, fs, kind, p, d, data)
  BY <1>1, <1>6, <1>7 DEF n, new, Grown
<1> QED  BY <1>8, <1>14, <1>15

PlantedEntry(kind, p, data, parent, members) ==
  [NewEntry(kind, p, 0, data) EXCEPT !.parent = parent, !.members = members]

LEMMA PlantedEntryIs ==
  ASSUME NEW kind, NEW p, NEW data, NEW parent, NEW members
  PROVE  PlantedEntry(kind, p, data, parent, members)
           = [kind |-> kind, path |-> p, parent |-> parent, members |-> members, data |-> data]
<1> DEFINE e0 == NewEntry(kind, p, 0, data)
           e1 == [e0 EXCEPT !.parent = parent]
           e2 == [e1 EXCEPT !.members = members]
<1>1. e0 = [kind |-> kind, path |-> p, parent |-> 0, members |-> {}, data |-> data]
  BY DEF NewEntry
<1>2. [e0 EXCEPT !.parent = parent, !.members = members] = e2
  OBVIOUS
<1> HIDE DEF e0
<1>3. e1 = [kind |-> kind, path |-> p, parent |-> parent, members |-> {}, data |-> data]
  BY <1>1
<1> HIDE DEF e1
<1>4. e2 = [kind |-> kind, path |-> p, parent |-> parent, members |-> members, data |-> data]
  BY <1>3
<1> QED  BY <1>2, <1>4 DEF e0, e1, PlantedEntry

LEMMA PlantedIsFileSystem ==
  ASSUME NEW tree \in Trees
  PROVE  FileSystemInv(Planted(tree))
<1> DEFINE es == Planted(tree)
           Parent(e) == IF e = 1 THEN 0
                        ELSE CHOOSE d \in DOMAIN tree : tree[d].path = Above[tree[e].path]
           Mem(e) == {m \in DOMAIN tree \ {1} : Above[tree[m].path] = tree[e].path}
<1>1. /\ Len(tree) \in Nat \ {0} /\ DOMAIN tree = 1..Len(tree)
      /\ tree[1].path = Root /\ tree[1].kind = "collection"
      /\ \A e \in DOMAIN tree :
           /\ tree[e].path \in Path /\ tree[e].kind \in {"collection", "document"}
           /\ \A d \in DOMAIN tree : tree[d].path = tree[e].path => d = e
           /\ e # 1 => \E d \in DOMAIN tree : /\ tree[d].path = Above[tree[e].path]
                                             /\ tree[d].kind = "collection"
  BY RequestsAssumption DEF IsTree
<1>2. DOMAIN es = DOMAIN tree
      /\ \A e \in DOMAIN tree :
           es[e] = [kind |-> tree[e].kind, path |-> tree[e].path, parent |-> Parent(e),
                    members |-> Mem(e), data |-> tree[e].data]
  <2> DEFINE Plant(e) == PlantedEntry(tree[e].kind, tree[e].path, tree[e].data, Parent(e), Mem(e))
  <2>1. es = [e \in DOMAIN tree |-> Plant(e)]
    BY DEF Planted, PlantedEntry
  <2> SUFFICES ASSUME NEW e \in DOMAIN tree
               PROVE  Plant(e) = [kind |-> tree[e].kind, path |-> tree[e].path,
                                  parent |-> Parent(e), members |-> Mem(e),
                                  data |-> tree[e].data]
    <3> HIDE DEF Plant, Parent, Mem, es
    <3> QED  BY <2>1
  <2> HIDE DEF Parent, Mem, es
  <2> QED  BY PlantedEntryIs
<1> HIDE DEF es
<1>3. \A e \in DOMAIN tree : e # 1 =>
        /\ Parent(e) \in DOMAIN tree /\ tree[Parent(e)].path = Above[tree[e].path]
        /\ tree[Parent(e)].kind = "collection"
  <2> SUFFICES ASSUME NEW e \in DOMAIN tree, e # 1
               PROVE  /\ Parent(e) \in DOMAIN tree /\ tree[Parent(e)].path = Above[tree[e].path]
                      /\ tree[Parent(e)].kind = "collection"
    OBVIOUS
  <2>1. PICK d \in DOMAIN tree : tree[d].path = Above[tree[e].path] /\ tree[d].kind = "collection"
    BY <1>1
  <2>2. Parent(e) = CHOOSE k \in DOMAIN tree : tree[k].path = Above[tree[e].path]
    OBVIOUS
  <2> HIDE DEF Parent
  <2>3. Parent(e) \in DOMAIN tree /\ tree[Parent(e)].path = Above[tree[e].path]
    BY <2>1, <2>2
  <2> QED  BY <1>1, <2>1, <2>3
<1>4. Parent(1) = 0
  OBVIOUS
<1> HIDE DEF Parent
<1>5. \A e \in DOMAIN tree : Parent(e) \in Nat
  BY <1>1, <1>3, <1>4
<1>6. \A e \in DOMAIN tree : /\ es[e].kind = tree[e].kind /\ es[e].path = tree[e].path
                             /\ es[e].parent = Parent(e) /\ es[e].members = Mem(e)
                             /\ es[e].data = tree[e].data
  BY <1>2
<1>7. \A e \in DOMAIN tree : Mem(e) \subseteq DOMAIN tree \ {1} /\ Mem(e) \subseteq Nat
  BY <1>1
<1>8. \A e \in DOMAIN tree : tree[e].data \in Data
  BY DEF Data
<1>9. es \in Seq(Entry)
  <2>1. \A e \in 1..Len(tree) : es[e] \in Entry
    <3> HIDE DEF Mem
    <3> QED  BY <1>1, <1>2, <1>5, <1>7, <1>8 DEF Entry
  <2>2. es = [e \in DOMAIN tree |-> es[e]]
    BY DEF es, Planted
  <2> QED  BY <1>1, <2>1, <2>2
<1>10. \A e \in DOMAIN tree : e # 1 => tree[e].path # Root
  BY <1>1
<1>11. IsFileSystem(es)
  <2> SUFFICES ASSUME NEW e \in DOMAIN tree
               PROVE  /\ es[e].kind \in {"collection", "document"}
                      /\ es[e].kind = "document" => es[e].members = {}
                      /\ \A m, k \in es[e].members :
                           /\ es[m].parent = e /\ Above[es[m].path] = es[e].path
                           /\ es[m].path = es[k].path => m = k
    BY <1>2 DEF IsFileSystem
  <2>1. \A m \in Mem(e) : m \in DOMAIN tree /\ Above[tree[m].path] = tree[e].path
                          /\ Parent(m) = e /\ tree[e].kind = "collection"
    <3> SUFFICES ASSUME NEW m \in Mem(e)
                 PROVE  m \in DOMAIN tree /\ Above[tree[m].path] = tree[e].path
                        /\ Parent(m) = e /\ tree[e].kind = "collection"
      OBVIOUS
    <3>1. m \in DOMAIN tree /\ m # 1 /\ Above[tree[m].path] = tree[e].path
      OBVIOUS
    <3>2. Parent(m) = e
      BY <1>1, <1>3, <3>1
    <3> QED  BY <1>3, <3>1, <3>2
  <2> QED  BY <1>1, <1>6, <2>1
<1> QED  BY <1>1, <1>2, <1>3, <1>6, <1>7, <1>9, <1>10, <1>11 DEF FileSystemInv, es

-----------------------------------------------------------------------------
(* A task with one field changed, and the tasks a request begins with.      *)

LEMMA TaskWith ==
  ASSUME NEW r \in Task
  PROVE  /\ \A pc : LET s == [r EXCEPT !.pc = pc] IN
              /\ pc \in Stage => s \in Task
              /\ s.pc = pc /\ s.method = r.method /\ s.path = r.path
              /\ s.submitted = r.submitted /\ s.resource = r.resource /\ s.found = r.found
              /\ s.lock = r.lock /\ s.entry = r.entry /\ s.remove = r.remove
         /\ \A lock : LET s == [r EXCEPT !.lock = lock] IN
              /\ lock \in Tokens => s \in Task
              /\ s.pc = r.pc /\ s.method = r.method /\ s.path = r.path
              /\ s.submitted = r.submitted /\ s.resource = r.resource /\ s.found = r.found
              /\ s.lock = lock /\ s.entry = r.entry /\ s.remove = r.remove
         /\ \A found : LET s == [r EXCEPT !.found = found] IN
              /\ found \in Selection => s \in Task
              /\ s.pc = r.pc /\ s.method = r.method /\ s.path = r.path
              /\ s.submitted = r.submitted /\ s.resource = r.resource /\ s.found = found
              /\ s.lock = r.lock /\ s.entry = r.entry /\ s.remove = r.remove
         /\ \A entry : LET s == [r EXCEPT !.entry = entry] IN
              /\ entry \in Nat => s \in Task
              /\ s.pc = r.pc /\ s.method = r.method /\ s.path = r.path
              /\ s.submitted = r.submitted /\ s.resource = r.resource /\ s.found = r.found
              /\ s.lock = r.lock /\ s.entry = entry /\ s.remove = r.remove
         /\ \A remove : LET s == [r EXCEPT !.remove = remove] IN
              /\ remove \in SUBSET Token => s \in Task
              /\ s.pc = r.pc /\ s.method = r.method /\ s.path = r.path
              /\ s.submitted = r.submitted /\ s.resource = r.resource /\ s.found = r.found
              /\ s.lock = r.lock /\ s.entry = r.entry /\ s.remove = remove
<1> USE DEF Task
<1>1. ASSUME NEW pc
      PROVE  LET s == [r EXCEPT !.pc = pc] IN
              /\ pc \in Stage => s \in Task
              /\ s.pc = pc /\ s.method = r.method /\ s.path = r.path
              /\ s.submitted = r.submitted /\ s.resource = r.resource /\ s.found = r.found
              /\ s.lock = r.lock /\ s.entry = r.entry /\ s.remove = r.remove
  OBVIOUS
<1>2. ASSUME NEW lock
      PROVE  LET s == [r EXCEPT !.lock = lock] IN
              /\ lock \in Tokens => s \in Task
              /\ s.pc = r.pc /\ s.method = r.method /\ s.path = r.path
              /\ s.submitted = r.submitted /\ s.resource = r.resource /\ s.found = r.found
              /\ s.lock = lock /\ s.entry = r.entry /\ s.remove = r.remove
  OBVIOUS
<1>3. ASSUME NEW found
      PROVE  LET s == [r EXCEPT !.found = found] IN
              /\ found \in Selection => s \in Task
              /\ s.pc = r.pc /\ s.method = r.method /\ s.path = r.path
              /\ s.submitted = r.submitted /\ s.resource = r.resource /\ s.found = found
              /\ s.lock = r.lock /\ s.entry = r.entry /\ s.remove = r.remove
  OBVIOUS
<1>4. ASSUME NEW entry
      PROVE  LET s == [r EXCEPT !.entry = entry] IN
              /\ entry \in Nat => s \in Task
              /\ s.pc = r.pc /\ s.method = r.method /\ s.path = r.path
              /\ s.submitted = r.submitted /\ s.resource = r.resource /\ s.found = r.found
              /\ s.lock = r.lock /\ s.entry = entry /\ s.remove = r.remove
  OBVIOUS
<1>5. ASSUME NEW remove
      PROVE  LET s == [r EXCEPT !.remove = remove] IN
              /\ remove \in SUBSET Token => s \in Task
              /\ s.pc = r.pc /\ s.method = r.method /\ s.path = r.path
              /\ s.submitted = r.submitted /\ s.resource = r.resource /\ s.found = r.found
              /\ s.lock = r.lock /\ s.entry = r.entry /\ s.remove = remove
  OBVIOUS
<1> HIDE DEF Task
<1> QED  BY <1>1, <1>2, <1>3, <1>4, <1>5

LEMMA IdleIsTask ==
  /\ Idle \in Task
  /\ Idle.pc = "idle" /\ Idle.method = "none" /\ Idle.path = Root
  /\ Idle.submitted = NoToken /\ Idle.lock = NoToken /\ Idle.remove = {}
BY RequestsAssumption DEF Idle, Nothing, Task, Stage, Tokens, Selection

BeginTask(method, p, submitted, resource, found) ==
  [Idle EXCEPT !.pc = "lock", !.method = method, !.path = p,
               !.submitted = submitted, !.resource = resource, !.found = found]

LEMMA BeginTaskIs ==
  ASSUME NEW method, NEW p, NEW submitted, NEW resource, NEW found
  PROVE  BeginTask(method, p, submitted, resource, found) =
           [pc |-> "lock", method |-> method, path |-> p, submitted |-> submitted,
            resource |-> resource, found |-> found, lock |-> NoToken, entry |-> 0,
            remove |-> {}]
<1> DEFINE R(pc, m, q, s, o, f) ==
             [pc |-> pc, method |-> m, path |-> q, submitted |-> s, resource |-> o,
              found |-> f, lock |-> NoToken, entry |-> 0, remove |-> {}]
           d0 == Idle
           d1 == [d0 EXCEPT !.pc = "lock"]
           d2 == [d1 EXCEPT !.method = method]
           d3 == [d2 EXCEPT !.path = p]
           d4 == [d3 EXCEPT !.submitted = submitted]
           d5 == [d4 EXCEPT !.resource = resource]
           d6 == [d5 EXCEPT !.found = found]
<1>0. d0 = R("idle", "none", Root, NoToken, Root, Nothing)
  BY DEF Idle
<1>b. BeginTask(method, p, submitted, resource, found) = d6
  BY DEF BeginTask
<1> HIDE DEF d0
<1>1. d1 = R("lock", "none", Root, NoToken, Root, Nothing)
  BY <1>0
<1> HIDE DEF d1
<1>2. d2 = R("lock", method, Root, NoToken, Root, Nothing)
  BY <1>1
<1> HIDE DEF d2
<1>3. d3 = R("lock", method, p, NoToken, Root, Nothing)
  BY <1>2
<1> HIDE DEF d3
<1>4. d4 = R("lock", method, p, submitted, Root, Nothing)
  BY <1>3
<1> HIDE DEF d4
<1>5. d5 = R("lock", method, p, submitted, resource, Nothing)
  BY <1>4
<1> HIDE DEF d5
<1>6. d6 = R("lock", method, p, submitted, resource, found)
  BY <1>5
<1> HIDE DEF d6
<1> QED  BY <1>b, <1>6

LockTask(p, t) == [Idle EXCEPT !.pc = "select", !.method = "LOCK", !.path = p, !.lock = t]

LEMMA LockTaskIs ==
  ASSUME NEW p, NEW t
  PROVE  LockTask(p, t) =
           [pc |-> "select", method |-> "LOCK", path |-> p, submitted |-> NoToken,
            resource |-> Root, found |-> Nothing, lock |-> t, entry |-> 0, remove |-> {}]
<1> DEFINE R(pc, m, q, u) ==
             [pc |-> pc, method |-> m, path |-> q, submitted |-> NoToken, resource |-> Root,
              found |-> Nothing, lock |-> u, entry |-> 0, remove |-> {}]
           d0 == Idle
           d1 == [d0 EXCEPT !.pc = "select"]
           d2 == [d1 EXCEPT !.method = "LOCK"]
           d3 == [d2 EXCEPT !.path = p]
           d4 == [d3 EXCEPT !.lock = t]
<1>0. d0 = R("idle", "none", Root, NoToken)
  BY DEF Idle
<1>b. LockTask(p, t) = d4
  BY DEF LockTask
<1> HIDE DEF d0
<1>1. d1 = R("select", "none", Root, NoToken)
  BY <1>0
<1> HIDE DEF d1
<1>2. d2 = R("select", "LOCK", Root, NoToken)
  BY <1>1
<1> HIDE DEF d2
<1>3. d3 = R("select", "LOCK", p, NoToken)
  BY <1>2
<1> HIDE DEF d3
<1>4. d4 = R("select", "LOCK", p, t)
  BY <1>3
<1> HIDE DEF d4
<1> QED  BY <1>b, <1>4

-----------------------------------------------------------------------------
(* What a step of c's request leaves alone: the other requests, and every   *)
(* lock, but for those it takes away.                                       *)

Kept == issued \subseteq issued' /\ \A u \in issued : locks'[u] \in {locks[u], NoLock}

Progress(c) ==
  /\ StateInv'
  /\ Evolves(entries, entries') /\ Kept
  /\ \A d \in Client \ {c} : task'[d] = task[d] /\ known'[d] = known[d]
  /\ SelectionInv(c)' /\ OwnInv(c)' /\ PowerInv(c)'
  /\ \A t \in Held' \ issued :
       ~ locks'[t].temporary => locks'[t].recursive \in Depths /\ locks'[t].share \in Shares

\* The invariant but for TemporaryLocksEnd, which COPY and MOVE see differently.
RequestsInv ==
  /\ StateInv
  /\ \A c \in Client : SelectionInv(c) /\ OwnInv(c) /\ PowerInv(c)
  /\ ExplicitInv

EndsWith(c) ==
  /\ \A t \in Held' \ issued : locks'[t].temporary =>
       locks'[t].owner = c /\ task'[c].lock = t
  /\ task[c].lock \in Held' /\ locks'[task[c].lock].temporary =>
       task'[c].lock = task[c].lock \/ task[c].lock \in lost'
  /\ lost \subseteq lost'

LEMMA HeldBefore ==
  ASSUME StateInv, StateInv', Kept
  PROVE  /\ \A t \in Held' \cap issued : t \in Held /\ locks'[t] = locks[t]
         /\ \A t \in Held : t \in issued /\ locks[t] \in ActiveLock
         /\ \A t \in Held' : t \in issued' /\ locks'[t] \in ActiveLock
<1>1. /\ locks \in [Token -> ActiveLock \cup {NoLock}] /\ Held \subseteq issued
      /\ issued \subseteq Token
      /\ locks' \in [Token -> ActiveLock \cup {NoLock}] /\ Held' \subseteq issued'
      /\ issued' \subseteq Token
  BY DEF StateInv
<1>2. \A t \in issued : locks'[t] \in {locks[t], NoLock}
  BY DEF Kept
<1> QED  BY <1>1, <1>2 DEF Held

LEMMA OthersSelection ==
  ASSUME NEW d \in Client, SelectionInv(d), task'[d] = task[d],
         FileSystemInv(entries), Evolves(entries, entries')
  PROVE  SelectionInv(d)'
<1> DEFINE t == task[d]
<1>1. /\ t.method \in Writing /\ t.pc # "idle" =>
           /\ Fits(entries, t.found, t.path) /\ Serves(t.method, t.found)
           /\ t.pc \in {"lock"} \cup Begun
      /\ t.pc = "create" => Fits(entries, t.found, t.path) /\ t.found.missing = 1
      /\ t.pc = "write" => /\ t.entry \in DOMAIN entries /\ entries[t.entry].path = t.path
                           /\ entries[t.entry].kind = "document"
      /\ t.method = "DELETE" /\ t.pc \in {"affected", "release", "dispose"} /\ t.path # Root =>
           t.found.entry \notin entries[entries[t.found.entry].parent].members
  BY DEF SelectionInv
<1>2. Fits(entries, t.found, t.path) => Fits(entries', t.found, t.path)
  BY FitsEvolves
<1>3. t.pc = "write" => /\ t.entry \in DOMAIN entries' /\ entries'[t.entry].path = t.path
                        /\ entries'[t.entry].kind = "document"
  BY <1>1 DEF Evolves
<1>4. ASSUME t.method = "DELETE", t.pc \in {"affected", "release", "dispose"}, t.path # Root
      PROVE  t.found.entry \notin entries'[entries'[t.found.entry].parent].members
  <2>1. Fits(entries, t.found, t.path) /\ Serves(t.method, t.found)
    BY <1>1, <1>4 DEF Writing, Begun
  <2>2. t.found.missing = 0
    BY <1>4, <2>1 DEF Serves, IsMissing
  <2>3. t.found.entry \in DOMAIN entries /\ entries[t.found.entry].path = t.path
    BY <2>1, <2>2 DEF Fits
  <2>4. entries[t.found.entry].parent \in DOMAIN entries
    BY <1>4, <2>3 DEF FileSystemInv
  <2> QED  BY <1>1, <1>4, <2>3, <2>4 DEF Evolves
<1> QED  BY <1>1, <1>2, <1>3, <1>4 DEF SelectionInv

LEMMA OthersOwn ==
  ASSUME NEW d \in Client, OwnInv(d), StateInv, StateInv', Kept,
         task'[d] = task[d], known'[d] \subseteq known[d]
  PROVE  OwnInv(d)'
<1>1. known[d] \subseteq issued /\ issued \subseteq issued' /\ NoToken \notin Token
      /\ issued' \subseteq Token
  BY RequestsAssumption DEF StateInv, Kept
<1>2. \A u \in Held' : u \in issued => u \in Held /\ locks'[u] = locks[u]
  BY HeldBefore
<1> DEFINE t == task[d]
<1>3. /\ {t.submitted, t.lock} \subseteq issued \cup {NoToken}
      /\ t.remove \subseteq issued
      /\ \A u \in Held : u \in known[d] \cup {t.submitted} =>
           locks[u].owner = d /\ ~ locks[u].temporary
      /\ t.lock \in Held => locks[t.lock].owner = d
      /\ t.pc = "idle" => t = Idle
  BY DEF OwnInv
<1>4. t' = t /\ known'[d] \subseteq known[d] /\ NoToken \notin Held'
  BY <1>1 DEF Held
<1> HIDE DEF t
<1>5. {t.submitted, t.lock} \subseteq issued' \cup {NoToken} /\ t.remove \subseteq issued'
  BY <1>1, <1>3
<1>6. \A u \in Held' : u \in known[d] \cup {t.submitted} =>
        locks'[u].owner = d /\ ~ locks'[u].temporary
  BY <1>1, <1>2, <1>3, <1>4
<1>7. t.lock \in Held' => locks'[t.lock].owner = d
  BY <1>2, <1>3, <1>4
<1>8. t = task[d]
  BY DEF t
<1> QED  BY <1>3, <1>4, <1>5, <1>6, <1>7, <1>8 DEF OwnInv

LEMMA OthersPower ==
  ASSUME NEW d \in Client, OwnInv(d), PowerInv(d), StateInv, StateInv', Kept,
         task'[d] = task[d]
  PROVE  PowerInv(d)'
<1>1. \A u \in Held' : u \in issued => u \in Held /\ locks'[u] = locks[u]
  BY HeldBefore
<1>2. Held' \subseteq Token /\ NoToken \notin Token
  BY RequestsAssumption DEF Held
<1>3. {task[d].submitted, task[d].lock} \subseteq issued \cup {NoToken}
      /\ task[d].remove \subseteq issued
  BY DEF OwnInv
<1>4. Requirements(d)' = Requirements(d)
  BY DEF Requirements, Lock
<1> QED  BY <1>1, <1>2, <1>3, <1>4 DEF PowerInv

LEMMA ProgressKeeps ==
  ASSUME RequestsInv, NEW c \in Client, Progress(c)
  PROVE  RequestsInv'
<1>1. StateInv /\ StateInv' /\ Kept /\ FileSystemInv(entries) /\ Evolves(entries, entries')
  BY DEF RequestsInv, Progress, StateInv
<1>2. ASSUME NEW d \in Client
      PROVE  SelectionInv(d)' /\ OwnInv(d)' /\ PowerInv(d)'
  <2>1. CASE d = c
    BY <2>1 DEF Progress
  <2>2. CASE d # c
    <3>1. task'[d] = task[d] /\ known'[d] = known[d]
      BY <2>2 DEF Progress
    <3>2. SelectionInv(d) /\ OwnInv(d) /\ PowerInv(d)
      BY DEF RequestsInv
    <3> QED  BY <1>1, <3>1, <3>2, OthersSelection, OthersOwn, OthersPower
  <2> QED  BY <2>1, <2>2
<1>3. ExplicitInv'
  <2>1. \A t \in Held' \cap issued : t \in Held /\ locks'[t] = locks[t]
    BY <1>1, HeldBefore
  <2>2. \A t \in Held : ~ locks[t].temporary =>
          locks[t].recursive \in Depths /\ locks[t].share \in Shares
    BY DEF RequestsInv, ExplicitInv, Explicit
  <2>3. \A t \in Held' \ issued :
       ~ locks'[t].temporary => locks'[t].recursive \in Depths /\ locks'[t].share \in Shares
    BY DEF Progress
  <2> QED  BY <2>1, <2>2, <2>3 DEF ExplicitInv, Explicit
<1> QED  BY <1>1, <1>2, <1>3 DEF RequestsInv

LEMMA EndsWithKeeps ==
  ASSUME RequestsInv, TemporaryLocksEnd, NEW c \in Client, Progress(c), EndsWith(c)
  PROVE  TemporaryLocksEnd'
<1>1. /\ \A t \in Held' \cap issued : t \in Held /\ locks'[t] = locks[t]
      /\ \A t \in Held' : locks'[t] \in ActiveLock
  BY HeldBefore DEF RequestsInv, Progress
<1> SUFFICES ASSUME NEW t \in Held', locks'[t].temporary
             PROVE  task'[locks'[t].owner].lock = t \/ t \in lost'
  BY DEF TemporaryLocksEnd, Explicit
<1>2. CASE t \notin issued
  BY <1>2 DEF EndsWith
<1>3. CASE t \in issued
  <2>1. t \in Held /\ locks'[t] = locks[t] /\ locks[t].owner \in Client
    BY <1>1, <1>3 DEF ActiveLock
  <2>2. task[locks[t].owner].lock = t \/ t \in lost
    BY <2>1 DEF TemporaryLocksEnd, Explicit
  <2>3. CASE locks[t].owner = c
    BY <2>1, <2>2, <2>3 DEF EndsWith
  <2>4. CASE locks[t].owner # c
    BY <2>1, <2>2, <2>4 DEF EndsWith, Progress
  <2> QED  BY <2>3, <2>4
<1> QED  BY <1>2, <1>3

LEMMA SameLocks ==
  ASSUME StateInv, UNCHANGED <<locks, issued>>
  PROVE  /\ Kept /\ Held' = Held
         /\ locks' \in [Token -> ActiveLock \cup {NoLock}]
         /\ issued' \subseteq Token /\ Held' \subseteq issued'
         /\ Held' \ issued = {}
BY DEF StateInv, Kept, Held

LEMMA ReleasedIs ==
  ASSUME StateInv, NEW t \in Token, Released(t), UNCHANGED issued
  PROVE  /\ Kept /\ Held' = Held \ {t}
         /\ locks' \in [Token -> ActiveLock \cup {NoLock}]
         /\ issued' \subseteq Token /\ Held' \subseteq issued'
         /\ Held' \ issued = {}
BY DEF StateInv, Kept, Held, Released

LEMMA GrantedIs ==
  ASSUME StateInv, NEW t, NEW lock \in ActiveLock, Granted(t, lock)
  PROVE  /\ Kept /\ t \in Token /\ t \notin issued /\ Held' = Held \cup {t}
         /\ locks'[t] = lock
         /\ locks' \in [Token -> ActiveLock \cup {NoLock}]
         /\ issued' \subseteq Token /\ issued' = issued \cup {t} /\ Held' \subseteq issued'
         /\ Held' \ issued = {t}
<1>1. t \in Token /\ t \notin issued
  BY DEF Granted, Fresh
<1>2. locks' = [locks EXCEPT ![t] = lock] /\ issued' = issued \cup {t}
  BY DEF Granted
<1>3. lock # NoLock
  BY RequestsAssumption DEF ActiveLock
<1> QED  BY <1>1, <1>2, <1>3 DEF StateInv, Kept, Held

LEMMA GoToIs ==
  ASSUME StateInv, NEW c \in Client, NEW pc \in Stage, GoTo(c, pc)
  PROVE  /\ task' \in [Client -> Task]
         /\ \A d \in Client \ {c} : task'[d] = task[d]
         /\ LET r == task[c] s == task'[c] IN
              /\ s.pc = pc /\ s.method = r.method /\ s.path = r.path
              /\ s.submitted = r.submitted /\ s.resource = r.resource /\ s.found = r.found
              /\ s.lock = r.lock /\ s.entry = r.entry /\ s.remove = r.remove
<1> DEFINE s == [task[c] EXCEPT !.pc = pc]
<1>1. task \in [Client -> Task] /\ task' = [task EXCEPT ![c] = s]
  BY DEF StateInv, GoTo
<1>2. task[c] \in Task /\ task'[c] = s
  BY <1>1
<1>3. s \in Task
  BY <1>2, TaskWith
<1> QED  BY <1>1, <1>2, <1>3, TaskWith

LEMMA AnswerIs ==
  ASSUME StateInv, NEW c \in Client, Answer(c)
  PROVE  /\ task' \in [Client -> Task]
         /\ \A d \in Client \ {c} : task'[d] = task[d]
         /\ task'[c] = Idle
BY IdleIsTask DEF StateInv, Answer

LEMMA Answered ==
  ASSUME RequestsInv, StateInv', Kept, NEW c \in Client, task'[c] = Idle,
         \A u \in Held' \cap known'[c] : locks'[u].owner = c /\ ~ locks'[u].temporary
  PROVE  SelectionInv(c)' /\ OwnInv(c)' /\ PowerInv(c)'
<1>1. NoToken \notin Held'
  BY RequestsAssumption DEF Held
<1>2. SelectionInv(c)'
  BY IdleIsTask DEF SelectionInv, Writing
<1>3. OwnInv(c)'
  BY <1>1, IdleIsTask DEF OwnInv
<1>4. PowerInv(c)'
  BY IdleIsTask DEF PowerInv, Begun
<1> QED  BY <1>2, <1>3, <1>4

\* What c knows stays true when it learns nothing.
LEMMA StillKnown ==
  ASSUME RequestsInv, StateInv', Kept, NEW c \in Client, known'[c] \subseteq known[c]
  PROVE  \A u \in Held' \cap known'[c] : locks'[u].owner = c /\ ~ locks'[u].temporary
<1>1. known[c] \subseteq issued
  BY DEF RequestsInv, StateInv
<1>2. \A u \in Held' \cap issued : u \in Held /\ locks'[u] = locks[u]
  BY HeldBefore DEF RequestsInv
<1>3. \A u \in Held : u \in known[c] => locks[u].owner = c /\ ~ locks[u].temporary
  BY DEF RequestsInv, OwnInv
<1> QED  BY <1>1, <1>2, <1>3

\* A request that goes on to its next step with what it had.
LEMMA GoesOn ==
  ASSUME RequestsInv, StateInv', Evolves(entries, entries'), Kept, NEW c \in Client,
         UNCHANGED known,
         task[c].pc \in Begun \ {"dispose"}, task'[c].pc \in Begun,
         task'[c].method = task[c].method, task'[c].path = task[c].path,
         task'[c].submitted = task[c].submitted, task'[c].resource = task[c].resource,
         task'[c].found = task[c].found, task'[c].lock = task[c].lock,
         task'[c].remove \subseteq issued,
         \A u \in task'[c].remove \cap Held : IsBaseOf(task[c].path, locks[u].path),
         task'[c].pc = "write" =>
           /\ task'[c].entry \in DOMAIN entries'
           /\ entries'[task'[c].entry].path = task[c].path
           /\ entries'[task'[c].entry].kind = "document",
         /\ task[c].method = "DELETE" /\ task'[c].pc \in {"affected", "release", "dispose"}
         /\ task[c].path # Root
         => task[c].found.entry \notin entries'[entries'[task[c].found.entry].parent].members
  PROVE  SelectionInv(c)' /\ OwnInv(c)' /\ PowerInv(c)'
<1> DEFINE r == task[c]
           s == task'[c]
<1>0. SelectionInv(c) /\ OwnInv(c) /\ PowerInv(c) /\ StateInv
  BY DEF RequestsInv
<1>1. SelectionInv(c)'
  <2>1. Fits(entries, r.found, r.path) => Fits(entries', r.found, r.path)
    BY FitsEvolves
  <2>2. r.method \in Writing => Fits(entries, r.found, r.path) /\ Serves(r.method, r.found)
    BY <1>0 DEF SelectionInv, Begun
  <2>3. s.pc # "create"
    BY DEF Begun
  <2> QED  BY <2>1, <2>2, <2>3 DEF SelectionInv
<1>2. \A u \in Held' \cap issued : u \in Held /\ locks'[u] = locks[u]
  BY <1>0, HeldBefore
<1>3. Held' \subseteq Token /\ NoToken \notin Token
  BY RequestsAssumption DEF Held
<1>4. OwnInv(c)'
  <2>1. /\ {r.submitted, r.lock} \subseteq issued \cup {NoToken}
        /\ \A u \in Held : u \in known[c] \cup {r.submitted} =>
             locks[u].owner = c /\ ~ locks[u].temporary
        /\ r.lock \in Held => locks[r.lock].owner = c
    BY <1>0 DEF OwnInv
  <2>2. known[c] \subseteq issued /\ issued \subseteq issued'
    BY <1>0 DEF StateInv, Kept
  <2>3. {s.submitted, s.lock} \subseteq issued' \cup {NoToken} /\ s.remove \subseteq issued'
    BY <2>1, <2>2
  <2>4. \A u \in Held' : u \in known'[c] \cup {s.submitted} =>
             locks'[u].owner = c /\ ~ locks'[u].temporary
    BY <1>2, <1>3, <2>1, <2>2
  <2>5. s.lock \in Held' => locks'[s.lock].owner = c
    BY <1>2, <1>3, <2>1
  <2>6. s.pc # "idle"
    BY DEF Begun
  <2> QED  BY <2>3, <2>4, <2>5, <2>6 DEF OwnInv
<1>5. PowerInv(c)'
  <2>1. /\ r.method \in Writing =>
             IF r.lock # NoToken THEN r.lock \in Held => locks[r.lock] = Requirements(c)
             ELSE /\ r.submitted # NoToken
                  /\ r.submitted \in Held => r.path \in Scope(locks[r.submitted])
        /\ r.method # "LOCK"
    BY <1>0 DEF PowerInv, Begun
  <2>2. Requirements(c)' = Requirements(c)
    BY DEF Requirements, Lock
  <2>3. {r.submitted, r.lock} \subseteq issued \cup {NoToken}
    BY <1>0 DEF OwnInv
  <2>4. s.pc # "lock"
    BY DEF Begun
  <2>5. \A u \in s.remove \cap Held' : IsBaseOf(s.path, locks'[u].path)
    BY <1>2
  <2>6. s.method \in Writing =>
             IF s.lock # NoToken THEN s.lock \in Held' => locks'[s.lock] = Requirements(c)'
             ELSE /\ s.submitted # NoToken
                  /\ s.submitted \in Held' => s.path \in Scope(locks'[s.submitted])
    BY <1>2, <1>3, <2>1, <2>2, <2>3
  <2> QED  BY <2>1, <2>4, <2>5, <2>6 DEF PowerInv
<1> QED  BY <1>1, <1>4, <1>5

\* A request that does nothing.
LEMMA Rests ==
  ASSUME RequestsInv, StateInv', Evolves(entries, entries'), Kept, NEW c \in Client,
         task'[c] = task[c], known'[c] \subseteq known[c]
  PROVE  SelectionInv(c)' /\ OwnInv(c)' /\ PowerInv(c)'
BY OthersSelection, OthersOwn, OthersPower DEF RequestsInv, StateInv

LEMMA SameEntries ==
  ASSUME UNCHANGED entries
  PROVE  Evolves(entries, entries')
BY DEF Evolves

-----------------------------------------------------------------------------
(* One lemma per action: it is progress of one request.                     *)

LEMMA BeginKeeps ==
  ASSUME RequestsInv, NEW c \in Client, NEW p \in Path,
         NEW method \in Writing, NEW submitted \in known[c] \cup {NoToken},
         Begin(c, method, p, submitted)
  PROVE  Progress(c) /\ task[c].pc = "idle"
<1> DEFINE found == Select(entries, p)
           begun == BeginTask(method, p, submitted, p, found)
<1>1. StateInv /\ UNCHANGED <<entries, props, locks, issued, known>>
  BY DEF RequestsInv, Begin
<1>2. Kept /\ Held' = Held /\ Held' \ issued = {}
  BY <1>1, SameLocks
<1>3. Evolves(entries, entries')
  BY <1>1, SameEntries
<1>4. left' \in [Client -> Nat] /\ task[c].pc = "idle"
  BY <1>1 DEF Begin, Sends, StateInv
<1>5. Fits(entries, found, p)
  BY <1>1, SelectFits DEF StateInv
<1>6. submitted \in issued \cup {NoToken} /\ issued \subseteq Token
  BY <1>1 DEF StateInv
<1>7. CASE Serves(method, found)
  <2>1. task' = [task EXCEPT ![c] = begun]
    BY <1>7 DEF Begin, BeginTask
  <2>2. begun = [pc |-> "lock", method |-> method, path |-> p, submitted |-> submitted,
                 resource |-> p, found |-> found, lock |-> NoToken, entry |-> 0,
                 remove |-> {}]
    BY BeginTaskIs
  <2> HIDE DEF begun, found
  <2>3. begun \in Task
    BY <1>5, <1>6, <2>2 DEF Task, Stage, Tokens, Writing, Fits
  <2>4. task' \in [Client -> Task] /\ task'[c] = begun
        /\ \A d \in Client \ {c} : task'[d] = task[d]
    BY <1>1, <2>1, <2>3 DEF StateInv
  <2>5. StateInv'
    BY <1>1, <1>4, <2>4, SameLocks DEF StateInv
  <2>6. SelectionInv(c)'
    BY <1>1, <1>5, <1>7, <2>2, <2>4 DEF SelectionInv
  <2>7. OwnInv(c)'
    <3>1. NoToken \notin Held'
      BY RequestsAssumption DEF Held
    <3>2. \A u \in Held : u \in known[c] => locks[u].owner = c /\ ~ locks[u].temporary
      BY DEF RequestsInv, OwnInv
    <3> QED  BY <1>1, <1>2, <1>6, <2>2, <2>4, <3>1, <3>2 DEF OwnInv
  <2>8. PowerInv(c)'
    BY <2>2, <2>4 DEF PowerInv, Begun, Writing
  <2> QED  BY <1>1, <1>2, <1>3, <1>4, <2>4, <2>5, <2>6, <2>7, <2>8 DEF Progress
<1>8. CASE ~ Serves(method, found)
  <2>1. UNCHANGED task
    BY <1>8 DEF Begin
  <2>2. StateInv'
    BY <1>1, <1>4, <2>1, SameLocks DEF StateInv
  <2>3. SelectionInv(c)' /\ OwnInv(c)' /\ PowerInv(c)'
    BY <1>1, <1>2, <1>3, <2>1, <2>2, Rests
  <2> QED  BY <1>1, <1>2, <1>3, <1>4, <2>1, <2>2, <2>3 DEF Progress
<1> QED  BY <1>7, <1>8

LEMMA RequirementsIs ==
  ASSUME RequestsInv, NEW c \in Client
  PROVE  /\ Requirements(c) \in ActiveLock
         /\ Requirements(c).owner = c /\ Requirements(c).temporary
         /\ Requirements(c).path = task[c].path
<1>1. task[c].path \in Path
  BY DEF RequestsInv, StateInv, Task
<1> QED  BY <1>1 DEF Requirements, Lock, ActiveLock, ShareMode

\* A lock that If names and that is on the path or above covers it.
LEMMA SubmittedCovers ==
  ASSUME NEW u, NEW p \in Path,
         u \in GetLocks(Find(locks, Held, p, FALSE, TRUE))
  PROVE  u \in Held /\ p \in Scope(locks[u])
BY DEF GetLocks, Find, Compare, IsBaseOf, Scope

\* What a temporary lock, or a submitted one, gives the request of c.
LEMMA PermittedIs ==
  ASSUME RequestsInv, NEW c \in Client, NEW lock \in ActiveLock, NEW t,
         Permitted(c, lock, t)
  PROVE  /\ Kept /\ t \in issued' \cup {NoToken}
         /\ locks' \in [Token -> ActiveLock \cup {NoLock}]
         /\ issued' \subseteq Token /\ Held' \subseteq issued'
         /\ Held' \ issued \subseteq {t} \ {NoToken}
         /\ t # NoToken => t \notin issued /\ locks'[t] = lock
         /\ t = NoToken =>
              /\ task[c].submitted # NoToken
              /\ task[c].submitted \in Held => lock.path \in Scope(locks[task[c].submitted])
<1>1. StateInv /\ lock.path \in Path
  BY DEF RequestsInv, ActiveLock
<1>2. CASE Granted(t, lock)
  <2>1. t \in Token /\ t # NoToken
    BY <1>1, <1>2, GrantedIs, RequestsAssumption
  <2> QED  BY <1>1, <1>2, <2>1, GrantedIs
<1>3. CASE /\ Submits(c, lock) /\ t = NoToken
           /\ task[c].submitted \in GetLocks(Find(locks, Held, lock.path, FALSE, TRUE))
           /\ UNCHANGED <<locks, issued>>
  <2>1. task[c].submitted # NoToken
    BY <1>3 DEF Submits
  <2>2. lock.path \in Scope(locks[task[c].submitted])
    BY <1>1, <1>3, SubmittedCovers
  <2> QED  BY <1>1, <1>3, <2>1, <2>2, SameLocks
<1> QED  BY <1>2, <1>3 DEF Permitted

LEMMA LockImplicitKeeps ==
  ASSUME RequestsInv, NEW c \in Client, LockImplicit(c)
  PROVE  Progress(c) /\ (UNCHANGED lost => EndsWith(c))
<1> DEFINE lock == Requirements(c)
<1>0. lock \in ActiveLock /\ lock.owner = c /\ lock.temporary /\ lock.path = task[c].path
  BY RequirementsIs
<1>1. /\ StateInv /\ UNCHANGED <<entries, props, known, left>> /\ task[c].pc = "lock"
      /\ task[c].lock = NoToken /\ NoToken \notin Token
  BY RequestsAssumption DEF RequestsInv, LockImplicit, PowerInv
<1>2. Evolves(entries, entries')
  BY <1>1, SameEntries
<1>3. ASSUME NEW t \in Token \cup {NoToken}, Permitted(c, lock, t),
             task' = [task EXCEPT ![c].pc = "act", ![c].lock = t]
      PROVE  Progress(c) /\ (UNCHANGED lost => EndsWith(c))
  <2> DEFINE r == task[c]
             s1 == [r EXCEPT !.pc = "act"]
             s == [s1 EXCEPT !.lock = t]
  <2>1. task' = [task EXCEPT ![c] = s]
    BY <1>3
  <2>2. r \in Task
    BY <1>1 DEF StateInv
  <2>3. s1 \in Task /\ s1.pc = "act" /\ s1.method = r.method /\ s1.path = r.path
        /\ s1.submitted = r.submitted /\ s1.found = r.found /\ s1.remove = r.remove
    <3>1. "act" \in Stage
      BY DEF Stage
    <3> QED  BY <2>2, <3>1, TaskWith
  <2> HIDE DEF s1
  <2>4. s \in Task /\ s.pc = "act" /\ s.method = r.method /\ s.path = r.path
        /\ s.submitted = r.submitted /\ s.found = r.found /\ s.remove = r.remove /\ s.lock = t
    BY <2>3, TaskWith DEF Tokens
  <2> HIDE DEF s
  <2>5. task' \in [Client -> Task] /\ task'[c] = s
        /\ \A d \in Client \ {c} : task'[d] = task[d]
    BY <1>1, <2>1, <2>4 DEF StateInv
  <2>6. /\ Kept /\ t \in issued' \cup {NoToken}
        /\ locks' \in [Token -> ActiveLock \cup {NoLock}]
        /\ issued' \subseteq Token /\ Held' \subseteq issued'
        /\ Held' \ issued \subseteq {t} \ {NoToken}
        /\ t # NoToken => t \notin issued /\ locks'[t] = lock
        /\ t = NoToken =>
             /\ task[c].submitted # NoToken
             /\ task[c].submitted \in Held => lock.path \in Scope(locks[task[c].submitted])
    BY <1>0, <1>3, PermittedIs
  <2> HIDE DEF lock
  <2>7. StateInv'
    BY <1>1, <2>5, <2>6 DEF StateInv, Kept
  <2>8. \A u \in Held' \cap issued : u \in Held /\ locks'[u] = locks[u]
    BY <1>1, <2>6, <2>7, HeldBefore
  <2>9. /\ {r.submitted, r.lock} \subseteq issued \cup {NoToken} /\ r.remove \subseteq issued
        /\ \A u \in Held : u \in known[c] \cup {r.submitted} =>
             locks[u].owner = c /\ ~ locks[u].temporary
        /\ known[c] \subseteq issued /\ issued \subseteq issued'
        /\ Held' \subseteq Token
    BY <2>6 DEF RequestsInv, OwnInv, StateInv, Kept, Held
  <2>10. SelectionInv(c)'
    <3>1. SelectionInv(c)
      BY DEF RequestsInv
    <3> QED  BY <1>1, <2>4, <2>5, <3>1 DEF SelectionInv, Begun
  <2>11. OwnInv(c)'
    <3>1. {s.submitted, s.lock} \subseteq issued' \cup {NoToken} /\ s.remove \subseteq issued'
      BY <2>4, <2>6, <2>9
    <3>2. \A u \in Held' : u \in known'[c] \cup {s.submitted} =>
             locks'[u].owner = c /\ ~ locks'[u].temporary
      BY <1>1, <2>4, <2>8, <2>9
    <3>3. s.lock \in Held' => locks'[s.lock].owner = c
      BY <1>0, <1>1, <2>4, <2>6, <2>9 DEF lock
    <3> QED  BY <2>4, <2>5, <3>1, <3>2, <3>3 DEF OwnInv
  <2>12. PowerInv(c)'
    <3>1. Requirements(c)' = lock
      BY <2>4, <2>5 DEF Requirements, Lock, lock
    <3>2. /\ r.method # "LOCK"
          /\ \A u \in r.remove \cap Held : IsBaseOf(r.path, locks[u].path)
      BY <1>1 DEF RequestsInv, PowerInv
    <3>3. \A u \in s.remove \cap Held' : IsBaseOf(s.path, locks'[u].path)
      BY <2>4, <2>8, <2>9, <3>2
    <3>4. IF s.lock # NoToken THEN s.lock \in Held' => locks'[s.lock] = lock
          ELSE /\ s.submitted # NoToken
               /\ s.submitted \in Held' => s.path \in Scope(locks'[s.submitted])
      <4>1. CASE t # NoToken
        BY <2>4, <2>6, <4>1
      <4>2. CASE t = NoToken
        BY <1>0, <1>1, <2>4, <2>6, <2>8, <2>9, <4>2 DEF lock
      <4> QED  BY <4>1, <4>2
    <3> QED  BY <2>4, <2>5, <3>1, <3>2, <3>3, <3>4 DEF PowerInv
  <2>13. Progress(c)
    BY <1>0, <1>1, <1>2, <2>5, <2>6, <2>7, <2>10, <2>11, <2>12 DEF Progress, lock
  <2>14. UNCHANGED lost => EndsWith(c)
    <3>1. task[c].lock \notin Held'
      BY <1>1, <2>9
    <3> QED  BY <1>0, <2>4, <2>5, <2>6, <3>1 DEF EndsWith, lock
  <2> QED  BY <2>13, <2>14
<1>4. ASSUME Denied(c, lock), Answer(c)
      PROVE  Progress(c) /\ (UNCHANGED lost => EndsWith(c))
  <2>1. UNCHANGED <<locks, issued>>
    BY <1>4 DEF Denied, Refused
  <2>2. /\ task' \in [Client -> Task] /\ task'[c] = Idle
        /\ \A d \in Client \ {c} : task'[d] = task[d]
    BY <1>1, <1>4, AnswerIs
  <2>3. Kept /\ Held' = Held /\ Held' \ issued = {}
    BY <1>1, <2>1, SameLocks
  <2>4. StateInv'
    BY <1>1, <2>1, <2>2, SameLocks DEF StateInv
  <2>5. SelectionInv(c)' /\ OwnInv(c)' /\ PowerInv(c)'
    BY <1>1, <2>2, <2>3, <2>4, StillKnown, Answered
  <2>6. task[c].lock \notin Held'
    BY <1>1 DEF Held
  <2> QED  BY <1>1, <1>2, <2>2, <2>3, <2>4, <2>5, <2>6 DEF Progress, EndsWith
<1> HIDE DEF lock
<1> QED  BY <1>3, <1>4 DEF LockImplicit, lock

LEMMA DisposeKeeps ==
  ASSUME RequestsInv, NEW c \in Client, Dispose(c)
  PROVE  Progress(c) /\ (UNCHANGED lost => EndsWith(c))
<1> DEFINE t == task[c].lock
<1>1. StateInv /\ UNCHANGED <<entries, props, issued, known, left>> /\ Answer(c)
  BY DEF RequestsInv, Dispose
<1>2. t \in issued \cup {NoToken} /\ issued \subseteq Token /\ NoToken \notin Token
  BY RequestsAssumption DEF RequestsInv, OwnInv, StateInv
<1>3. /\ Kept /\ locks' \in [Token -> ActiveLock \cup {NoLock}]
      /\ issued' \subseteq Token /\ Held' \subseteq issued' /\ Held' \ issued = {}
      /\ t \notin Held'
  <2>1. CASE t = NoToken
    BY <1>1, <1>2, <2>1, SameLocks DEF Dispose, Held
  <2>2. CASE t # NoToken
    BY <1>1, <1>2, <2>2, ReleasedIs DEF Dispose
  <2> QED  BY <2>1, <2>2
<1>4. Evolves(entries, entries')
  BY <1>1, SameEntries
<1>5. /\ task' \in [Client -> Task] /\ task'[c] = Idle
      /\ \A d \in Client \ {c} : task'[d] = task[d]
  BY <1>1, AnswerIs
<1>6. StateInv'
  BY <1>1, <1>3, <1>5 DEF StateInv
<1>7. SelectionInv(c)' /\ OwnInv(c)' /\ PowerInv(c)'
  BY <1>1, <1>3, <1>5, <1>6, StillKnown, Answered
<1> QED  BY <1>1, <1>3, <1>4, <1>5, <1>6, <1>7 DEF Progress, EndsWith

LEMMA LockRequestKeeps ==
  ASSUME RequestsInv, NEW c \in Client, NEW p \in Path, NEW recursive \in Depths,
         NEW share \in Shares, LockRequest(c, p, recursive, share)
  PROVE  Progress(c) /\ (UNCHANGED lost => EndsWith(c))
<1> DEFINE lock == Lock(c, p, recursive, share, FALSE)
<1>1. StateInv /\ UNCHANGED <<entries, props, known>>
  BY DEF RequestsInv, LockRequest
<1>2. /\ lock \in ActiveLock /\ lock.owner = c /\ lock.path = p /\ ~ lock.temporary
      /\ lock.recursive \in Depths /\ lock.share \in Shares
  BY RequestsAssumption DEF Lock, ActiveLock
<1>3. left' \in [Client -> Nat] /\ task[c].pc = "idle"
  <2>1. task[c].pc = "idle" /\ left[c] > 0 /\ left' = [left EXCEPT ![c] = @ - 1]
    BY DEF LockRequest, Sends
  <2>2. left \in [Client -> Nat]
    BY <1>1 DEF StateInv
  <2> QED  BY <2>1, <2>2
<1>4. task[c] = Idle /\ task[c].lock = NoToken /\ NoToken \notin Held'
  BY <1>3, IdleIsTask, RequestsAssumption DEF RequestsInv, OwnInv, Held
<1>5. Evolves(entries, entries')
  BY <1>1, SameEntries
<1>6. ASSUME NEW t \in Token, Granted(t, lock),
             task' = [task EXCEPT ![c] = LockTask(p, t)]
      PROVE  Progress(c) /\ (UNCHANGED lost => EndsWith(c))
  <2> DEFINE s == LockTask(p, t)
  <2>1. s = [pc |-> "select", method |-> "LOCK", path |-> p, submitted |-> NoToken,
             resource |-> Root, found |-> Nothing, lock |-> t, entry |-> 0, remove |-> {}]
    BY LockTaskIs
  <2> HIDE DEF s, lock
  <2>2. s \in Task
    BY <2>1, RequestsAssumption DEF Task, Stage, Tokens, Selection, Nothing
  <2>3. task' \in [Client -> Task] /\ task'[c] = s
        /\ \A d \in Client \ {c} : task'[d] = task[d]
    BY <1>1, <1>6, <2>2 DEF StateInv, s
  <2>4. /\ Kept /\ t \in Token /\ t \notin issued /\ Held' = Held \cup {t}
        /\ locks'[t] = lock
        /\ locks' \in [Token -> ActiveLock \cup {NoLock}]
        /\ issued' \subseteq Token /\ issued' = issued \cup {t} /\ Held' \subseteq issued'
        /\ Held' \ issued = {t}
    BY <1>1, <1>2, <1>6, GrantedIs
  <2>5. StateInv'
    <3>1. known' \in [Client -> SUBSET issued']
      BY <1>1, <2>4 DEF StateInv
    <3> QED  BY <1>1, <1>3, <2>3, <2>4, <3>1 DEF StateInv
  <2>6. SelectionInv(c)'
    BY <2>1, <2>3 DEF SelectionInv, Writing
  <2>7. OwnInv(c)'
    <3>1. \A u \in Held' \cap known'[c] : locks'[u].owner = c /\ ~ locks'[u].temporary
      BY <1>1, <2>4, <2>5, StillKnown
    <3> QED  BY <1>2, <1>4, <2>1, <2>3, <2>4, <3>1 DEF OwnInv
  <2>8. PowerInv(c)'
    BY <1>2, <1>4, <2>1, <2>3, <2>4 DEF PowerInv, Writing
  <2>9. Progress(c)
    BY <1>1, <1>2, <1>5, <2>3, <2>4, <2>5, <2>6, <2>7, <2>8 DEF Progress
  <2>10. UNCHANGED lost => EndsWith(c)
    BY <1>2, <1>4, <2>4 DEF EndsWith
  <2> QED  BY <2>9, <2>10
<1>7. ASSUME Refused(lock), UNCHANGED task
      PROVE  Progress(c) /\ (UNCHANGED lost => EndsWith(c))
  <2>1. UNCHANGED <<locks, issued>>
    BY <1>7 DEF Refused
  <2>2. Kept /\ Held' = Held /\ Held' \ issued = {}
    BY <1>1, <2>1, SameLocks
  <2>3. StateInv'
    BY <1>1, <1>3, <1>7, <2>1, SameLocks DEF StateInv
  <2>4. SelectionInv(c)' /\ OwnInv(c)' /\ PowerInv(c)'
    BY <1>1, <1>5, <1>7, <2>2, <2>3, Rests
  <2> QED  BY <1>1, <1>4, <1>5, <1>7, <2>2, <2>3, <2>4 DEF Progress, EndsWith
<1> HIDE DEF lock
<1> QED  BY <1>6, <1>7 DEF LockRequest, LockTask, lock

\* The lock of a LOCK request is the client's, and it is told its token.
LEMMA ToldIs ==
  ASSUME RequestsInv, NEW c \in Client, task[c].method = "LOCK", task[c].pc # "idle",
         UNCHANGED <<locks, issued>>, Tell(c)
  PROVE  /\ known' \in [Client -> SUBSET issued']
         /\ \A d \in Client \ {c} : known'[d] = known[d]
         /\ \A u \in Held' \cap known'[c] : locks'[u].owner = c /\ ~ locks'[u].temporary
<1>1. /\ task[c].lock # NoToken /\ task[c].lock \in issued \cup {NoToken}
      /\ task[c].lock \in Held =>
           locks[task[c].lock].owner = c /\ ~ locks[task[c].lock].temporary
      /\ \A u \in Held : u \in known[c] => locks[u].owner = c /\ ~ locks[u].temporary
  BY DEF RequestsInv, OwnInv, PowerInv
<1>2. known \in [Client -> SUBSET issued] /\ known' = [known EXCEPT ![c] = @ \cup {task[c].lock}]
  BY DEF RequestsInv, StateInv, Tell
<1>3. Held' = Held
  BY DEF Held
<1> QED  BY <1>1, <1>2, <1>3

LEMMA LockSelectKeeps ==
  ASSUME RequestsInv, NEW c \in Client, LockSelect(c)
  PROVE  Progress(c) /\ (UNCHANGED lost => EndsWith(c))
<1> DEFINE found == Select(entries, task[c].path)
<1>1. /\ StateInv /\ UNCHANGED <<entries, props, locks, issued, left>>
      /\ task[c].method = "LOCK" /\ task[c].pc = "select"
      /\ SelectionInv(c) /\ OwnInv(c) /\ PowerInv(c) /\ task[c] \in Task
  BY DEF RequestsInv, LockSelect, At, StateInv
<1>2. Kept /\ Held' = Held /\ Held' \ issued = {} /\ Evolves(entries, entries')
  BY <1>1, SameLocks, SameEntries
<1>3. Fits(entries, found, task[c].path)
  BY <1>1, SelectFits DEF StateInv, Task
<1>4. /\ task[c].lock # NoToken
      /\ task[c].lock \in Held' => ~ locks'[task[c].lock].temporary
      /\ NoToken \notin Held'
  BY <1>1, <1>2, RequestsAssumption DEF PowerInv, Held
<1>5. CASE Answer(c) /\ (Tell(c) \/ UNCHANGED known)
  <2>1. /\ task' \in [Client -> Task] /\ task'[c] = Idle
        /\ \A d \in Client \ {c} : task'[d] = task[d]
    BY <1>1, <1>5, AnswerIs
  <2>2. known' \in [Client -> SUBSET issued']
        /\ \A d \in Client \ {c} : known'[d] = known[d]
    BY <1>1, <1>5, ToldIs DEF StateInv
  <2>3. StateInv'
    BY <1>1, <1>2, <2>1, <2>2, SameLocks DEF StateInv
  <2>4. \A u \in Held' \cap known'[c] : locks'[u].owner = c /\ ~ locks'[u].temporary
    BY <1>1, <1>2, <1>5, <2>3, ToldIs, StillKnown
  <2>5. SelectionInv(c)' /\ OwnInv(c)' /\ PowerInv(c)'
    BY <1>2, <2>1, <2>3, <2>4, Answered
  <2> QED  BY <1>2, <1>4, <2>1, <2>2, <2>3, <2>5 DEF Progress, EndsWith
<1>6. CASE /\ found.missing = 1 /\ UNCHANGED known
           /\ task' = [task EXCEPT ![c].pc = "create", ![c].found = found]
  <2> DEFINE r == task[c]
             s1 == [r EXCEPT !.pc = "create"]
             s == [s1 EXCEPT !.found = found]
  <2>1. task' = [task EXCEPT ![c] = s]
    BY <1>6
  <2>2. s1 \in Task /\ s1.pc = "create" /\ s1.method = r.method /\ s1.path = r.path
        /\ s1.submitted = r.submitted /\ s1.lock = r.lock /\ s1.remove = r.remove
    <3>1. "create" \in Stage
      BY DEF Stage
    <3> QED  BY <1>1, <3>1, TaskWith
  <2> HIDE DEF s1, found
  <2>3. s \in Task /\ s.pc = "create" /\ s.method = r.method /\ s.path = r.path
        /\ s.submitted = r.submitted /\ s.lock = r.lock /\ s.remove = r.remove
        /\ s.found = found
    <3>1. found \in Selection
      BY <1>3 DEF Fits
    <3> QED  BY <2>2, <3>1, TaskWith
  <2> HIDE DEF s
  <2>4. task' \in [Client -> Task] /\ task'[c] = s
        /\ \A d \in Client \ {c} : task'[d] = task[d]
    BY <1>1, <2>1, <2>3 DEF StateInv
  <2>5. StateInv'
    BY <1>1, <1>2, <1>6, <2>4, SameLocks DEF StateInv
  <2>6. SelectionInv(c)'
    BY <1>1, <1>3, <1>6, <2>3, <2>4 DEF SelectionInv, Writing
  <2>7. OwnInv(c)'
    BY <1>1, <1>2, <1>6, <2>3, <2>4 DEF OwnInv
  <2>8. PowerInv(c)'
    BY <1>1, <1>2, <1>6, <2>3, <2>4 DEF PowerInv, Writing
  <2> QED  BY <1>2, <1>6, <2>3, <2>4, <2>5, <2>6, <2>7, <2>8 DEF Progress, EndsWith
<1> HIDE DEF found
<1> QED  BY <1>5, <1>6 DEF LockSelect, found

LEMMA LockCreateKeeps ==
  ASSUME RequestsInv, NEW c \in Client, LockCreate(c)
  PROVE  Progress(c) /\ (UNCHANGED lost => EndsWith(c))
<1> DEFINE p == task[c].path
           parent == task[c].found.collection
<1>1. /\ StateInv /\ UNCHANGED <<props, locks, issued, left>>
      /\ task[c].method = "LOCK" /\ task[c].pc = "create"
      /\ SelectionInv(c) /\ OwnInv(c) /\ PowerInv(c)
  BY DEF RequestsInv, LockCreate, At
<1>2. Kept /\ Held' = Held /\ Held' \ issued = {}
  BY <1>1, SameLocks
<1>3. /\ task[c].lock # NoToken
      /\ task[c].lock \in Held' => ~ locks'[task[c].lock].temporary
      /\ NoToken \notin Held'
  BY <1>1, <1>2, RequestsAssumption DEF PowerInv, Held
<1>4. CASE /\ CanCreate(entries, p, parent)
           /\ entries' = Create(entries, "document", p, parent, "empty")
           /\ Answer(c) /\ Tell(c)
  <2>1. /\ parent \in DOMAIN entries /\ entries[parent].kind = "collection"
        /\ entries[parent].path = Above[p] /\ p \in Path \ {Root}
    BY <1>1 DEF SelectionInv, Fits, StateInv, Task
  <2>2. FileSystemInv(entries') /\ Evolves(entries, entries')
    BY <1>1, <1>4, <2>1, CreateKeeps DEF StateInv, Data
  <2>3. /\ task' \in [Client -> Task] /\ task'[c] = Idle
        /\ \A d \in Client \ {c} : task'[d] = task[d]
    BY <1>1, <1>4, AnswerIs
  <2>4. /\ known' \in [Client -> SUBSET issued']
        /\ \A d \in Client \ {c} : known'[d] = known[d]
        /\ \A u \in Held' \cap known'[c] : locks'[u].owner = c /\ ~ locks'[u].temporary
    BY <1>1, <1>4, ToldIs
  <2>5. StateInv'
    BY <1>1, <2>2, <2>3, <2>4, SameLocks DEF StateInv
  <2>6. SelectionInv(c)' /\ OwnInv(c)' /\ PowerInv(c)'
    BY <1>2, <2>3, <2>4, <2>5, Answered
  <2> QED  BY <1>2, <1>3, <2>2, <2>3, <2>4, <2>5, <2>6 DEF Progress, EndsWith
<1>5. CASE GoTo(c, "dispose") /\ UNCHANGED <<entries, known>>
  <2>1. /\ task' \in [Client -> Task]
        /\ \A d \in Client \ {c} : task'[d] = task[d]
        /\ LET r == task[c] s == task'[c] IN
              /\ s.pc = "dispose" /\ s.method = r.method /\ s.path = r.path
              /\ s.submitted = r.submitted /\ s.resource = r.resource /\ s.found = r.found
              /\ s.lock = r.lock /\ s.entry = r.entry /\ s.remove = r.remove
    <3>1. "dispose" \in Stage
      BY DEF Stage
    <3> QED  BY <1>1, <1>5, <3>1, GoToIs
  <2>2. StateInv' /\ Evolves(entries, entries')
    BY <1>1, <1>5, <2>1, SameLocks, SameEntries DEF StateInv
  <2>3. SelectionInv(c)'
    BY <1>1, <2>1 DEF SelectionInv, Writing
  <2>4. OwnInv(c)'
    BY <1>1, <1>2, <1>5, <2>1 DEF OwnInv
  <2>5. PowerInv(c)'
    BY <1>1, <1>2, <1>5, <2>1 DEF PowerInv, Writing
  <2> QED  BY <1>2, <1>5, <2>1, <2>2, <2>3, <2>4, <2>5 DEF Progress, EndsWith
<1> QED  BY <1>4, <1>5 DEF LockCreate

LEMMA UnlockKeeps ==
  ASSUME RequestsInv, NEW c \in Client, NEW t, Unlock(c, t)
  PROVE  Progress(c) /\ (UNCHANGED lost => EndsWith(c))
<1>1. StateInv /\ UNCHANGED <<entries, props, issued, task>>
  BY DEF RequestsInv, Unlock
<1>2. left' \in [Client -> Nat]
  BY <1>1 DEF Unlock, Sends, StateInv
<1>3. t \in Token /\ known \in [Client -> SUBSET issued]
  BY <1>1 DEF StateInv, Unlock
<1>4. /\ known' \in [Client -> SUBSET issued'] /\ known'[c] \subseteq known[c]
      /\ \A d \in Client \ {c} : known'[d] = known[d]
  BY <1>1, <1>3 DEF Unlock
<1>5. /\ Kept /\ locks' \in [Token -> ActiveLock \cup {NoLock}]
      /\ issued' \subseteq Token /\ Held' \subseteq issued' /\ Held' \ issued = {}
  BY <1>1, <1>3, ReleasedIs DEF Unlock
<1>6. StateInv' /\ Evolves(entries, entries')
  BY <1>1, <1>2, <1>4, <1>5, SameEntries DEF StateInv
<1>7. SelectionInv(c)' /\ OwnInv(c)' /\ PowerInv(c)'
  BY <1>1, <1>4, <1>5, <1>6, Rests
<1> QED  BY <1>1, <1>4, <1>5, <1>6, <1>7 DEF Progress, EndsWith

LEMMA ExpireKeeps ==
  ASSUME RequestsInv, NEW c \in Client, NEW t \in Token, Expire(t)
  PROVE  Progress(c) /\ (UNCHANGED lost => EndsWith(c))
<1>1. StateInv /\ UNCHANGED <<entries, props, issued, task, known, left>>
  BY DEF RequestsInv, Expire
<1>2. /\ Kept /\ locks' \in [Token -> ActiveLock \cup {NoLock}]
      /\ issued' \subseteq Token /\ Held' \subseteq issued' /\ Held' \ issued = {}
  BY <1>1, ReleasedIs DEF Expire
<1>3. StateInv' /\ Evolves(entries, entries')
  BY <1>1, <1>2, SameEntries DEF StateInv
<1>4. SelectionInv(c)' /\ OwnInv(c)' /\ PowerInv(c)'
  BY <1>1, <1>2, <1>3, Rests
<1> QED  BY <1>1, <1>2, <1>3, <1>4 DEF Progress, EndsWith

\* Nothing about c's own locks changes: what an action of a handler does that
\* leaves the locks alone and goes on.
LEMMA HandlerKeeps ==
  ASSUME RequestsInv, NEW c \in Client, NEW pc \in Begun,
         UNCHANGED <<locks, issued, known, left>>,
         task[c].pc \in Begun \ {"dispose"},
         FileSystemInv(entries'), Evolves(entries, entries'), DOMAIN props' = Path,
         task' \in [Client -> Task],
         \A d \in Client \ {c} : task'[d] = task[d],
         LET r == task[c] s == task'[c] IN
            /\ s.pc = pc /\ s.method = r.method /\ s.path = r.path
            /\ s.submitted = r.submitted /\ s.resource = r.resource /\ s.found = r.found
            /\ s.lock = r.lock
            /\ s.remove \subseteq issued
            /\ \A u \in s.remove \cap Held : IsBaseOf(r.path, locks[u].path)
            /\ s.pc = "write" => /\ s.entry \in DOMAIN entries'
                                 /\ entries'[s.entry].path = r.path
                                 /\ entries'[s.entry].kind = "document"
            /\ r.method = "DELETE" /\ pc \in {"affected", "release", "dispose"} /\ r.path # Root
               => r.found.entry \notin entries'[entries'[r.found.entry].parent].members
  PROVE  Progress(c) /\ (UNCHANGED lost => EndsWith(c))
<1>1. StateInv
  BY DEF RequestsInv
<1>2. Kept /\ Held' = Held /\ Held' \ issued = {}
  BY <1>1, SameLocks
<1>3. StateInv'
  BY <1>1, SameLocks DEF StateInv
<1>4. SelectionInv(c)' /\ OwnInv(c)' /\ PowerInv(c)'
  BY <1>2, <1>3, GoesOn
<1> QED  BY <1>2, <1>3, <1>4 DEF Progress, EndsWith

\* What c had selected, once it has its lock.
LEMMA SelectedIs ==
  ASSUME RequestsInv, NEW c \in Client, task[c].method \in Writing, task[c].pc \in Begun
  PROVE  /\ Fits(entries, task[c].found, task[c].path)
         /\ Serves(task[c].method, task[c].found)
         /\ task[c].path \in Path
         /\ task[c].remove \subseteq issued
         /\ \A u \in task[c].remove \cap Held : IsBaseOf(task[c].path, locks[u].path)
         /\ FileSystemInv(entries) /\ DOMAIN props = Path /\ task[c] \in Task
<1>1. SelectionInv(c) /\ OwnInv(c) /\ PowerInv(c) /\ StateInv /\ task[c] \in Task
  BY DEF RequestsInv, StateInv
<1>2. Fits(entries, task[c].found, task[c].path) /\ Serves(task[c].method, task[c].found)
  BY <1>1 DEF SelectionInv, Begun
<1> QED  BY <1>1, <1>2 DEF OwnInv, PowerInv, StateInv, Task

LEMMA OpenKeeps ==
  ASSUME RequestsInv, NEW c \in Client, Open(c)
  PROVE  Progress(c) /\ (UNCHANGED lost => EndsWith(c))
<1> DEFINE r == task[c]
           found == r.found
           creates == found.missing = 1 /\ CanCreate(entries, r.path, found.collection)
           Opened(e) == task' = [task EXCEPT ![c].pc = "write", ![c].entry = e]
<1>1. /\ r.method = "PUT" /\ r.pc = "act" /\ StateInv
      /\ UNCHANGED <<props, locks, issued, known, left>>
  BY DEF Open, At, RequestsInv
<1>2. /\ Fits(entries, found, r.path) /\ Serves("PUT", found) /\ r.path \in Path
      /\ r.remove \subseteq issued
      /\ \A u \in r.remove \cap Held : IsBaseOf(r.path, locks[u].path)
      /\ FileSystemInv(entries) /\ DOMAIN props = Path /\ r \in Task
  BY <1>1, SelectedIs DEF Writing, Begun
<1>3. ASSUME NEW e \in Nat, Opened(e), FileSystemInv(entries'), Evolves(entries, entries'),
             e \in DOMAIN entries', entries'[e].path = r.path, entries'[e].kind = "document"
      PROVE  Progress(c) /\ (UNCHANGED lost => EndsWith(c))
  <2> DEFINE s1 == [r EXCEPT !.pc = "write"]
             s == [s1 EXCEPT !.entry = e]
  <2>1. task' = [task EXCEPT ![c] = s]
    BY <1>3
  <2>2. s1 \in Task /\ s1.pc = "write" /\ s1.method = r.method /\ s1.path = r.path
        /\ s1.submitted = r.submitted /\ s1.resource = r.resource /\ s1.found = r.found
        /\ s1.lock = r.lock /\ s1.remove = r.remove
    <3>1. "write" \in Stage
      BY DEF Stage
    <3> QED  BY <1>2, <3>1, TaskWith
  <2> HIDE DEF s1
  <2>3. s \in Task /\ s.pc = "write" /\ s.method = r.method /\ s.path = r.path
        /\ s.submitted = r.submitted /\ s.resource = r.resource /\ s.found = r.found
        /\ s.lock = r.lock /\ s.remove = r.remove /\ s.entry = e
    BY <2>2, TaskWith
  <2> HIDE DEF s
  <2>4. task' \in [Client -> Task] /\ task'[c] = s
        /\ \A d \in Client \ {c} : task'[d] = task[d]
    BY <1>1, <2>1, <2>3 DEF StateInv
  <2>5. "write" \in Begun \ {"dispose"} /\ "act" \in Begun \ {"dispose"}
    BY DEF Begun
  <2>6. UNCHANGED <<locks, issued, known, left>> /\ DOMAIN props' = Path
    BY <1>1, <1>2
  <2> QED  BY <1>1, <1>2, <1>3, <2>3, <2>4, <2>5, <2>6, HandlerKeeps
<1>4. CASE /\ found.result = "FoundDocument"
           /\ entries' = [entries EXCEPT ![found.entry].data = "empty"]
           /\ Opened(found.entry)
  <2>1. found.missing = 0 /\ found \in Selection
    BY <1>2, <1>4 DEF Fits
  <2>2. /\ found.entry \in DOMAIN entries /\ entries[found.entry].path = r.path
        /\ entries[found.entry].kind \in {"collection", "document"}
    BY <1>2, <2>1 DEF Fits, FileSystemInv, IsFileSystem
  <2>3. entries[found.entry].kind = "document"
    BY <1>2, <1>4, <2>1, <2>2 DEF Fits
  <2>4. /\ FileSystemInv(entries') /\ Evolves(entries, entries')
        /\ DOMAIN entries' = DOMAIN entries
    BY <1>2, <1>4, <2>2, PutKeeps DEF Data
  <2>5. entries'[found.entry].path = r.path /\ entries'[found.entry].kind = "document"
    BY <2>2, <2>3, <2>4 DEF Evolves
  <2> QED  BY <1>3, <1>4, <2>1, <2>2, <2>4, <2>5 DEF Selection
<1>5. CASE /\ creates
           /\ entries' = Create(entries, "document", r.path, found.collection, "empty")
           /\ Opened(Len(entries) + 1)
  <2>1. /\ found.collection \in DOMAIN entries /\ entries[found.collection].kind = "collection"
        /\ entries[found.collection].path = Above[r.path] /\ r.path \in Path \ {Root}
    BY <1>2, <1>5 DEF Fits
  <2>2. /\ FileSystemInv(entries') /\ Evolves(entries, entries')
        /\ Len(entries) \in Nat /\ DOMAIN entries' = DOMAIN entries \cup {Len(entries) + 1}
        /\ entries'[Len(entries) + 1] = NewEntry("document", r.path, found.collection, "empty")
    <3>1. "empty" \in Data /\ "document" \in {"collection", "document"}
      BY DEF Data
    <3>2. CanCreate(entries, r.path, found.collection) /\ FileSystemInv(entries)
      BY <1>2, <1>5
    <3>3. /\ FileSystemInv(entries') /\ Evolves(entries, entries')
          /\ Grown(entries, entries', "document", r.path, found.collection, "empty")
      BY <1>5, <2>1, <3>1, <3>2, CreateKeeps
    <3> QED  BY <3>3 DEF Grown
  <2> DEFINE n == Len(entries) + 1
  <2>3. entries'[n].path = r.path /\ entries'[n].kind = "document"
    BY <2>2 DEF NewEntry
  <2>4. n \in Nat /\ n \in DOMAIN entries' /\ Opened(n)
    BY <1>5, <2>2
  <2>5. FileSystemInv(entries') /\ Evolves(entries, entries')
    BY <2>2
  <2> HIDE DEF n, Opened
  <2> QED  BY <1>3, <2>3, <2>4, <2>5
<1>6. CASE GoTo(c, "dispose") /\ UNCHANGED entries
  <2>1. "dispose" \in Stage /\ "dispose" \in Begun /\ "act" \in Begun \ {"dispose"}
    BY DEF Stage, Begun
  <2>2. /\ task' \in [Client -> Task]
        /\ \A d \in Client \ {c} : task'[d] = task[d]
        /\ LET s == task'[c] IN
              /\ s.pc = "dispose" /\ s.method = r.method /\ s.path = r.path
              /\ s.submitted = r.submitted /\ s.resource = r.resource /\ s.found = r.found
              /\ s.lock = r.lock /\ s.entry = r.entry /\ s.remove = r.remove
    BY <1>1, <1>6, <2>1, GoToIs
  <2>3. FileSystemInv(entries') /\ Evolves(entries, entries')
    BY <1>2, <1>6, SameEntries
  <2> QED  BY <1>1, <1>2, <2>1, <2>2, <2>3, HandlerKeeps
<1> HIDE DEF creates, Opened
<1> QED  BY <1>4, <1>5, <1>6 DEF Open, creates, Opened

LEMMA HandlerGoesTo ==
  ASSUME RequestsInv, NEW c \in Client, NEW pc \in Begun \ {"write"}, GoTo(c, pc),
         UNCHANGED <<locks, issued, known, left>>,
         task[c].pc \in Begun \ {"dispose"},
         FileSystemInv(entries'), Evolves(entries, entries'), DOMAIN props' = Path,
         LET r == task[c] IN
            r.method = "DELETE" /\ pc \in {"affected", "release", "dispose"} /\ r.path # Root
               => r.found.entry \notin entries'[entries'[r.found.entry].parent].members
  PROVE  Progress(c) /\ (UNCHANGED lost => EndsWith(c))
<1>1. StateInv /\ OwnInv(c) /\ PowerInv(c) /\ pc \in Stage
  BY DEF RequestsInv, Begun, Stage
<1>2. /\ task[c].remove \subseteq issued
      /\ \A u \in task[c].remove \cap Held : IsBaseOf(task[c].path, locks[u].path)
  BY <1>1 DEF OwnInv, PowerInv
<1>3. /\ task' \in [Client -> Task]
      /\ \A d \in Client \ {c} : task'[d] = task[d]
      /\ LET r == task[c] s == task'[c] IN
            /\ s.pc = pc /\ s.method = r.method /\ s.path = r.path
            /\ s.submitted = r.submitted /\ s.resource = r.resource /\ s.found = r.found
            /\ s.lock = r.lock /\ s.entry = r.entry /\ s.remove = r.remove
  BY <1>1, GoToIs
<1> QED  BY <1>2, <1>3, HandlerKeeps

LEMMA WriteKeeps ==
  ASSUME RequestsInv, NEW c \in Client, Write(c)
  PROVE  Progress(c) /\ (UNCHANGED lost => EndsWith(c))
<1>1. /\ task[c].method = "PUT" /\ task[c].pc = "write"
      /\ UNCHANGED <<props, locks, issued, known, left>> /\ GoTo(c, "properties")
      /\ entries' = [entries EXCEPT ![task[c].entry].data = c]
  BY DEF Write, At
<1>2. task[c].entry \in DOMAIN entries /\ FileSystemInv(entries) /\ DOMAIN props = Path
  BY <1>1 DEF RequestsInv, SelectionInv, StateInv
<1>3. FileSystemInv(entries') /\ Evolves(entries, entries')
  BY <1>1, <1>2, PutKeeps DEF Data
<1>4. "properties" \in Begun \ {"write"} /\ "write" \in Begun \ {"dispose"}
  BY DEF Begun
<1> QED  BY <1>1, <1>2, <1>3, <1>4, HandlerGoesTo

LEMMA WritePropertiesKeeps ==
  ASSUME RequestsInv, NEW c \in Client, WriteProperties(c)
  PROVE  Progress(c) /\ (UNCHANGED lost => EndsWith(c))
<1>1. /\ task[c].method = "PUT" /\ task[c].pc = "properties"
      /\ UNCHANGED <<entries, locks, issued, known, left>> /\ GoTo(c, "dispose")
  BY DEF WriteProperties, At
<1>2. FileSystemInv(entries') /\ Evolves(entries, entries') /\ DOMAIN props = Path
  BY <1>1, SameEntries DEF RequestsInv, StateInv
<1>3. DOMAIN props' = Path
  BY <1>2 DEF WriteProperties
<1>4. "dispose" \in Begun \ {"write"} /\ "properties" \in Begun \ {"dispose"}
  BY DEF Begun
<1> QED  BY <1>1, <1>2, <1>3, <1>4, HandlerGoesTo

LEMMA MakeKeeps ==
  ASSUME RequestsInv, NEW c \in Client, Make(c)
  PROVE  Progress(c) /\ (UNCHANGED lost => EndsWith(c))
<1> DEFINE p == task[c].path
           parent == task[c].found.collection
<1>1. /\ task[c].method = "MKCOL" /\ task[c].pc = "act"
      /\ UNCHANGED <<props, locks, issued, known, left>> /\ GoTo(c, "dispose")
      /\ \/ /\ CanCreate(entries, p, parent)
            /\ entries' = Create(entries, "collection", p, parent, "empty")
         \/ UNCHANGED entries
  BY DEF Make, At
<1>2. /\ Fits(entries, task[c].found, p) /\ Serves("MKCOL", task[c].found) /\ p \in Path
      /\ FileSystemInv(entries) /\ DOMAIN props = Path
  BY <1>1, SelectedIs DEF Writing, Begun
<1>3. /\ parent \in DOMAIN entries /\ entries[parent].kind = "collection"
      /\ entries[parent].path = Above[p] /\ p \in Path \ {Root}
  BY <1>2 DEF Fits, Serves
<1>4. FileSystemInv(entries') /\ Evolves(entries, entries')
  <2>1. "empty" \in Data /\ "collection" \in {"collection", "document"}
    BY DEF Data
  <2> QED  BY <1>1, <1>2, <1>3, <2>1, CreateKeeps, SameEntries
<1>5. "dispose" \in Begun \ {"write"} /\ "act" \in Begun \ {"dispose"}
  BY DEF Begun
<1> QED  BY <1>1, <1>2, <1>4, <1>5, HandlerGoesTo

\* DELETE takes away the object it selected, if that is still there.
LEMMA DeleteIs ==
  ASSUME RequestsInv, NEW c \in Client, Delete(c), task[c].path # Root
  PROVE  LET e == task[c].found.entry
             d == entries[task[c].found.entry].parent
         IN /\ e \in DOMAIN entries /\ entries[e].path = task[c].path
            /\ d \in DOMAIN entries /\ entries[d].path = Above[task[c].path]
            /\ entries[d].kind = "collection"
            /\ FileSystemInv(entries') /\ Evolves(entries, entries')
            /\ Shrunk(entries, entries', task[c].path, d)
            /\ e \notin entries'[entries'[e].parent].members
<1> DEFINE p == task[c].path
           e == task[c].found.entry
           d == entries[e].parent
<1>1. /\ task[c].method = "DELETE" /\ task[c].pc = "act"
      /\ entries' = Remove(entries, p, d)
  BY DEF Delete, At
<1>2. /\ Fits(entries, task[c].found, p) /\ Serves("DELETE", task[c].found)
      /\ FileSystemInv(entries)
  BY <1>1, SelectedIs DEF Writing, Begun
<1>3. e \in DOMAIN entries /\ entries[e].path = p
  BY <1>2 DEF Fits, Serves, IsMissing
<1>4. /\ d \in DOMAIN entries /\ entries[d].path = Above[p]
      /\ entries[d].kind = "collection"
  BY <1>2, <1>3 DEF FileSystemInv
<1>5. /\ FileSystemInv(entries') /\ Evolves(entries, entries')
      /\ Shrunk(entries, entries', p, d)
  BY <1>1, <1>2, <1>4, RemoveKeeps
<1>6. e \notin entries'[entries'[e].parent].members
  <2>1. entries'[e].parent = d
    BY <1>3, <1>5 DEF Evolves
  <2>2. entries'[d].members = entries[d].members \ Members(entries, d, p)
    BY <1>4, <1>5 DEF Shrunk
  <2> QED  BY <1>3, <2>1, <2>2 DEF Members
<1> QED  BY <1>3, <1>4, <1>5, <1>6

LEMMA DeleteKeeps ==
  ASSUME RequestsInv, NEW c \in Client, Delete(c)
  PROVE  Progress(c) /\ (UNCHANGED lost => EndsWith(c))
<1>1. /\ task[c].method = "DELETE" /\ task[c].pc = "act"
      /\ UNCHANGED <<locks, issued, known, left>> /\ GoTo(c, "affected")
  BY DEF Delete, At
<1>2. FileSystemInv(entries) /\ DOMAIN props = Path
  BY DEF RequestsInv, StateInv
<1>3. DOMAIN props' = Path
  BY <1>2 DEF Delete
<1>4. FileSystemInv(entries') /\ Evolves(entries, entries')
  <2>1. CASE task[c].path = Root
    BY <1>2, <2>1, SameEntries DEF Delete
  <2>2. CASE task[c].path # Root
    BY <2>2, DeleteIs
  <2> QED  BY <2>1, <2>2
<1>5. task[c].path # Root =>
        task[c].found.entry \notin entries'[entries'[task[c].found.entry].parent].members
  BY DeleteIs
<1>6. "affected" \in Begun \ {"write"} /\ "act" \in Begun \ {"dispose"}
  BY DEF Begun
<1> QED  BY <1>1, <1>3, <1>4, <1>5, <1>6, HandlerGoesTo

\* The affected locks are at the resource or below it.
LEMMA AffectedIs ==
  ASSUME NEW p \in Path, NEW u \in GetLocks(Find(locks, Held, p, TRUE, FALSE))
  PROVE  u \in Held /\ IsBaseOf(p, locks[u].path)
BY DEF GetLocks, Find, Compare, IsBaseOf

LEMMA FindAffectedKeeps ==
  ASSUME RequestsInv, NEW c \in Client, FindAffected(c)
  PROVE  Progress(c) /\ (UNCHANGED lost => EndsWith(c))
<1> DEFINE r == task[c]
           affected == GetLocks(Find(locks, Held, r.path, TRUE, FALSE))
           s1 == [r EXCEPT !.pc = "release"]
           s == [s1 EXCEPT !.remove = affected]
<1>1. /\ StateInv /\ r \in Task /\ r.pc = "affected"
      /\ UNCHANGED <<entries, props, locks, issued, known, left>>
      /\ task' = [task EXCEPT ![c] = s]
      /\ SelectionInv(c) /\ r.path \in Path
  BY DEF RequestsInv, FindAffected, StateInv, Task
<1>2. /\ affected \subseteq issued /\ issued \subseteq Token
      /\ \A u \in affected : IsBaseOf(r.path, locks[u].path)
  BY <1>1, AffectedIs DEF StateInv
<1> HIDE DEF affected
<1>3. s1 \in Task /\ s1.pc = "release" /\ s1.method = r.method /\ s1.path = r.path
      /\ s1.submitted = r.submitted /\ s1.resource = r.resource /\ s1.found = r.found
      /\ s1.lock = r.lock
  <2>1. "release" \in Stage
    BY DEF Stage
  <2> QED  BY <1>1, <2>1, TaskWith
<1> HIDE DEF s1
<1>4. s \in Task /\ s.pc = "release" /\ s.method = r.method /\ s.path = r.path
      /\ s.submitted = r.submitted /\ s.resource = r.resource /\ s.found = r.found
      /\ s.lock = r.lock /\ s.remove = affected
  <2>1. affected \in SUBSET Token
    BY <1>2
  <2> QED  BY <1>3, <2>1, TaskWith
<1> HIDE DEF s
<1>5. task' \in [Client -> Task] /\ task'[c] = s
      /\ \A d \in Client \ {c} : task'[d] = task[d]
  BY <1>1, <1>4 DEF StateInv
<1>6. FileSystemInv(entries') /\ Evolves(entries, entries') /\ DOMAIN props' = Path
  BY <1>1, SameEntries DEF StateInv
<1>7. r.method = "DELETE" /\ r.path # Root =>
        r.found.entry \notin entries'[entries'[r.found.entry].parent].members
  BY <1>1 DEF SelectionInv
<1>8. "release" \in Begun /\ r.pc \in Begun \ {"dispose"} /\ s.pc # "write"
  BY <1>1, <1>4 DEF Begun
<1> QED  BY <1>1, <1>2, <1>4, <1>5, <1>6, <1>7, <1>8, HandlerKeeps

LEMMA ReleaseAffectedKeeps ==
  ASSUME RequestsInv, NEW c \in Client, ReleaseAffected(c)
  PROVE  Progress(c) /\ (UNCHANGED lost => EndsWith(c))
<1> DEFINE r == task[c]
<1>1. /\ StateInv /\ r \in Task /\ r.pc = "release"
      /\ UNCHANGED <<entries, props, issued, known, left>>
      /\ SelectionInv(c) /\ OwnInv(c) /\ PowerInv(c) /\ NoToken \notin Token
  BY RequestsAssumption DEF RequestsInv, ReleaseAffected, StateInv
<1>2. /\ r.remove \subseteq issued /\ issued \subseteq Token
      /\ \A u \in r.remove \cap Held : IsBaseOf(r.path, locks[u].path)
  BY <1>1 DEF StateInv, OwnInv, PowerInv
<1>3. FileSystemInv(entries') /\ Evolves(entries, entries') /\ DOMAIN props' = Path
  BY <1>1, SameEntries DEF StateInv
<1>4. r.method = "DELETE" /\ r.path # Root =>
        r.found.entry \notin entries'[entries'[r.found.entry].parent].members
  BY <1>1 DEF SelectionInv
<1>5. r.pc \in Begun \ {"dispose"} /\ "dispose" \in Begun \ {"write"} /\ r.pc # "write"
  BY <1>1 DEF Begun
<1>6. ASSUME NEW t \in r.remove, Released(t), task' = [task EXCEPT ![c].remove = @ \ {t}]
      PROVE  Progress(c) /\ (UNCHANGED lost => EndsWith(c))
  <2> DEFINE s == [r EXCEPT !.remove = r.remove \ {t}]
  <2>1. task' = [task EXCEPT ![c] = s]
    BY <1>6
  <2>2. s \in Task /\ s.pc = r.pc /\ s.method = r.method /\ s.path = r.path
        /\ s.submitted = r.submitted /\ s.resource = r.resource /\ s.found = r.found
        /\ s.lock = r.lock /\ s.remove = r.remove \ {t}
    <3>1. r.remove \ {t} \in SUBSET Token
      BY <1>2
    <3> QED  BY <1>1, <3>1, TaskWith
  <2> HIDE DEF s
  <2>3. task' \in [Client -> Task] /\ task'[c] = s
        /\ \A d \in Client \ {c} : task'[d] = task[d]
    BY <1>1, <2>1, <2>2 DEF StateInv
  <2>4. /\ Kept /\ locks' \in [Token -> ActiveLock \cup {NoLock}]
        /\ issued' \subseteq Token /\ Held' \subseteq issued' /\ Held' \ issued = {}
    BY <1>1, <1>2, <1>6, ReleasedIs
  <2>5. StateInv'
    BY <1>1, <1>3, <2>3, <2>4 DEF StateInv
  <2>6. SelectionInv(c)' /\ OwnInv(c)' /\ PowerInv(c)'
    BY <1>1, <1>2, <1>3, <1>4, <1>5, <2>2, <2>3, <2>4, <2>5, GoesOn
  <2> QED  BY <1>1, <1>3, <2>2, <2>3, <2>4, <2>5, <2>6 DEF Progress, EndsWith
<1>7. CASE GoTo(c, "dispose") /\ UNCHANGED locks
  BY <1>1, <1>3, <1>4, <1>5, <1>7, HandlerGoesTo
<1> QED  BY <1>6, <1>7 DEF ReleaseAffected

LEMMA HangUpKeeps ==
  ASSUME RequestsInv, NEW c \in Client, HangUp(c)
  PROVE  Progress(c) /\ EndsWith(c)
<1>1. /\ StateInv /\ SelectionInv(c) /\ OwnInv(c)
      /\ UNCHANGED <<props, locks, issued, known, left>> /\ Answer(c)
      /\ lost' = lost \cup ({task[c].lock} \ {NoToken}) /\ NoToken \notin Token
  BY RequestsAssumption DEF RequestsInv, HangUp
<1>2. Kept /\ Held' = Held /\ Held' \ issued = {}
  BY <1>1, SameLocks
<1>3. FileSystemInv(entries') /\ Evolves(entries, entries')
  <2>1. CASE task[c].pc = "write"
    <3>1. task[c].entry \in DOMAIN entries /\ FileSystemInv(entries)
      BY <1>1, <2>1 DEF SelectionInv, StateInv
    <3> QED  BY <2>1, <3>1, PutKeeps DEF HangUp, Data
  <2>2. CASE task[c].pc # "write"
    BY <1>1, <2>2, SameEntries DEF HangUp, StateInv
  <2> QED  BY <2>1, <2>2
<1>4. /\ task' \in [Client -> Task] /\ task'[c] = Idle
      /\ \A d \in Client \ {c} : task'[d] = task[d]
  BY <1>1, AnswerIs
<1>5. StateInv'
  BY <1>1, <1>3, <1>4, SameLocks DEF StateInv
<1>6. SelectionInv(c)' /\ OwnInv(c)' /\ PowerInv(c)'
  BY <1>1, <1>2, <1>4, <1>5, StillKnown, Answered
<1>7. Held' \subseteq Token
  BY DEF Held
<1> QED  BY <1>1, <1>2, <1>3, <1>4, <1>5, <1>6, <1>7 DEF Progress, EndsWith

-----------------------------------------------------------------------------
(* The invariant holds.                                                     *)

LEMMA InitInv ==
  ASSUME Init
  PROVE  Inv
<1>1. PICK tree \in Trees : entries = Planted(tree)
  BY DEF Init
<1>2. /\ locks = [t \in Token |-> NoLock] /\ issued = {} /\ lost = {}
      /\ task = [c \in Client |-> Idle] /\ known = [c \in Client |-> {}] /\ left = Requests
  BY DEF Init
<1>3. Held = {} /\ DOMAIN props = Path
  BY <1>2 DEF Init, Held
<1>4. StateInv
  BY <1>1, <1>2, <1>3, PlantedIsFileSystem, IdleIsTask, RequestsAssumption DEF StateInv
<1>5. ASSUME NEW c \in Client
      PROVE  SelectionInv(c) /\ OwnInv(c) /\ PowerInv(c)
  <2>1. task[c] = Idle
    BY <1>2
  <2> QED  BY <1>3, <2>1, IdleIsTask DEF SelectionInv, OwnInv, PowerInv, Writing, Begun
<1>6. ExplicitInv /\ TemporaryLocksEnd
  BY <1>3 DEF ExplicitInv, TemporaryLocksEnd, Explicit
<1> QED  BY <1>4, <1>5, <1>6 DEF Inv

\* A request that is idle has no lock it could lose.
LEMMA IdleEnds ==
  ASSUME RequestsInv, NEW c \in Client, task[c].pc = "idle", Held' \ issued = {},
         UNCHANGED lost
  PROVE  EndsWith(c)
<1>1. task[c].lock = NoToken /\ NoToken \notin Held'
  BY IdleIsTask, RequestsAssumption DEF RequestsInv, OwnInv, Held
<1> QED  BY <1>1 DEF EndsWith

LEMMA SentKeeps ==
  ASSUME RequestsInv, NEW c \in Client, Sent(c)
  PROVE  Progress(c) /\ (UNCHANGED lost => EndsWith(c))
<1>0. Named[c] \subseteq Path
  BY RequestsAssumption
<1>1. ASSUME NEW p \in Named[c], NEW method \in {"PUT", "MKCOL", "DELETE"},
             NEW t \in known[c] \cup {NoToken}, Begin(c, method, p, t)
      PROVE  Progress(c) /\ (UNCHANGED lost => EndsWith(c))
  <2>1. Progress(c) /\ task[c].pc = "idle"
    BY <1>0, <1>1, BeginKeeps DEF Writing
  <2>2. Held' \ issued = {}
    BY <1>1, SameLocks DEF Begin, RequestsInv
  <2> QED  BY <2>1, <2>2, IdleEnds
<1>2. ASSUME NEW p \in Named[c], NEW recursive \in Depths, NEW share \in Shares,
             LockRequest(c, p, recursive, share)
      PROVE  Progress(c) /\ (UNCHANGED lost => EndsWith(c))
  BY <1>0, <1>2, LockRequestKeeps
<1>3. ASSUME NEW t \in Token, Unlock(c, t)
      PROVE  Progress(c) /\ (UNCHANGED lost => EndsWith(c))
  BY <1>3, UnlockKeeps
<1> QED  BY <1>1, <1>2, <1>3 DEF Sent

LEMMA StepKeeps ==
  ASSUME RequestsInv, NEW c \in Client, Step(c)
  PROVE  Progress(c) /\ (UNCHANGED lost => EndsWith(c))
BY LockImplicitKeeps, DisposeKeeps, LockSelectKeeps, LockCreateKeeps, OpenKeeps, WriteKeeps,
   WritePropertiesKeeps, MakeKeeps, DeleteKeeps, FindAffectedKeeps, ReleaseAffectedKeeps
   DEF Step

\* Every step is some request's, or a lock expires.
LEMMA NextIsProgress ==
  ASSUME RequestsInv, Next
  PROVE  \E c \in Client : Progress(c) /\ EndsWith(c)
<1>1. ASSUME NEW c \in Client, Sent(c) \/ Step(c), UNCHANGED lost
      PROVE  Progress(c) /\ EndsWith(c)
  BY <1>1, SentKeeps, StepKeeps
<1>2. ASSUME NEW t \in Token, Expire(t), UNCHANGED lost
      PROVE  \E c \in Client : Progress(c) /\ EndsWith(c)
  <2>1. locks[t] \in ActiveLock
    BY <1>2 DEF RequestsInv, StateInv, Expire, Explicit, Held
  <2>2. locks[t].owner \in Client
    BY <2>1 DEF ActiveLock
  <2> QED  BY <1>2, <2>2, ExpireKeeps
<1>3. ASSUME NEW c \in Client, HangUp(c)
      PROVE  Progress(c) /\ EndsWith(c)
  BY <1>3, HangUpKeeps
<1> QED  BY <1>1, <1>2, <1>3 DEF Next

LEMMA InvStuttering ==
  ASSUME RequestsInv, UNCHANGED vars
  PROVE  RequestsInv' /\ (TemporaryLocksEnd => TemporaryLocksEnd')
<1>1. UNCHANGED <<entries, props, locks, issued, task, known, left, lost>>
  BY DEF vars
<1>2. StateInv /\ StateInv' /\ Kept /\ Evolves(entries, entries') /\ Held' = Held
  BY <1>1, SameLocks, SameEntries DEF RequestsInv, StateInv
<1>3. \A d \in Client : SelectionInv(d)' /\ OwnInv(d)' /\ PowerInv(d)'
  BY <1>1, <1>2, Rests
<1>4. ExplicitInv' /\ (TemporaryLocksEnd => TemporaryLocksEnd')
  BY <1>1, <1>2 DEF RequestsInv, ExplicitInv, Explicit, TemporaryLocksEnd
<1> QED  BY <1>2, <1>3, <1>4 DEF RequestsInv

\* The file system, the locks and the requests fit together at every moment.
THEOREM InvHolds == Spec => []Inv
<1>1. Init => Inv
  BY InitInv
<1>2. Inv /\ [Next]_vars => Inv'
  <2> SUFFICES ASSUME Inv, [Next]_vars  PROVE Inv'
    OBVIOUS
  <2>1. RequestsInv /\ TemporaryLocksEnd
    BY DEF Inv, RequestsInv
  <2>2. CASE Next
    <3>1. PICK c \in Client : Progress(c) /\ EndsWith(c)
      BY <2>1, <2>2, NextIsProgress
    <3> QED  BY <2>1, <3>1, ProgressKeeps, EndsWithKeeps DEF Inv, RequestsInv
  <2>3. CASE UNCHANGED vars
    BY <2>1, <2>3, InvStuttering DEF Inv, RequestsInv
  <2> QED  BY <2>2, <2>3
<1> QED  BY <1>1, <1>2, PTL DEF Spec

\* Every entry knows its collection and no name is there twice, every lock held
\* is a lock of a client with a token that was issued, and no temporary lock
\* outlives the request it was taken for unless the client hung up: whatever
\* the requests of any number of clients do to the entries the others go by.
THEOREM RequestsAreTidyHolds == Spec => []RequestsAreTidy
<1>1. Inv => RequestsAreTidy
  <2> SUFFICES ASSUME Inv  PROVE RequestsAreTidy
    OBVIOUS
  <2>1. StateInv /\ TemporaryLocksEnd /\ \A c \in Client : OwnInv(c)
    BY DEF Inv
  <2>2. IsFileSystem(entries) /\ DOMAIN props = Path /\ issued \subseteq Token
    BY <2>1 DEF StateInv, FileSystemInv
  <2>3. \A t \in Held : locks[t] \in ActiveLock
    BY <2>1 DEF StateInv, Held
  <2>4. \A c \in Client : known[c] \subseteq issued /\ task[c].remove \subseteq issued
                          /\ task[c].lock \in issued \cup {NoToken}
    BY <2>1 DEF StateInv, OwnInv
  <2> QED  BY <2>1, <2>2, <2>3, <2>4 DEF RequestsAreTidy, TypeOK, ActiveLock
<1> QED  BY <1>1, InvHolds, PTL

-----------------------------------------------------------------------------
(* The contract of the lock manager.                                        *)

\* What the steps of the requests do to the locks, one lock at a time.
LockStep ==
  \/ UNCHANGED <<locks, issued>>
  \/ \E t \in Token : Released(t) /\ UNCHANGED issued
  \/ \E t \in Token, lock \in ActiveLock : Granted(t, lock)

LEMMA GrantIsStep ==
  ASSUME StateInv, NEW t, NEW lock \in ActiveLock, Granted(t, lock)
  PROVE  LockStep
BY GrantedIs DEF LockStep

LEMMA NextIsLockStep ==
  ASSUME RequestsInv, Next
  PROVE  LockStep
<1>1. StateInv /\ issued \subseteq Token /\ NoToken \notin Token
  BY RequestsAssumption DEF RequestsInv, StateInv
<1>2. ASSUME NEW c \in Client, Sent(c)
      PROVE  LockStep
  <2>1. ASSUME NEW p, NEW method, NEW t, Begin(c, method, p, t)
        PROVE  LockStep
    BY <2>1 DEF Begin, LockStep
  <2>2. ASSUME NEW p \in Named[c], NEW recursive \in Depths, NEW share \in Shares,
               LockRequest(c, p, recursive, share)
        PROVE  LockStep
    <3> DEFINE lock == Lock(c, p, recursive, share, FALSE)
    <3>1. lock \in ActiveLock
      BY RequestsAssumption DEF Lock, ActiveLock
    <3> HIDE DEF lock
    <3>2. (\E t \in Token : Granted(t, lock)) \/ Refused(lock)
      BY <2>2 DEF LockRequest, lock
    <3> QED  BY <1>1, <3>1, <3>2, GrantIsStep DEF Refused, LockStep
  <2>3. ASSUME NEW t \in Token, Unlock(c, t)
        PROVE  LockStep
    BY <2>3 DEF Unlock, LockStep
  <2> QED  BY <1>2, <2>1, <2>2, <2>3 DEF Sent
<1>3. ASSUME NEW c \in Client, Step(c)
      PROVE  LockStep
  <2>0. task[c].lock \in issued \cup {NoToken} /\ task[c].remove \subseteq issued
    BY DEF RequestsInv, OwnInv
  <2>1. CASE LockImplicit(c)
    <3>1. Requirements(c) \in ActiveLock
      BY RequirementsIs
    <3>2. (\E t : Permitted(c, Requirements(c), t)) \/ Denied(c, Requirements(c))
      BY <2>1 DEF LockImplicit
    <3> QED  BY <1>1, <3>1, <3>2, GrantIsStep DEF Permitted, Denied, Refused, LockStep
  <2>2. CASE Dispose(c)
    BY <1>1, <2>0, <2>2 DEF Dispose, LockStep
  <2>3. CASE ReleaseAffected(c)
    BY <1>1, <2>0, <2>3 DEF ReleaseAffected, LockStep
  <2>4. CASE LockSelect(c) \/ LockCreate(c) \/ Open(c) \/ Write(c)
    BY <2>4 DEF LockSelect, LockCreate, Open, Write, LockStep
  <2>5. CASE WriteProperties(c) \/ Make(c) \/ Delete(c) \/ FindAffected(c)
    BY <2>5 DEF WriteProperties, Make, Delete, FindAffected, LockStep
  <2> QED  BY <1>3, <2>1, <2>2, <2>3, <2>4, <2>5 DEF Step
<1>4. ASSUME NEW t \in Token, Expire(t)
      PROVE  LockStep
  BY <1>4 DEF Expire, LockStep
<1>5. ASSUME NEW c \in Client, HangUp(c)
      PROVE  LockStep
  BY <1>5 DEF HangUp, LockStep
<1> QED  BY <1>2, <1>3, <1>4, <1>5 DEF Next

\* A lock as LockTable sees it.
AsEntry(lock) == [path |-> lock.path, recursive |-> lock.recursive, share |-> lock.share,
                  expires |-> "any", refreshed |-> FALSE]

Table == [t \in Token |-> IF locks[t] = NoLock THEN NoLock ELSE AsEntry(locks[t])]

LEMMA AsEntryIs ==
  ASSUME NEW lock \in ActiveLock
  PROVE  /\ AsEntry(lock) \in Manager!ActiveLock /\ AsEntry(lock) # NoLock
         /\ AsEntry(lock).path = lock.path /\ AsEntry(lock).recursive = lock.recursive
         /\ AsEntry(lock).share = lock.share /\ ~ AsEntry(lock).refreshed
<1>1. AsEntry(lock) \in [path : Path, recursive : BOOLEAN, share : ShareMode,
                         expires : {"any"}, refreshed : BOOLEAN]
  BY DEF AsEntry, ActiveLock
<1>2. NoLock \notin [path : Path, recursive : BOOLEAN, share : ShareMode,
                     expires : {"any"}, refreshed : BOOLEAN]
  BY RequestsAssumption
<1>3. /\ AsEntry(lock).path = lock.path /\ AsEntry(lock).recursive = lock.recursive
      /\ AsEntry(lock).share = lock.share /\ ~ AsEntry(lock).refreshed
  BY DEF AsEntry
<1> QED  BY <1>1, <1>2, <1>3 DEF Manager!ActiveLock, Manager!ShareMode, ShareMode

LEMMA ManagerHeld ==
  ASSUME StateInv
  PROVE  Manager!Held = Held
<1>1. \A t \in Held : AsEntry(locks[t]) # NoLock
  BY AsEntryIs DEF StateInv, Held
<1> QED  BY <1>1 DEF Manager!Held, AsEntry, Held

LEMMA ManagerConflicts ==
  ASSUME StateInv, NEW lock \in ActiveLock
  PROVE  Manager!ConflictingLocks(Table, Held, AsEntry(lock)) = ConflictingLocks(locks, Held, lock)
<1>1. \A t \in Held : locks[t] \in ActiveLock /\ Table[t] = AsEntry(locks[t])
  BY DEF StateInv, Held, Table
<1>2. \A t \in Held : /\ Table[t].path = locks[t].path
                      /\ Table[t].recursive = locks[t].recursive
                      /\ Table[t].share = locks[t].share
  BY <1>1, AsEntryIs
<1>3. /\ AsEntry(lock).path = lock.path /\ AsEntry(lock).recursive = lock.recursive
      /\ AsEntry(lock).share = lock.share
  BY AsEntryIs
<1>4. \A p, r, q, s : Manager!Compare(p, r, q, s) = Compare(p, r, q, s)
  BY DEF Manager!Compare, Compare, Manager!IsBaseOf, IsBaseOf
<1>5. \A p, r, up : Manager!GetLocks(Manager!Find(Table, Held, p, r, up))
                      = GetLocks(Find(locks, Held, p, r, up))
  BY <1>2, <1>4 DEF Manager!GetLocks, Manager!Find, GetLocks, Find
<1>6. \A p, r, up : GetLocks(Find(locks, Held, p, r, up)) \subseteq Held
  BY DEF GetLocks, Find
<1> DEFINE met == GetLocks(Find(locks, Held, lock.path, lock.recursive, TRUE))
<1>7. Manager!ConflictingLocks(Table, Held, AsEntry(lock))
        = IF lock.share = "exclusive" THEN met
          ELSE {k \in met : Table[k].share = "exclusive"}
  BY <1>3, <1>5 DEF Manager!ConflictingLocks, Manager!GetConflictingLocks
<1>8. ConflictingLocks(locks, Held, lock)
        = IF lock.share = "exclusive" THEN met
          ELSE {k \in met : locks[k].share = "exclusive"}
  BY DEF ConflictingLocks, GetConflictingLocks
<1>9. met \subseteq Held
  BY <1>6
<1> HIDE DEF met
<1>10. {k \in met : Table[k].share = "exclusive"} = {k \in met : locks[k].share = "exclusive"}
  BY <1>2, <1>9
<1> QED  BY <1>7, <1>8, <1>10

\* Each of them is a step the contract allows.
LEMMA LockStepIsManagerStep ==
  ASSUME StateInv, StateInv', LockStep
  PROVE  [Manager!Next]_(Manager!vars)
<1>0. Manager!Held = Held
  BY ManagerHeld
<1>1. CASE UNCHANGED <<locks, issued>>
  BY <1>1 DEF Manager!vars, Held
<1>2. ASSUME NEW t \in Token, Released(t), UNCHANGED issued
      PROVE  [Manager!Next]_(Manager!vars)
  <2>1. Held' = Held \ {t} /\ \A u \in Token : locks'[u] = IF u = t THEN NoLock ELSE locks[u]
    <3>1. Held' = Held \ {t}
      BY <1>2, ReleasedIs
    <3>2. locks \in [Token -> ActiveLock \cup {NoLock}] /\ locks' = [locks EXCEPT ![t] = NoLock]
      BY <1>2 DEF Released, StateInv
    <3> QED  BY <3>1, <3>2
  <2>2. CASE t \in Held
    <3>1. Table' = [Table EXCEPT ![t] = NoLock]
      BY <2>1, <2>2 DEF Table
    <3>2. Manager!Release(t)
      BY <1>0, <1>2, <2>2, <3>1 DEF Manager!Release, Table, AsEntry
    <3> QED  BY <3>2 DEF Manager!Next
  <2>3. CASE t \notin Held
    <3>1. Table' = Table
      BY <2>1, <2>3 DEF Table, Held
    <3> QED  BY <1>2, <3>1 DEF Manager!vars, Table, AsEntry
  <2> QED  BY <2>2, <2>3
<1>3. ASSUME NEW t \in Token, NEW lock \in ActiveLock, Granted(t, lock)
      PROVE  [Manager!Next]_(Manager!vars)
  <2>1. /\ t \notin issued /\ issued' = issued \cup {t} /\ Held' = Held \cup {t}
        /\ \A u \in Token : locks'[u] = IF u = t THEN lock ELSE locks[u]
    <3>1. t \notin issued /\ issued' = issued \cup {t} /\ Held' = Held \cup {t}
      BY <1>3, GrantedIs
    <3>2. locks \in [Token -> ActiveLock \cup {NoLock}] /\ locks' = [locks EXCEPT ![t] = lock]
      BY <1>3 DEF Granted, StateInv
    <3> QED  BY <3>1, <3>2
  <2>2. Table' = [Table EXCEPT ![t] = AsEntry(lock)]
    <3>1. lock # NoLock
      BY RequestsAssumption DEF ActiveLock
    <3> QED  BY <2>1, <3>1 DEF Table
  <2>3. Manager!ConflictingLocks(Table, Held, AsEntry(lock)) = {}
    BY <1>3, ManagerConflicts DEF Granted
  <2>4. AsEntry(lock) \in Manager!ActiveLock /\ ~ AsEntry(lock).refreshed
    BY AsEntryIs
  <2>5. Manager!Grant(t, AsEntry(lock))
    BY <1>0, <2>1, <2>2, <2>3, <2>4 DEF Manager!Grant, Table, AsEntry
  <2> QED  BY <2>4, <2>5 DEF Manager!Next
<1> QED  BY <1>1, <1>2, <1>3 DEF LockStep

LEMMA NextIsManagerStep ==
  ASSUME RequestsInv, RequestsInv', [Next]_vars
  PROVE  [Manager!Next]_(Manager!vars)
<1>1. LockStep
  <2>1. CASE UNCHANGED vars
    BY <2>1 DEF vars, LockStep
  <2> QED  BY <2>1, NextIsLockStep
<1> QED  BY <1>1, LockStepIsManagerStep DEF RequestsInv

\* The handlers use the lock manager as its contract has it: a lock is granted
\* under a new token when it is in nobody's way, a token is released for good,
\* whichever request releases it, and how often.
THEOREM ContractHolds == Spec => Contract
<1>1. Init => Manager!Init
  BY DEF Init, Manager!Init, Held
<1>2. Inv => RequestsInv
  BY DEF Inv, RequestsInv
<1>3. RequestsInv /\ RequestsInv' /\ [Next]_vars => [Manager!Next]_(Manager!vars)
  BY NextIsManagerStep
<1> QED  BY <1>1, <1>2, <1>3, InvHolds, PTL DEF Spec, Contract, Manager!Spec

TableProofs == INSTANCE LockTableProofs WITH Expiration <- {"any"}, locks <- Table

\* No resource is covered by an exclusive lock and by another one.
LocksAreApart == \A t, u \in Held : t # u => Compatible(locks[t], locks[u])

LEMMA ContractExcludes == Contract => []TableProofs!ExclusiveMeansAlone
<1>1. TableProofs!NoLockAssumption /\ TableProofs!AncestorIsForest
  BY RequestsAssumption, AncestorIsForest
  DEF TableProofs!NoLockAssumption, TableProofs!AncestorIsForest,
      TableProofs!ShareMode, ShareMode
<1>2. TableProofs!Spec => []TableProofs!ExclusiveMeansAlone
  BY <1>1, TableProofs!ExclusiveMeansAloneHolds, PTL
<1>3. Manager!Init => TableProofs!Init
  BY DEF Manager!Init, TableProofs!Init, Table, AsEntry
<1>4. [Manager!Next]_(Manager!vars) => [TableProofs!Next]_(TableProofs!vars)
  <2>1. Manager!ActiveLock = TableProofs!ActiveLock /\ Manager!Held = TableProofs!Held
    BY DEF Manager!ActiveLock, TableProofs!ActiveLock, Manager!Held, TableProofs!Held,
           Manager!ShareMode, TableProofs!ShareMode, Table, AsEntry
  <2>2. \A t, lock : Manager!Grant(t, lock) => TableProofs!Grant(t, lock)
    <3>1. \A table, held, request : Manager!ConflictingLocks(table, held, request)
                                      = TableProofs!ConflictingLocks(table, held, request)
      BY DEF Manager!ConflictingLocks, TableProofs!ConflictingLocks,
         Manager!GetConflictingLocks, TableProofs!GetConflictingLocks,
         Manager!GetLocks, TableProofs!GetLocks, Manager!Find, TableProofs!Find,
         Manager!Compare, TableProofs!Compare, Manager!IsBaseOf, TableProofs!IsBaseOf
    <3> SUFFICES ASSUME NEW t, NEW lock, Manager!Grant(t, lock)
                 PROVE  TableProofs!Grant(t, lock)
      OBVIOUS
    <3>2. /\ t \notin issued /\ ~ lock.refreshed /\ issued' = issued \cup {t}
          /\ Table' = [Table EXCEPT ![t] = lock]
          /\ Manager!ConflictingLocks(Table, Manager!Held, lock) = {}
      BY DEF Manager!Grant, Table, AsEntry
    <3>3. TableProofs!ConflictingLocks(Table, TableProofs!Held, lock) = {}
      BY <2>1, <3>1, <3>2
    <3> QED  BY <3>2, <3>3 DEF TableProofs!Grant
  <2>3. \A refreshed, newExpires :
          Manager!Refresh(refreshed, newExpires) => TableProofs!Refresh(refreshed, newExpires)
    BY <2>1 DEF Manager!Refresh, TableProofs!Refresh, Manager!Refreshed,
       TableProofs!Refreshed, Table, AsEntry
  <2>4. \A t : Manager!Release(t) => TableProofs!Release(t)
    BY <2>1 DEF Manager!Release, TableProofs!Release, Table, AsEntry
  <2> QED  BY <2>1, <2>2, <2>3, <2>4
           DEF Manager!Next, TableProofs!Next, Manager!vars, TableProofs!vars, Table, AsEntry
<1>5. Contract => TableProofs!Spec
  BY <1>3, <1>4, PTL DEF Contract, Manager!Spec, TableProofs!Spec
<1> QED  BY <1>2, <1>5, PTL

LEMMA ApartIs ==
  ASSUME StateInv, TableProofs!ExclusiveMeansAlone
  PROVE  LocksAreApart
<1>1. \A t \in Held : t \in Token /\ locks[t] \in ActiveLock /\ Table[t] = AsEntry(locks[t])
  BY DEF StateInv, Held, Table
<1>2. \A t \in Held : t \in TableProofs!Held
  BY <1>1, AsEntryIs DEF TableProofs!Held
<1> SUFFICES ASSUME NEW t \in Held, NEW u \in Held, t # u
             PROVE  Compatible(locks[t], locks[u])
  BY DEF LocksAreApart
<1>3. TableProofs!Compatible(AsEntry(locks[t]), AsEntry(locks[u]))
  BY <1>1, <1>2 DEF TableProofs!ExclusiveMeansAlone
<1> QED  BY <1>1, <1>3, AsEntryIs DEF TableProofs!Compatible, TableProofs!Scope, Compatible, Scope

\* The locks of the requests keep apart, those a client asked for and the
\* temporary ones of the handlers alike.
THEOREM LocksAreApartHolds == Spec => []LocksAreApart
<1>1. Inv /\ TableProofs!ExclusiveMeansAlone => LocksAreApart
  BY ApartIs DEF Inv
<1> QED  BY <1>1, InvHolds, ContractHolds, ContractExcludes, PTL

-----------------------------------------------------------------------------
(* What a change at one path does to what is seen at the others.            *)

LEMMA FoundIs ==
  ASSUME NEW es, FileSystemInv(es), NEW p \in Path, Select(es, p).result = "FoundCollection"
  PROVE  Select(es, p).entry \in DOMAIN es
BY SelectFits DEF Fits

\* Whoever comes as far as to the collection of q, sees there what was there.
SameAt(es, fs, q) ==
  LET up == Select(es, Above[q])
  IN  up.result = "FoundCollection" => Members(fs, up.entry, q) = Members(es, up.entry, q)

\* A path along which nothing changed is found as it was.
LEMMA SelectElsewhere ==
  ASSUME NEW es, NEW fs, FileSystemInv(es), FileSystemInv(fs), Evolves(es, fs),
         NEW p \in Path, \A q \in UpTo(p) \ {Root} : SameAt(es, fs, q)
  PROVE  Select(fs, p) = Select(es, p)
<1> DEFINE bad == {q \in UpTo(p) : Select(fs, q) # Select(es, q)}
<1>0. p \in UpTo(p)
  BY DEF UpTo
<1> SUFFICES ASSUME bad # {}  PROVE FALSE
  BY <1>0
<1>1. PICK q \in bad : \A r \in bad : <<r, q>> \notin Ancestor
  BY Topmost DEF UpTo
<1>2. q \in UpTo(p) /\ q \in Path /\ Select(fs, q) # Select(es, q)
  BY <1>1 DEF UpTo
<1>f. \A e \in DOMAIN es : Found(fs, e) = Found(es, e)
  BY DEF Found, Evolves
<1>3. q # Root
  <2>1. 1 \in DOMAIN es
    BY DEF FileSystemInv
  <2> QED  BY <1>2, <1>f, <2>1, SelectDown
<1> DEFINE up == Select(es, Above[q])
<1>4. /\ Above[q] \in UpTo(p) /\ Above[q] \in Path
      /\ Select(fs, Above[q]) = up
  <2>1. Above[q] \in UpTo(p) /\ Above[q] \in Path /\ <<Above[q], q>> \in Ancestor
    BY <1>2, <1>3, UpToIsClosed, AboveIsAncestor DEF UpTo
  <2> QED  BY <1>1, <2>1
<1>5. Select(fs, q) = OneDown(fs, up, q) /\ Select(es, q) = OneDown(es, up, q)
  BY <1>2, <1>3, <1>4, SelectDown
<1>6. up.result = "FoundCollection" => up.entry \in DOMAIN es
  BY <1>4, FoundIs
<1>s. up.result = "FoundCollection" => Members(fs, up.entry, q) = Members(es, up.entry, q)
  BY <1>2, <1>3 DEF SameAt
<1> HIDE DEF up
<1>7. CASE up.result = "FoundCollection"
  <2>1. Members(fs, up.entry, q) = Members(es, up.entry, q)
    BY <1>s, <1>7
  <2>2. Members(es, up.entry, q) \subseteq DOMAIN es
    BY <1>6, <1>7 DEF FileSystemInv, Members
  <2>3. CASE Members(es, up.entry, q) = {}
    BY <1>2, <1>5, <1>7, <2>1, <2>3 DEF OneDown
  <2>4. CASE Members(es, up.entry, q) # {}
    <3> DEFINE e == CHOOSE m \in Members(es, up.entry, q) : TRUE
    <3>1. e \in Members(es, up.entry, q)
      BY <2>4
    <3>2. OneDown(es, up, q) = Found(es, e) /\ OneDown(fs, up, q) = Found(fs, e)
      BY <1>7, <2>1, <2>4 DEF OneDown
    <3> HIDE DEF e
    <3> QED  BY <1>2, <1>5, <1>f, <2>2, <3>1, <3>2
  <2> QED  BY <2>3, <2>4
<1>8. CASE up.result # "FoundCollection"
  BY <1>2, <1>5, <1>8 DEF OneDown
<1> QED  BY <1>7, <1>8

\* Nothing can be below p: nothing is there, or no collection, or an empty one.
Bare(es, p) ==
  \/ Select(es, p).result # "FoundCollection"
  \/ es[Select(es, p).entry].members = {}

LEMMA NothingBelow ==
  ASSUME NEW es, FileSystemInv(es), NEW p \in Path, Bare(es, p),
         NEW q \in Path, <<p, q>> \in Ancestor
  PROVE  Select(es, q).missing # 0
<1> DEFINE bad == {r \in Path : <<p, r>> \in Ancestor /\ Select(es, r).missing = 0}
<1> SUFFICES ASSUME bad # {}  PROVE FALSE
  OBVIOUS
<1>1. PICK r \in bad : \A s \in bad : <<s, r>> \notin Ancestor
  BY Topmost
<1>2. r # Root
  BY <1>1, RequestsAssumption
<1> DEFINE up == Select(es, Above[r])
<1>3. /\ r \in Path /\ Select(es, r).missing = 0 /\ <<p, r>> \in Ancestor
      /\ Above[r] \in Path /\ <<Above[r], r>> \in Ancestor
      /\ Select(es, r) = OneDown(es, up, r) /\ Fits(es, up, Above[r])
  BY <1>1, <1>2, AboveIsAncestor, SelectDown, SelectFits
<1>4. p = Above[r] \/ <<p, Above[r]>> \in Ancestor
  BY <1>2, <1>3, RequestsAssumption
<1>5. up \in Selection
  BY <1>3 DEF Fits
<1>6. up.missing = 0 => up.result \in {"FoundCollection", "FoundDocument"}
  BY <1>3 DEF Fits, FileSystemInv, IsFileSystem
<1>7. CASE up.result = "FoundCollection"
  <2>1. up.missing = 0
    BY <1>3, <1>7 DEF Fits
  <2>2. p = Above[r]
    BY <1>1, <1>3, <1>4, <2>1
  <2>3. Members(es, up.entry, r) = {}
    BY <1>7, <2>2 DEF Bare, Members
  <2>4. OneDown(es, up, r).missing = 1
    <3> HIDE DEF up
    <3> QED  BY <1>5, <1>7, <2>3 DEF OneDown, Selection
  <2> QED  BY <1>3, <2>4
<1>8. CASE up.result = "FoundDocument"
  <2>1. OneDown(es, up, r).missing = 2
    <3> HIDE DEF up
    <3> QED  BY <1>5, <1>8 DEF OneDown, Selection
  <2> QED  BY <1>3, <2>1
<1>9. CASE up.result \notin {"FoundCollection", "FoundDocument"}
  <2>1. up.missing # 0 /\ up.missing \in Nat
    BY <1>5, <1>6, <1>9 DEF Selection
  <2>2. OneDown(es, up, r).missing = up.missing + 1
    <3> HIDE DEF up
    <3> QED  BY <1>5, <1>9 DEF OneDown, Selection
  <2> QED  BY <1>3, <2>1, <2>2
<1> QED  BY <1>7, <1>8, <1>9

\* At p the entries fs show the object es showed, and the same of it.
LooksAlike(es, ps, fs, qs, p) ==
  View(fs, qs, p) = View(es, ps, p) /\ Select(fs, p).entry = Select(es, p).entry

\* The entries of another path look as they did.
LEMMA ViewElsewhere ==
  ASSUME NEW es, NEW fs, FileSystemInv(es), FileSystemInv(fs), Evolves(es, fs),
         NEW a \in Path,
         \A q \in Path \ {Root, a} : SameAt(es, fs, q),
         \A e \in DOMAIN es : es[e].path # a => fs[e].data = es[e].data,
         NEW ps, NEW qs, NEW p \in Path, p # a, qs[p] = ps[p],
         <<a, p>> \in Ancestor =>
           (Bare(es, a) /\ Bare(fs, a)) \/ (a # Root => SameAt(es, fs, a))
  PROVE  LooksAlike(es, ps, fs, qs, p)
<1>1. CASE <<a, p>> \in Ancestor /\ Bare(es, a) /\ Bare(fs, a)
  <2>1. Select(es, p).missing # 0 /\ Select(fs, p).missing # 0
    BY <1>1, NothingBelow
  <2>2. Select(es, p).entry = 0 /\ Select(fs, p).entry = 0
    BY <2>1, SelectFits DEF Fits
  <2> QED  BY <2>1, <2>2 DEF LooksAlike, View, Content, IsMissing
<1>2. CASE <<a, p>> \in Ancestor => (a # Root => SameAt(es, fs, a))
  <2>1. \A q \in UpTo(p) \ {Root} : SameAt(es, fs, q)
    BY <1>2 DEF UpTo
  <2>2. Select(fs, p) = Select(es, p)
    BY <2>1, SelectElsewhere
  <2> DEFINE e == Select(es, p).entry
  <2>3. CASE Select(es, p).missing = 0
    <3>1. e \in DOMAIN es /\ es[e].path = p
      BY <2>3, SelectFits DEF Fits
    <3>2. fs[e].kind = es[e].kind /\ fs[e].data = es[e].data
      BY <3>1 DEF Evolves
    <3> QED  BY <2>2, <2>3, <3>2 DEF LooksAlike, View, Content, IsMissing
  <2>4. CASE Select(es, p).missing # 0
    BY <2>2, <2>4 DEF LooksAlike, View, Content, IsMissing
  <2> QED  BY <2>3, <2>4
<1> QED  BY <1>1, <1>2

LEMMA PutViews ==
  ASSUME NEW es, NEW fs, FileSystemInv(es), FileSystemInv(fs), Evolves(es, fs),
         NEW d \in DOMAIN es, Stored(es, fs, d),
         NEW ps, NEW qs, NEW p \in Path, p # es[d].path, qs[p] = ps[p]
  PROVE  LooksAlike(es, ps, fs, qs, p)
<1>1. \A e \in DOMAIN es : fs[e].members = es[e].members /\ (e # d => fs[e].data = es[e].data)
  BY DEF Stored
<1>2. \A q \in Path \ {Root} : SameAt(es, fs, q)
  <2> SUFFICES ASSUME NEW q \in Path \ {Root}, Select(es, Above[q]).result = "FoundCollection"
               PROVE  LET k == Select(es, Above[q]).entry
                      IN  Members(fs, k, q) = Members(es, k, q)
    BY DEF SameAt
  <2> DEFINE k == Select(es, Above[q]).entry
  <2>1. k \in DOMAIN es
    BY AboveIsAncestor, FoundIs
  <2> HIDE DEF k
  <2>2. fs[k].members = es[k].members /\ es[k].members \subseteq DOMAIN es
    BY <1>1, <2>1 DEF FileSystemInv
  <2>3. \A e \in es[k].members : fs[e].path = es[e].path
    BY <2>2 DEF Evolves
  <2>4. Members(fs, k, q) = Members(es, k, q)
    BY <2>2, <2>3 DEF Members
  <2> QED  BY <2>4 DEF k
<1>3. es[d].path \in Path
  <2>1. es[d] \in Entry
    BY DEF FileSystemInv
  <2> QED  BY <2>1 DEF Entry
<1>4. \A e \in DOMAIN es : es[e].path # es[d].path => fs[e].data = es[e].data
  BY <1>1
<1> DEFINE a == es[d].path
<1>5. \A e \in DOMAIN es : es[e].path # a => fs[e].data = es[e].data
  BY <1>4
<1>6. a \in Path /\ p # a /\ (a # Root => SameAt(es, fs, a))
  BY <1>2, <1>3
<1>7. \A q \in Path \ {Root, a} : SameAt(es, fs, q)
  BY <1>2
<1>8. <<a, p>> \in Ancestor =>
        (Bare(es, a) /\ Bare(fs, a)) \/ (a # Root => SameAt(es, fs, a))
  BY <1>6
<1> HIDE DEF a
<1> QED  BY <1>5, <1>6, <1>7, <1>8, ViewElsewhere

\* An entry that is created is not seen anywhere else: in the collection it is
\* made in, which may have been removed, nothing had its name.
LEMMA CreateViews ==
  ASSUME NEW es, FileSystemInv(es), NEW kind \in {"collection", "document"},
         NEW a \in Path \ {Root}, NEW d \in DOMAIN es, es[d].kind = "collection",
         es[d].path = Above[a], CanCreate(es, a, d), NEW data \in Data,
         NEW fs, fs = Create(es, kind, a, d, data),
         NEW ps, NEW qs, NEW p \in Path, p # a, qs[p] = ps[p]
  PROVE  LooksAlike(es, ps, fs, qs, p)
<1> DEFINE n == Len(es) + 1
           up == Select(es, Above[a])
<1>0. /\ FileSystemInv(fs) /\ Evolves(es, fs) /\ Grown(es, fs, kind, a, d, data)
  BY CreateKeeps
<1>1. /\ n \notin DOMAIN es /\ fs[n].path = a /\ fs[n].members = {}
      /\ \A e \in DOMAIN es : /\ fs[e].data = es[e].data
                              /\ fs[e].members = IF e = d THEN es[e].members \cup {n}
                                                 ELSE es[e].members
  <2>1. fs[n] = NewEntry(kind, a, d, data)
    BY <1>0 DEF Grown
  <2>2. fs[n].path = a /\ fs[n].members = {}
    BY <2>1 DEF NewEntry
  <2> HIDE DEF n
  <2>3. /\ n \notin DOMAIN es
        /\ \A e \in DOMAIN es : /\ fs[e].data = es[e].data
                                /\ fs[e].members = IF e = d THEN es[e].members \cup {n}
                                                   ELSE es[e].members
    BY <1>0 DEF Grown, n
  <2> QED  BY <2>2, <2>3
<1> HIDE DEF n
<1>2. ASSUME NEW k \in DOMAIN es, NEW q, q # a \/ k # d
      PROVE  Members(fs, k, q) = Members(es, k, q)
  <2>1. es[k].members \subseteq DOMAIN es
    BY DEF FileSystemInv
  <2>2. \A e \in es[k].members : fs[e].path = es[e].path /\ e # n
    BY <1>0, <1>1, <2>1 DEF Evolves
  <2>3. CASE k = d
    BY <1>1, <1>2, <2>2, <2>3 DEF Members
  <2>4. CASE k # d
    BY <1>1, <2>2, <2>4 DEF Members
  <2> QED  BY <2>3, <2>4
<1>3. \A q \in Path \ {Root, a} : SameAt(es, fs, q)
  BY <1>2, AboveIsAncestor, FoundIs DEF SameAt
<1>d. \A e \in DOMAIN es : es[e].path # a => fs[e].data = es[e].data
  BY <1>1
<1>4. CASE up.result = "FoundCollection" /\ up.entry = d
  <2>1. Above[a] \in Path /\ \A q \in UpTo(Above[a]) \ {Root} : SameAt(es, fs, q)
    <3>1. Above[a] \in Path /\ a \notin UpTo(Above[a])
      BY AboveIsAncestor, AncestorIsForest DEF UpTo
    <3> QED  BY <1>3, <3>1 DEF UpTo
  <2>2. Select(fs, Above[a]) = up
    BY <1>0, <2>1, SelectElsewhere
  <2>3. Select(es, a) = OneDown(es, up, a) /\ Select(fs, a) = OneDown(fs, up, a)
    BY <2>2, SelectDown
  <2>4. Members(es, d, a) = {} /\ Members(fs, d, a) = {n}
    <3>1. Members(es, d, a) = {}
      BY DEF CanCreate
    <3>2. fs[d].members = es[d].members \cup {n} /\ es[d].members \subseteq DOMAIN es
      BY <1>1 DEF FileSystemInv
    <3>3. \A e \in es[d].members : fs[e].path = es[e].path
      BY <1>0, <3>2 DEF Evolves
    <3> QED  BY <1>1, <3>1, <3>2, <3>3 DEF Members
  <2>5. Bare(es, a)
    <3>1. Select(es, a).result = "MissingDocumentOrCollection"
      <4>1. up \in Selection
        BY <2>1, SelectFits DEF Fits
      <4> HIDE DEF up
      <4> QED  BY <1>4, <2>3, <2>4, <4>1 DEF OneDown, Selection
    <3> QED  BY <3>1 DEF Bare
  <2>6. Bare(fs, a)
    <3>1. Select(fs, a) = Found(fs, n)
      <4> HIDE DEF up
      <4> QED  BY <1>4, <2>3, <2>4 DEF OneDown
    <3> QED  BY <1>1, <3>1 DEF Bare, Found
  <2>7. <<a, p>> \in Ancestor =>
          (Bare(es, a) /\ Bare(fs, a)) \/ (a # Root => SameAt(es, fs, a))
    BY <2>5, <2>6
  <2> QED  BY <1>0, <1>d, <1>3, <2>7, ViewElsewhere
<1>5. CASE ~ (up.result = "FoundCollection" /\ up.entry = d)
  <2>1. SameAt(es, fs, a)
    BY <1>2, <1>5, AboveIsAncestor, FoundIs DEF SameAt
  <2>2. <<a, p>> \in Ancestor =>
          (Bare(es, a) /\ Bare(fs, a)) \/ (a # Root => SameAt(es, fs, a))
    BY <2>1
  <2> QED  BY <1>0, <1>d, <1>3, <2>2, ViewElsewhere
<1> QED  BY <1>4, <1>5

\* What is found as a member has the collection it is found in.
LEMMA FoundInParent ==
  ASSUME NEW es, FileSystemInv(es), NEW a \in Path \ {Root}, Select(es, a).missing = 0
  PROVE  LET e == Select(es, a).entry
             up == Select(es, Above[a])
         IN  /\ up.result = "FoundCollection" /\ up.entry \in DOMAIN es
             /\ es[e].parent = up.entry /\ e \in Members(es, up.entry, a)
<1> DEFINE up == Select(es, Above[a])
<1>1. /\ Select(es, a) = OneDown(es, up, a) /\ Above[a] \in Path
      /\ Fits(es, up, Above[a]) /\ up \in Selection
  <2>1. Above[a] \in Path
    BY AboveIsAncestor
  <2>2. Fits(es, up, Above[a])
    BY <2>1, SelectFits
  <2>3. up \in Selection
    BY <2>2 DEF Fits
  <2> QED  BY <2>1, <2>2, <2>3, SelectDown
<1>2. OneDown(es, up, a).missing = 0
  BY <1>1
<1>3. up.missing = 0 => up.result \in {"FoundCollection", "FoundDocument"}
  BY <1>1 DEF Fits, FileSystemInv, IsFileSystem
<1>4. up.result = "FoundCollection" => up.entry \in DOMAIN es
  BY <1>1 DEF Fits
<1> HIDE DEF up
<1>5. up.result = "FoundCollection" /\ Members(es, up.entry, a) # {}
  <2>1. CASE up.result = "FoundCollection"
    BY <1>1, <1>2, <2>1 DEF OneDown, Selection
  <2>2. CASE up.result = "FoundDocument"
    <3>1. OneDown(es, up, a).missing = 2
      BY <1>1, <2>2 DEF OneDown, Selection
    <3> QED  BY <1>2, <3>1
  <2>3. CASE up.result \notin {"FoundCollection", "FoundDocument"}
    <3>1. up.missing \in Nat /\ up.missing # 0
      BY <1>1, <1>3, <2>3 DEF Selection
    <3>2. OneDown(es, up, a).missing = up.missing + 1
      BY <1>1, <2>3 DEF OneDown, Selection
    <3> QED  BY <1>2, <3>1, <3>2
  <2> QED  BY <2>1, <2>2, <2>3
<1>6. Select(es, a).entry \in Members(es, up.entry, a)
  BY <1>1, <1>5 DEF OneDown, Found
<1>7. es[Select(es, a).entry].parent = up.entry
  BY <1>4, <1>5, <1>6 DEF Members, FileSystemInv, IsFileSystem
<1> QED  BY <1>4, <1>5, <1>6, <1>7 DEF up

\* Taking away a document, or a collection nobody looks below.
LEMMA RemoveViews ==
  ASSUME NEW es, FileSystemInv(es), NEW a \in Path \ {Root},
         NEW e \in DOMAIN es, es[e].path = a, Select(es, a).entry = e,
         NEW fs, fs = Remove(es, a, es[e].parent),
         NEW ps, NEW qs, NEW p \in Path, p # a, qs[p] = ps[p],
         <<a, p>> \in Ancestor => es[e].kind = "document"
  PROVE  LooksAlike(es, ps, fs, qs, p)
<1> DEFINE d == es[e].parent
<1>1. d \in DOMAIN es
  BY DEF FileSystemInv
<1>2. FileSystemInv(fs) /\ Evolves(es, fs) /\ Shrunk(es, fs, a, d)
  BY <1>1, RemoveKeeps
<1>3. Select(es, a).missing = 0 /\ Fits(es, Select(es, a), a)
  BY SelectFits DEF Fits, FileSystemInv
<1>4. /\ Select(es, Above[a]).result = "FoundCollection"
      /\ Select(es, Above[a]).entry = d /\ e \in Members(es, d, a)
  BY <1>3, FoundInParent
<1> HIDE DEF d
<1>5. ASSUME NEW k \in DOMAIN es, NEW q, q # a
      PROVE  Members(fs, k, q) = Members(es, k, q)
  <2>1. /\ es[k].members \subseteq DOMAIN es
        /\ fs[k].members = IF k = d THEN es[k].members \ Members(es, d, a) ELSE es[k].members
    BY <1>2 DEF FileSystemInv, Shrunk
  <2>2. \A m \in es[k].members : fs[m].path = es[m].path
    BY <1>2, <2>1 DEF Evolves
  <2> QED  BY <1>5, <2>1, <2>2 DEF Members
<1>6. \A q \in Path \ {Root, a} : SameAt(es, fs, q)
  BY <1>5, AboveIsAncestor, FoundIs DEF SameAt
<1>7. ASSUME es[e].kind = "document"
      PROVE  Bare(es, a) /\ Bare(fs, a)
  <2>1. Select(es, a).result = "FoundDocument"
    BY <1>3, <1>7 DEF Fits
  <2>2. Above[a] \in Path /\ \A q \in UpTo(Above[a]) \ {Root} : SameAt(es, fs, q)
    <3>1. Above[a] \in Path /\ <<Above[a], a>> \in Ancestor
      BY AboveIsAncestor
    <3>2. a \notin UpTo(Above[a])
      BY <3>1, AncestorIsForest DEF UpTo
    <3> QED  BY <1>6, <3>1, <3>2 DEF UpTo
  <2> DEFINE up == Select(es, Above[a])
  <2>3. Select(fs, Above[a]) = up /\ Select(fs, a) = OneDown(fs, up, a) /\ up \in Selection
    <3>1. Select(fs, Above[a]) = up
      BY <1>2, <2>2, SelectElsewhere
    <3>2. up \in Selection
      BY <2>2, SelectFits DEF Fits
    <3> QED  BY <3>1, <3>2, SelectDown
  <2>4. Members(fs, d, a) = {}
    <3>1. /\ es[d].members \subseteq DOMAIN es
          /\ fs[d].members = es[d].members \ Members(es, d, a)
      BY <1>1, <1>2 DEF FileSystemInv, Shrunk, d
    <3>2. \A m \in es[d].members : fs[m].path = es[m].path
      BY <1>2, <3>1 DEF Evolves
    <3> QED  BY <3>1, <3>2 DEF Members
  <2>5. up.result = "FoundCollection" /\ up.entry = d
    BY <1>4
  <2> HIDE DEF up
  <2>6. Select(fs, a).result = "MissingDocumentOrCollection"
    BY <2>3, <2>4, <2>5 DEF OneDown, Selection
  <2> QED  BY <2>1, <2>6 DEF Bare
<1>8. \A m \in DOMAIN es : fs[m].data = es[m].data
  BY <1>2 DEF Shrunk
<1> QED  BY <1>2, <1>6, <1>7, <1>8, ViewElsewhere

-----------------------------------------------------------------------------
(* Whom the locks keep out.                                                 *)

\* The request of c is at a stage where it holds what it goes by.
Armed(c) ==
  \/ task[c].method \in Writing /\ task[c].pc \in Begun
  \/ task[c].method = "LOCK" /\ task[c].pc # "idle"

\* u is a lock the request of c goes by.
Covers(c, u) ==
  /\ u \in Held /\ locks[u].owner = c
  /\ task[c].path \in Scope(locks[u])
  /\ \/ /\ u \in Explicit /\ locks[u].recursive
        /\ task[c].method \in Writing => task[c].submitted = u
     \/ locks[u] = Requirements(c)

LEMMA CoveringLock ==
  ASSUME RequestsInv, FALSE \notin Depths, NEW c \in Client, Protected(c), Armed(c)
  PROVE  \E u \in Token : Covers(c, u)
<1>1. /\ locks \in [Token -> ActiveLock \cup {NoLock}] /\ task[c] \in Task
      /\ OwnInv(c) /\ PowerInv(c)
      /\ {task[c].submitted, task[c].lock} \subseteq Held \cup {NoToken}
      /\ \A u \in Explicit : locks[u].recursive \in Depths
  BY DEF RequestsInv, StateInv, Protected, ExplicitInv
<1>2. \A u \in Explicit : locks[u].recursive
  <2>1. \A u \in Explicit : locks[u].recursive \in BOOLEAN
    BY <1>1, RequestsAssumption
  <2> QED  BY <1>1, <2>1
<1>p. task[c].path \in Path
  BY <1>1 DEF Task
<1>3. CASE task[c].method \in Writing /\ task[c].pc \in Begun /\ task[c].lock # NoToken
  <2> DEFINE u == task[c].lock
  <2>1. u \in Held /\ locks[u] = Requirements(c) /\ locks[u].owner = c
    BY <1>1, <1>3 DEF PowerInv, OwnInv
  <2>2. locks[u].path = task[c].path
    BY <2>1, RequirementsIs
  <2> HIDE DEF u
  <2>3. Covers(c, u)
    BY <1>p, <2>1, <2>2 DEF Covers, Scope
  <2> QED  BY <2>1, <2>3 DEF Held
<1>4. CASE task[c].method \in Writing /\ task[c].pc \in Begun /\ task[c].lock = NoToken
  <2> DEFINE u == task[c].submitted
  <2>u. task[c].submitted = u
    OBVIOUS
  <2>1. u \in Held /\ task[c].path \in Scope(locks[u])
    BY <1>1, <1>4 DEF PowerInv
  <2>2. locks[u].owner = c /\ ~ locks[u].temporary
    BY <1>1, <2>1 DEF OwnInv
  <2> HIDE DEF u
  <2>3. u \in Explicit
    BY <2>1, <2>2 DEF Explicit
  <2>4. locks[u].recursive
    BY <1>2, <2>3
  <2>5. Covers(c, u)
    BY <1>4, <2>1, <2>2, <2>3, <2>4, <2>u DEF Covers
  <2> QED  BY <2>1, <2>5 DEF Held
<1>5. CASE task[c].method = "LOCK" /\ task[c].pc # "idle"
  <2> DEFINE u == task[c].lock
  <2>1. u \in Held /\ locks[u].path = task[c].path /\ ~ locks[u].temporary /\ locks[u].owner = c
    BY <1>1, <1>5 DEF PowerInv, OwnInv
  <2> HIDE DEF u
  <2>2. u \in Explicit
    BY <2>1 DEF Explicit
  <2>3. task[c].path \in Scope(locks[u])
    BY <1>p, <2>1 DEF Scope
  <2>4. locks[u].recursive
    BY <1>2, <2>2
  <2>5. Covers(c, u)
    BY <1>5, <2>1, <2>2, <2>3, <2>4 DEF Covers, Writing
  <2> QED  BY <2>1, <2>5 DEF Held
<1> QED  BY <1>3, <1>4, <1>5 DEF Armed

\* p is under the exclusive lock t of a client that is not c.
Guards(t, c, p) ==
  /\ t \in Explicit /\ locks[t].share = "exclusive" /\ p \in Scope(locks[t])
  /\ c # locks[t].owner

\* It is not what c's request is about, nor, but for the temporary lock of a
\* single resource, below that.
LEMMA KeptOut ==
  ASSUME RequestsInv, LocksAreApart, FALSE \notin Depths, NEW c \in Client, Protected(c),
         Armed(c), NEW t, NEW p, Guards(t, c, p)
  PROVE  /\ p \in Path /\ p # task[c].path
         /\ <<task[c].path, p>> \in Ancestor => ~ Requirements(c).recursive
<1>1. PICK u \in Token : Covers(c, u)
  BY CoveringLock
<1>2. u # t /\ t \in Held /\ u \in Held
  BY <1>1 DEF Guards, Covers, Explicit
<1>3. Scope(locks[t]) \cap Scope(locks[u]) = {}
  BY <1>2 DEF LocksAreApart, Compatible, Guards
<1>4. p \in Path /\ p \notin Scope(locks[u])
  BY <1>3 DEF Guards, Scope
<1>5. CASE locks[u].recursive /\ <<task[c].path, p>> \in Ancestor
  BY <1>1, <1>4, <1>5, AncestorIsForest DEF Covers, Scope
<1> QED  BY <1>1, <1>4, <1>5 DEF Covers, Scope

\* What an action does to entries or properties of one path, nobody sees elsewhere.
LEMMA StoreIsLocal ==
  ASSUME FileSystemInv(entries), NEW e \in DOMAIN entries, NEW data \in Data,
         entries' = [entries EXCEPT ![e].data = data], UNCHANGED props,
         NEW p \in Path, p # entries[e].path
  PROVE  ~ Changes(p)
<1>1. /\ FileSystemInv(entries') /\ Evolves(entries, entries')
      /\ Stored(entries, entries', e)
  BY PutKeeps
<1>2. LooksAlike(entries, props, entries', props', p)
  BY <1>1, PutViews
<1> QED  BY <1>2 DEF Changes, LooksAlike

LEMMA CreateIsLocal ==
  ASSUME FileSystemInv(entries), NEW kind \in {"collection", "document"},
         NEW a \in Path \ {Root}, NEW d \in DOMAIN entries, entries[d].kind = "collection",
         entries[d].path = Above[a], CanCreate(entries, a, d),
         entries' = Create(entries, kind, a, d, "empty"), UNCHANGED props,
         NEW p \in Path, p # a
  PROVE  ~ Changes(p)
<1>1. "empty" \in Data
  BY DEF Data
<1>2. LooksAlike(entries, props, entries', props', p)
  BY <1>1, CreateViews
<1> QED  BY <1>2 DEF Changes, LooksAlike

LEMMA SameIsLocal ==
  ASSUME UNCHANGED entries, NEW p, props'[p] = props[p]
  PROVE  ~ Changes(p)
BY DEF Changes, View

\* Which handler is at a stage that few have: `finishing' are the methods that
\* end with releasing what locks the path.
StageInv(c, finishing) ==
  /\ task[c].pc = "write" => task[c].method = "PUT"
  /\ task[c].pc \in {"affected", "release"} => task[c].method \in finishing

LEMMA StageOf ==
  ASSUME RequestsInv, NEW c \in Client, NEW pc \in Stage,
         \/ GoTo(c, pc)
         \/ \E e : task' = [task EXCEPT ![c].pc = pc, ![c].entry = e]
         \/ \E t : task' = [task EXCEPT ![c].pc = pc, ![c].lock = t]
         \/ \E r : task' = [task EXCEPT ![c].pc = pc, ![c].remove = r]
         \/ \E f : task' = [task EXCEPT ![c].pc = pc, ![c].found = f]
  PROVE  task'[c].pc = pc /\ task'[c].method = task[c].method
<1> DEFINE s1 == [task[c] EXCEPT !.pc = pc]
<1>1. task \in [Client -> Task] /\ task[c] \in Task
  BY DEF RequestsInv, StateInv
<1>2. s1 \in Task /\ s1.pc = pc /\ s1.method = task[c].method
  BY <1>1, TaskWith
<1>3. CASE GoTo(c, pc)
  BY <1>1, <1>2, <1>3 DEF GoTo
<1>4. ASSUME NEW e, task' = [task EXCEPT ![c].pc = pc, ![c].entry = e]
      PROVE  task'[c].pc = pc /\ task'[c].method = task[c].method
  <2>1. task'[c] = [s1 EXCEPT !.entry = e]
    BY <1>1, <1>4
  <2> HIDE DEF s1
  <2> QED  BY <1>2, <2>1, TaskWith
<1>5. ASSUME NEW t, task' = [task EXCEPT ![c].pc = pc, ![c].lock = t]
      PROVE  task'[c].pc = pc /\ task'[c].method = task[c].method
  <2>1. task'[c] = [s1 EXCEPT !.lock = t]
    BY <1>1, <1>5
  <2> HIDE DEF s1
  <2> QED  BY <1>2, <2>1, TaskWith
<1>6. ASSUME NEW r, task' = [task EXCEPT ![c].pc = pc, ![c].remove = r]
      PROVE  task'[c].pc = pc /\ task'[c].method = task[c].method
  <2>1. task'[c] = [s1 EXCEPT !.remove = r]
    BY <1>1, <1>6
  <2> HIDE DEF s1
  <2> QED  BY <1>2, <2>1, TaskWith
<1>7. ASSUME NEW f, task' = [task EXCEPT ![c].pc = pc, ![c].found = f]
      PROVE  task'[c].pc = pc /\ task'[c].method = task[c].method
  <2>1. task'[c] = [s1 EXCEPT !.found = f]
    BY <1>1, <1>7
  <2> HIDE DEF s1
  <2> QED  BY <1>2, <2>1, TaskWith
<1> QED  BY <1>3, <1>4, <1>5, <1>6, <1>7

LEMMA StageKeeps ==
  ASSUME RequestsInv, NEW c \in Client, NEW finishing, "DELETE" \in finishing,
         StageInv(c, finishing), Sent(c) \/ Step(c) \/ HangUp(c)
  PROVE  StageInv(c, finishing)'
<1> DEFINE pc == task'[c].pc
           Same == pc \in Stage /\ task'[c].method = task[c].method
<1>0. task \in [Client -> Task] /\ StateInv
  BY DEF RequestsInv, StateInv
<1>s. /\ "act" \in Stage /\ "write" \in Stage /\ "properties" \in Stage
      /\ "affected" \in Stage /\ "release" \in Stage /\ "dispose" \in Stage
      /\ "create" \in Stage
  BY DEF Stage
<1>i. ASSUME Answer(c)  PROVE StageInv(c, finishing)'
  BY <1>0, <1>i, AnswerIs, IdleIsTask DEF StageInv
<1>g. ASSUME NEW q \in Stage \ {"write", "affected", "release"}, GoTo(c, q)
      PROVE  StageInv(c, finishing)'
  BY <1>g, StageOf DEF StageInv
<1>u. ASSUME UNCHANGED task  PROVE StageInv(c, finishing)'
  BY <1>u DEF StageInv
<1>1. ASSUME NEW p, NEW method, NEW t, Begin(c, method, p, t)
      PROVE  StageInv(c, finishing)'
  <2>1. CASE UNCHANGED task
    BY <1>u, <2>1
  <2>2. ASSUME task' = [task EXCEPT ![c] = BeginTask(method, p, t, p, Select(entries, p))]
        PROVE  StageInv(c, finishing)'
    <3>1. task'[c].pc = "lock"
      BY <1>0, <2>2, BeginTaskIs
    <3> QED  BY <3>1 DEF StageInv
  <2> QED  BY <1>1, <2>1, <2>2 DEF Begin, BeginTask
<1>2. ASSUME NEW p, NEW recursive, NEW share, LockRequest(c, p, recursive, share)
      PROVE  StageInv(c, finishing)'
  <2>1. CASE UNCHANGED task
    BY <1>u, <2>1
  <2>2. ASSUME NEW t, task' = [task EXCEPT ![c] = LockTask(p, t)]
        PROVE  StageInv(c, finishing)'
    <3>1. task'[c].pc = "select"
      BY <1>0, <2>2, LockTaskIs
    <3> QED  BY <3>1 DEF StageInv
  <2> QED  BY <1>2, <2>1, <2>2 DEF LockRequest, LockTask
<1>3. CASE Sent(c)
  BY <1>1, <1>2, <1>3, <1>u DEF Sent, Unlock
<1>4. CASE LockImplicit(c)
  <2>1. ASSUME NEW t, task' = [task EXCEPT ![c].pc = "act", ![c].lock = t]
        PROVE  StageInv(c, finishing)'
    <3>1. task'[c].pc = "act"
      BY <1>s, <2>1, StageOf
    <3> QED  BY <3>1 DEF StageInv
  <2> QED  BY <1>4, <1>i, <2>1 DEF LockImplicit
<1>5. CASE LockSelect(c)
  <2>1. ASSUME NEW f, task' = [task EXCEPT ![c].pc = "create", ![c].found = f]
        PROVE  StageInv(c, finishing)'
    <3>1. task'[c].pc = "create"
      BY <1>s, <2>1, StageOf
    <3> QED  BY <3>1 DEF StageInv
  <2> QED  BY <1>5, <1>i, <2>1 DEF LockSelect
<1>6. CASE Open(c)
  <2>1. ASSUME NEW e, task' = [task EXCEPT ![c].pc = "write", ![c].entry = e]
        PROVE  StageInv(c, finishing)'
    <3>1. task'[c].pc = "write" /\ task'[c].method = task[c].method
      BY <1>s, <2>1, StageOf
    <3> QED  BY <1>6, <3>1 DEF StageInv, Open, At
  <2> QED  BY <1>6, <1>s, <1>g, <2>1 DEF Open
<1>7. CASE Delete(c)
  <2>1. task'[c].pc = "affected" /\ task'[c].method = task[c].method
    BY <1>7, <1>s, StageOf DEF Delete
  <2> QED  BY <1>7, <2>1 DEF StageInv, Delete, At
<1>8. CASE FindAffected(c)
  <2>1. ASSUME NEW r, task' = [task EXCEPT ![c].pc = "release", ![c].remove = r]
        PROVE  StageInv(c, finishing)'
    <3>1. task'[c].pc = "release" /\ task'[c].method = task[c].method
      BY <1>s, <2>1, StageOf
    <3> QED  BY <1>8, <3>1 DEF StageInv, FindAffected
  <2> QED  BY <1>8, <2>1 DEF FindAffected
<1>9. CASE ReleaseAffected(c)
  <2>1. ASSUME NEW r, task' = [task EXCEPT ![c].remove = r]
        PROVE  StageInv(c, finishing)'
    <3>1. task'[c] = [task[c] EXCEPT !.remove = r]
      BY <1>0, <2>1
    <3>2. task'[c].pc = task[c].pc /\ task'[c].method = task[c].method
      BY <1>0, <3>1, TaskWith
    <3> QED  BY <3>2 DEF StageInv
  <2> QED  BY <1>9, <1>s, <1>g, <2>1 DEF ReleaseAffected
<1>10. CASE HangUp(c) \/ Dispose(c) \/ LockCreate(c)
  BY <1>10, <1>i, <1>g, <1>s DEF HangUp, Dispose, LockCreate
<1>11. CASE Write(c) \/ WriteProperties(c) \/ Make(c)
  BY <1>11, <1>g, <1>s DEF Write, WriteProperties, Make
<1> QED  BY <1>3, <1>4, <1>5, <1>6, <1>7, <1>8, <1>9, <1>10, <1>11 DEF Step

StagesInv == \A c \in Client : StageInv(c, {"DELETE"})

LEMMA StageHolds == Spec => []StagesInv
<1>1. ASSUME Init  PROVE StagesInv
  BY <1>1, IdleIsTask DEF Init, StagesInv, StageInv
<1>2. ASSUME Inv, StagesInv, [Next]_vars
      PROVE  StagesInv'
  <2>1. RequestsInv
    BY <1>2 DEF Inv, RequestsInv
  <2>2. CASE UNCHANGED task
    BY <1>2, <2>2 DEF StagesInv, StageInv
  <2>3. ASSUME NEW c \in Client, Sent(c) \/ Step(c) \/ HangUp(c)
        PROVE  StagesInv'
    <3>1. \A d \in Client \ {c} : task'[d] = task[d]
      BY <2>1, <2>3, SentKeeps, StepKeeps, HangUpKeeps DEF Progress
    <3>2. StageInv(c, {"DELETE"})'
      BY <1>2, <2>1, <2>3, StageKeeps DEF StagesInv
    <3> QED  BY <1>2, <3>1, <3>2 DEF StagesInv, StageInv
  <2> QED  BY <1>2, <2>2, <2>3 DEF Next, Expire, vars
<1> QED  BY <1>1, <1>2, InvHolds, PTL DEF Spec

\* The actions that change resources.
Alters(c) ==
  \/ LockCreate(c) \/ Open(c) \/ Write(c) \/ WriteProperties(c) \/ Make(c) \/ Delete(c)
  \/ HangUp(c) /\ task[c].pc = "write"

LEMMA LockCreateIsLocal ==
  ASSUME RequestsInv, NEW c \in Client, LockCreate(c), NEW p \in Path, p # task[c].path
  PROVE  ~ Changes(p)
<1> DEFINE d == task[c].found.collection
<1>1. /\ d \in DOMAIN entries /\ entries[d].kind = "collection"
      /\ entries[d].path = Above[task[c].path] /\ task[c].path \in Path \ {Root}
      /\ FileSystemInv(entries)
  BY DEF RequestsInv, SelectionInv, Fits, StateInv, Task, LockCreate, At
<1>2. CASE /\ CanCreate(entries, task[c].path, d)
           /\ entries' = Create(entries, "document", task[c].path, d, "empty")
           /\ UNCHANGED props
  <2> HIDE DEF d
  <2> QED  BY <1>1, <1>2, CreateIsLocal
<1>3. CASE UNCHANGED <<entries, props>>
  BY <1>3, SameIsLocal
<1> QED  BY <1>2, <1>3 DEF LockCreate

LEMMA MakeIsLocal ==
  ASSUME RequestsInv, NEW c \in Client, Make(c), NEW p \in Path, p # task[c].path
  PROVE  ~ Changes(p)
<1> DEFINE d == task[c].found.collection
<1>0. /\ Fits(entries, task[c].found, task[c].path) /\ Serves("MKCOL", task[c].found)
      /\ task[c].path \in Path /\ FileSystemInv(entries)
  BY SelectedIs DEF Writing, Begun, Make, At
<1>1. /\ d \in DOMAIN entries /\ entries[d].kind = "collection"
      /\ entries[d].path = Above[task[c].path] /\ task[c].path \in Path \ {Root}
  BY <1>0 DEF Fits, Serves
<1>2. CASE /\ CanCreate(entries, task[c].path, d)
           /\ entries' = Create(entries, "collection", task[c].path, d, "empty")
           /\ UNCHANGED props
  <2> HIDE DEF d
  <2> QED  BY <1>0, <1>1, <1>2, CreateIsLocal
<1>3. CASE UNCHANGED <<entries, props>>
  BY <1>3, SameIsLocal
<1> QED  BY <1>2, <1>3 DEF Make

LEMMA OpenIsLocal ==
  ASSUME RequestsInv, NEW c \in Client, Open(c), NEW p \in Path, p # task[c].path
  PROVE  ~ Changes(p)
<1> DEFINE found == task[c].found
           d == found.collection
<1>0. /\ Fits(entries, found, task[c].path) /\ task[c].path \in Path
      /\ FileSystemInv(entries)
  BY SelectedIs DEF Writing, Begun, Open, At
<1>1. CASE /\ found.result = "FoundDocument" /\ UNCHANGED props
           /\ entries' = [entries EXCEPT ![found.entry].data = "empty"]
  <2>1. found.entry \in DOMAIN entries /\ entries[found.entry].path = task[c].path
    BY <1>0, <1>1 DEF Fits
  <2>2. "empty" \in Data
    BY DEF Data
  <2> QED  BY <1>0, <1>1, <2>1, <2>2, StoreIsLocal
<1>2. CASE /\ found.missing = 1 /\ CanCreate(entries, task[c].path, d)
           /\ entries' = Create(entries, "document", task[c].path, d, "empty")
           /\ UNCHANGED props
  <2>1. /\ d \in DOMAIN entries /\ entries[d].kind = "collection"
        /\ entries[d].path = Above[task[c].path] /\ task[c].path \in Path \ {Root}
    BY <1>0, <1>2 DEF Fits
  <2> HIDE DEF d
  <2> QED  BY <1>0, <1>2, <2>1, CreateIsLocal
<1>3. CASE UNCHANGED <<entries, props>>
  BY <1>3, SameIsLocal
<1> QED  BY <1>1, <1>2, <1>3 DEF Open

LEMMA WriteIsLocal ==
  ASSUME RequestsInv, NEW c \in Client, Write(c) \/ HangUp(c), NEW p \in Path,
         p # task[c].path
  PROVE  ~ Changes(p)
<1>1. CASE UNCHANGED <<entries, props>>
  BY <1>1, SameIsLocal
<1>2. ASSUME NEW data \in {c, "torn"}, task[c].pc = "write", UNCHANGED props,
             entries' = [entries EXCEPT ![task[c].entry].data = data]
      PROVE  ~ Changes(p)
  <2>1. /\ task[c].entry \in DOMAIN entries /\ entries[task[c].entry].path = task[c].path
        /\ FileSystemInv(entries)
    BY <1>2 DEF RequestsInv, SelectionInv, StateInv
  <2>2. data \in Data
    BY DEF Data
  <2> QED  BY <1>2, <2>1, <2>2, StoreIsLocal
<1> QED  BY <1>1, <1>2 DEF Write, HangUp, At

LEMMA WritePropertiesIsLocal ==
  ASSUME RequestsInv, NEW c \in Client, WriteProperties(c), NEW p \in Path, p # task[c].path
  PROVE  ~ Changes(p)
<1>1. UNCHANGED entries /\ props'[p] = props[p]
  BY DEF WriteProperties, RequestsInv, StateInv
<1> QED  BY <1>1, SameIsLocal

\* DELETE takes away what is below as well, but then it has locked that too.
LEMMA DeleteIsLocal ==
  ASSUME RequestsInv, NEW c \in Client, Delete(c), Protected(c), NEW p \in Path,
         p # task[c].path,
         <<task[c].path, p>> \in Ancestor => ~ Requirements(c).recursive
  PROVE  ~ Changes(p)
<1> DEFINE a == task[c].path
           e == task[c].found.entry
<1>1. CASE a = Root
  <2>1. UNCHANGED <<entries, props>>
    BY <1>1 DEF Delete
  <2> QED  BY <2>1, SameIsLocal
<1>2. CASE a # Root
  <2>0. task[c].method = "DELETE" /\ task[c].pc = "act"
    BY DEF Delete, At
  <2>1. /\ Fits(entries, task[c].found, a) /\ Serves("DELETE", task[c].found)
        /\ a \in Path /\ FileSystemInv(entries)
    BY <2>0, SelectedIs DEF Writing, Begun
  <2>2. e \in DOMAIN entries /\ entries[e].path = a
    BY <2>1 DEF Fits, Serves, IsMissing
  <2>3. Select(entries, a).entry = e
    BY <2>0 DEF Protected
  <2>4. entries' = Remove(entries, a, entries[e].parent) /\ props'[p] = props[p]
    BY <1>2 DEF Delete, RequestsInv, StateInv
  <2>5. <<a, p>> \in Ancestor => entries[e].kind = "document"
    <3>1. ASSUME task[c].found.result = "FoundCollection"
          PROVE  Requirements(c).recursive
      BY <2>0, <3>1 DEF Requirements, Lock
    <3>2. entries[e].kind \in {"collection", "document"}
      BY <2>1, <2>2 DEF FileSystemInv, IsFileSystem
    <3>3. task[c].found.missing = 0
      BY <2>1 DEF Serves, IsMissing
    <3> QED  BY <2>1, <3>1, <3>2, <3>3 DEF Fits
  <2>6. LooksAlike(entries, props, entries', props', p)
    BY <1>2, <2>1, <2>2, <2>3, <2>4, <2>5, RemoveViews
  <2> QED  BY <2>6 DEF Changes, LooksAlike
<1> QED  BY <1>1, <1>2

LEMMA AltersIs ==
  ASSUME RequestsInv, NEW c \in Client, NEW finishing, StageInv(c, finishing), Alters(c)
  PROVE  By(c) /\ Armed(c)
<1>0. task \in [Client -> Task]
  BY DEF RequestsInv, StateInv
<1> DEFINE Moves == /\ task'[c].pc # task[c].pc
                    /\ \/ task[c].method = "LOCK" /\ task[c].pc # "idle"
                       \/ task[c].method \in Writing /\ task[c].pc \in Begun
<1>s. "write" \in Stage /\ "properties" \in Stage /\ "affected" \in Stage /\ "dispose" \in Stage
  BY DEF Stage
<1>1. ASSUME LockCreate(c)  PROVE Moves
  <2>1. task[c].method = "LOCK" /\ task[c].pc = "create" /\ (Answer(c) \/ GoTo(c, "dispose"))
    BY <1>1 DEF LockCreate, At
  <2>2. task'[c].pc \in {"idle", "dispose"}
    BY <1>0, <1>s, <2>1, StageOf, IdleIsTask DEF Answer
  <2> QED  BY <2>1, <2>2
<1>2. ASSUME Open(c)  PROVE Moves
  <2>1. /\ task[c].method = "PUT" /\ task[c].pc = "act"
        /\ \/ \E e : task' = [task EXCEPT ![c].pc = "write", ![c].entry = e]
           \/ GoTo(c, "dispose")
    BY <1>2 DEF Open, At
  <2>2. task'[c].pc \in {"write", "dispose"}
    BY <1>s, <2>1, StageOf
  <2> QED  BY <2>1, <2>2 DEF Writing, Begun
<1>3. ASSUME Write(c) \/ WriteProperties(c) \/ Make(c) \/ Delete(c)  PROVE Moves
  <2>1. /\ task[c].method \in {"PUT", "MKCOL", "DELETE"}
        /\ \/ task[c].pc = "write" /\ GoTo(c, "properties")
           \/ task[c].pc \in {"properties", "act"} /\ GoTo(c, "dispose")
           \/ task[c].pc = "act" /\ GoTo(c, "affected")
    BY <1>3 DEF Write, WriteProperties, Make, Delete, At
  <2>2. task'[c].pc # task[c].pc
    BY <1>s, <2>1, StageOf
  <2> QED  BY <2>1, <2>2 DEF Writing, Begun
<1>4. ASSUME HangUp(c) /\ task[c].pc = "write"  PROVE Moves
  <2>1. task[c].method = "PUT" /\ Answer(c)
    BY <1>4 DEF HangUp, StageInv
  <2>2. task'[c].pc = "idle"
    BY <1>0, <2>1, IdleIsTask DEF Answer
  <2> QED  BY <1>4, <2>1, <2>2 DEF Writing, Begun
<1>5. Moves
  BY <1>1, <1>2, <1>3, <1>4 DEF Alters
<1> QED  BY <1>5 DEF By, Armed

LEMMA ChangesOnlyBy ==
  ASSUME [Next]_vars, NEW p, Changes(p)
  PROVE  \E c \in Client : Alters(c)
<1>1. ~ UNCHANGED <<entries, props>>
  BY DEF Changes, View
<1> SUFFICES ASSUME \A c \in Client : ~ Alters(c)  PROVE FALSE
  OBVIOUS
<1>2. ~ UNCHANGED vars
  BY <1>1 DEF vars
<1>3. \A t : ~ Expire(t)
  BY <1>1 DEF Expire
<1>4. \A c \in Client : ~ Sent(c)
  BY <1>1 DEF Sent, Begin, LockRequest, Unlock
<1>5. \A c \in Client : ~ Step(c)
  BY <1>1 DEF Step, Alters, LockImplicit, Dispose, LockSelect, FindAffected, ReleaseAffected
<1>6. \A c \in Client : ~ HangUp(c)
  BY <1>1 DEF HangUp, Alters
<1> QED  BY <1>2, <1>3, <1>4, <1>5, <1>6 DEF Next

\* A request that goes on under a lock is not in the way of the exclusive lock
\* of another client.
LEMMA AltersRespects ==
  ASSUME RequestsInv, LocksAreApart, FALSE \notin Depths, NEW c \in Client,
         NEW finishing, StageInv(c, finishing),
         Alters(c), Protected(c), NEW t, NEW p, Guards(t, c, p)
  PROVE  ~ Changes(p)
<1>2. Armed(c)
  BY AltersIs
<1>3. /\ p \in Path /\ p # task[c].path
      /\ <<task[c].path, p>> \in Ancestor => ~ Requirements(c).recursive
  BY <1>2, KeptOut
<1> QED  BY <1>3, LockCreateIsLocal, OpenIsLocal, WriteIsLocal, WritePropertiesIsLocal,
            MakeIsLocal, DeleteIsLocal DEF Alters

\* What lies under the exclusive lock of a client changes only by that client's
\* requests.  The lock has to be recursive: one with Depth 0 does not stop the
\* requests that take away what is above its resource.
THEOREM RespectsLocksHolds ==
  ASSUME FALSE \notin Depths
  PROVE  Spec => RespectsLocks
<1>1. ASSUME Inv, LocksAreApart, StagesInv, [Next]_vars
      PROVE  [\A t \in Explicit, p \in Path :
                /\ locks[t].share = "exclusive"
                /\ p \in Scope(locks[t])
                /\ Changes(p)
                => \E c \in Client : By(c) /\ (c = locks[t].owner \/ ~ Protected(c))]_vars
  <2> SUFFICES ASSUME NEW t \in Explicit, NEW p \in Path, locks[t].share = "exclusive",
                      p \in Scope(locks[t]), Changes(p)
               PROVE  \E c \in Client : By(c) /\ (c = locks[t].owner \/ ~ Protected(c))
    OBVIOUS
  <2>1. PICK c \in Client : Alters(c)
    BY <1>1, ChangesOnlyBy
  <2>2. RequestsInv
    BY <1>1 DEF Inv, RequestsInv
  <2>3. By(c)
    BY <1>1, <2>1, <2>2, AltersIs DEF StagesInv
  <2>4. c = locks[t].owner \/ ~ Protected(c)
    <3> SUFFICES ASSUME c # locks[t].owner, Protected(c)  PROVE FALSE
      OBVIOUS
    <3>1. Guards(t, c, p)
      BY DEF Guards
    <3> QED  BY <1>1, <2>1, <2>2, <3>1, AltersRespects DEF StagesInv
  <2> QED  BY <2>3, <2>4
<1> QED  BY <1>1, InvHolds, LocksAreApartHolds, StageHolds, PTL DEF Spec, RespectsLocks

-----------------------------------------------------------------------------
(* Who takes a lock away.                                                   *)

LEMMA DropsIs ==
  ASSUME RequestsInv, NEW c \in Client, Sent(c) \/ Step(c) \/ HangUp(c),
         NEW t \in Held, t \notin Held'
  PROVE  \/ locks[t].owner = c
         \/ task[c].pc = "release" /\ t \in task[c].remove
<1>0. StateInv /\ t \in Token
  BY DEF RequestsInv, Held
<1>1. ~ UNCHANGED locks
  BY DEF Held
<1>2. \A u, lock : lock \in ActiveLock => ~ Granted(u, lock)
  BY <1>0, GrantedIs
<1>3. \A u : Released(u) => u = t
  BY DEF Released, Held, RequestsInv, StateInv
<1>4. CASE Sent(c)
  <2>1. ASSUME NEW p \in Named[c], NEW recursive \in Depths, NEW share \in Shares
        PROVE  ~ LockRequest(c, p, recursive, share)
    <3>1. p \in Path /\ recursive \in BOOLEAN /\ share \in ShareMode
      BY RequestsAssumption
    <3>2. Lock(c, p, recursive, share, FALSE) \in ActiveLock
      BY <3>1 DEF Lock, ActiveLock
    <3> QED  BY <1>1, <1>2, <3>2 DEF LockRequest, Refused
  <2>2. t \in known[c]
    BY <1>1, <1>3, <1>4, <2>1 DEF Sent, Begin, Unlock
  <2> QED  BY <2>2 DEF RequestsInv, OwnInv
<1>5. CASE HangUp(c)
  BY <1>1, <1>5 DEF HangUp
<1>6. CASE Step(c)
  <2>1. ~ LockImplicit(c)
    <3>1. Requirements(c) \in ActiveLock
      BY RequirementsIs
    <3> QED  BY <1>1, <1>2, <3>1 DEF LockImplicit, Permitted, Denied, Refused
  <2>2. Dispose(c) \/ ReleaseAffected(c)
    BY <1>1, <1>6, <2>1 DEF Step, LockSelect, LockCreate, Open, Write, WriteProperties, Make,
       Delete, FindAffected
  <2>3. CASE Dispose(c)
    BY <1>1, <1>3, <2>3 DEF Dispose, RequestsInv, OwnInv
  <2>4. CASE ReleaseAffected(c)
    BY <1>1, <1>3, <2>4 DEF ReleaseAffected
  <2> QED  BY <2>2, <2>3, <2>4
<1> QED  BY <1>4, <1>5, <1>6

\* A step that is one of c's request is a step c takes.
LEMMA ByIs ==
  ASSUME RequestsInv, [Next]_vars, NEW c \in Client, By(c)
  PROVE  Sent(c) \/ Step(c) \/ HangUp(c)
<1>1. ~ UNCHANGED <<task, left>>
  BY DEF By
<1>2. PICK d \in Client : Sent(d) \/ Step(d) \/ HangUp(d)
  BY <1>1 DEF Next, Expire, vars
<1>3. CASE d = c
  BY <1>2, <1>3
<1>4. CASE d # c
  <2>1. task'[c] = task[c]
    BY <1>2, <1>4, SentKeeps, StepKeeps, HangUpKeeps DEF Progress
  <2>2. left'[c] = left[c]
    <3>1. left \in [Client -> Nat]
      BY DEF RequestsInv, StateInv
    <3>2. UNCHANGED left \/ left' = [left EXCEPT ![d] = @ - 1]
      BY <1>2 DEF Sent, Begin, LockRequest, Unlock, Sends, Step, HangUp, LockImplicit, Dispose,
         LockSelect, LockCreate, Open, Write, WriteProperties, Make, Delete, FindAffected,
         ReleaseAffected
    <3> QED  BY <1>4, <3>1, <3>2
  <2> QED  BY <2>1, <2>2 DEF By
<1> QED  BY <1>3, <1>4

\* What is found has everything above it found.
LEMMA FoundAbove ==
  ASSUME NEW es, FileSystemInv(es), NEW a \in Path, NEW p \in Path, IsBaseOf(a, p),
         Select(es, p).missing = 0
  PROVE  Select(es, a).missing = 0
<1>1. CASE a = p
  BY <1>1
<1>2. CASE <<a, p>> \in Ancestor
  <2>1. ~ Bare(es, a)
    BY <1>2, NothingBelow
  <2> QED  BY <2>1, SelectFits DEF Bare, Fits
<1> QED  BY <1>1, <1>2 DEF IsBaseOf

\* A DELETE that has come to the affected locks removed what it selected, so if
\* its path names that still, the path is that of the root collection.
LEMMA ReleasesOnlyBelowRoot ==
  ASSUME RequestsInv, NEW c \in Client, StageInv(c, {"DELETE"}), Protected(c),
         task[c].pc = "release",
         Select(entries, task[c].path).missing = 0
  PROVE  task[c].path = Root
<1> DEFINE a == task[c].path
           e == Select(entries, a).entry
<1> SUFFICES ASSUME a # Root  PROVE FALSE
  OBVIOUS
<1>1. /\ task[c].method = "DELETE" /\ e = task[c].found.entry
      /\ a \in Path \ {Root} /\ FileSystemInv(entries)
  BY DEF StageInv, Protected, RequestsInv, StateInv, Task
<1>2. /\ entries[e].parent = Select(entries, Above[a]).entry
      /\ e \in Members(entries, Select(entries, Above[a]).entry, a)
  BY <1>1, FoundInParent
<1>3. e \in entries[entries[e].parent].members
  BY <1>2 DEF Members
<1>4. e \notin entries[entries[e].parent].members
  BY <1>1 DEF RequestsInv, SelectionInv
<1> QED  BY <1>3, <1>4

\* Then it goes by a lock of everything.  If that is exclusive, there are no locks
\* of other clients; if it is shared, it is a client's, and so are the others.
LEMMA RootIsAlone ==
  ASSUME RequestsInv, LocksAreApart, FALSE \notin Depths,
         NEW c \in Client, StageInv(c, {"DELETE"}), Protected(c), task[c].pc = "release",
         task[c].path = Root, NEW t \in Held, t \in task[c].remove
  PROVE  locks[t].owner = c \/ SharesRoot(c, t)
<1>1. task[c].method = "DELETE" /\ Armed(c)
  BY DEF StageInv, Armed, Writing, Begun
<1>2. PICK u \in Token : Covers(c, u)
  BY <1>1, CoveringLock
<1>3. locks[u].path = Root
  <2>1. locks[u].path \in Path
    BY <1>2 DEF Covers, RequestsInv, StateInv, Held, ActiveLock
  <2> QED  BY <1>2, <2>1, RequestsAssumption DEF Covers, Scope
<1>4. /\ locks[u].recursive
      /\ locks[u].share = "exclusive" \/ task[c].submitted = u
  <2>1. CASE u \in Explicit /\ locks[u].recursive /\ task[c].submitted = u
    BY <2>1
  <2>2. CASE locks[u] = Requirements(c)
    <3>1. Fits(entries, task[c].found, Root) /\ Serves("DELETE", task[c].found)
          /\ FileSystemInv(entries)
      BY <1>1, SelectedIs DEF Writing, Begun
    <3>2. task[c].found.missing = 0
      BY <3>1 DEF Serves, IsMissing
    <3>3. task[c].found.entry = 1
      BY <3>1, <3>2 DEF Fits, FileSystemInv
    <3>4. task[c].found.result = "FoundCollection"
      BY <3>1, <3>2, <3>3 DEF Fits, FileSystemInv
    <3>5. Requirements(c).recursive
      BY <1>1, <3>4 DEF Requirements, Lock
    <3>6. Requirements(c).share = "exclusive"
      BY <1>1 DEF Requirements, Lock
    <3> QED  BY <2>2, <3>5, <3>6
  <2> QED  BY <1>1, <1>2, <2>1, <2>2 DEF Covers, Writing
<1> SUFFICES ASSUME locks[t].owner # c  PROVE SharesRoot(c, t)
  OBVIOUS
<1>5. Compatible(locks[t], locks[u])
  BY <1>2 DEF LocksAreApart, Covers
<1>6. locks[t].path \in Path /\ u \in Held
  BY <1>2 DEF RequestsInv, StateInv, Held, ActiveLock, Covers
<1>7. locks[t].path \in Scope(locks[u]) /\ locks[t].path \in Scope(locks[t])
  <2>1. locks[t].path = Root \/ <<Root, locks[t].path>> \in Ancestor
    BY DEF RequestsInv, PowerInv, IsBaseOf
  <2> QED  BY <1>3, <1>4, <1>6, <2>1 DEF Scope
<1>8. locks[t].share = "shared" /\ locks[u].share = "shared"
  BY <1>5, <1>7 DEF Compatible
<1> QED  BY <1>4, <1>6, <1>8 DEF SharesRoot

\* When locks are recursive, a lock is taken away from a resource that is still
\* there by a request of its own client, or because it expires, or, if it is a
\* shared lock, by a DELETE of the root collection that is refused and goes by
\* another shared lock of everything (DeleteAsync, ReleaseAsync).
THEOREM GrantedLocksSurviveHolds ==
  ASSUME FALSE \notin Depths
  PROVE  Spec => GrantedLocksSurvive
<1>1. ASSUME Inv, LocksAreApart, StagesInv, [Next]_vars
      PROVE  [\A t \in Held, c \in Client :
                /\ t \notin Held' /\ ~ IsMissing(Select(entries, locks[t].path))
                /\ By(c)
                => c = locks[t].owner \/ ~ Protected(c) \/ SharesRoot(c, t)]_vars
  <2> SUFFICES ASSUME NEW t \in Held, NEW c \in Client, t \notin Held',
                      ~ IsMissing(Select(entries, locks[t].path)), By(c),
                      c # locks[t].owner, Protected(c)
               PROVE  SharesRoot(c, t)
    OBVIOUS
  <2>1. RequestsInv /\ StageInv(c, {"DELETE"})
    BY <1>1 DEF Inv, RequestsInv, StagesInv
  <2>2. task[c].pc = "release" /\ t \in task[c].remove
    BY <1>1, <2>1, ByIs, DropsIs
  <2>3. Select(entries, task[c].path).missing = 0
    <3>1. IsBaseOf(task[c].path, locks[t].path)
      BY <2>1, <2>2 DEF RequestsInv, PowerInv
    <3>2. task[c].path \in Path /\ locks[t].path \in Path /\ FileSystemInv(entries)
      BY <2>1 DEF RequestsInv, StateInv, Task, Held, ActiveLock
    <3>3. Select(entries, locks[t].path).missing = 0
      BY DEF IsMissing
    <3> QED  BY <3>1, <3>2, <3>3, FoundAbove
  <2>4. task[c].path = Root
    BY <2>1, <2>2, <2>3, ReleasesOnlyBelowRoot
  <2> QED  BY <1>1, <2>1, <2>2, <2>4, RootIsAlone
<1> QED  BY <1>1, InvHolds, LocksAreApartHolds, StageHolds, PTL DEF Spec, GrantedLocksSurvive
=============================================================================
