------------------------ MODULE CopyMoveAloneProofs -------------------------
(***************************************************************************)
(* COPY and MOVE that nobody interferes with: what may not be overwritten  *)
(* is not, at any moment, and what was reported to have succeeded is       *)
(* complete at the end, for every tree, every depth and every walk of the  *)
(* engine.                                                                 *)
(***************************************************************************)
EXTENDS CopyMoveProofs

-----------------------------------------------------------------------------
(* Without the right to overwrite, what is kept.                            *)

\* w was told that q, which is at or below its destination, is a document.
Guarded(w, q) ==
  /\ Within(w.destination, q)
  /\ w.before[q] # <<>> /\ w.before[q][1] = "document"

Untouched(fs, w) ==
  \A q \in Path : Guarded(w, q) => View(fs.entries, fs.props, q) = w.before[q]

\* Whoever looks for the target of f by its path finds it, and when the engine
\* created it then no document was there or below.
InSight(es, w, f) ==
  LET p == es[f.target].path
  IN  /\ Select(es, p).entry = f.target
      /\ f.created => \A q \in Path : Within(p, q) => ~ Guarded(w, q)

Frames(s) == {s[i] : i \in 1..Len(s)}

\* Each target on the stack is below the ones that come after it.
Nested(es, s) ==
  \A i, j \in 1..Len(s) :
    i <= j => Within(es[s[j].target].path, es[s[i].target].path)

Far(r, w) == ~ Within(r.path, w.destination) /\ ~ Within(w.destination, r.path)

\* The request r of a client that was alone, with its work w, still finds
\* what it found, and keeps what it may not overwrite.
Keeps(fs, r, w) ==
  /\ r.pc \in {"lock source", "select destination", "lock destination", "start"} =>
       \A p \in Path : w.before[p] = View(fs.entries, fs.props, p)
  /\ r.pc \in {"lock destination", "start"} => w.found = Select(fs.entries, w.destination)
  /\ r.pc \in {"engine", "dispose destination"} /\ ~ w.overwrite /\ Far(r, w) =>
       /\ Untouched(fs, w)
       /\ \A f \in Frames(w.stack) : InSight(fs.entries, w, f)

\* What c keeps, if nobody interfered with it.
KeepsOwn(c) ==
  /\ Nested(entries, work[c].stack)
  /\ alone[c] => Keeps(Now, task[c], work[c])

KeepsInv == DOMAIN alone = Client /\ \A c \in Client : KeepsOwn(c)

LEMMA Comparable ==
  ASSUME NEW p \in Path, NEW q \in Path, NEW r \in Path, Within(p, r), Within(q, r)
  PROVE  Within(p, q) \/ Within(q, p)
<1> DEFINE bad == {s \in Path : Within(p, s) /\ Within(q, s)}
<1> SUFFICES ASSUME ~ (Within(p, q) \/ Within(q, p))  PROVE FALSE
  OBVIOUS
<1>1. r \in bad
  OBVIOUS
<1>2. PICK s \in bad : \A t \in bad : <<t, s>> \notin Ancestor
  BY <1>1, Topmost
<1>3. s # p /\ s # q /\ s \in Path /\ <<p, s>> \in Ancestor /\ <<q, s>> \in Ancestor
  BY <1>2 DEF Within
<1>4. s # Root
  BY <1>3, RequestsAssumption
<1>5. Above[s] \in Path /\ <<Above[s], s>> \in Ancestor
  BY <1>3, <1>4, AboveIsAncestor
<1>6. Within(p, Above[s]) /\ Within(q, Above[s])
  BY <1>3, <1>4, RequestsAssumption DEF Within
<1> QED  BY <1>2, <1>5, <1>6

\* In a collection that is found, what is found is the member.
LEMMA SeenMember ==
  ASSUME NEW es, FileSystemInv(es), NEW a, NEW d, IsPlace(es, a, d),
         Select(es, Above[a]).entry = d
  PROVE  /\ Members(es, d, a) = {} => /\ Select(es, a).missing # 0
                                      /\ Select(es, a).result # "FoundCollection"
         /\ Members(es, d, a) # {} =>
              Select(es, a).entry = CHOOSE m \in Members(es, d, a) : TRUE
<1> DEFINE up == Select(es, Above[a])
<1>1. /\ a \in Path /\ a # Root /\ Above[a] \in Path /\ Fits(es, up, Above[a])
      /\ Select(es, a) = OneDown(es, up, a) /\ up.entry = d
  BY AboveIsAncestor, SelectFits, SelectDown DEF IsPlace
<1>2. d \in DOMAIN es /\ es[d].kind = "collection" /\ d # 0
  BY DEF IsPlace, IsEntry, FileSystemInv
<1> HIDE DEF up
<1>3. up \in Selection /\ up.missing = 0 /\ up.result = "FoundCollection"
  BY <1>1, <1>2 DEF Fits
<1>4. CASE Members(es, d, a) = {}
  <2>1. /\ OneDown(es, up, a).missing = 1
        /\ OneDown(es, up, a).result = "MissingDocumentOrCollection"
    BY <1>1, <1>3, <1>4 DEF OneDown, Selection
  <2> QED  BY <1>1, <1>4, <2>1
<1>5. CASE Members(es, d, a) # {}
  BY <1>1, <1>3, <1>5 DEF OneDown, Found
<1> QED  BY <1>4, <1>5

\* Where nothing is found, nothing is seen, nor below.
LEMMA NothingWithin ==
  ASSUME NEW es, FileSystemInv(es), NEW a \in Path, Select(es, a).missing # 0,
         NEW ps, NEW q \in Path, Within(a, q)
  PROVE  View(es, ps, q) = <<>>
<1>1. Select(es, a).result # "FoundCollection"
  BY SelectFits DEF Fits
<1>2. Select(es, q).missing # 0
  BY <1>1, NothingBelow DEF Within, Bare
<1> QED  BY <1>2 DEF View, IsMissing

\* What is created in a collection that is found, is found.
LEMMA CreatedIsSeen ==
  ASSUME NEW es, FileSystemInv(es), NEW kind \in {"collection", "document"},
         NEW a, NEW d, IsPlace(es, a, d), CanCreate(es, a, d), NEW data \in Data,
         NEW fs, fs = Create(es, kind, a, d, data), Select(es, Above[a]).entry = d
  PROVE  Select(fs, a).entry = Len(es) + 1
<1> DEFINE n == Len(es) + 1
<1>1. FileSystemInv(fs) /\ Evolves(es, fs) /\ Grown(es, fs, kind, a, d, data)
  BY CreateLeads
<1>2. a \in Path /\ Above[a] \in Path /\ Above[a] # a
  BY AboveIsAncestor, AncestorIsForest DEF IsPlace
<1>3. IsPlace(fs, a, d)
  BY <1>1, PlaceStays
<1>4. Select(fs, Above[a]).entry = d
  <2>1. LooksAlike(es, props, fs, props, Above[a])
    BY <1>2, CreateElsewhere
  <2> QED  BY <2>1 DEF LooksAlike
<1>5. Members(fs, d, a) = {n}
  <2>1. /\ fs[n] = NewEntry(kind, a, d, data) /\ d \in DOMAIN es
        /\ fs[d].members = es[d].members \cup {n}
    BY <1>1 DEF Grown, IsPlace, IsEntry
  <2>2. fs[n].path = a /\ es[d].members \subseteq DOMAIN es
    BY <2>1 DEF NewEntry, FileSystemInv
  <2>3. \A e \in es[d].members : fs[e].path = es[e].path
    BY <1>1, <2>2 DEF Evolves
  <2>4. Members(es, d, a) = {}
    BY DEF CanCreate
  <2> HIDE DEF n
  <2> QED  BY <2>1, <2>2, <2>3, <2>4 DEF Members
<1> HIDE DEF n
<1>6. Select(fs, a).entry = CHOOSE m \in Members(fs, d, a) : TRUE
  BY <1>1, <1>3, <1>4, <1>5, SeenMember
<1> QED  BY <1>5, <1>6 DEF n

\* The targets on a stack are entries, below one another as they come.
LEMMA NestedReplace ==
  ASSUME NEW es, NEW s, IsSequence(s), s # <<>>, NEW g, g.target = Head(s).target, Nested(es, s)
  PROVE  LET more == <<g>> \o Tail(s)
         IN  Nested(es, more) /\ Frames(more) \subseteq {g} \cup Frames(s)
<1> DEFINE rest == Tail(s)
           more == <<g>> \o rest
<1>1. /\ IsSequence(rest) /\ Len(s) \in Nat \ {0} /\ Len(rest) = Len(s) - 1
      /\ Head(s) = s[1] /\ \A i \in 1..(Len(s) - 1) : rest[i] = s[i + 1]
  BY PopIs
<1>2. /\ Len(more) = Len(rest) + 1 /\ more[1] = g
      /\ \A i \in 1..Len(rest) : more[i + 1] = rest[i]
  BY <1>1, PushIs
<1> HIDE DEF rest, more
<1>3. ASSUME NEW i \in 1..Len(more)
      PROVE  i \in 1..Len(s) /\ more[i].target = s[i].target /\ more[i] \in {g, s[i]}
  <2>1. CASE i = 1
    BY <1>1, <1>2, <2>1
  <2>2. CASE i # 1
    <3>1. i - 1 \in 1..Len(rest) /\ (i - 1) + 1 = i
      BY <1>1, <1>2, <2>2
    <3>2. more[i] = rest[i - 1] /\ rest[i - 1] = s[i]
      BY <1>1, <1>2, <3>1
    <3> QED  BY <1>1, <1>2, <3>2
  <2> QED  BY <2>1, <2>2
<1>4. Nested(es, more)
  BY <1>3 DEF Nested
<1>5. Frames(more) \subseteq {g} \cup Frames(s)
  BY <1>3 DEF Frames
<1> QED  BY <1>4, <1>5 DEF more, rest

LEMMA NestedPop ==
  ASSUME NEW es, NEW s, IsSequence(s), s # <<>>, Nested(es, s)
  PROVE  Nested(es, Tail(s)) /\ Frames(Tail(s)) \subseteq Frames(s)
<1> DEFINE rest == Tail(s)
<1>1. /\ Len(s) \in Nat \ {0} /\ Len(rest) = Len(s) - 1
      /\ \A i \in 1..(Len(s) - 1) : rest[i] = s[i + 1]
  BY PopIs
<1> HIDE DEF rest
<1>2. ASSUME NEW i \in 1..Len(rest)
      PROVE  i + 1 \in 1..Len(s) /\ rest[i] = s[i + 1]
  BY <1>1
<1>3. Nested(es, rest)
  <2> SUFFICES ASSUME NEW i \in 1..Len(rest), NEW j \in 1..Len(rest), i <= j
               PROVE  Within(es[rest[j].target].path, es[rest[i].target].path)
    BY DEF Nested
  <2>1. i + 1 \in 1..Len(s) /\ j + 1 \in 1..Len(s) /\ i + 1 <= j + 1
    BY <1>2
  <2> QED  BY <1>2, <2>1 DEF Nested
<1>4. Frames(rest) \subseteq Frames(s)
  BY <1>2 DEF Frames
<1> QED  BY <1>3, <1>4 DEF rest

\* The paths of the targets of s.
Targets(es, s) == {es[f.target].path : f \in Frames(s)}

LEMMA NestedPush ==
  ASSUME NEW es, NEW s, IsSequence(s), NEW f, Nested(es, s),
         s # <<>> => Within(es[s[1].target].path, es[f.target].path),
         es[f.target].path \in Path, Targets(es, s) \subseteq Path
  PROVE  LET more == <<f>> \o s
         IN  Nested(es, more) /\ Frames(more) \subseteq {f} \cup Frames(s)
<1> DEFINE more == <<f>> \o s
           PathAt(t, i) == es[t[i].target].path
<1>1. /\ Len(s) \in Nat /\ Len(more) = Len(s) + 1
      /\ more[1] = f /\ \A i \in 1..Len(s) : more[i + 1] = s[i]
  BY PushIs
<1> HIDE DEF more
<1>2. ASSUME NEW i \in 1..Len(more), i # 1
      PROVE  i - 1 \in 1..Len(s) /\ more[i] = s[i - 1] /\ s # <<>>
  <2>1. i - 1 \in 1..Len(s) /\ (i - 1) + 1 = i
    BY <1>1, <1>2
  <2> QED  BY <1>1, <2>1
<1>3. ASSUME NEW i \in 1..Len(more), NEW j \in 1..Len(more), i <= j
      PROVE  Within(PathAt(more, j), PathAt(more, i))
  <2>1. CASE i # 1
    <3>1. i - 1 \in 1..Len(s) /\ j - 1 \in 1..Len(s) /\ i - 1 <= j - 1
      BY <1>2, <1>3, <2>1
    <3>2. more[i] = s[i - 1] /\ more[j] = s[j - 1]
      BY <1>2, <1>3, <2>1
    <3> QED  BY <3>1, <3>2 DEF Nested
  <2>2. CASE i = 1 /\ j = 1
    BY <2>2 DEF Within
  <2>3. CASE i = 1 /\ j # 1
    <3>1. j - 1 \in 1..Len(s) /\ more[j] = s[j - 1] /\ s # <<>> /\ more[1] = f
      BY <1>1, <1>2, <2>3
    <3>2. 1 \in 1..Len(s) /\ 1 <= j - 1
      BY <1>1, <3>1
    <3>3. PathAt(s, j - 1) \in Path /\ PathAt(s, 1) \in Path
      BY <3>1, <3>2 DEF Targets, Frames
    <3>4. Within(PathAt(s, j - 1), PathAt(s, 1))
      BY <3>1, <3>2 DEF Nested
    <3>5. Within(PathAt(s, 1), es[f.target].path)
      BY <3>1
    <3>6. Within(PathAt(s, j - 1), es[f.target].path)
      BY <3>3, <3>4, <3>5, WithinTwice
    <3> QED  BY <2>3, <3>1, <3>6
  <2> QED  BY <2>1, <2>2, <2>3
<1>4. Nested(es, more)
  BY <1>3 DEF Nested
<1>5. Frames(more) \subseteq {f} \cup Frames(s)
  <2> SUFFICES ASSUME NEW i \in 1..Len(more)  PROVE more[i] \in {f} \cup Frames(s)
    BY DEF Frames
  <2> QED  BY <1>1, <1>2 DEF Frames
<1> QED  BY <1>4, <1>5 DEF more

\* What the frames of a transfer are: their targets are entries, which lie at or
\* below the destination, and keep their paths.
LEMMA TargetsAre ==
  ASSUME NEW es, FileSystemInv(es), NEW w, NEW from \in Path, w.destination \in Path,
         \A q \in Path : Within(from, q) => Moved(q, from, w.destination) \in Path,
         ListingInv(es, w.listing), StackInv(es, w, from), NEW f \in Frames(w.stack)
  PROVE  LET p == es[f.target].path
         IN  f.target \in DOMAIN es /\ p \in Path /\ Within(w.destination, p)
<1> DEFINE q == es[f.source].path
           to == w.destination
<1>1. FrameInv(es, f, w.listing, from, to)
  BY DEF StackInv, Frames
<1>2. /\ f.source \in DOMAIN es /\ f.target \in DOMAIN es
      /\ Within(from, q) /\ es[f.target].path = Moved(q, from, to)
  BY <1>1 DEF FrameInv, ListingInv, IsEntry
<1>3. q \in Path /\ es[f.target].path \in Path
  BY <1>2, EntryIs
<1> HIDE DEF q, to
<1>4. Within(to, Moved(q, from, to))
  BY <1>2, <1>3, MovedWithin DEF to
<1> QED  BY <1>2, <1>3, <1>4 DEF to

LEMMA NestedEvolves ==
  ASSUME NEW es, NEW fs, Evolves(es, fs), NEW s, Nested(es, s),
         \A f \in Frames(s) : f.target \in DOMAIN es
  PROVE  Nested(fs, s)
<1>1. \A i \in 1..Len(s) : fs[s[i].target].path = es[s[i].target].path
  BY DEF Frames, Evolves
<1> QED  BY <1>1 DEF Nested

-----------------------------------------------------------------------------
(* The engine spares it.                                                    *)

\* c is at work, may not overwrite, and has kept everything until now.
InHand(c) ==
  /\ AtWork(c) /\ ~ work[c].overwrite /\ Far(task[c], work[c])
  /\ Untouched(Now, work[c]) /\ Nested(entries, work[c].stack)
  /\ \A f \in Frames(work[c].stack) : InSight(entries, work[c], f)

\* What c has to keep: the documents that were there, and where it is.
Spared(c, q) ==
  q \in Path /\ (Guarded(work[c], q) \/ q \in Targets(entries, work[c].stack))

LEMMA FramesAre ==
  ASSUME TransfersInv, NEW c \in Client, AtWork(c)
  PROVE  /\ \A f \in Frames(work[c].stack) :
              LET p == entries[f.target].path
              IN  f.target \in DOMAIN entries /\ p \in Path /\ Within(work[c].destination, p)
         /\ Top(c) \in Frames(work[c].stack) /\ Top(c) = work[c].stack[1]
         /\ IsSequence(work[c].stack) /\ work[c].stack # <<>>
         /\ 1 \in 1..Len(work[c].stack)
<1> DEFINE w == work[c]
           from == task[c].path
<1>1. /\ FileSystemInv(entries) /\ from \in Path /\ w.destination \in Path
      /\ \A q \in Path : Within(from, q) => Moved(q, from, w.destination) \in Path
      /\ ListingInv(entries, w.listing) /\ StackInv(entries, w, from) /\ w.stack # <<>>
  BY AtEngine
<1>2. Head(w.stack) = w.stack[1] /\ IsSequence(w.stack) /\ 1 \in 1..Len(w.stack)
  <2>1. IsSequence(w.stack)
    BY <1>1 DEF StackInv
  <2> QED  BY <1>1, <2>1, PopIs
<1>3. Top(c) \in Frames(w.stack)
  BY <1>2 DEF Top, Frames
<1> HIDE DEF w, from
<1>4. \A f \in Frames(w.stack) :
        LET p == entries[f.target].path
        IN  f.target \in DOMAIN entries /\ p \in Path /\ Within(w.destination, p)
  BY <1>1, TargetsAre
<1> QED  BY <1>1, <1>2, <1>3, <1>4 DEF w, Top

LEMMA SparedIs ==
  ASSUME TransfersInv, NEW c \in Client, AtWork(c), Far(task[c], work[c]), NEW q, Spared(c, q)
  PROVE  Within(work[c].destination, q) /\ ~ Within(task[c].path, q)
<1>1. q \in Path /\ task[c].path \in Path /\ work[c].destination \in Path
  BY AtEngine DEF Spared
<1>2. Within(work[c].destination, q)
  BY FramesAre DEF Spared, Guarded, Targets
<1> QED  BY <1>1, <1>2, Comparable DEF Far

\* The place of a member: the collection it is in is found, so the member is.
LEMMA PlaceIs ==
  ASSUME TransfersInv, NEW c \in Client, InHand(c),
         NEW e \in Top(c).documents \cup Top(c).collections
  PROVE  LET top == Top(c)
             a == PathIn(top.target, e)
             target == TargetOf(top, e)
         IN  /\ IsPlace(entries, a, top.target) /\ a \in Path
             /\ Above[a] = entries[top.target].path
             /\ Select(entries, Above[a]).entry = top.target
             /\ target = 0 /\ ~ top.created => CanCreate(entries, a, top.target)
             /\ target # 0 => Select(entries, a).entry = target
<1> DEFINE top == Top(c)
           a == PathIn(top.target, e)
           target == TargetOf(top, e)
           there == Members(entries, top.target, a)
<1>1. /\ AtWork(c) /\ FileSystemInv(entries) /\ IsPlace(entries, a, top.target)
      /\ InSight(entries, work[c], top)
  BY MemberIs, AtEngine, FramesAre DEF InHand
<1>2. target = IF top.created \/ there = {} THEN 0 ELSE CHOOSE m \in there : TRUE
  BY DEF TargetOf
<1>3. there \subseteq DOMAIN entries /\ 0 \notin DOMAIN entries
  BY <1>1 DEF IsPlace, IsEntry, Members, FileSystemInv
<1>4. Above[a] = entries[top.target].path /\ a \in Path
  BY <1>1 DEF IsPlace
<1>5. Select(entries, Above[a]).entry = top.target
  BY <1>1, <1>4 DEF InSight
<1>6. there # {} => Select(entries, a).entry = CHOOSE m \in there : TRUE
  <2> HIDE DEF top, a
  <2> QED  BY <1>1, <1>5, SeenMember
<1> HIDE DEF top, a, target, there
<1>7. target = 0 /\ ~ top.created => there = {}
  BY <1>2, <1>3
<1>8. target # 0 => Select(entries, a).entry = target
  BY <1>2, <1>6
<1> QED  BY <1>1, <1>4, <1>5, <1>7, <1>8 DEF CanCreate, top, a, target, there

\* Where the engine may create something, there is nothing to keep.
LEMMA NothingToKeep ==
  ASSUME TransfersInv, NEW c \in Client, InHand(c),
         NEW e \in Top(c).documents \cup Top(c).collections,
         CanCreate(entries, PathIn(Top(c).target, e), Top(c).target) \/ Top(c).created,
         NEW q, Spared(c, q)
  PROVE  ~ Within(PathIn(Top(c).target, e), q)
<1> DEFINE top == Top(c)
           a == PathIn(top.target, e)
           up == entries[top.target].path
<1>0. AtWork(c)
  BY DEF InHand
<1>1. /\ FileSystemInv(entries) /\ IsPlace(entries, a, top.target) /\ a \in Path
      /\ a # Root /\ up \in Path /\ Above[a] = up
      /\ Select(entries, up).entry = top.target
  BY <1>0, PlaceIs, AtEngine, FramesAre DEF IsPlace
<1>2. <<up, a>> \in Ancestor
  BY <1>1, AboveIsAncestor
<1>3. q \in Path
  BY DEF Spared
<1> SUFFICES ASSUME Within(a, q)  PROVE FALSE
  OBVIOUS
<1>4. CASE q \in Targets(entries, work[c].stack)
  <2>1. PICK j \in 1..Len(work[c].stack) : q = entries[work[c].stack[j].target].path
    BY <1>4 DEF Targets, Frames
  <2>2. top = work[c].stack[1] /\ 1 \in 1..Len(work[c].stack) /\ 1 <= j
    BY <1>0, FramesAre
  <2>3. Within(q, up)
    BY <2>1, <2>2 DEF InHand, Nested
  <2> HIDE DEF up, a, top
  <2>4. Within(a, up)
    BY <1>1, <1>3, <2>3, WithinTwice
  <2> QED  BY <1>1, <1>2, <2>4, AncestorIsForest DEF Within
<1>5. CASE Guarded(work[c], q) /\ top.created
  <2>1. InSight(entries, work[c], top)
    BY <1>0, FramesAre DEF InHand
  <2>2. Within(up, q)
    <3> HIDE DEF up, a, top
    <3> QED  BY <1>1, <1>2, <1>3, WithinTwice DEF Within
  <2> QED  BY <1>3, <1>5, <2>1, <2>2 DEF InSight
<1>6. CASE Guarded(work[c], q) /\ CanCreate(entries, a, top.target)
  <2>1. View(entries, props, q) = work[c].before[q] /\ work[c].before[q] # <<>>
    BY <1>3, <1>6 DEF InHand, Untouched, Guarded, Now
  <2> HIDE DEF up, a, top
  <2>2. Select(entries, a).missing # 0
    BY <1>1, <1>6, SeenMember DEF CanCreate
  <2>3. View(entries, props, q) = <<>>
    BY <1>1, <1>3, <2>2, NothingWithin
  <2> QED  BY <2>1, <2>3
<1> QED  BY <1>4, <1>5, <1>6 DEF Spared

LEMMA EngineDocumentSpares ==
  ASSUME TransfersInv, NEW c \in Client, InHand(c), NEW e, EngineDocument(c, e),
         NEW q, Spared(c, q)
  PROVE  LooksAlike(entries, props, entries', props', q)
<1> DEFINE top    == Top(c)
           target == TargetOf(top, e)
           a      == PathIn(top.target, e)
           done   == IF target # 0 /\ entries[target].kind = "collection"
                     THEN [fs |-> Now, status |-> "OverwriteFailed"]
                     ELSE Execute(c, e, a, top.target, target)
<1>1. /\ AtWork(c) /\ e \in top.documents /\ Becomes(done.fs) /\ ~ work[c].overwrite
      /\ Far(task[c], work[c])
  BY DEF EngineDocument, InHand
<1>2. CASE target # 0
  <2>1. done.fs = Now
    BY <1>1, <1>2 DEF Execute
  <2> HIDE DEF done
  <2> QED  BY <1>1, <2>1 DEF Becomes, Now, LooksAlike
<1>3. CASE target = 0
  <2>1. done = Execute(c, e, a, top.target, target)
    BY <1>3
  <2>2. /\ Sound(Now) /\ FileSystemInv(entries) /\ task[c].path \in Path
        /\ e \in DOMAIN entries /\ e # 1 /\ Within(task[c].path, entries[e].path)
        /\ IsPlace(entries, a, top.target) /\ target \in DOMAIN entries \cup {0}
    BY <1>1, AtEngine, MemberIs
  <2>3. entries[e].path \in Path /\ q \in Path
    BY <2>2, EntryIs DEF Spared
  <2>4. ~ Within(a, q)
    BY <1>1, <1>3, PlaceIs, NothingToKeep
  <2>5. ~ Within(task[c].path, q)
    BY <1>1, SparedIs
  <2> HIDE DEF done, a, top, target
  <2>6. Moves(c) => ~ Within(entries[e].path, q)
    BY <2>2, <2>3, <2>5, WithinTwice
  <2>7. Clear(entries, a, q)
    BY <2>4 DEF Clear, Within
  <2>8. SeenAlike(Now, done.fs, q)
    BY <1>3, <2>1, <2>2, <2>3, <2>6, <2>7, ExecuteElsewhere
  <2> QED  BY <1>1, <2>8 DEF Becomes, SeenAlike, Now, done
<1> QED  BY <1>2, <1>3

LEMMA EngineCollectionSpares ==
  ASSUME TransfersInv, NEW c \in Client, InHand(c), NEW e, EngineCollection(c, e),
         NEW q, Spared(c, q)
  PROVE  LooksAlike(entries, props, entries', props', q)
<1> DEFINE top == Top(c)
           a   == PathIn(top.target, e)
<1>1. /\ AtWork(c) /\ e \in Top(c).collections
      /\ \/ UNCHANGED <<entries, props>>
         \/ /\ CanCreate(entries, a, top.target) /\ UNCHANGED props
            /\ entries' = Create(entries, "collection", a, top.target, "empty")
  BY DEF EngineCollection, Throw
<1>2. IsPlace(entries, a, top.target) /\ FileSystemInv(entries) /\ q \in Path
  BY <1>1, MemberIs, AtEngine DEF Spared
<1>3. CASE UNCHANGED <<entries, props>>
  BY <1>3 DEF LooksAlike
<1>4. CASE /\ CanCreate(entries, a, top.target) /\ UNCHANGED props
           /\ entries' = Create(entries, "collection", a, top.target, "empty")
  <2>1. ~ Within(a, q)
    BY <1>1, <1>4, NothingToKeep
  <2>2. q # a /\ "empty" \in Data
    BY <2>1 DEF Within, Data
  <2> HIDE DEF a, top
  <2> QED  BY <1>2, <1>4, <2>2, CreateElsewhere
<1> QED  BY <1>1, <1>3, <1>4

LEMMA EngineFinishSpares ==
  ASSUME TransfersInv, NEW c \in Client, InHand(c), EngineFinish(c), NEW q, Spared(c, q)
  PROVE  /\ q \notin Targets(entries, work[c].stack) =>
              LooksAlike(entries, props, entries', props', q)
         /\ Select(entries', q).entry = Select(entries, q).entry
<1> DEFINE top  == Top(c)
           s    == entries[top.source].path
           a    == entries[top.target].path
           kept == ReadOf(Now, s, top.properties)
           fs   == SetProperties(Now, a, kept)
           gs   == IF Moves(c) /\ top.source # 1 THEN TakeAway(fs, top.source) ELSE fs
<1>1. AtWork(c) /\ Becomes(gs) /\ Far(task[c], work[c])
  BY DEF EngineFinish, InHand
<1>2. /\ Sound(Now) /\ FileSystemInv(entries) /\ task[c].path \in Path /\ q \in Path
      /\ FrameInv(entries, top, work[c].listing, task[c].path, work[c].destination)
      /\ top.source \in DOMAIN entries /\ top \in Frames(work[c].stack)
  BY <1>1, AtEngine, FramesAre DEF Spared
<1>3. Within(task[c].path, s) /\ s \in Path
  BY <1>2, EntryIs DEF FrameInv
<1>4. ~ Within(task[c].path, q)
  BY <1>1, SparedIs
<1>5. q \notin Targets(entries, work[c].stack) => q # a
  BY <1>2 DEF Targets
<1>6. /\ fs = SetProperties(Now, a, kept)
      /\ gs = IF Moves(c) /\ top.source # 1 THEN TakeAway(fs, top.source) ELSE fs
      /\ s = entries[top.source].path
  OBVIOUS
<1> HIDE DEF fs, gs, a, s, top, kept
<1>7. /\ q # a => SeenAlike(Now, fs, q)
      /\ Leads(Now, fs) /\ fs.entries = entries
  <2>1. Leads(Now, fs) /\ fs.entries = Now.entries
    BY <1>2, <1>6, SetPropertiesLeads
  <2> QED  BY <1>2, <1>6, <2>1, SetPropertiesElsewhere DEF Now
<1>8. SeenAlike(fs, gs, q)
  <2>1. CASE Moves(c) /\ top.source # 1
    <3>1. ~ Within(s, q)
      BY <1>2, <1>3, <1>4, WithinTwice
    <3> QED  BY <1>2, <1>6, <1>7, <2>1, <3>1, TakeAwayElsewhere DEF Leads
  <2>2. CASE ~ (Moves(c) /\ top.source # 1)
    BY <1>6, <2>2 DEF SeenAlike, LooksAlike
  <2> QED  BY <2>1, <2>2
<1>9. q # a => LooksAlike(entries, props, entries', props', q)
  BY <1>1, <1>7, <1>8 DEF SeenAlike, LooksAlike, Becomes, Now
<1>10. Select(entries', q).entry = Select(entries, q).entry
  BY <1>1, <1>7, <1>8 DEF SeenAlike, LooksAlike, Becomes, Now
<1> QED  BY <1>5, <1>9, <1>10

-----------------------------------------------------------------------------
(* It has them in hand after each step.                                     *)

\* The same as far as the target goes.
SameTarget(f, g) == g.target = f.target /\ g.created = f.created

LEMMA LessHasSameTarget ==
  ASSUME NEW f, IsFrame(f), NEW e
  PROVE  SameTarget(f, LessDocuments(f, e)) /\ SameTarget(f, LessCollections(f, e))
BY DEF LessDocuments, LessCollections, IsFrame, FrameFields, SameTarget

\* The frames of the stack t go to where those of s went, or satisfy InSight.
Continues(c, s, t) ==
  /\ Nested(entries', t)
  /\ InHand(c) => \A g \in Frames(t) : \/ \E f \in Frames(s) : SameTarget(f, g)
                                       \/ InSight(entries', work[c], g)

LEMMA ContinuesWithLess ==
  ASSUME TransfersInv, NEW c \in Client, AtWork(c), Evolves(entries, entries'),
         Nested(entries, work[c].stack), NEW g, SameTarget(Top(c), g)
  PROVE  LET t == <<g>> \o Tail(work[c].stack)
         IN  /\ Continues(c, work[c].stack, t) /\ Nested(entries, t)
             /\ \A h \in Frames(t) : \E f \in Frames(work[c].stack) : SameTarget(f, h)
             /\ IsSequence(t) /\ t[1] = g
<1> DEFINE s == work[c].stack
           t == <<g>> \o Tail(s)
<1>1. /\ IsSequence(s) /\ s # <<>> /\ g.target = Head(s).target
      /\ Top(c) \in Frames(s) /\ \A f \in Frames(s) : f.target \in DOMAIN entries
  BY FramesAre DEF SameTarget, Top
<1>t. IsSequence(t) /\ t[1] = g
  <2>1. IsSequence(Tail(s))
    BY <1>1, PopIs
  <2> HIDE DEF s
  <2> QED  BY <2>1, PushIs
<1> HIDE DEF s
<1>2. Nested(entries, t) /\ Frames(t) \subseteq {g} \cup Frames(s)
  BY <1>1, NestedReplace DEF s
<1> HIDE DEF t
<1>3. \A h \in Frames(t) : \E f \in Frames(s) : SameTarget(f, h)
  BY <1>1, <1>2 DEF SameTarget
<1>4. \A h \in Frames(t) : h.target \in DOMAIN entries
  BY <1>1, <1>3 DEF SameTarget
<1>5. Nested(entries', t)
  BY <1>2, <1>4, NestedEvolves
<1> QED  BY <1>2, <1>3, <1>5, <1>t DEF Continues, s, t

LEMMA EngineDocumentContinues ==
  ASSUME TransfersInv, NEW c \in Client, NEW e, EngineDocument(c, e),
         Evolves(entries, entries'), Nested(entries, work[c].stack)
  PROVE  Continues(c, work[c].stack, work'[c].stack)
<1> DEFINE top   == Top(c)
           less  == LessDocuments(top, e)
           stack == <<less>> \o Tail(work[c].stack)
<1>1. /\ AtWork(c) /\ \E results : Works(c, WithStack(work[c], stack, results))
  BY DEF EngineDocument, WithStack, LessDocuments
<1>2. PICK results : Works(c, WithStack(work[c], stack, results))
  BY <1>1
<1>3. IsWork(work[c]) /\ IsFrame(top) /\ c \in DOMAIN work
  BY <1>1, AtEngine DEF FrameInv, TransfersInv
<1>4. SameTarget(top, less)
  BY <1>3, LessHasSameTarget
<1> HIDE DEF less, top
<1>5. Continues(c, work[c].stack, stack)
  BY <1>1, <1>4, ContinuesWithLess DEF top
<1> DEFINE w == WithStack(work[c], stack, results)
<1> HIDE DEF stack
<1>6. w.stack = stack
  BY <1>3, AimWith
<1>7. work'[c] = w
  BY <1>2, <1>3 DEF Works
<1> QED  BY <1>5, <1>6, <1>7

LEMMA EngineFinishContinues ==
  ASSUME TransfersInv, NEW c \in Client, EngineFinish(c),
         Evolves(entries, entries'), Nested(entries, work[c].stack)
  PROVE  Continues(c, work[c].stack, work'[c].stack)
<1> DEFINE s == work[c].stack
           t == Tail(s)
<1>1. AtWork(c) /\ \E results : Works(c, WithStack(work[c], t, results))
  BY DEF EngineFinish, WithStack
<1>2. PICK results : Works(c, WithStack(work[c], t, results))
  BY <1>1
<1>3. IsWork(work[c]) /\ c \in DOMAIN work
  BY <1>1, AtEngine DEF TransfersInv
<1>4. /\ IsSequence(s) /\ s # <<>> /\ \A f \in Frames(s) : f.target \in DOMAIN entries
  BY <1>1, FramesAre
<1>5. Nested(entries, t) /\ Frames(t) \subseteq Frames(s)
  <2> HIDE DEF s
  <2> QED  BY <1>4, NestedPop DEF s
<1> DEFINE w == WithStack(work[c], t, results)
<1> HIDE DEF t, s
<1>6. Nested(entries', t)
  BY <1>4, <1>5, NestedEvolves
<1>7. w.stack = t
  BY <1>3, AimWith
<1>8. work'[c] = w
  BY <1>2, <1>3 DEF Works
<1> QED  BY <1>5, <1>6, <1>7, <1>8 DEF Continues, SameTarget, s

\* A collection the engine goes into is found, and when it is new nothing to
\* keep is there.
LEMMA EntersInSight ==
  ASSUME TransfersInv, NEW c \in Client, InHand(c), NEW e \in Top(c).collections,
         NEW g, g.target \in DOMAIN entries', FileSystemInv(entries'),
         LET a == PathIn(Top(c).target, e)
             target == TargetOf(Top(c), e)
         IN  /\ entries'[g.target].path = a
             /\ \/ /\ target # 0 /\ g.target = target /\ ~ g.created /\ UNCHANGED entries
                \/ /\ CanCreate(entries, a, Top(c).target)
                   /\ entries' = Create(entries, "collection", a, Top(c).target, "empty")
                   /\ g.target = Len(entries) + 1
  PROVE  InSight(entries', work[c], g)
<1> DEFINE top == Top(c)
           a == PathIn(top.target, e)
           target == TargetOf(top, e)
<1>0. AtWork(c)
  BY DEF InHand
<1>1. /\ FileSystemInv(entries) /\ IsPlace(entries, a, top.target)
      /\ Select(entries, Above[a]).entry = top.target
      /\ target # 0 => Select(entries, a).entry = target
  BY <1>0, PlaceIs, AtEngine
<1>2. CASE target # 0 /\ g.target = target /\ ~ g.created /\ UNCHANGED entries
  BY <1>1, <1>2 DEF InSight
<1>3. CASE /\ CanCreate(entries, a, top.target)
           /\ entries' = Create(entries, "collection", a, top.target, "empty")
           /\ g.target = Len(entries) + 1
  <2>1. \A q \in Path : Within(a, q) => ~ Guarded(work[c], q)
    BY <1>3, NothingToKeep DEF Spared
  <2>2. "empty" \in Data /\ "collection" \in {"collection", "document"}
    BY DEF Data
  <2>3. Select(entries', a).entry = Len(entries) + 1
    <3> HIDE DEF a, top
    <3> QED  BY <1>1, <1>3, <2>2, CreatedIsSeen
  <2> QED  BY <1>3, <2>1, <2>3 DEF InSight
<1> QED  BY <1>2, <1>3

LEMMA EngineCollectionContinues ==
  ASSUME TransfersInv, NEW c \in Client, NEW e, EngineCollection(c, e),
         Evolves(entries, entries'), FileSystemInv(entries'), Nested(entries, work[c].stack)
  PROVE  Continues(c, work[c].stack, work'[c].stack)
<1> DEFINE top  == Top(c)
           less == LessCollections(top, e)
           rest == <<less>> \o Tail(work[c].stack)
           a    == PathIn(top.target, e)
           target == TargetOf(top, e)
           frame(at, created) == Frame(work[c].listing, e, at, created, top.memberProperties[e])
           Enter(at, created) == Works(c, OnStack(work[c], <<frame(at, created)>> \o rest))
           results == work[c].results \cup Result("OverwriteFailed", Level(c) + 1)
<1>1. /\ AtWork(c) /\ e \in top.collections
      /\ \/ Works(c, WithStack(work[c], rest, results))
         \/ /\ target # 0 /\ Enter(target, FALSE) /\ UNCHANGED entries
         \/ /\ CanCreate(entries, a, top.target)
            /\ entries' = Create(entries, "collection", a, top.target, "empty")
            /\ Enter(Len(entries) + 1, TRUE)
         \/ Throw(c)
  BY DEF EngineCollection, WithStack, OnStack, LessCollections
<1>2. /\ IsWork(work[c]) /\ IsFrame(top) /\ c \in DOMAIN work /\ FileSystemInv(entries)
      /\ top.target \in DOMAIN entries /\ entries[top.target].path \in Path
  BY <1>1, AtEngine, FramesAre DEF FrameInv, TransfersInv
<1>3. /\ IsPlace(entries, a, top.target) /\ a \in Path
      /\ target # 0 => target \in DOMAIN entries /\ entries[target].path = a
      /\ <<entries[top.target].path, a>> \in Ancestor
  <2>1. /\ IsPlace(entries, a, top.target)
        /\ target # 0 => target \in DOMAIN entries /\ entries[target].path = a
    BY <1>1, MemberIs
  <2>2. a \in Path /\ a # Root /\ Above[a] = entries[top.target].path
    BY <2>1 DEF IsPlace
  <2> QED  BY <2>1, <2>2, AboveIsAncestor
<1>4. /\ Continues(c, work[c].stack, rest) /\ Nested(entries, rest)
      /\ \A h \in Frames(rest) : \E f \in Frames(work[c].stack) : SameTarget(f, h)
      /\ IsSequence(rest) /\ rest[1] = less /\ less.target = top.target
  <2>1. SameTarget(top, less)
    BY <1>2, LessHasSameTarget
  <2>2. less.target = top.target
    BY <2>1 DEF SameTarget
  <2> HIDE DEF less, top
  <2> QED  BY <1>1, <2>1, <2>2, ContinuesWithLess DEF top
<1>5. CASE Works(c, WithStack(work[c], rest, results))
  <2> DEFINE w == WithStack(work[c], rest, results)
  <2> HIDE DEF rest, results
  <2>1. w.stack = rest
    BY <1>2, AimWith
  <2>2. work'[c] = w
    BY <1>2, <1>5 DEF Works
  <2> QED  BY <1>4, <2>1, <2>2
<1>6. ASSUME NEW at, NEW created, Enter(at, created), at \in DOMAIN entries',
             entries'[at].path = a,
             \/ target # 0 /\ at = target /\ ~ created /\ UNCHANGED entries
             \/ /\ CanCreate(entries, a, top.target)
                /\ entries' = Create(entries, "collection", a, top.target, "empty")
                /\ at = Len(entries) + 1
      PROVE  Continues(c, work[c].stack, work'[c].stack)
  <2> DEFINE g == frame(at, created)
             t == <<g>> \o rest
             w == OnStack(work[c], t)
  <2>1. g.target = at /\ g.created = created
    BY DEF Frame
  <2>2. work'[c] = w
    BY <1>2, <1>6 DEF Works
  <2> HIDE DEF g
  <2>3. InHand(c) => InSight(entries', work[c], g)
    BY <1>1, <1>6, <2>1, EntersInSight
  <2>4. Nested(entries', t) /\ Frames(t) \subseteq {g} \cup Frames(rest)
    <3>1. \A h \in Frames(rest) : h.target \in DOMAIN entries /\ entries[h.target].path \in Path
      BY <1>1, <1>4, FramesAre DEF SameTarget
    <3>2. Targets(entries', rest) \subseteq Path
      BY <3>1 DEF Targets, Evolves
    <3>3. entries'[rest[1].target].path = entries[top.target].path
      BY <1>2, <1>4 DEF Evolves
    <3>4. Within(entries'[rest[1].target].path, entries'[g.target].path)
      BY <1>3, <1>6, <2>1, <3>3 DEF Within
    <3>5. Nested(entries', rest)
      BY <1>4 DEF Continues
    <3>6. entries'[g.target].path \in Path
      BY <1>3, <1>6, <2>1
    <3> HIDE DEF rest
    <3> QED  BY <1>4, <3>2, <3>4, <3>5, <3>6, NestedPush
  <2> HIDE DEF rest, t
  <2>5. w.stack = t
    BY <1>2, AimWith
  <2> QED  BY <1>4, <2>2, <2>3, <2>4, <2>5 DEF Continues
<1>7. CASE target # 0 /\ Enter(target, FALSE) /\ UNCHANGED entries
  <2>1. target \in DOMAIN entries' /\ entries'[target].path = a
    BY <1>3, <1>7
  <2> HIDE DEF Enter, target, a, top
  <2> QED  BY <1>6, <1>7, <2>1
<1>8. CASE /\ CanCreate(entries, a, top.target)
           /\ entries' = Create(entries, "collection", a, top.target, "empty")
           /\ Enter(Len(entries) + 1, TRUE)
  <2>1. "empty" \in Data /\ "collection" \in {"collection", "document"}
    BY DEF Data
  <2> DEFINE at == Len(entries) + 1
             es == entries'
  <2>2. Enter(at, TRUE) /\ at = Len(entries) + 1
        /\ es = Create(entries, "collection", a, top.target, "empty")
    BY <1>8
  <2> HIDE DEF Enter, a, top, at, es
  <2>3. Grown(entries, es, "collection", a, top.target, "empty")
    BY <1>2, <1>3, <1>8, <2>1, <2>2, CreateLeads
  <2>4. at \in DOMAIN es /\ es[at] = NewEntry("collection", a, top.target, "empty")
    BY <2>3 DEF Grown, at
  <2>5. es[at].path = a
    BY <2>4 DEF NewEntry
  <2> QED  BY <1>6, <1>8, <2>2, <2>4, <2>5 DEF es
<1>9. CASE Throw(c)
  <2> DEFINE w == WithStack(work[c], <<>>, {})
  <2>1. Works(c, w)
    BY <1>9 DEF Throw, WithStack
  <2>2. w.stack = <<>>
    BY <1>2, AimWith
  <2> HIDE DEF w
  <2>3. work'[c].stack = <<>>
    BY <1>2, <2>1, <2>2 DEF Works
  <2> QED  BY <2>3 DEF Continues, Nested, Frames
<1> HIDE DEF Enter, rest, results, target, a, top
<1> QED  BY <1>1, <1>5, <1>7, <1>8, <1>9

\* A step of the engine's walk.
LEMMA WalkKeeps ==
  ASSUME TransfersInv, NEW c \in Client, AtWork(c), EngineStep(c), Evolves(entries, entries'),
         Keeps(Now, task[c], work[c]), Nested(entries, work[c].stack),
         Continues(c, work[c].stack, work'[c].stack),
         InHand(c) => \A q : Spared(c, q) =>
           /\ Guarded(work[c], q) => View(entries', props', q) = View(entries, props, q)
           /\ Select(entries', q).entry = Select(entries, q).entry
  PROVE  Keeps(Now', task'[c], work'[c])
<1> DEFINE w == work[c]
           v == work'[c]
<1>1. /\ task'[c].pc \in {"engine", "dispose destination"} /\ task'[c].path = task[c].path
      /\ v.destination = w.destination /\ v.before = w.before /\ v.overwrite = w.overwrite
  BY DEF EngineStep, Onward, SameAim
<1>2. /\ \A q : Guarded(v, q) <=> Guarded(w, q)
      /\ Far(task'[c], v) <=> Far(task[c], w)
  BY <1>1 DEF Guarded, Far
<1>3. ASSUME ~ v.overwrite, Far(task'[c], v)
      PROVE  /\ Untouched(Now', v)
             /\ \A g \in Frames(v.stack) : InSight(entries', v, g)
  <2>1. /\ Untouched(Now, w) /\ \A f \in Frames(w.stack) : InSight(entries, w, f)
        /\ InHand(c)
    BY <1>1, <1>2, <1>3 DEF Keeps, InHand, AtWork, Now
  <2>2. Untouched(Now', v)
    <3> SUFFICES ASSUME NEW q \in Path, Guarded(v, q)
                 PROVE  View(entries', props', q) = v.before[q]
      BY DEF Untouched, Now
    <3>1. Guarded(w, q) /\ Spared(c, q)
      BY <1>2 DEF Spared
    <3>2. View(entries, props, q) = w.before[q]
      BY <2>1, <3>1 DEF Untouched, Now
    <3>3. View(entries', props', q) = View(entries, props, q)
      BY <2>1, <3>1
    <3> QED  BY <1>1, <3>2, <3>3
  <2>3. ASSUME NEW g \in Frames(v.stack)  PROVE InSight(entries', v, g)
    <3>1. CASE InSight(entries', w, g)
      BY <1>2, <3>1 DEF InSight
    <3>2. ASSUME NEW f \in Frames(w.stack), SameTarget(f, g)  PROVE InSight(entries', v, g)
      <4> DEFINE p == entries[f.target].path
      <4>1. f.target \in DOMAIN entries /\ p \in Path
        BY FramesAre
      <4>2. entries'[g.target].path = p
        BY <3>2, <4>1 DEF SameTarget, Evolves
      <4>3. Spared(c, p)
        BY <4>1 DEF Spared, Targets
      <4>4. Select(entries', p).entry = f.target
        BY <2>1, <4>3 DEF InSight
      <4>5. f.created => \A q \in Path : Within(p, q) => ~ Guarded(w, q)
        BY <2>1 DEF InSight
      <4> HIDE DEF p
      <4> QED  BY <1>2, <3>2, <4>2, <4>4, <4>5 DEF InSight, SameTarget
    <3> QED  BY <2>1, <3>1, <3>2 DEF Continues
  <2> QED  BY <2>2, <2>3
<1> HIDE DEF w, v
<1>4. task'[c].pc \notin {"lock source", "select destination", "lock destination", "start"}
  BY <1>1
<1>5. Now'.entries = entries'
  BY DEF Now
<1> QED  BY <1>3, <1>4, <1>5 DEF Keeps, v

LEMMA DocumentIsNoTarget ==
  ASSUME TransfersInv, NEW c \in Client, InHand(c), NEW q \in Path, Guarded(work[c], q)
  PROVE  q \notin Targets(entries, work[c].stack)
<1> SUFFICES ASSUME NEW f \in Frames(work[c].stack), q = entries[f.target].path  PROVE FALSE
  BY DEF Targets
<1>1. Select(entries, q).entry = f.target
  BY DEF InHand, InSight
<1>2. FileSystemInv(entries) /\ IsEntry(entries, f.target, "collection")
  BY AtEngine DEF InHand, StackInv, FrameInv, Frames
<1>3. View(entries, props, q) = work[c].before[q]
  BY DEF InHand, Untouched, Now
<1>4. work[c].before[q] # <<>> /\ work[c].before[q][1] = "document"
  BY DEF Guarded
<1>5. View(entries, props, q) = <<>> \/ View(entries, props, q)[1] = entries[f.target].kind
  BY <1>1 DEF View
<1> QED  BY <1>2, <1>3, <1>4, <1>5 DEF IsEntry

LEMMA EngineKeeps ==
  ASSUME TransfersInv, NEW c \in Client, NEW e,
         EngineDocument(c, e) \/ EngineCollection(c, e) \/ EngineFinish(c),
         Evolves(entries, entries'), FileSystemInv(entries'),
         Nested(entries, work[c].stack), Keeps(Now, task[c], work[c])
  PROVE  Keeps(Now', task'[c], work'[c])
<1>1. EngineStep(c) /\ AtWork(c)
  BY EngineDocumentIs, EngineCollectionIs, EngineFinishIs
     DEF EngineDocument, EngineCollection, EngineFinish
<1>2. Continues(c, work[c].stack, work'[c].stack)
  BY EngineDocumentContinues, EngineCollectionContinues, EngineFinishContinues
<1>3. ASSUME InHand(c), NEW q, Spared(c, q)
      PROVE  /\ Guarded(work[c], q) => View(entries', props', q) = View(entries, props, q)
             /\ Select(entries', q).entry = Select(entries, q).entry
  <2>1. CASE EngineDocument(c, e) \/ EngineCollection(c, e)
    <3>1. LooksAlike(entries, props, entries', props', q)
      BY <1>3, <2>1, EngineDocumentSpares, EngineCollectionSpares
    <3> QED  BY <3>1 DEF LooksAlike
  <2>2. CASE EngineFinish(c)
    <3>1. q \in Path
      BY <1>3 DEF Spared
    <3>2. Guarded(work[c], q) => q \notin Targets(entries, work[c].stack)
      BY <1>3, <3>1, DocumentIsNoTarget
    <3> QED  BY <1>3, <2>2, <3>2, EngineFinishSpares DEF LooksAlike
  <2> QED  BY <2>1, <2>2
<1> QED  BY <1>1, <1>2, <1>3, WalkKeeps

\* The collection of what is missing is the one that is found above it.
LEMMA MissingIn ==
  ASSUME NEW es, FileSystemInv(es), NEW a \in Path, Select(es, a).missing = 1
  PROVE  Select(es, Above[a]).entry = Select(es, a).collection
<1> DEFINE up == Select(es, Above[a])
<1>1. a # Root
  BY SelectFits DEF Fits
<1>2. Fits(es, up, Above[a]) /\ Select(es, a) = OneDown(es, up, a)
  BY <1>1, AboveIsAncestor, SelectFits, SelectDown
<1>3. up \in Selection /\ OneDown(es, up, a).missing = 1
  BY <1>2 DEF Fits
<1>4. up.missing = 0 => up.result \in {"FoundCollection", "FoundDocument"}
  BY <1>2 DEF Fits, FileSystemInv, IsFileSystem
<1>5. up.result = "FoundCollection" =>
        up.missing = 0 /\ up.entry \in DOMAIN es /\ up.collection = up.entry
  BY <1>2 DEF Fits, FileSystemInv, IsFileSystem
<1> HIDE DEF up
<1>6. CASE up.result = "FoundCollection" /\ Members(es, up.entry, a) = {}
  <2>1. OneDown(es, up, a).collection = up.collection
    BY <1>3, <1>6 DEF OneDown, Selection
  <2> QED  BY <1>2, <1>5, <1>6, <2>1 DEF up
<1>7. CASE up.result = "FoundCollection" /\ Members(es, up.entry, a) # {}
  BY <1>3, <1>7 DEF OneDown, Found
<1>8. CASE up.result = "FoundDocument"
  <2>1. OneDown(es, up, a).missing = 2
    BY <1>3, <1>8 DEF OneDown, Selection
  <2> QED  BY <1>3, <2>1
<1>9. CASE up.result \notin {"FoundCollection", "FoundDocument"}
  <2>1. OneDown(es, up, a).missing = up.missing + 1
    BY <1>3, <1>9 DEF OneDown, Selection
  <2> QED  BY <1>3, <1>4, <1>9, <2>1 DEF Selection
<1> QED  BY <1>6, <1>7, <1>8, <1>9

\* What a transfer that was alone knows when it starts.
LEMMA AloneAtStart ==
  ASSUME TransfersInv, NEW c \in Client, task[c].pc = "start", Keeps(Now, task[c], work[c])
  PROVE  LET w == work[c] found == w.found a == w.destination IN
         /\ found = Select(entries, a) /\ Fits(entries, found, a) /\ a \in Path
         /\ FileSystemInv(entries) /\ w.stack = <<>> /\ IsWork(w)
         /\ \A q \in Path : w.before[q] = View(entries, props, q)
         /\ found.entry = 0 => /\ found.missing = 1 /\ IsPlace(entries, a, found.collection)
                               /\ Select(entries, Above[a]).entry = found.collection
                               /\ \A q \in Path : ~ Guarded(w, q)
<1> DEFINE w == work[c]
           a == w.destination
           found == w.found
<1>1. /\ found = Select(entries, a) /\ \A q \in Path : w.before[q] = View(entries, props, q)
  BY DEF Keeps, Now
<1>2. /\ Fits(entries, found, a) /\ a \in Path /\ FileSystemInv(entries)
      /\ w.stack = <<>> /\ found.missing \in {0, 1} /\ IsWork(w)
  BY AtStart
<1>3. ASSUME found.entry = 0
      PROVE  /\ found.missing = 1 /\ IsPlace(entries, a, found.collection)
             /\ Select(entries, Above[a]).entry = found.collection
             /\ \A q \in Path : ~ Guarded(w, q)
  <2> HIDE DEF found, a, w
  <2>1. found.missing = 1
    BY <1>2, <1>3 DEF Fits, FileSystemInv
  <2>2. IsPlace(entries, a, found.collection)
    BY <1>2, <2>1 DEF Fits, IsPlace, IsEntry
  <2>3. Select(entries, Above[a]).entry = found.collection
    BY <1>1, <1>2, <2>1, MissingIn
  <2>4. ASSUME NEW q \in Path, Within(a, q)  PROVE View(entries, props, q) = <<>>
    <3>1. Select(entries, a).missing # 0
      BY <1>1, <2>1
    <3> QED  BY <1>2, <2>4, <3>1, NothingWithin
  <2> QED  BY <1>1, <2>1, <2>2, <2>3, <2>4 DEF Guarded, a
<1> QED  BY <1>1, <1>2, <1>3

\* With what the engine starts, it keeps what is there.
LEMMA BeginsToKeep ==
  ASSUME TransfersInv, NEW c \in Client, task[c].pc = "start", EngineStep(c),
         Keeps(Now, task[c], work[c]),
         ~ work[c].overwrite =>
           /\ UNCHANGED <<entries, props>> \/ \A q \in Path : ~ Guarded(work[c], q)
           /\ \A f \in Frames(work'[c].stack) : InSight(entries', work[c], f)
  PROVE  Keeps(Now', task'[c], work'[c])
<1> DEFINE w == work[c]
           v == work'[c]
<1>1. /\ task'[c].pc \in {"engine", "dispose destination"}
      /\ v.destination = w.destination /\ v.before = w.before /\ v.overwrite = w.overwrite
  BY DEF EngineStep, Onward, SameAim
<1>2. \A q : Guarded(v, q) <=> Guarded(w, q)
  BY <1>1 DEF Guarded
<1>3. \A q \in Path : w.before[q] = View(entries, props, q)
  BY AloneAtStart
<1>4. ASSUME ~ v.overwrite
      PROVE  Untouched(Now', v) /\ \A f \in Frames(v.stack) : InSight(entries', v, f)
  <2>1. /\ UNCHANGED <<entries, props>> \/ \A q \in Path : ~ Guarded(w, q)
        /\ \A f \in Frames(v.stack) : InSight(entries', w, f)
    BY <1>1, <1>4
  <2>2. Untouched(Now', v)
    BY <1>1, <1>2, <1>3, <2>1 DEF Untouched, Now
  <2>3. \A f \in Frames(v.stack) : InSight(entries', v, f)
    BY <1>2, <2>1 DEF InSight
  <2> QED  BY <2>2, <2>3
<1> HIDE DEF w, v
<1>5. task'[c].pc \notin {"lock source", "select destination", "lock destination", "start"}
  BY <1>1
<1> QED  BY <1>4, <1>5 DEF Keeps, v, Now

LEMMA NoFrames ==
  /\ Frames(<<>>) = {} /\ \A es : Nested(es, <<>>)
  /\ \A f : Frames(<<f>>) = {f} /\ \A es : Nested(es, <<f>>)
BY DEF Frames, Nested, Within

LEMMA StartDocumentKeepsAll ==
  ASSUME TransfersInv, NEW c \in Client, StartDocument(c), EngineStep(c)
  PROVE  /\ Nested(entries', work'[c].stack)
         /\ Keeps(Now, task[c], work[c]) => Keeps(Now', task'[c], work'[c])
<1> DEFINE w     == work[c]
           found == w.found
           done  == IF found.result = "FoundCollection"
                    THEN [fs |-> Now, status |-> "OverwriteFailed"]
                    ELSE Execute(c, task[c].found.entry, w.destination,
                                 found.collection, found.entry)
           results == Result(done.status, 0)
<1>1. /\ task[c].pc = "start" /\ Becomes(done.fs) /\ Works(c, WithResults(w, results))
  BY DEF StartDocument, Starts, WithResults
<1>2. IsWork(w) /\ w.stack = <<>> /\ c \in DOMAIN work
  BY <1>1, AtStart DEF TransfersInv
<1>3. work'[c].stack = <<>>
  <2> DEFINE v == WithResults(w, results)
  <2>1. work'[c] = v
    BY <1>1, <1>2 DEF Works
  <2> HIDE DEF results
  <2>2. v.stack = w.stack
    BY <1>2, ResultsWith
  <2> QED  BY <1>2, <2>1, <2>2
<1>4. ASSUME Keeps(Now, task[c], w)  PROVE Keeps(Now', task'[c], work'[c])
  <2>1. CASE ~ w.overwrite /\ found.entry # 0
    <3>1. done.fs = Now
      BY <2>1 DEF Execute
    <3> HIDE DEF done
    <3>2. UNCHANGED <<entries, props>>
      BY <1>1, <3>1 DEF Becomes, Now
    <3> QED  BY <1>1, <1>3, <1>4, <3>2, NoFrames, BeginsToKeep
  <2>2. CASE ~ w.overwrite /\ found.entry = 0
    <3>1. \A q \in Path : ~ Guarded(w, q)
      BY <1>1, <1>4, <2>2, AloneAtStart
    <3> QED  BY <1>1, <1>3, <1>4, <3>1, NoFrames, BeginsToKeep
  <2>3. CASE w.overwrite
    BY <1>1, <1>4, <2>3, BeginsToKeep
  <2> QED  BY <2>1, <2>2, <2>3
<1> QED  BY <1>3, <1>4, NoFrames

LEMMA StartOnRootKeepsAll ==
  ASSUME TransfersInv, NEW c \in Client, StartOnRoot(c), EngineStep(c)
  PROVE  /\ Nested(entries', work'[c].stack)
         /\ Keeps(Now, task[c], work[c]) => Keeps(Now', task'[c], work'[c])
<1> DEFINE w == WithStack(work[c], <<>>, {})
<1>1. /\ task[c].pc = "start" /\ UNCHANGED <<entries, props>> /\ Works(c, w)
  BY DEF StartOnRoot, Throw, WithStack
<1>2. w.stack = <<>> /\ c \in DOMAIN work
  BY <1>1, AtStart, AimWith DEF TransfersInv
<1> HIDE DEF w
<1>3. work'[c].stack = <<>>
  BY <1>1, <1>2 DEF Works
<1> QED  BY <1>1, <1>3, NoFrames, BeginsToKeep

LEMMA StartCollectionKeepsAll ==
  ASSUME TransfersInv, NEW c \in Client, StartCollection(c), EngineStep(c)
  PROVE  /\ Nested(entries', work'[c].stack)
         /\ Keeps(Now, task[c], work[c]) => Keeps(Now', task'[c], work'[c])
<1> DEFINE source  == task[c].found.entry
           found   == work[c].found
           listing == Listing(entries, source, work[c].depth)
           frame(target) == Frame(listing, source, target, IsMissing(found),
                                  Collected(props[entries[source].path]))
           Enter(target) == Works(c, WithListing(work[c], listing, <<frame(target)>>))
           Fail(status) == Works(c, WithResults(work[c], Result(status, 0)))
           p == work[c].destination
           creates == IsMissing(found) /\ CanCreate(entries, p, found.collection)
<1>1. task[c].pc = "start" /\ UNCHANGED props
  BY DEF StartCollection, Starts
<1>2. /\ FileSystemInv(entries) /\ p \in Path /\ Fits(entries, found, p)
      /\ IsWork(work[c]) /\ work[c].stack = <<>> /\ c \in DOMAIN work
  BY <1>1, AtStart DEF TransfersInv
<1>3. ASSUME NEW status, Fail(status), UNCHANGED entries
      PROVE  /\ Nested(entries', work'[c].stack)
             /\ Keeps(Now, task[c], work[c]) => Keeps(Now', task'[c], work'[c])
  <2> DEFINE results == Result(status, 0)
             w == WithResults(work[c], results)
  <2>1. Works(c, w)
    BY <1>3
  <2> HIDE DEF results
  <2>2. w.stack = <<>>
    BY <1>2, ResultsWith
  <2> HIDE DEF w
  <2>3. work'[c].stack = <<>>
    BY <1>2, <2>1, <2>2 DEF Works
  <2> QED  BY <1>1, <1>3, <2>3, NoFrames, BeginsToKeep
<1>4. ASSUME NEW target, Enter(target),
             Keeps(Now, task[c], work[c]) =>
               /\ UNCHANGED <<entries, props>> \/ \A q \in Path : ~ Guarded(work[c], q)
               /\ entries'[target].path = p /\ Select(entries', p).entry = target
               /\ IsMissing(found) => \A q \in Path : ~ Guarded(work[c], q)
      PROVE  /\ Nested(entries', work'[c].stack)
             /\ Keeps(Now, task[c], work[c]) => Keeps(Now', task'[c], work'[c])
  <2> DEFINE f == frame(target)
             stack == <<f>>
             w == WithListing(work[c], listing, stack)
  <2>1. Works(c, w) /\ f.target = target /\ f.created = IsMissing(found)
    BY <1>4 DEF Frame
  <2> HIDE DEF f, listing, stack
  <2>2. w.stack = stack
    BY <1>2, ListingWith
  <2> HIDE DEF w
  <2>3. work'[c].stack = <<f>>
    BY <1>2, <2>1, <2>2 DEF Works, stack
  <2>4. Keeps(Now, task[c], work[c]) => InSight(entries', work[c], f)
    BY <1>4, <2>1 DEF InSight
  <2> QED  BY <1>1, <1>4, <2>3, <2>4, NoFrames, BeginsToKeep
<1>5. CASE found.result = "FoundCollection" /\ Enter(found.entry) /\ UNCHANGED entries
  <2>1. found.missing = 0 /\ entries[found.entry].path = p
    <3> HIDE DEF found, p
    <3>1. found.missing = 0
      BY <1>2, <1>5 DEF Fits
    <3> QED  BY <1>2, <3>1 DEF Fits
  <2>2. Keeps(Now, task[c], work[c]) => Select(entries, p).entry = found.entry
    BY <1>1, AloneAtStart
  <2>3. ~ IsMissing(found)
    BY <2>1 DEF IsMissing
  <2> DEFINE target == found.entry
  <2>4. /\ Enter(target) /\ UNCHANGED <<entries, props>>
        /\ entries'[target].path = p
        /\ Keeps(Now, task[c], work[c]) => Select(entries', p).entry = target
    BY <1>1, <1>5, <2>1, <2>2
  <2> HIDE DEF target, Enter
  <2> QED  BY <1>4, <2>3, <2>4
<1>6. CASE /\ creates
           /\ entries' = Create(entries, "collection", p, found.collection, "empty")
           /\ Enter(Len(entries) + 1)
  <2>1. found.entry = 0
    BY <1>2, <1>6 DEF Fits, IsMissing
  <2> DEFINE target == Len(entries) + 1
             es == entries'
  <2>2. es = Create(entries, "collection", p, found.collection, "empty") /\ Enter(target)
    BY <1>6
  <2>3. "empty" \in Data /\ "collection" \in {"collection", "document"}
    BY DEF Data
  <2>4. ASSUME Keeps(Now, task[c], work[c])
        PROVE  /\ \A q \in Path : ~ Guarded(work[c], q)
               /\ es[target].path = p /\ Select(es, p).entry = target
    <3>1. /\ IsPlace(entries, p, found.collection)
          /\ Select(entries, Above[p]).entry = found.collection
          /\ \A q \in Path : ~ Guarded(work[c], q)
      BY <1>1, <2>1, <2>4, AloneAtStart
    <3>2. CanCreate(entries, p, found.collection)
      BY <1>6
    <3> HIDE DEF p, found, es
    <3>3. Select(es, p).entry = target
      BY <1>2, <2>2, <2>3, <3>1, <3>2, CreatedIsSeen
    <3>4. Grown(entries, es, "collection", p, found.collection, "empty")
      BY <1>2, <2>2, <2>3, <3>1, <3>2, CreateLeads
    <3>5. es[target] = NewEntry("collection", p, found.collection, "empty")
      BY <3>4 DEF Grown
    <3> QED  BY <3>1, <3>3, <3>5 DEF NewEntry
  <2> HIDE DEF target, Enter
  <2> QED  BY <1>4, <2>2, <2>4
<1>7. \/ \E status : Fail(status) /\ UNCHANGED entries
      \/ found.result = "FoundCollection" /\ Enter(found.entry) /\ UNCHANGED entries
      \/ /\ creates
         /\ entries' = Create(entries, "collection", p, found.collection, "empty")
         /\ Enter(Len(entries) + 1)
  <2> DEFINE Enters(target) == Enter(target) /\ GoTo(c, "engine")
             Fails(status) == Fail(status) /\ GoTo(c, "dispose destination")
  <2>1. (CASE found.result = "FoundDocument" ->
                Fails("OverwriteFailed") /\ UNCHANGED entries
           [] found.result = "FoundCollection" -> Enters(found.entry) /\ UNCHANGED entries
           [] IsMissing(found) /\ CanCreate(entries, work[c].destination, found.collection) ->
                /\ entries' = Create(entries, "collection", work[c].destination,
                                     found.collection, "empty")
                /\ Enters(Len(entries) + 1)
           [] OTHER -> Fails("CreateFailed") /\ UNCHANGED entries)
    BY DEF StartCollection, WithListing, WithResults
  <2> HIDE DEF Fail, Enter
  <2> QED  BY <2>1
<1> HIDE DEF Fail, Enter, creates, p
<1> QED  BY <1>3, <1>5, <1>6, <1>7

-----------------------------------------------------------------------------
(* The handler, and everybody else.                                         *)

LEMMA FoundKeepsAim ==
  ASSUME NEW w, IsWork(w), NEW x
  PROVE  LET v == WithFound(w, x) IN
         v.found = x /\ v.destination = w.destination /\ v.before = w.before /\ v.stack = w.stack
BY DEF WithFound, IsWork, WorkFields

LEMMA SourceLockKeepsAim ==
  ASSUME NEW w, IsWork(w), NEW x, NEW v, v = [w EXCEPT !.sourceLock = x]
  PROVE  v.destination = w.destination /\ v.before = w.before /\ v.stack = w.stack
BY DEF IsWork, WorkFields

\* At these stages there is nothing to know.
LEMMA RestKeeps ==
  ASSUME NEW fs, NEW r, NEW w, r.pc \notin TransferStage \ {"dispose source"}
  PROVE  Keeps(fs, r, w)
BY DEF Keeps, TransferStage

LEMMA HandlerKeepsAll ==
  ASSUME TransfersInv, NEW c \in Client, Handler(c)
  PROVE  /\ Nested(entries', work'[c].stack)
         /\ Keeps(Now, task[c], work[c]) => Keeps(Now', task'[c], work'[c])
<1> DEFINE r == task[c]
           s == task'[c]
           w == work[c]
           v == work'[c]
           Goal == /\ Nested(entries', v.stack)
                   /\ Keeps(Now, r, w) => Keeps(Now', s, v)
<1>1. /\ r.pc \in TransferStage /\ r.pc # "engine" /\ UNCHANGED <<entries, props>>
  BY DEF Handler, LockSource, SelectDestination, LockDestination, DisposeDestination,
     DisposeSource, TransferStage
<1>2. /\ StateInv /\ IsWork(w) /\ w.stack = <<>> /\ RequestsInv
      /\ task \in [Client -> Task] /\ DOMAIN work = Client
  BY <1>1, AtTransfer DEF TransfersInv, RequestsInv, StateInv
<1>3. Now' = Now
  BY <1>1 DEF Now
<1>4. ASSUME v.stack = <<>>, s.pc \notin TransferStage \ {"dispose source"}
      PROVE  Goal
  <2> HIDE DEF s, v
  <2> QED  BY <1>4, NoFrames, RestKeeps
<1>5. ASSUME v.stack = <<>>, v.before = w.before, v.destination = w.destination,
             r.pc \in {"lock source", "select destination", "lock destination"},
             s.pc \in {"select destination", "lock destination", "start"},
             Keeps(Now, r, w) /\ s.pc # "select destination" =>
               v.found = Select(entries, w.destination)
      PROVE  Goal
  <2> HIDE DEF r, s, w, v
  <2>1. ASSUME Keeps(Now, r, w)  PROVE Keeps(Now', s, v)
    <3>1. \A p \in Path : v.before[p] = View(Now'.entries, Now'.props, p)
      BY <1>3, <1>5, <2>1 DEF Keeps
    <3>2. s.pc \in {"lock destination", "start"} => v.found = Select(Now'.entries, v.destination)
      BY <1>3, <1>5, <2>1 DEF Now
    <3>3. s.pc \notin {"engine", "dispose destination"}
      BY <1>5
    <3> QED  BY <3>1, <3>2, <3>3 DEF Keeps
  <2> QED  BY <1>5, <2>1, NoFrames
<1>s. ASSUME NEW pc \in Stage, GoTo(c, pc)  PROVE s.pc = pc
  BY <1>2, <1>s, StageOf
<1>a. ASSUME Answer(c), Works(c, NoWork)  PROVE Goal
  <2>1. s.pc \notin TransferStage /\ v.stack = <<>>
    BY <1>2, <1>a, AnswerIs, IdleIsTask, NoWorkIs DEF Works, TransferStage
  <2> QED  BY <1>4, <2>1
<1>6. CASE LockSource(c)
  <2>1. ASSUME NEW t, GoTo(c, "select destination"),
               Works(c, [work[c] EXCEPT !.sourceLock = t])
        PROVE  Goal
    <3>1. s.pc = "select destination" /\ r.pc = "lock source"
      BY <1>6, <1>s, <2>1 DEF LockSource, Stage
    <3>2. v.stack = w.stack /\ v.before = w.before /\ v.destination = w.destination
      <4>1. v = [w EXCEPT !.sourceLock = t]
        BY <1>2, <2>1 DEF Works
      <4> HIDE DEF v, w
      <4> QED  BY <1>2, <4>1, SourceLockKeepsAim
    <3> QED  BY <1>2, <1>5, <3>1, <3>2
  <2> QED  BY <1>6, <1>a, <2>1 DEF LockSource
<1>7. CASE SelectDestination(c)
  <2>1. PICK pc \in {"dispose source", "lock destination"} :
          /\ GoTo(c, pc)
          /\ Works(c, [work[c] EXCEPT !.found = Select(entries, work[c].destination)])
    BY <1>7 DEF SelectDestination
  <2> DEFINE x == Select(entries, w.destination)
  <2>2. /\ v.stack = w.stack /\ v.before = w.before /\ v.destination = w.destination
        /\ v.found = x
    <3>1. v = WithFound(w, x) /\ IsWork(w)
      BY <1>2, <2>1 DEF Works, WithFound
    <3> HIDE DEF v, w, x
    <3> QED  BY <3>1, FoundKeepsAim
  <2>3. s.pc = pc /\ r.pc = "select destination"
    BY <1>7, <1>s, <2>1 DEF SelectDestination, Stage
  <2>4. CASE pc = "dispose source"
    BY <1>2, <1>4, <2>2, <2>3, <2>4
  <2>5. CASE pc = "lock destination"
    BY <1>2, <1>5, <2>2, <2>3, <2>5
  <2> QED  BY <2>4, <2>5
<1>8. CASE LockDestination(c)
  <2>1. r.pc = "lock destination" /\ v = w
    BY <1>8 DEF LockDestination
  <2>2. ASSUME NEW t, task' = [task EXCEPT ![c].pc = "start", ![c].lock = t]
        PROVE  Goal
    <3>1. s.pc = "start"
      BY <1>2, <2>2, StageOf DEF Stage
    <3>2. Keeps(Now, r, w) => w.found = Select(entries, w.destination)
      BY <2>1 DEF Keeps, Now
    <3> QED  BY <1>2, <1>5, <2>1, <3>1, <3>2
  <2>3. ASSUME GoTo(c, "dispose source")
        PROVE  Goal
    <3>1. s.pc = "dispose source"
      BY <1>s, <2>3 DEF Stage
    <3> QED  BY <1>2, <1>4, <2>1, <3>1
  <2> QED  BY <1>8, <2>2, <2>3 DEF LockDestination
<1>9. CASE DisposeDestination(c)
  <2>1. task' = [task EXCEPT ![c].pc = "dispose source", ![c].lock = NoToken] /\ v = w
    BY <1>9 DEF DisposeDestination
  <2>2. s.pc = "dispose source"
    BY <1>2, <2>1, StageOf DEF Stage
  <2> QED  BY <1>2, <1>4, <2>1, <2>2
<1>10. CASE DisposeSource(c)
  <2>1. Works(c, NoWork) /\ (Answer(c) \/ GoTo(c, "affected"))
    BY <1>10 DEF DisposeSource
  <2>2. CASE GoTo(c, "affected")
    <3>1. s.pc = "affected" /\ v.stack = <<>>
      BY <1>2, <1>s, <2>1, <2>2, NoWorkIs DEF Works, Stage
    <3> QED  BY <1>4, <3>1 DEF TransferStage
  <2> QED  BY <1>a, <2>1, <2>2
<1> QED  BY <1>6, <1>7, <1>8, <1>9, <1>10 DEF Handler

LEMMA TransferWorkKnows ==
  ASSUME NEW destination, NEW depth, NEW overwrite, NEW inside, NEW before
  PROVE  LET w == TransferWork(destination, depth, overwrite, inside, before) IN
         w.before = before /\ w.stack = <<>>
BY DEF TransferWork, NoWork

LEMMA TransferSentKeepsAll ==
  ASSUME TransfersInv, NEW c \in Client, TransferSent(c), KeepsOwn(c)
  PROVE  KeepsOwn(c)'
<1>1. ASSUME NEW method, NEW pair, NEW depth, NEW overwrite, NEW inside, NEW submitted,
             NEW resource, ~ KeepsOwn(c)'
      PROVE  ~ TransferRequest(c, method, pair, depth, overwrite, inside, submitted, resource)
  <2> SUFFICES ASSUME TransferRequest(c, method, pair, depth, overwrite, inside, submitted,
                                      resource)
               PROVE  KeepsOwn(c)'
    BY <1>1
  <2> DEFINE found == Select(entries, pair[1])
             before == [p \in Path |-> View(entries, props, p)]
             pc == IF method = "MOVE" THEN "lock source" ELSE "select destination"
             begun == TransferTask(pc, method, pair[1], found, submitted, resource)
             w == TransferWork(pair[2], depth, overwrite, inside, before)
  <2>1. /\ UNCHANGED <<entries, props>>
        /\ IF IsMissing(found) THEN UNCHANGED <<task, work, alone>>
           ELSE task' = [task EXCEPT ![c] = begun] /\ Works(c, w)
    BY DEF TransferRequest, TransferTask, TransferWork
  <2>2. Now' = Now
    BY <2>1 DEF Now
  <2>3. /\ task \in [Client -> Task] /\ DOMAIN work = Client
    BY DEF TransfersInv, RequestsInv, StateInv
  <2>4. CASE IsMissing(found)
    BY <2>1, <2>2, <2>4 DEF KeepsOwn
  <2>5. CASE ~ IsMissing(found)
    <3>1. begun.pc = pc
      <4> HIDE DEF pc, found
      <4> QED  BY TransferTaskIs
    <3>2. w.before = before /\ w.stack = <<>>
      <4> HIDE DEF before
      <4> QED  BY TransferWorkKnows
    <3>3. pc \in {"lock source", "select destination"}
      OBVIOUS
    <3>4. \A p \in Path : before[p] = View(Now.entries, Now.props, p)
      BY DEF Now
    <3> HIDE DEF begun, w, pc, before
    <3>5. task'[c] = begun /\ work'[c] = w
      BY <2>1, <2>3, <2>5 DEF Works
    <3>6. Keeps(Now, begun, w)
      BY <3>1, <3>2, <3>3, <3>4 DEF Keeps
    <3> QED  BY <2>2, <3>2, <3>5, <3>6, NoFrames DEF KeepsOwn
  <2> QED  BY <2>4, <2>5
<1> QED  BY <1>1, Zenon DEF TransferSent

\* Whose request does not go on keeps what it kept, unless something changed.
LEMMA OthersKeep ==
  ASSUME TransfersInv, NEW d \in Client, KeepsOwn(d), task'[d] = task[d], work'[d] = work[d],
         Evolves(entries, entries'), alone'[d] => alone[d] /\ UNCHANGED <<entries, props>>
  PROVE  KeepsOwn(d)'
<1>1. Nested(entries', work[d].stack)
  <2>1. CASE AtWork(d)
    BY <2>1, FramesAre, NestedEvolves DEF KeepsOwn
  <2>2. CASE ~ AtWork(d)
    BY <2>2, NoFrames DEF TransfersInv, WorkInv, AtWork
  <2> QED  BY <2>1, <2>2
<1>2. ASSUME alone'[d]  PROVE Keeps(Now', task[d], work[d])
  <2>1. Now' = Now
    BY <1>2 DEF Now
  <2> QED  BY <1>2, <2>1 DEF KeepsOwn
<1> QED  BY <1>1, <1>2 DEF KeepsOwn

LEMMA RequestsKeepAll ==
  ASSUME TransfersInv, KeepsInv, Next, UNCHANGED work, Interferes(Client)
  PROVE  KeepsInv'
<1>1. RequestsInv /\ \A c \in Client : KeepsOwn(c)
  BY DEF TransfersInv, KeepsInv
<1>2. PICK c \in Client : Progress(c)
  BY <1>1, NextIsProgress
<1> SUFFICES ASSUME NEW d \in Client  PROVE KeepsOwn(d)'
  BY DEF KeepsInv, Interferes
<1>3. /\ Evolves(entries, entries') /\ KeepsOwn(d) /\ Ordinary(d)
      /\ alone'[d] => alone[d] /\ UNCHANGED <<entries, props>>
  BY <1>1, <1>2, NextIsOrdinary DEF Progress, Interferes
<1>4. CASE task'[d] = task[d]
  BY <1>3, <1>4, OthersKeep
<1>5. CASE task'[d] # task[d]
  <2>1. task[d].pc \notin TransferStage /\ task'[d].pc \notin TransferStage
    BY <1>3, <1>5 DEF Ordinary
  <2>2. work'[d].stack = <<>>
    BY <2>1, NoWorkIs DEF TransfersInv, WorkInv
  <2>3. Keeps(Now', task'[d], work'[d])
    BY <2>1, RestKeeps
  <2> QED  BY <2>2, <2>3, NoFrames DEF KeepsOwn
<1> QED  BY <1>4, <1>5

LEMMA EngineKeepsAll ==
  ASSUME TransfersInv, FileSystemInv(entries'), Evolves(entries, entries'),
         NEW c \in Client, Engine(c), Nested(entries, work[c].stack)
  PROVE  /\ Nested(entries', work'[c].stack)
         /\ Keeps(Now, task[c], work[c]) => Keeps(Now', task'[c], work'[c])
<1>1. EngineStep(c)
  BY EngineIs
<1>2. CASE StartOnRoot(c) \/ StartDocument(c) \/ StartCollection(c)
  BY <1>1, <1>2, StartOnRootKeepsAll, StartDocumentKeepsAll, StartCollectionKeepsAll
<1>3. ASSUME NEW e \in DOMAIN entries,
             EngineDocument(c, e) \/ EngineCollection(c, e) \/ EngineFinish(c)
      PROVE  /\ Nested(entries', work'[c].stack)
             /\ Keeps(Now, task[c], work[c]) => Keeps(Now', task'[c], work'[c])
  <2>1. Nested(entries', work'[c].stack)
    <3>1. AtWork(c)
      BY <1>3 DEF EngineDocument, EngineCollection, EngineFinish
    <3>2. Continues(c, work[c].stack, work'[c].stack)
      BY <1>3, EngineDocumentContinues, EngineCollectionContinues, EngineFinishContinues
    <3> QED  BY <3>1, <3>2 DEF Continues
  <2> QED  BY <1>3, <2>1, EngineKeeps
<1>4. DOMAIN entries # {}
  BY DEF TransfersInv, RequestsInv, StateInv, FileSystemInv, IsFileSystem
<1> QED  BY <1>2, <1>3, <1>4 DEF Engine

\* The step of one client, with what it keeps.
LEMMA OneKeeps ==
  ASSUME TransfersInv, KeepsInv, NEW c \in Client, KeepsOwn(c)',
         Evolves(entries, entries'), DOMAIN alone' = Client,
         \A d \in Client \ {c} : /\ task'[d] = task[d] /\ work'[d] = work[d]
                                 /\ alone'[d] => alone[d] /\ UNCHANGED <<entries, props>>
  PROVE  KeepsInv'
<1>1. ASSUME NEW d \in Client \ {c}  PROVE KeepsOwn(d)'
  BY <1>1, OthersKeep DEF KeepsInv
<1> QED  BY <1>1 DEF KeepsInv

\* A transfer without the right to overwrite, that nobody interferes with, knows
\* what it may not overwrite, and keeps it.
LEMMA KeepsHolds == TransferSpec => []KeepsInv
<1>1. ASSUME TransferInit  PROVE KeepsInv
  <2>1. DOMAIN alone = Client
    BY <1>1 DEF TransferInit
  <2>2. ASSUME NEW c \in Client  PROVE KeepsOwn(c)
    <3>1. work[c] = NoWork /\ ~ alone[c]
      BY <1>1 DEF TransferInit
    <3> QED  BY <3>1, NoWorkIs, NoFrames DEF KeepsOwn
  <2> QED  BY <2>1, <2>2 DEF KeepsInv
<1>2. ASSUME TransfersInv, TransfersInv', KeepsInv, [TransferNext]_transferVars
      PROVE  KeepsInv'
  <2>0. FileSystemInv(entries') /\ DOMAIN alone = Client /\ \A c \in Client : KeepsOwn(c)
    BY <1>2 DEF TransfersInv, RequestsInv, StateInv, KeepsInv
  <2>1. CASE Next /\ UNCHANGED work /\ Interferes(Client)
    BY <1>2, <2>1, RequestsKeepAll
  <2>2. ASSUME NEW c \in Client, TransferSent(c), UNCHANGED lost  PROVE KeepsInv'
    <3>1. TransferProgress(c)
      BY <1>2, <2>2, TransferSentKeeps
    <3>2. KeepsOwn(c)'
      BY <1>2, <2>0, <2>2, TransferSentKeepsAll
    <3>3. /\ UNCHANGED <<entries, props>>
          /\ UNCHANGED alone \/ alone' = [alone EXCEPT ![c] = TRUE]
      <4>1. ASSUME NEW method, NEW pair, NEW depth, NEW overwrite, NEW inside, NEW submitted,
                   NEW resource,
                   TransferRequest(c, method, pair, depth, overwrite, inside, submitted, resource)
            PROVE  /\ UNCHANGED <<entries, props>>
                   /\ UNCHANGED alone \/ alone' = [alone EXCEPT ![c] = TRUE]
        BY <4>1 DEF TransferRequest
      <4> QED  BY <2>2, <4>1, Zenon DEF TransferSent
    <3> QED  BY <1>2, <2>0, <3>1, <3>2, <3>3, OneKeeps DEF TransferProgress, Progress
  <2>3. ASSUME NEW c \in Client, Engine(c) \/ Handler(c), Interferes(Client \ {c}),
               UNCHANGED <<known, left, lost>>
        PROVE  KeepsInv'
    <3>1. TransferProgress(c)
      BY <1>2, <2>3, TransferProgresses
    <3>2. Evolves(entries, entries')
      BY <3>1 DEF TransferProgress, Progress
    <3>3. /\ Nested(entries', work'[c].stack)
          /\ Keeps(Now, task[c], work[c]) => Keeps(Now', task'[c], work'[c])
      BY <1>2, <2>0, <2>3, <3>2, EngineKeepsAll, HandlerKeepsAll DEF KeepsOwn
    <3>4. /\ DOMAIN alone' = Client /\ (alone'[c] => alone[c])
          /\ \A d \in Client \ {c} : alone'[d] => alone[d] /\ UNCHANGED <<entries, props>>
      BY <2>3 DEF Interferes
    <3>5. KeepsOwn(c)'
      BY <2>0, <3>3, <3>4 DEF KeepsOwn
    <3> QED  BY <1>2, <3>1, <3>2, <3>4, <3>5, OneKeeps DEF TransferProgress, Progress
  <2>4. CASE UNCHANGED transferVars
    <3>1. UNCHANGED <<entries, props, task, work, alone>>
      BY <2>4 DEF transferVars, vars
    <3>2. Now' = Now
      BY <3>1 DEF Now
    <3> QED  BY <2>0, <3>1, <3>2 DEF KeepsInv, KeepsOwn
  <2> QED  BY <1>2, <2>1, <2>2, <2>3, <2>4 DEF TransferNext
<1> QED  BY <1>1, <1>2, TransfersInvHolds, PTL DEF TransferSpec

\* A COPY or MOVE with "Overwrite: F" that nobody interferes with, of a source
\* and a destination that are apart, leaves every document at or below its
\* destination as it was, at every level of every tree, from its first step to
\* the last: the engine looks for a target before each member, and Execute
\* refuses the one it finds.
THEOREM OverwriteForbiddenHolds == TransferSpec => []OverwriteForbidden
<1>1. ASSUME KeepsInv  PROVE OverwriteForbidden
  <2> SUFFICES ASSUME NEW c \in Client, Engaged(c), alone[c], Apart(c), ~ work[c].overwrite,
                      NEW q \in Path, Within(work[c].destination, q),
                      Was(c, q) # <<>>, Was(c, q)[1] = "document"
               PROVE  Is(q) = Was(c, q)
    BY DEF OverwriteForbidden
  <2>1. Guarded(work[c], q) /\ Far(task[c], work[c])
    BY DEF Guarded, Was, Apart, Far
  <2>2. Untouched(Now, work[c])
    BY <1>1, <2>1 DEF KeepsInv, KeepsOwn, Keeps, Engaged
  <2> QED  BY <2>1, <2>2 DEF Untouched, Is, Was, Now
<1> QED  BY <1>1, KeepsHolds, PTL

-----------------------------------------------------------------------------
(* Paths that go together.                                                  *)

LEMMA WithinIsLonger ==
  ASSUME NEW p \in Path, NEW q \in Path, Within(p, q)
  PROVE  Len(p) \in Nat /\ Len(q) \in Nat /\ Len(p) <= Len(q)
<1> DEFINE bad == {r \in Path : Within(p, r) /\ ~ (Len(p) <= Len(r))}
<1>1. \A r \in Path : Len(r) \in Nat
  BY PathIsSequence
<1> SUFFICES ASSUME bad # {}  PROVE FALSE
  BY <1>1
<1>2. PICK r \in bad : \A s \in bad : <<s, r>> \notin Ancestor
  BY Topmost
<1>3. r \in Path /\ r # p /\ <<p, r>> \in Ancestor /\ r # Root
  <2>1. r \in Path /\ Within(p, r) /\ ~ (Len(p) <= Len(r))
    BY <1>2
  <2>2. r # p
    BY <1>1, <2>1
  <2> QED  BY <2>1, <2>2, RequestsAssumption DEF Within
<1>4. Above[r] \in Path /\ <<Above[r], r>> \in Ancestor /\ Within(p, Above[r])
  BY <1>3, AboveIsAncestor, RequestsAssumption DEF Within
<1>5. Len(Above[r]) = Len(r) - 1
  BY <1>3, AboveIs
<1> QED  BY <1>1, <1>2, <1>4, <1>5

\* What is below a is a member of it, or below one.
LEMMA MemberAbove ==
  ASSUME NEW a \in Path, NEW q \in Path, Within(a, q), q # a
  PROVE  \E r \in Path : r # Root /\ Above[r] = a /\ Within(r, q)
<1> DEFINE between == {r \in Path : <<a, r>> \in Ancestor /\ Within(r, q)}
<1>1. between \subseteq Path /\ q \in between
  BY DEF Within
<1>2. PICK r \in between : \A s \in between : <<s, r>> \notin Ancestor
  BY <1>1, Topmost
<1>3. r \in Path /\ <<a, r>> \in Ancestor /\ Within(r, q) /\ r # Root
  BY <1>2, RequestsAssumption
<1>4. Above[r] \in Path /\ <<Above[r], r>> \in Ancestor
  BY <1>3, AboveIsAncestor
<1>5. Within(Above[r], q)
  BY <1>3, <1>4, WithinTwice DEF Within
<1>6. Above[r] = a \/ <<a, Above[r]>> \in Ancestor
  BY <1>3, RequestsAssumption
<1> QED  BY <1>2, <1>3, <1>4, <1>5, <1>6

\* Members of the same collection are apart.
LEMMA MembersApart ==
  ASSUME NEW p \in Path \ {Root}, NEW q \in Path \ {Root}, Above[p] = Above[q], Within(p, q)
  PROVE  p = q
<1>1. /\ Above[p] \in Path /\ <<Above[p], p>> \in Ancestor
  BY AboveIsAncestor
<1> SUFFICES ASSUME <<p, q>> \in Ancestor  PROVE FALSE
  BY DEF Within
<1>2. p = Above[p] \/ <<p, Above[p]>> \in Ancestor
  BY RequestsAssumption
<1> QED  BY <1>1, <1>2, AncestorIsForest

-----------------------------------------------------------------------------
(* What a transfer is to bring, and what it has brought.                    *)

\* A transfer from one resource to another that is apart from it: which paths
\* come along, as they were before, and which entries are listed.
IsJob(j) ==
  /\ j.from \in Path /\ j.to \in Path /\ j.depth \in Nat
  /\ ~ Within(j.from, j.to) /\ ~ Within(j.to, j.from)
  /\ \A q \in Path : Within(j.from, q) => Moved(q, j.from, j.to) \in Path

ImageIn(j, q) == Moved(q, j.from, j.to)

LEMMA ImageIs ==
  ASSUME NEW j, IsJob(j), NEW q \in Path, Within(j.from, q)
  PROVE  ImageIn(j, q) \in Path /\ Within(j.to, ImageIn(j, q))
BY MovedWithin DEF IsJob, ImageIn

\* The two sides are apart.
LEMMA SidesApart ==
  ASSUME NEW j, IsJob(j), NEW q \in Path, Within(j.from, q), NEW p \in Path, Within(j.to, p)
  PROVE  ~ Within(q, p) /\ ~ Within(p, q)
BY Comparable, WithinTwice DEF IsJob

LEMMA ImagesDiffer ==
  ASSUME NEW j, IsJob(j), NEW q \in Path, NEW r \in Path, Within(j.from, q), Within(j.from, r),
         ImageIn(j, q) = ImageIn(j, r)
  PROVE  q = r
<1> DEFINE from == j.from
           to == j.to
           a == ImageIn(j, q)
           b == ImageIn(j, r)
<1>1. /\ from \in Path /\ to \in Path /\ Len(from) <= Len(q) /\ Len(from) <= Len(r)
      /\ Len(from) \in Nat /\ Len(q) \in Nat /\ Len(r) \in Nat /\ Len(to) \in Nat
  BY WithinIsLonger, PathIsSequence DEF IsJob
<1>2. IsMoved(a, q, from, to) /\ IsMoved(b, r, from, to)
  BY <1>1, MovedIs DEF ImageIn
<1> HIDE DEF a, b
<1>3. a = b
  BY DEF a, b
<1> HIDE DEF from, to
<1>4. Len(q) = Len(r)
  BY <1>1, <1>2, <1>3 DEF IsMoved
<1>5. q \in Seq(Names) /\ r \in Seq(Names) /\ from \in Seq(Names)
  BY <1>1, PathIsSequence
<1>6. ASSUME NEW i \in 1..Len(q), i > Len(from)  PROVE q[i] = r[i]
  <2> DEFINE k == Len(to) + (i - Len(from))
  <2>1. k \in 1..Len(a) /\ ~ (k <= Len(to)) /\ Len(from) + (k - Len(to)) = i
    BY <1>1, <1>2, <1>6 DEF IsMoved
  <2> HIDE DEF k
  <2>2. a[k] = q[Len(from) + (k - Len(to))] /\ b[k] = r[Len(from) + (k - Len(to))]
    BY <1>2, <1>3, <2>1 DEF IsMoved
  <2> QED  BY <1>3, <2>1, <2>2
<1>7. \A s \in Path : Within(from, s) => \A i \in 1..Len(from) : s[i] = from[i]
  <2> DEFINE bad == {s \in Path : Within(from, s) /\ ~ \A i \in 1..Len(from) : s[i] = from[i]}
  <2> SUFFICES ASSUME bad # {}  PROVE FALSE
    OBVIOUS
  <2>1. PICK s \in bad : \A t \in bad : <<t, s>> \notin Ancestor
    BY Topmost
  <2>2. s \in Path /\ s # from /\ <<from, s>> \in Ancestor /\ s # Root
    <3>1. s \in Path /\ Within(from, s) /\ s # from
      BY <2>1
    <3> QED  BY <1>1, <3>1, RequestsAssumption DEF Within
  <2>3. Above[s] \in Path /\ <<Above[s], s>> \in Ancestor /\ Within(from, Above[s])
    BY <1>1, <2>2, AboveIsAncestor, RequestsAssumption DEF Within
  <2>4. \A i \in 1..Len(from) : Above[s][i] = from[i]
    BY <2>1, <2>3
  <2>5. /\ Len(Above[s]) = Len(s) - 1 /\ Len(s) \in Nat \ {0}
        /\ \A i \in 1..(Len(s) - 1) : Above[s][i] = s[i]
    BY <2>2, AboveIs
  <2>6. Len(from) <= Len(Above[s])
    BY <1>1, <2>3, WithinIsLonger
  <2>7. \A i \in 1..Len(from) : s[i] = from[i]
    BY <1>1, <2>4, <2>5, <2>6
  <2> QED  BY <2>1, <2>7
<1>8. \A i \in 1..Len(from) : q[i] = r[i]
  BY <1>7 DEF from
<1>9. \A i \in 1..Len(q) : q[i] = r[i]
  BY <1>1, <1>6, <1>8
<1> QED  BY <1>4, <1>5, <1>9, SameNames

\* What comes to be within the image of q comes from within q.
LEMMA ImagesWithin ==
  ASSUME NEW j, IsJob(j), NEW q \in Path, Within(j.from, q), NEW r \in Path, Within(j.from, r),
         Within(ImageIn(j, q), ImageIn(j, r))
  PROVE  Within(q, r)
<1> DEFINE a == ImageIn(j, q)
           bad == {s \in Path : Within(j.from, s) /\ Within(a, ImageIn(j, s)) /\ ~ Within(q, s)}
<1> SUFFICES ASSUME bad # {}  PROVE FALSE
  OBVIOUS
<1>1. PICK s \in bad : \A t \in bad : <<t, s>> \notin Ancestor
  BY Topmost
<1>2. s \in Path /\ Within(j.from, s) /\ Within(a, ImageIn(j, s)) /\ ~ Within(q, s)
  BY <1>1
<1>3. j.from \in Path /\ j.to \in Path /\ a \in Path /\ Within(j.to, a) /\ ImageIn(j, s) \in Path
  BY <1>2, ImageIs DEF IsJob
<1>4. CASE s = j.from
  <2>1. ImageIn(j, s) = j.to
    BY <1>3, <1>4, MovedTop DEF ImageIn
  <2>2. a = j.to
    BY <1>2, <1>3, <2>1, AncestorIsForest DEF Within
  <2>3. q = s
    BY <1>2, <2>1, <2>2, ImagesDiffer
  <2> QED  BY <1>2, <2>3 DEF Within
<1>5. CASE s # j.from
  <2> DEFINE up == Above[s]
             b == ImageIn(j, s)
             c == ImageIn(j, up)
  <2>1. s # Root
    BY <1>2, <1>3, <1>5, RequestsAssumption DEF Within
  <2>2. /\ up \in Path /\ <<up, s>> \in Ancestor /\ Within(j.from, up)
    BY <1>2, <1>3, <1>5, <2>1, AboveIsAncestor, RequestsAssumption DEF Within
  <2>3. Len(j.from) <= Len(up) /\ s[Len(s)] \in Names
    BY <1>2, <1>3, <2>1, <2>2, WithinIsLonger, AboveIs
  <2>4. Append(Moved(up, j.from, j.to), s[Len(s)]) = Moved(s, j.from, j.to)
    BY <1>2, <1>3, <2>1, <2>2, <2>3, MovedMember
  <2>5. c \in Path
    BY <2>2, ImageIs
  <2> HIDE DEF up
  <2>6. b = Append(c, s[Len(s)]) /\ b \in Path
    BY <1>3, <2>4 DEF ImageIn
  <2> HIDE DEF b, c
  <2>7. b # Root /\ Above[b] = c
    BY <2>3, <2>5, <2>6, AppendIs
  <2>8. a # b
    <3>1. a = b => q = s
      BY <1>2, ImagesDiffer DEF b
    <3> QED  BY <1>2, <3>1 DEF Within
  <2>9. Within(a, c)
    BY <1>2, <1>3, <2>5, <2>6, <2>7, <2>8, RequestsAssumption DEF Within, b
  <2>10. Within(q, up)
    BY <1>1, <2>2, <2>9 DEF c
  <2> QED  BY <1>2, <2>2, <2>10, WithinTwice DEF Within
<1> QED  BY <1>4, <1>5

-----------------------------------------------------------------------------
(* Entries that are seen: whoever looks for their path finds them.          *)

Seen(es, e) == Select(es, es[e].path).entry = e

LEMMA SeenView ==
  ASSUME NEW es, FileSystemInv(es), NEW e \in DOMAIN es, NEW a \in Path,
         Select(es, a).entry = e, NEW ps
  PROVE  View(es, ps, a) = <<es[e].kind, Content(es[e]), ps[a]>>
<1>1. Fits(es, Select(es, a), a) /\ e # 0
  BY SelectFits DEF FileSystemInv
<1>2. Select(es, a).missing = 0
  BY <1>1 DEF Fits
<1> QED  BY <1>2 DEF View, IsMissing

\* The members of a collection that is seen are seen.
LEMMA MembersAreSeen ==
  ASSUME NEW es, FileSystemInv(es), NEW d, IsEntry(es, d, "collection"), Seen(es, d),
         NEW m \in es[d].members
  PROVE  m \in DOMAIN es \ {1} /\ Seen(es, m) /\ es[m].parent = d
<1> DEFINE a == es[m].path
<1>1. m \in DOMAIN es \ {1} /\ es[m].parent = d
  BY DEF FileSystemInv, IsFileSystem, IsEntry
<1>2. a \in Path \ {Root} /\ es[d].path = Above[a]
  BY <1>1, EntryIs
<1>3. IsPlace(es, a, d) /\ Select(es, Above[a]).entry = d
  BY <1>2 DEF IsPlace, Seen
<1>4. \A x \in Members(es, d, a) : x = m
  BY DEF Members, FileSystemInv, IsFileSystem, IsEntry
<1>5. m \in Members(es, d, a)
  BY DEF Members
<1> HIDE DEF a
<1>6. Select(es, a).entry = CHOOSE x \in Members(es, d, a) : TRUE
  BY <1>3, <1>5, SeenMember
<1>7. Select(es, a).entry = m
  BY <1>4, <1>5, <1>6
<1> QED  BY <1>1, <1>7 DEF Seen, a

\* What is seen is a member of its collection, and that is seen.
LEMMA ParentIsSeen ==
  ASSUME NEW es, FileSystemInv(es), NEW e \in DOMAIN es \ {1}, Seen(es, e)
  PROVE  LET a == es[e].path d == es[e].parent IN
         /\ IsPlace(es, a, d) /\ Select(es, Above[a]).entry = d
         /\ e \in Members(es, d, a)
<1> DEFINE a == es[e].path
           d == es[e].parent
           up == Select(es, Above[a])
<1>1. IsPlace(es, a, d) /\ e # 0 /\ a \in Path /\ a # Root
  BY EntryIs DEF IsPlace, IsEntry, FileSystemInv
<1>2. /\ Fits(es, up, Above[a]) /\ Select(es, a) = OneDown(es, up, a)
      /\ Fits(es, Select(es, a), a)
  BY <1>1, AboveIsAncestor, SelectFits, SelectDown
<1>3. OneDown(es, up, a).missing = 0 /\ OneDown(es, up, a).entry = e /\ up \in Selection
  BY <1>1, <1>2 DEF Fits, Seen
<1>4. up.result = "FoundCollection" => up.entry \in DOMAIN es
  BY <1>2 DEF Fits
<1> HIDE DEF up
<1>5. CASE up.result = "FoundCollection" /\ Members(es, up.entry, a) # {}
  <2>1. e \in Members(es, up.entry, a)
    BY <1>3, <1>5 DEF OneDown, Found
  <2>2. e \in es[up.entry].members
    BY <2>1 DEF Members
  <2>3. es[e].parent = up.entry
    BY <1>4, <1>5, <2>2 DEF FileSystemInv, IsFileSystem
  <2> QED  BY <1>1, <2>1, <2>3 DEF up
<1>6. CASE up.result = "FoundCollection" /\ Members(es, up.entry, a) = {}
  BY <1>3, <1>6 DEF OneDown, Selection
<1>7. CASE up.result = "FoundDocument"
  <2>1. OneDown(es, up, a) = [up EXCEPT !.result = "MissingCollection", !.entry = 0, !.missing = 2]
    BY <1>7 DEF OneDown
  <2>2. OneDown(es, up, a).missing = 2
    BY <1>3, <2>1 DEF Selection
  <2> QED  BY <1>3, <2>2
<1>8. CASE up.result \notin {"FoundCollection", "FoundDocument"}
  <2>1. OneDown(es, up, a).missing = up.missing + 1
    BY <1>3, <1>8 DEF OneDown, Selection
  <2> QED  BY <1>3, <2>1 DEF Selection
<1> QED  BY <1>5, <1>6, <1>7, <1>8

\* Once it is removed, nothing is seen of it, nor of what is below.
LEMMA RemovedIsGone ==
  ASSUME NEW es, FileSystemInv(es), NEW e \in DOMAIN es \ {1}, Seen(es, e),
         NEW fs, fs = Remove(es, es[e].path, es[e].parent), NEW ps,
         NEW q \in Path, Within(es[e].path, q)
  PROVE  View(fs, ps, q) = <<>>
<1> DEFINE a == es[e].path
           d == es[e].parent
<1>1. /\ IsPlace(es, a, d) /\ Select(es, Above[a]).entry = d
  BY ParentIsSeen
<1>2. a \in Path /\ a # Root /\ d \in DOMAIN es
  BY <1>1 DEF IsPlace, IsEntry
<1> HIDE DEF a, d
<1>3. FileSystemInv(fs) /\ Evolves(es, fs) /\ CanCreate(fs, a, d)
  BY <1>2, RemoveKeeps, RemoveFrees DEF a, d
<1>4. Above[a] \in Path /\ Above[a] # a /\ <<a, Above[a]>> \notin Ancestor
  BY <1>2, AboveIsAncestor, AncestorIsForest
<1>5. LooksAlike(es, ps, fs, ps, Above[a])
  BY <1>2, <1>4, RemoveElsewhere DEF a, d
<1>6. Select(fs, Above[a]).entry = d /\ IsPlace(fs, a, d)
  BY <1>1, <1>3, <1>5, PlaceStays DEF LooksAlike
<1>7. Select(fs, a).missing # 0
  BY <1>3, <1>6, SeenMember DEF CanCreate
<1> QED  BY <1>2, <1>3, <1>7, NothingWithin DEF a

LEMMA TakenAwayIsGone ==
  ASSUME NEW fs, Sound(fs), NEW e \in DOMAIN fs.entries \ {1}, Seen(fs.entries, e),
         NEW q \in Path, Within(fs.entries[e].path, q)
  PROVE  LET gs == TakeAway(fs, e) IN View(gs.entries, gs.props, q) = <<>>
<1> DEFINE a == fs.entries[e].path
           d == fs.entries[e].parent
           es == Remove(fs.entries, a, d)
           ps == [fs.props EXCEPT ![a] = "none"]
<1>1. FileSystemInv(fs.entries) /\ Members(fs.entries, d, a) # {}
  BY ParentIsSeen DEF Sound
<1>2. TakeAway(fs, e) = [entries |-> es, props |-> ps]
  BY <1>1 DEF TakeAway
<1>3. es = Remove(fs.entries, fs.entries[e].path, fs.entries[e].parent)
  OBVIOUS
<1> HIDE DEF es, ps
<1>4. View(es, ps, q) = <<>>
  BY <1>1, <1>3, RemovedIsGone
<1> QED  BY <1>2, <1>4

-----------------------------------------------------------------------------
(* A document that is copied or moved arrives.                              *)

\* At a there is a document with that data.
Arrived(fs, a, data) ==
  LET is == View(fs.entries, fs.props, a)
  IN  is # <<>> /\ is[1] = "document" /\ is[2] = data

\* At p and below nothing is left.
Gone(fs, p) == \A q \in Path : Within(p, q) => View(fs.entries, fs.props, q) = <<>>

\* The entry e, which is seen, is to go to the place a in d, which is seen.
Goes(fs, e, a, d) ==
  /\ Sound(fs) /\ e \in DOMAIN fs.entries \ {1} /\ Seen(fs.entries, e)
  /\ IsPlace(fs.entries, a, d) /\ Select(fs.entries, Above[a]).entry = d
  /\ ~ Within(fs.entries[e].path, a) /\ ~ Within(a, fs.entries[e].path)

LEMMA DocumentSeen ==
  ASSUME NEW fs, FileSystemInv(fs.entries), NEW n \in DOMAIN fs.entries, NEW a \in Path,
         Select(fs.entries, a).entry = n, fs.entries[n].kind = "document"
  PROVE  Arrived(fs, a, fs.entries[n].data)
<1>1. View(fs.entries, fs.props, a) =
        <<fs.entries[n].kind, Content(fs.entries[n]), fs.props[a]>>
  BY SeenView
<1> QED  BY <1>1 DEF Arrived, Content

\* A new document is found in a collection that is found.
LEMMA CreatedArrives ==
  ASSUME NEW es, FileSystemInv(es), NEW a, NEW d, IsPlace(es, a, d), CanCreate(es, a, d),
         NEW data \in Data, Select(es, Above[a]).entry = d,
         NEW fs, fs.entries = Create(es, "document", a, d, data)
  PROVE  Arrived(fs, a, data)
<1> DEFINE gs == fs.entries
           n == Len(es) + 1
<1>1. gs = Create(es, "document", a, d, data)
  OBVIOUS
<1> HIDE DEF gs
<1>2. /\ Grown(es, gs, "document", a, d, data) /\ Select(gs, a).entry = n
      /\ FileSystemInv(gs)
  BY <1>1, CreateLeads, CreatedIsSeen
<1> HIDE DEF n
<1>3. n \in DOMAIN gs /\ gs[n] = NewEntry("document", a, d, data)
  BY <1>2 DEF Grown, n
<1>4. gs[n].kind = "document" /\ gs[n].data = data /\ a \in Path
  BY <1>3 DEF NewEntry, IsPlace
<1> QED  BY <1>2, <1>3, <1>4, DocumentSeen DEF gs

LEMMA ArrivedStays ==
  ASSUME NEW fs, NEW gs, NEW a, NEW data, Arrived(fs, a, data), SeenAlike(fs, gs, a)
  PROVE  Arrived(gs, a, data)
BY DEF Arrived, SeenAlike, LooksAlike

\* When the entry is taken away after something was put at a.
LEMMA TakenAfter ==
  ASSUME NEW fs, NEW e, NEW a, NEW d, Goes(fs, e, a, d), NEW done, Leads(fs, done),
         SeenAlike(fs, done, fs.entries[e].path), NEW data, Arrived(done, a, data)
  PROVE  Arrived(TakeAway(done, e), a, data) /\ Gone(TakeAway(done, e), fs.entries[e].path)
<1>1. /\ Sound(done) /\ e \in DOMAIN done.entries \ {1}
      /\ done.entries[e].path = fs.entries[e].path /\ a \in Path
  BY DEF Leads, Evolves, Goes, IsPlace
<1>2. Seen(done.entries, e)
  BY <1>1 DEF Goes, Seen, SeenAlike, LooksAlike
<1>3. SeenAlike(done, TakeAway(done, e), a)
  BY <1>1, TakeAwayElsewhere DEF Goes
<1>4. Arrived(TakeAway(done, e), a, data)
  BY <1>3, ArrivedStays
<1>5. \A q \in Path : Within(done.entries[e].path, q) =>
        LET gs == TakeAway(done, e) IN View(gs.entries, gs.props, q) = <<>>
  BY <1>1, <1>2, TakenAwayIsGone
<1> QED  BY <1>1, <1>4, <1>5 DEF Gone

LEMMA StreamBrings ==
  ASSUME NEW fs, NEW e, NEW a, NEW d, Goes(fs, e, a, d),
         NEW target \in DOMAIN fs.entries \cup {0},
         target # 0 => /\ Select(fs.entries, a).entry = target
                       /\ fs.entries[target].path = a
                       /\ fs.entries[target].kind = "document",
         NEW moves, Stream(fs, e, a, d, target, moves).ok
  PROVE  LET gs == Stream(fs, e, a, d, target, moves).fs
         IN  /\ Arrived(gs, a, fs.entries[e].data)
             /\ moves => Gone(gs, fs.entries[e].path)
<1> DEFINE data == fs.entries[e].data
           es   == IF target = 0 THEN Create(fs.entries, "document", a, d, data)
                   ELSE [fs.entries EXCEPT ![target].data = data]
           done == [fs EXCEPT !.entries = es]
           p    == fs.entries[e].path
<1>1. /\ FileSystemInv(fs.entries) /\ data \in Data /\ DOMAIN fs.props = Path
      /\ fs = [entries |-> fs.entries, props |-> fs.props]
      /\ a \in Path /\ p \in Path /\ p # a /\ Sound(fs)
      /\ IsPlace(fs.entries, a, d) /\ Select(fs.entries, Above[a]).entry = d
  BY EntryIs DEF Sound, Goes, IsPlace, Within
<1>2. /\ ~ (target = 0 /\ ~ CanCreate(fs.entries, a, d))
      /\ Stream(fs, e, a, d, target, moves).fs = IF moves THEN TakeAway(done, e) ELSE done
  BY DEF Stream, Outcome
<1>3. done = [entries |-> es, props |-> fs.props]
  BY <1>1
<1> HIDE DEF done
<1>4. /\ FileSystemInv(es) /\ Evolves(fs.entries, es)
      /\ LooksAlike(fs.entries, fs.props, es, fs.props, p)
      /\ Arrived(done, a, data)
  <2>1. CASE target = 0
    <3>1. es = Create(fs.entries, "document", a, d, data) /\ done.entries = es
      BY <1>3, <2>1
    <3> HIDE DEF es, data, p
    <3>2. FileSystemInv(es) /\ Evolves(fs.entries, es)
      BY <1>1, <1>2, <2>1, <3>1, CreateLeads
    <3>3. LooksAlike(fs.entries, fs.props, es, fs.props, p)
      BY <1>1, <1>2, <2>1, <3>1, CreateElsewhere
    <3>4. Arrived(done, a, data)
      BY <1>1, <1>2, <2>1, <3>1, CreatedArrives
    <3> QED  BY <3>2, <3>3, <3>4
  <2>2. CASE target # 0
    <3>1. /\ es = [fs.entries EXCEPT ![target].data = data] /\ done.entries = es
          /\ target \in DOMAIN fs.entries /\ fs.entries[target].path = a
          /\ Select(fs.entries, a).entry = target /\ fs.entries[target].kind = "document"
      BY <1>3, <2>2
    <3> HIDE DEF es, data, p
    <3>2. FileSystemInv(es) /\ Evolves(fs.entries, es) /\ Stored(fs.entries, es, target)
      BY <1>1, <3>1, PutKeeps
    <3>3. LooksAlike(fs.entries, fs.props, es, fs.props, p)
      BY <1>1, <3>1, <3>2, PutViews
    <3>4. \A q \in Path \ {Root} : SameAt(fs.entries, es, q)
      <4> SUFFICES ASSUME NEW q \in Path \ {Root},
                          Select(fs.entries, Above[q]).result = "FoundCollection"
                   PROVE  LET k == Select(fs.entries, Above[q]).entry
                          IN  Members(es, k, q) = Members(fs.entries, k, q)
        BY DEF SameAt
      <4> DEFINE k == Select(fs.entries, Above[q]).entry
      <4>1. Above[q] \in Path /\ Fits(fs.entries, Select(fs.entries, Above[q]), Above[q])
        BY <1>1, AboveIsAncestor, SelectFits
      <4>2. k \in DOMAIN fs.entries
        BY <4>1 DEF Fits
      <4>3. /\ es[k].members = fs.entries[k].members
            /\ fs.entries[k].members \subseteq DOMAIN fs.entries
        BY <1>1, <3>2, <4>2 DEF Stored, FileSystemInv
      <4>4. \A x \in DOMAIN fs.entries : es[x].path = fs.entries[x].path
        BY <3>2 DEF Evolves
      <4> QED  BY <4>3, <4>4 DEF Members
    <3>5. Select(es, a) = Select(fs.entries, a)
      BY <1>1, <3>2, <3>4, SelectElsewhere DEF UpTo
    <3>6. target \in DOMAIN es /\ es[target].kind = "document" /\ es[target].data = data
      BY <1>1, <3>1, <3>2 DEF Evolves, FileSystemInv, Entry
    <3>7. /\ FileSystemInv(done.entries) /\ target \in DOMAIN done.entries
          /\ Select(done.entries, a).entry = target
          /\ done.entries[target].kind = "document" /\ done.entries[target].data = data
      BY <3>1, <3>2, <3>5, <3>6
    <3>8. Arrived(done, a, done.entries[target].data)
      BY <1>1, <3>7, DocumentSeen
    <3> QED  BY <3>2, <3>3, <3>7, <3>8
  <2> QED  BY <2>1, <2>2
<1> HIDE DEF es
<1>5. Leads(fs, done) /\ SeenAlike(fs, done, p)
  BY <1>1, <1>3, <1>4 DEF Leads, Sound, SeenAlike, LooksAlike
<1>6. Arrived(TakeAway(done, e), a, data) /\ Gone(TakeAway(done, e), p)
  BY <1>4, <1>5, TakenAfter
<1> QED  BY <1>2, <1>4, <1>6

LEMMA MoveToBrings ==
  ASSUME NEW fs, NEW e, NEW a, NEW d, Goes(fs, e, a, d), MoveTo(fs, e, a, d).ok
  PROVE  LET gs == MoveTo(fs, e, a, d).fs
         IN  Arrived(gs, a, fs.entries[e].data) /\ Gone(gs, fs.entries[e].path)
<1> DEFINE p    == fs.entries[e].path
           up   == fs.entries[e].parent
           data == fs.entries[e].data
           es   == Create(fs.entries, "document", a, d, data)
           ps   == [fs.props EXCEPT ![a] = fs.props[p]]
           gs   == Remove(es, p, up)
           mid  == [entries |-> es, props |-> ps]
<1>1. /\ FileSystemInv(fs.entries) /\ data \in Data /\ DOMAIN fs.props = Path
      /\ a \in Path /\ p \in Path /\ p # a /\ <<p, a>> \notin Ancestor
      /\ IsPlace(fs.entries, a, d) /\ Select(fs.entries, Above[a]).entry = d
      /\ ps[p] = fs.props[p]
  BY EntryIs DEF Sound, Goes, IsPlace, Within
<1>2. CanCreate(fs.entries, a, d) /\ MoveTo(fs, e, a, d).fs = [entries |-> gs, props |-> ps]
  BY DEF MoveTo, Outcome
<1>3. /\ es = Create(fs.entries, "document", a, d, data) /\ mid.entries = es
      /\ gs = Remove(es, p, up)
  OBVIOUS
<1> HIDE DEF es, ps, gs, mid
<1>4. FileSystemInv(es) /\ Evolves(fs.entries, es) /\ Arrived(mid, a, data)
  BY <1>1, <1>2, <1>3, CreateLeads, CreatedArrives
<1>5. LooksAlike(fs.entries, fs.props, es, ps, p)
  BY <1>1, <1>2, <1>3, CreateElsewhere
<1>6. /\ e \in DOMAIN es \ {1} /\ es[e].path = p /\ es[e].parent = up /\ Seen(es, e)
      /\ up \in DOMAIN es
  BY <1>1, <1>4, <1>5, EntryIs DEF Goes, Evolves, Seen, LooksAlike
<1>7. \A q \in Path : Within(p, q) => View(gs, ps, q) = <<>>
  <2>1. gs = Remove(es, es[e].path, es[e].parent)
    BY <1>3, <1>6
  <2> HIDE DEF p
  <2>2. \A q \in Path : Within(es[e].path, q) => View(gs, ps, q) = <<>>
    BY <1>4, <1>6, <2>1, RemovedIsGone
  <2> QED  BY <1>6, <2>2
<1>8. LooksAlike(es, ps, gs, ps, a)
  BY <1>1, <1>3, <1>4, <1>6, RemoveElsewhere
<1>9. SeenAlike(mid, [entries |-> gs, props |-> ps], a)
  BY <1>8 DEF SeenAlike, mid
<1>10. Arrived([entries |-> gs, props |-> ps], a, data)
  BY <1>4, <1>9, ArrivedStays
<1> QED  BY <1>2, <1>7, <1>10 DEF Gone

LEMMA CopyToBrings ==
  ASSUME NEW fs, NEW e, NEW a, NEW d, Goes(fs, e, a, d)
  PROVE  Arrived(CopyTo(fs, e, a, d).fs, a, fs.entries[e].data)
<1> DEFINE data == fs.entries[e].data
           es   == Remove(fs.entries, a, d)
           gs   == Create(es, "document", a, d, data)
           ps   == [fs.props EXCEPT ![a] = fs.props[fs.entries[e].path]]
           to   == [entries |-> gs, props |-> ps]
<1>1. /\ FileSystemInv(fs.entries) /\ data \in Data /\ a \in Path \ {Root}
      /\ IsPlace(fs.entries, a, d) /\ Select(fs.entries, Above[a]).entry = d
      /\ d \in DOMAIN fs.entries
  BY EntryIs DEF Sound, Goes, IsPlace, IsEntry
<1>2. CopyTo(fs, e, a, d).fs = to
  BY DEF CopyTo, Outcome
<1>3. /\ es = Remove(fs.entries, a, d) /\ to.entries = Create(es, "document", a, d, data)
  OBVIOUS
<1> HIDE DEF es, to, data
<1>4. /\ FileSystemInv(es) /\ Evolves(fs.entries, es) /\ CanCreate(es, a, d)
      /\ IsPlace(es, a, d)
  BY <1>1, <1>3, RemoveKeeps, RemoveFrees, PlaceStays
<1>5. Above[a] \in Path /\ Above[a] # a /\ <<a, Above[a]>> \notin Ancestor
  BY <1>1, AboveIsAncestor, AncestorIsForest
<1>6. LooksAlike(fs.entries, fs.props, es, fs.props, Above[a])
  BY <1>1, <1>3, <1>5, RemoveElsewhere
<1>7. Select(es, Above[a]).entry = d
  BY <1>1, <1>6 DEF LooksAlike
<1>8. Arrived(to, a, data)
  BY <1>1, <1>3, <1>4, <1>7, CreatedArrives
<1> QED  BY <1>2, <1>8 DEF data

\* With the properties it has what was set, if anything was.
LEMMA PropertiesArrive ==
  ASSUME NEW fs, Sound(fs), NEW a \in Path, NEW data, Arrived(fs, a, data), NEW properties
  PROVE  LET gs == SetProperties(fs, a, properties)
         IN  /\ Arrived(gs, a, data)
             /\ properties # "none" => View(gs.entries, gs.props, a)[3] = properties
<1> DEFINE gs == SetProperties(fs, a, properties)
<1>1. fs = [entries |-> fs.entries, props |-> fs.props] /\ DOMAIN fs.props = Path
  BY DEF Sound
<1>2. gs.entries = fs.entries /\ (properties # "none" => gs.props[a] = properties)
  BY <1>1 DEF SetProperties
<1> HIDE DEF gs
<1>3. Select(fs.entries, a).missing = 0
  BY DEF Arrived, View, IsMissing
<1> QED  BY <1>2, <1>3 DEF Arrived, View, IsMissing, gs

\* What is read late, and is still there, is what it was; and what was collected is
\* not read again.
LEMMA ReadIs ==
  ASSUME NEW fs, NEW q, NEW v,
         fs.props[q] = v \/ (v \notin Late /\ fs.props[q] = "none")
  PROVE  ReadOf(fs, q, Collected(v)) = v
BY CopyMoveAssumption DEF ReadOf, Collected

\* Only a stream that ends with the deletion of its source takes its properties away.
LEMMA StreamLeavesProperties ==
  ASSUME NEW fs, Sound(fs), NEW e, NEW a, NEW d, NEW target, NEW moves, NEW q \in Path
  PROVE  LET gs == Stream(fs, e, a, d, target, moves).fs
         IN  gs.props[q] = fs.props[q] \/ (moves /\ gs.props[q] = "none")
<1> DEFINE data == fs.entries[e].data
           es   == IF target = 0 THEN Create(fs.entries, "document", a, d, data)
                   ELSE [fs.entries EXCEPT ![target].data = data]
           done == [fs EXCEPT !.entries = es]
           it   == done.entries[e]
<1>1. done.props = fs.props /\ DOMAIN fs.props = Path
  BY DEF Sound
<1>2. Stream(fs, e, a, d, target, moves).fs \in {fs, done}
      \/ (moves /\ Stream(fs, e, a, d, target, moves).fs = TakeAway(done, e))
  BY DEF Stream, Outcome
<1>3. \/ TakeAway(done, e) = done
      \/ TakeAway(done, e).props = [done.props EXCEPT ![it.path] = "none"]
  BY DEF TakeAway
<1> HIDE DEF done, it
<1>4. TakeAway(done, e).props[q] \in {fs.props[q], "none"}
  BY <1>1, <1>3
<1> QED  BY <1>1, <1>2, <1>4

\* What a target action reports to have succeeded with, is there.
LEMMA ExecuteBrings ==
  ASSUME NEW c \in Client, NEW e, NEW a, NEW d, Goes(Now, e, a, d),
         NEW target \in DOMAIN entries \cup {0},
         target # 0 => /\ Select(entries, a).entry = target
                       /\ entries[target].path = a
                       /\ entries[target].kind = "document",
         Execute(c, e, a, d, target).status \in {"Created", "Overwritten"}
  PROVE  LET gs == Execute(c, e, a, d, target).fs
             properties == props[entries[e].path]
         IN  /\ Arrived(gs, a, entries[e].data)
             /\ properties # "none" /\ ~ (Moves(c) /\ ~ work[c].inside /\ properties \in Late)
                  => View(gs.entries, gs.props, a)[3] = properties
             /\ Moves(c) => Gone(gs, entries[e].path)
<1> DEFINE outcome == IF ~ work[c].inside THEN Stream(Now, e, a, d, target, Moves(c))
                      ELSE IF Moves(c) THEN MoveTo(Now, e, a, d)
                      ELSE CopyTo(Now, e, a, d)
           q0 == entries[e].path
           properties == props[q0]
           read == ReadOf(outcome.fs, q0, Collected(properties))
           gs == SetProperties(outcome.fs, a, read)
<1>1. /\ Now.entries = entries /\ Sound(Now) /\ a \in Path /\ e \in DOMAIN entries /\ e # 1
      /\ IsPlace(entries, a, d) /\ ~ Within(entries[e].path, a) /\ ~ Within(a, entries[e].path)
  BY DEF Now, Goes, IsPlace
<1>2. outcome.ok /\ Execute(c, e, a, d, target).fs = gs
  BY DEF Execute
<1>3. Leads(Now, outcome.fs)
  BY <1>1, StreamLeads, MoveToLeads, CopyToLeads
<1>4. /\ Arrived(outcome.fs, a, entries[e].data)
      /\ Moves(c) => Gone(outcome.fs, entries[e].path)
  <2>1. CASE ~ work[c].inside
    <3>1. Stream(Now, e, a, d, target, Moves(c)).ok
      BY <1>2, <2>1
    <3>2. LET hs == Stream(Now, e, a, d, target, Moves(c)).fs
          IN  /\ Arrived(hs, a, entries[e].data)
              /\ Moves(c) => Gone(hs, entries[e].path)
      BY <1>1, <3>1, StreamBrings
    <3> QED  BY <2>1, <3>2
  <2>2. CASE work[c].inside /\ Moves(c)
    BY <1>1, <1>2, <2>2, MoveToBrings
  <2>3. CASE work[c].inside /\ ~ Moves(c)
    BY <1>1, <2>3, CopyToBrings
  <2> QED  BY <2>1, <2>2, <2>3
<1>5. Sound(outcome.fs)
  BY <1>3 DEF Leads
<1>p. ASSUME ~ (Moves(c) /\ ~ work[c].inside /\ properties \in Late)
      PROVE  read = properties
  <2>1. q0 \in Path /\ q0 # a /\ Now.props = props /\ DOMAIN props = Path
    BY <1>1, EntryIs DEF Sound, Within, Now
  <2>2. \/ outcome.fs.props[q0] = properties
        \/ Moves(c) /\ ~ work[c].inside /\ outcome.fs.props[q0] = "none"
    <3>1. CASE ~ work[c].inside
      <4> DEFINE hs == Stream(Now, e, a, d, target, Moves(c)).fs
      <4>1. hs.props[q0] = Now.props[q0] \/ (Moves(c) /\ hs.props[q0] = "none")
        BY <1>1, <2>1, StreamLeavesProperties
      <4>2. outcome.fs = hs
        BY <3>1
      <4> QED  BY <2>1, <3>1, <4>1, <4>2
    <3>2. CASE work[c].inside /\ Moves(c)
      BY <1>2, <2>1, <3>2 DEF MoveTo, Outcome
    <3>3. CASE work[c].inside /\ ~ Moves(c)
      BY <2>1, <3>3 DEF CopyTo, Outcome
    <3> QED  BY <3>1, <3>2, <3>3
  <2> DEFINE now == outcome.fs
  <2>3. now.props[q0] = properties \/ (properties \notin Late /\ now.props[q0] = "none")
    BY <1>p, <2>2
  <2> HIDE DEF now, properties, q0
  <2>4. ReadOf(now, q0, Collected(properties)) = properties
    BY <2>3, ReadIs
  <2> QED  BY <2>4 DEF now
<1> HIDE DEF outcome, properties, read
<1>6. /\ Arrived(gs, a, entries[e].data)
      /\ read # "none" => View(gs.entries, gs.props, a)[3] = read
  BY <1>1, <1>4, <1>5, PropertiesArrive
<1>7. ASSUME Moves(c), NEW q \in Path, Within(entries[e].path, q)
      PROVE  View(gs.entries, gs.props, q) = <<>>
  <2>1. q # a
    BY <1>1, <1>7
  <2>2. SeenAlike(outcome.fs, gs, q)
    BY <1>5, <2>1, SetPropertiesElsewhere
  <2> QED  BY <1>4, <1>7, <2>2 DEF Gone, SeenAlike, LooksAlike
<1> QED  BY <1>2, <1>p, <1>6, <1>7 DEF Gone, properties

-----------------------------------------------------------------------------
(* What a transfer has brought, and what it still is to bring.              *)

\* q is to come along.
Wanted(j, q) ==
  /\ q \in Path /\ Within(j.from, q)
  /\ j.before[q] # <<>> /\ Len(q) - Len(j.from) <= j.depth

\* But for the properties of a document that are lost.
Brought(fs, j, q) ==
  LET was == j.before[q]
      is  == View(fs.entries, fs.props, ImageIn(j, q))
  IN  /\ is # <<>> /\ is[1] = was[1] /\ is[2] = was[2]
      /\ was[3] # "none" /\ ~ (was[1] = "document" /\ was[3] \in j.lost) => is[3] = was[3]

\* The member x of some collection is in the listing.
Listed(j, x) == \E d \in DOMAIN j.listing : x \in j.listing[d]

\* From a on the source is what it was, and what is listed there is found.
Intact(fs, j, a) ==
  \A q \in Path : Within(a, q) =>
    /\ View(fs.entries, fs.props, q) = j.before[q]
    /\ \A x : Listed(j, x) /\ fs.entries[x].path = q => Select(fs.entries, q).entry = x

\* The entry s is what it was.
AsBefore(fs, j, s) ==
  LET p == fs.entries[s].path
  IN  View(fs.entries, fs.props, p) = j.before[p]

\* Of the collections S the engine is at, which are what they were, and the entries
\* P it has still to take, the paths are apart; and what is neither is there already.
Underway(fs, j, S, P) ==
  /\ \A s \in S \cup P : s \in DOMAIN fs.entries /\ Within(j.from, fs.entries[s].path)
  /\ \A s \in S \cup P : Seen(fs.entries, s)
  /\ \A s \in S : AsBefore(fs, j, s)
  /\ \A p \in P : Intact(fs, j, fs.entries[p].path)
  /\ \A p \in P, s \in S : ~ Within(fs.entries[p].path, fs.entries[s].path)
  /\ \A p, q \in P : Within(fs.entries[p].path, fs.entries[q].path) => p = q
  /\ \A q : Wanted(j, q) => \/ Brought(fs, j, q)
                            \/ \E s \in S : fs.entries[s].path = q
                            \/ \E p \in P : Within(fs.entries[p].path, q)

\* The listing has every member of its collections, down to the depth.
ListsAll(es, j) ==
  \A d \in DOMAIN j.listing, q \in Path \ {Root} :
    Above[q] = es[d].path /\ Wanted(j, q) => \E x \in j.listing[d] : es[x].path = q

-----------------------------------------------------------------------------
(* What a transfer that nobody interferes with goes by, stage by stage.     *)

\* The properties a document does not keep, as in LosesProperty.
LostBy(r, w) == IF r.method = "MOVE" /\ ~ w.inside THEN Late ELSE {}

JobOf(r, w) == [from |-> r.path, to |-> w.destination, depth |-> w.depth,
                before |-> w.before, listing |-> w.listing, lost |-> LostBy(r, w)]

Sources(s) == {f.source : f \in Frames(s)}
Pending(s) == UNION {f.documents \cup f.collections : f \in Frames(s)}

\* The sources on a stack are one level below the next, up to the top.
Deepens(es, s, from) ==
  \A i \in 1..Len(s) : Len(es[s[i].source].path) = Len(from) + (Len(s) - i)

\* At the path p was a collection, of whose properties v was collected.
WasCollected(j, p, v) ==
  j.before[p] = <<"collection", "empty", j.before[p][3]>> /\ v = Collected(j.before[p][3])

\* A frame's target is found, and it has what was collected of its source.
Remembers(es, j, f) ==
  /\ Seen(es, f.target)
  /\ WasCollected(j, es[f.source].path, f.properties)
  /\ \A m \in f.collections : WasCollected(j, es[m].path, f.memberProperties[m])

Successes(results) == \A r \in results : r.status \in {"Created", "Overwritten"}

\* At work: everything is there, or is still going to be.
Walks(fs, j, s) ==
  /\ Deepens(fs.entries, s, j.from) /\ ListsAll(fs.entries, j)
  /\ \A f \in Frames(s) : Remembers(fs.entries, j, f)
  /\ Underway(fs, j, Sources(s), Pending(s))

\* At its end.
HasBrought(fs, j, moves) ==
  /\ \A q : Wanted(j, q) => Brought(fs, j, q)
  /\ moves => Gone(fs, j.from)

\* A copy leaves the source as it was.
LeavesSource(fs, j) ==
  \A q \in Path : Within(j.from, q) => View(fs.entries, fs.props, q) = j.before[q]

\* The request r of a client that was alone, with its work w.
Completes(fs, r, w) ==
  LET j == JobOf(r, w) IN
  /\ r.pc \in {"lock source", "select destination", "lock destination", "start"} =>
       r.found = Select(fs.entries, r.path)
  /\ r.pc = "engine" /\ Far(r, w) /\ Successes(w.results) => Walks(fs, j, w.stack)
  /\ r.pc \in {"engine", "dispose destination"} /\ Far(r, w) /\ r.method = "COPY" =>
       LeavesSource(fs, j)
  /\ r.pc = "dispose destination" /\ Far(r, w) /\ Successes(w.results) /\ w.results # {} =>
       HasBrought(fs, j, r.method = "MOVE")

CompletesInv == \A c \in Client : alone[c] => Completes(Now, task[c], work[c])

-----------------------------------------------------------------------------
(* What is brought, one after the other.                                    *)

\* A document has nothing below it.
LEMMA BelowDocument ==
  ASSUME NEW es, FileSystemInv(es), NEW e \in DOMAIN es, es[e].kind = "document", Seen(es, e),
         NEW ps, NEW q \in Path, Within(es[e].path, q), q # es[e].path
  PROVE  View(es, ps, q) = <<>>
<1> DEFINE a == es[e].path
           up == Select(es, a)
<1>1. a \in Path /\ Fits(es, up, a) /\ up.entry = e /\ e # 0
  BY EntryIs, SelectFits DEF Seen, FileSystemInv
<1>2. up.result = "FoundDocument" /\ up \in Selection
  BY <1>1 DEF Fits
<1>3. PICK r \in Path : r # Root /\ Above[r] = a /\ Within(r, q)
  BY <1>1, MemberAbove
<1> HIDE DEF a
<1>4. Select(es, r) = OneDown(es, up, r)
  BY <1>3, SelectDown
<1> HIDE DEF up
<1>5. OneDown(es, up, r) = [up EXCEPT !.result = "MissingCollection", !.entry = 0, !.missing = 2]
  BY <1>2 DEF OneDown
<1>6. Select(es, r).missing = 2
  BY <1>2, <1>4, <1>5 DEF Selection
<1> QED  BY <1>3, <1>6, NothingWithin

\* Where something is seen, something is seen all the way up.
LEMMA SeenAllTheWay ==
  ASSUME NEW es, FileSystemInv(es), NEW ps, NEW p \in Path, NEW q \in Path, Within(p, q),
         View(es, ps, q) # <<>>
  PROVE  View(es, ps, p) # <<>>
<1> SUFFICES ASSUME View(es, ps, p) = <<>>  PROVE FALSE
  OBVIOUS
<1>1. Select(es, p).missing # 0
  BY DEF View, IsMissing
<1> QED  BY <1>1, NothingWithin

\* A step that is about q0: it is brought, or is still to come.
LEMMA UnderwayOn ==
  ASSUME NEW j, IsJob(j), NEW fs, Sound(fs), NEW gs, Leads(fs, gs),
         ListingInv(fs.entries, j.listing),
         NEW S, NEW P, Underway(fs, j, S, P), NEW T \in SUBSET S, NEW R \in SUBSET P, NEW q0,
         \A t \in T : SeenAlike(fs, gs, fs.entries[t].path),
         \A p \in R, q \in Path : Within(fs.entries[p].path, q) => SeenAlike(fs, gs, q),
         \A q : Wanted(j, q) /\ q # q0 => SeenAlike(fs, gs, ImageIn(j, q)),
         Wanted(j, q0) => \/ Brought(gs, j, q0)
                          \/ \E s \in T : fs.entries[s].path = q0
                          \/ \E p \in R : Within(fs.entries[p].path, q0),
         \A s \in S \ T : fs.entries[s].path = q0,
         \A p \in P \ R : \A q : Wanted(j, q) /\ Within(fs.entries[p].path, q) => q = q0
  PROVE  Underway(gs, j, T, R)
<1> DEFINE es == fs.entries
           hs == gs.entries
<1>1. \A e \in DOMAIN es : e \in DOMAIN hs /\ hs[e].path = es[e].path
  BY DEF Leads, Evolves
<1>2. \A e \in S \cup P : e \in DOMAIN es /\ Within(j.from, es[e].path) /\ Seen(es, e)
  BY DEF Underway
<1>3. \A e \in T \cup R : e \in DOMAIN hs /\ hs[e].path = es[e].path
  BY <1>1, <1>2
<1>4. ASSUME NEW e \in T \cup R  PROVE Seen(hs, e)
  <2>1. SeenAlike(fs, gs, es[e].path)
    <3>1. CASE e \in R
      <4>1. es[e].path \in Path
        BY <1>2, EntryIs DEF Sound
      <4> QED  BY <3>1, <4>1 DEF Within
    <3> QED  BY <3>1
  <2> QED  BY <1>2, <1>3, <2>1 DEF Seen, SeenAlike, LooksAlike
<1>b. ASSUME NEW t \in T  PROVE AsBefore(gs, j, t)
  <2> DEFINE p == es[t].path
  <2>1. View(es, fs.props, p) = j.before[p]
    BY DEF Underway, AsBefore
  <2>2. View(hs, gs.props, p) = View(es, fs.props, p)
    BY DEF SeenAlike, LooksAlike
  <2> QED  BY <1>3, <2>1, <2>2 DEF AsBefore
<1>5. ASSUME NEW p \in R  PROVE Intact(gs, j, hs[p].path)
  <2> SUFFICES ASSUME NEW q \in Path, Within(es[p].path, q)
               PROVE  /\ View(hs, gs.props, q) = j.before[q]
                      /\ \A x : Listed(j, x) /\ hs[x].path = q => Select(hs, q).entry = x
    BY <1>3 DEF Intact
  <2>1. /\ View(es, fs.props, q) = j.before[q]
        /\ \A x : Listed(j, x) /\ es[x].path = q => Select(es, q).entry = x
    BY DEF Underway, Intact
  <2>2. View(hs, gs.props, q) = View(es, fs.props, q) /\ Select(hs, q).entry = Select(es, q).entry
    BY DEF SeenAlike, LooksAlike
  <2>3. \A x : Listed(j, x) => x \in DOMAIN es
    BY DEF Listed, ListingInv
  <2> QED  BY <1>1, <2>1, <2>2, <2>3
<1>6. ASSUME NEW q, Wanted(j, q)
      PROVE  \/ Brought(gs, j, q)
             \/ \E s \in T : hs[s].path = q
             \/ \E p \in R : Within(hs[p].path, q)
  <2>1. CASE q = q0
    BY <1>3, <1>6, <2>1
  <2>2. CASE q # q0
    <3>1. \/ Brought(fs, j, q)
          \/ \E s \in S : es[s].path = q
          \/ \E p \in P : Within(es[p].path, q)
      BY <1>6 DEF Underway
    <3>2. Brought(fs, j, q) => Brought(gs, j, q)
      BY <1>6, <2>2 DEF Brought, SeenAlike, LooksAlike
    <3>3. (\E s \in S : es[s].path = q) => \E s \in T : hs[s].path = q
      BY <1>3, <2>2
    <3>4. (\E p \in P : Within(es[p].path, q)) => \E p \in R : Within(hs[p].path, q)
      BY <1>3, <1>6, <2>2
    <3> QED  BY <3>1, <3>2, <3>3, <3>4
  <2> QED  BY <2>1, <2>2
<1>7. \A p \in R, s \in T : ~ Within(hs[p].path, hs[s].path)
  BY <1>3 DEF Underway
<1>8. \A p, q \in R : Within(hs[p].path, hs[q].path) => p = q
  BY <1>3 DEF Underway
<1>9. \A s \in T \cup R : s \in DOMAIN hs /\ Within(j.from, hs[s].path)
  BY <1>2, <1>3
<1> HIDE DEF es, hs
<1> QED  BY <1>4, <1>b, <1>5, <1>6, <1>7, <1>8, <1>9 DEF Underway, hs

\* The engine comes to the collection e: its members are still to come.
LEMMA UnderwayEnters ==
  ASSUME NEW j, IsJob(j), NEW fs, Sound(fs), ListingInv(fs.entries, j.listing),
         ListsAll(fs.entries, j), NEW S, NEW P, Underway(fs, j, S, P),
         NEW e \in P, e \in DOMAIN j.listing
  PROVE  Underway(fs, j, S \cup {e}, (P \ {e}) \cup j.listing[e])
<1> DEFINE es == fs.entries
           a == es[e].path
           M == j.listing[e]
<1>1. /\ FileSystemInv(es) /\ e \in DOMAIN es /\ Seen(es, e) /\ Intact(fs, j, a)
      /\ Within(j.from, a) /\ a \in Path /\ j.from \in Path
  BY EntryIs DEF Sound, Underway, IsJob
<1>2. \A d \in S \cup P : d \in DOMAIN es /\ es[d].path \in Path /\ Within(j.from, es[d].path)
                          /\ Seen(es, d)
  BY <1>1, EntryIs DEF Underway
<1>3. ASSUME NEW m \in M
      PROVE  /\ m \in DOMAIN es \ {1} /\ es[m].path \in Path \ {Root} /\ Above[es[m].path] = a
             /\ Within(a, es[m].path) /\ ~ Within(es[m].path, a)
             /\ Within(j.from, es[m].path) /\ Seen(es, m) /\ Intact(fs, j, es[m].path)
  <2>1. m \in DOMAIN es \ {1} /\ es[m].parent = e
    BY DEF ListingInv
  <2>2. es[m].path \in Path \ {Root} /\ Above[es[m].path] = a
    BY <1>1, <2>1, EntryIs
  <2> DEFINE p == es[m].path
  <2> HIDE DEF p, a
  <2>3. <<a, p>> \in Ancestor /\ <<p, a>> \notin Ancestor /\ p # a
    <3>1. p \in Path \ {Root} /\ Above[p] = a
      BY <2>2 DEF p
    <3> QED  BY <3>1, AboveIsAncestor, AncestorIsForest
  <2>4. Within(a, p) /\ ~ Within(p, a) /\ Within(j.from, p) /\ p \in Path
    BY <1>1, <2>2, <2>3, WithinTwice DEF Within, p
  <2>5. Listed(j, m)
    BY DEF Listed
  <2>6. Select(es, p).entry = m
    BY <1>1, <2>4, <2>5 DEF Intact, p
  <2>7. Intact(fs, j, p)
    <3> SUFFICES ASSUME NEW q \in Path, Within(p, q)
                 PROVE  /\ View(fs.entries, fs.props, q) = j.before[q]
                        /\ \A x : Listed(j, x) /\ fs.entries[x].path = q
                                    => Select(fs.entries, q).entry = x
      BY DEF Intact
    <3>1. Within(a, q)
      BY <1>1, <2>4, WithinTwice
    <3> QED  BY <1>1, <3>1 DEF Intact
  <2> QED  BY <2>1, <2>2, <2>4, <2>6, <2>7 DEF p, Seen
<1> HIDE DEF a, M
<1>4. \A p \in P, s \in S : ~ Within(es[p].path, es[s].path)
  BY DEF Underway
<1>5. \A p, q \in P : Within(es[p].path, es[q].path) => p = q
  BY DEF Underway
<1>6. \A p \in P : Intact(fs, j, es[p].path)
  BY DEF Underway
<1>7. ASSUME NEW p \in (P \ {e}) \cup M, NEW s \in S \cup {e}
      PROVE  ~ Within(es[p].path, es[s].path)
  <2>1. CASE p \in P /\ p # e
    BY <1>4, <1>5, <2>1
  <2>2. CASE p \in M
    <3>1. CASE s = e
      BY <1>3, <2>2, <3>1 DEF a
    <3>2. CASE s \in S
      <4>1. Within(es[p].path, es[s].path) => Within(a, es[s].path)
        BY <1>1, <1>2, <1>3, <2>2, <3>2, WithinTwice
      <4> QED  BY <1>4, <3>2, <4>1 DEF a
    <3> QED  BY <3>1, <3>2
  <2> QED  BY <1>7, <2>1, <2>2
<1>8. ASSUME NEW p \in (P \ {e}) \cup M, NEW q \in (P \ {e}) \cup M,
             Within(es[p].path, es[q].path)
      PROVE  p = q
  <2>1. CASE p \in P \ {e} /\ q \in P \ {e}
    BY <1>5, <1>8, <2>1
  <2>2. CASE p \in M /\ q \in P \ {e}
    <3>1. Within(a, es[q].path)
      BY <1>1, <1>2, <1>3, <1>8, <2>2, WithinTwice
    <3> QED  BY <1>5, <2>2, <3>1 DEF a
  <2>3. CASE p \in P \ {e} /\ q \in M
    <3>1. Within(es[p].path, a) \/ Within(a, es[p].path)
      BY <1>1, <1>2, <1>3, <1>8, <2>3, Comparable
    <3> QED  BY <1>5, <2>3, <3>1 DEF a
  <2>4. CASE p \in M /\ q \in M
    <3>1. es[p].path = es[q].path
      BY <1>3, <1>8, <2>4, MembersApart
    <3> QED  BY <1>3, <2>4, <3>1 DEF Seen
  <2> QED  BY <2>1, <2>2, <2>3, <2>4
<1>9. ASSUME NEW q, Wanted(j, q)
      PROVE  \/ Brought(fs, j, q)
             \/ \E s \in S \cup {e} : es[s].path = q
             \/ \E p \in (P \ {e}) \cup M : Within(es[p].path, q)
  <2>1. \/ Brought(fs, j, q)
        \/ \E s \in S : es[s].path = q
        \/ \E p \in P : Within(es[p].path, q)
    BY <1>9 DEF Underway
  <2>2. CASE Within(a, q) /\ q # a
    <3>1. q \in Path
      BY <1>9 DEF Wanted
    <3>2. PICK r \in Path : r # Root /\ Above[r] = a /\ Within(r, q)
      BY <1>1, <2>2, <3>1, MemberAbove
    <3>3. Within(a, r) /\ Within(j.from, r)
      BY <1>1, <3>2, AboveIsAncestor, WithinTwice DEF Within
    <3>4. View(es, fs.props, q) = j.before[q] /\ View(es, fs.props, r) = j.before[r]
      BY <1>1, <2>2, <3>1, <3>3 DEF Intact
    <3>5. j.before[r] # <<>>
      BY <1>1, <1>9, <3>1, <3>2, <3>4, SeenAllTheWay DEF Wanted
    <3>6. Len(r) \in Nat /\ Len(q) \in Nat /\ Len(r) <= Len(q) /\ Len(j.from) \in Nat
      BY <1>1, <3>1, <3>2, <3>3, WithinIsLonger
    <3>7. j.depth \in Nat
      BY DEF IsJob
    <3>8. Wanted(j, r)
      BY <1>9, <3>3, <3>5, <3>6, <3>7 DEF Wanted
    <3>9. \E x \in M : es[x].path = r
      BY <3>2, <3>8 DEF ListsAll, M, a
    <3> QED  BY <3>2, <3>9
  <2>3. CASE ~ (Within(a, q) /\ q # a)
    BY <2>1, <2>3 DEF a, Within
  <2> QED  BY <2>2, <2>3
<1>10. \A d \in S \cup {e} \cup (P \ {e}) \cup M :
         d \in DOMAIN es /\ Within(j.from, es[d].path) /\ Seen(es, d)
  BY <1>2, <1>3
<1>11. \A p \in (P \ {e}) \cup M : Intact(fs, j, es[p].path)
  BY <1>3, <1>6
<1>12. \A d \in S \cup {e} : AsBefore(fs, j, d)
  <2>1. \A d \in S : AsBefore(fs, j, d)
    BY DEF Underway
  <2>2. AsBefore(fs, j, e)
    BY <1>1 DEF Intact, AsBefore, Within, a
  <2> QED  BY <2>1, <2>2
<1> HIDE DEF es
<1> QED  BY <1>7, <1>8, <1>9, <1>10, <1>11, <1>12 DEF Underway, es, M

\* A document that was still to come is brought.
LEMMA DocumentBrought ==
  ASSUME NEW j, IsJob(j), NEW c \in Client, Sound(Now), ListingInv(entries, j.listing),
         NEW S, NEW P, Underway(Now, j, S, P),
         NEW e \in P, e # 1, entries[e].kind = "document",
         NEW a, a = ImageIn(j, entries[e].path), NEW d,
         IsPlace(entries, a, d), Select(entries, Above[a]).entry = d,
         NEW target \in DOMAIN entries \cup {0},
         target # 0 => /\ Select(entries, a).entry = target
                       /\ entries[target].path = a
                       /\ entries[target].kind = "document",
         Execute(c, e, a, d, target).status \in {"Created", "Overwritten"},
         Moves(c) /\ ~ work[c].inside => j.lost = Late
  PROVE  LET gs == Execute(c, e, a, d, target).fs
         IN  /\ Underway(gs, j, S, P \ {e})
             /\ Moves(c) => Gone(gs, entries[e].path)
<1> DEFINE gs == Execute(c, e, a, d, target).fs
           q0 == entries[e].path
<1>1. Now.entries = entries /\ Now.props = props
  BY DEF Now
<1>2. /\ FileSystemInv(entries) /\ e \in DOMAIN entries /\ Seen(entries, e)
      /\ Within(j.from, q0) /\ q0 \in Path /\ Intact(Now, j, q0)
  BY <1>1, EntryIs DEF Underway, Sound
<1>3. a \in Path /\ Within(j.to, a) /\ ~ Within(q0, a) /\ ~ Within(a, q0)
  BY <1>2, ImageIs, SidesApart
<1>4. Goes(Now, e, a, d)
  BY <1>1, <1>2, <1>3 DEF Goes
<1>5. /\ Arrived(gs, a, entries[e].data)
      /\ props[q0] # "none" /\ props[q0] \notin j.lost
           => View(gs.entries, gs.props, a)[3] = props[q0]
      /\ Moves(c) => Gone(gs, q0)
  BY <1>4, ExecuteBrings
<1>6. Leads(Now, gs)
  BY <1>2, ExecuteLeads
<1>7. ASSUME NEW p \in Path, Clear(entries, a, p), ~ Within(q0, p)
      PROVE  SeenAlike(Now, gs, p)
  BY <1>2, <1>7, ExecuteElsewhere
<1> HIDE DEF gs
<1>8. ASSUME NEW p \in Path, Within(j.from, p), ~ Within(q0, p)
      PROVE  SeenAlike(Now, gs, p)
  <2>1. ~ Within(a, p)
    BY <1>3, <1>8, SidesApart
  <2> QED  BY <1>7, <1>8, <2>1 DEF Clear, Within
<1>9. \A t \in S : SeenAlike(Now, gs, Now.entries[t].path)
  <2> SUFFICES ASSUME NEW t \in S  PROVE SeenAlike(Now, gs, entries[t].path)
    BY <1>1
  <2>1. entries[t].path \in Path /\ Within(j.from, entries[t].path)
    BY <1>1, <1>2, EntryIs DEF Underway
  <2>2. ~ Within(q0, entries[t].path)
    BY <1>1 DEF Underway
  <2> QED  BY <1>8, <2>1, <2>2
<1>10. ASSUME NEW p \in P \ {e}, NEW q \in Path, Within(Now.entries[p].path, q)
       PROVE  SeenAlike(Now, gs, q)
  <2> DEFINE b == entries[p].path
  <2>1. b \in Path /\ Within(j.from, b) /\ Within(b, q) /\ j.from \in Path
    BY <1>1, <1>2, <1>10, EntryIs DEF Underway, IsJob
  <2>2. ~ Within(q0, b) /\ ~ Within(b, q0)
    BY <1>1 DEF Underway
  <2>3. ~ Within(q0, q)
    BY <1>2, <2>1, <2>2, Comparable
  <2>4. Within(j.from, q)
    BY <2>1, WithinTwice
  <2> QED  BY <1>8, <2>3, <2>4
<1>11. ASSUME NEW q, Wanted(j, q), Within(q0, q)
       PROVE  q = q0
  <2>1. q \in Path /\ j.before[q] # <<>> /\ View(entries, props, q) = j.before[q]
    BY <1>1, <1>2, <1>11 DEF Wanted, Intact
  <2> QED  BY <1>2, <1>11, <2>1, BelowDocument
<1>12. ASSUME NEW q, Wanted(j, q), q # q0
       PROVE  SeenAlike(Now, gs, ImageIn(j, q))
  <2> DEFINE p == ImageIn(j, q)
  <2>1. q \in Path /\ Within(j.from, q)
    BY <1>12 DEF Wanted
  <2>2. p \in Path /\ Within(j.to, p) /\ ~ Within(q0, p)
    BY <1>2, <2>1, ImageIs, SidesApart
  <2>3. ~ Within(a, p)
    BY <1>2, <1>11, <1>12, <2>1, ImagesWithin
  <2> HIDE DEF p
  <2>4. SeenAlike(Now, gs, p)
    BY <1>7, <2>2, <2>3 DEF Clear, Within
  <2> QED  BY <2>4 DEF p
<1>13. Brought(gs, j, q0)
  <2>1. View(entries, props, q0) = <<entries[e].kind, Content(entries[e]), props[q0]>>
    BY <1>2, SeenView DEF Seen
  <2>2. View(entries, props, q0) = j.before[q0]
    BY <1>1, <1>2 DEF Intact, Within
  <2>3. j.before[q0] = <<"document", entries[e].data, props[q0]>>
    BY <2>1, <2>2 DEF Content
  <2> QED  BY <1>5, <2>3 DEF Brought, Arrived
<1>14. Underway(gs, j, S, P \ {e})
  <2>1. \A s \in S \ S : Now.entries[s].path = q0
    OBVIOUS
  <2>2. \A p \in P \ (P \ {e}) : \A q : Wanted(j, q) /\ Within(Now.entries[p].path, q) => q = q0
    BY <1>1, <1>11
  <2> HIDE DEF q0
  <2> QED  BY <1>1, <1>6, <1>9, <1>10, <1>12, <1>13, <2>1, <2>2, UnderwayOn
<1> QED  BY <1>5, <1>14 DEF gs

\* A collection is created for one that is still to come.
LEMMA CollectionMade ==
  ASSUME NEW j, IsJob(j), NEW fs, Sound(fs), ListingInv(fs.entries, j.listing),
         NEW S, NEW P, Underway(fs, j, S, P), NEW e \in P,
         NEW a, a = ImageIn(j, fs.entries[e].path), NEW d,
         IsPlace(fs.entries, a, d), CanCreate(fs.entries, a, d), "empty" \in Data,
         NEW gs, gs = [entries |-> Create(fs.entries, "collection", a, d, "empty"),
                       props |-> fs.props]
  PROVE  Leads(fs, gs) /\ Underway(gs, j, S, P)
<1> DEFINE es == fs.entries
           hs == gs.entries
           q0 == es[e].path
<1>1. /\ hs = Create(es, "collection", a, d, "empty") /\ gs.props = fs.props
      /\ gs = [entries |-> hs, props |-> gs.props]
      /\ FileSystemInv(es) /\ DOMAIN fs.props = Path
  BY DEF Sound
<1>2. /\ e \in DOMAIN es /\ Within(j.from, q0) /\ q0 \in Path
  BY <1>1, EntryIs DEF Underway
<1>3. a \in Path /\ Within(j.to, a)
  BY <1>2, ImageIs
<1> HIDE DEF es, hs
<1>4. FileSystemInv(hs) /\ Evolves(es, hs)
  BY <1>1, CreateLeads DEF es
<1>5. Leads(fs, gs)
  BY <1>1, <1>4 DEF Leads, Sound, es, hs
<1>6. ASSUME NEW p \in Path, p # a  PROVE SeenAlike(fs, gs, p)
  <2>1. LooksAlike(es, fs.props, hs, gs.props, p)
    BY <1>1, <1>6, CreateElsewhere DEF es
  <2> QED  BY <2>1 DEF SeenAlike, es, hs
<1>7. ASSUME NEW p \in Path, Within(j.from, p)  PROVE SeenAlike(fs, gs, p)
  <2>1. p # a
    BY <1>3, <1>7, SidesApart DEF Within
  <2> QED  BY <1>6, <2>1
<1>8. ASSUME NEW q, Wanted(j, q), q # q0  PROVE SeenAlike(fs, gs, ImageIn(j, q))
  <2>1. q \in Path /\ Within(j.from, q)
    BY <1>8 DEF Wanted
  <2>2. ImageIn(j, q) \in Path /\ ImageIn(j, q) # a
    BY <1>2, <1>8, <2>1, ImageIs, ImagesDiffer DEF es
  <2> QED  BY <1>6, <2>2
<1>9. \A t \in S : SeenAlike(fs, gs, fs.entries[t].path)
  BY <1>1, <1>7, EntryIs DEF Underway, es
<1>10. \A p \in P, q \in Path : Within(fs.entries[p].path, q) => SeenAlike(fs, gs, q)
  <2> SUFFICES ASSUME NEW p \in P, NEW q \in Path, Within(es[p].path, q)
               PROVE  SeenAlike(fs, gs, q)
    BY DEF es
  <2>1. es[p].path \in Path /\ Within(j.from, es[p].path) /\ j.from \in Path
    BY <1>1, EntryIs DEF Underway, es, IsJob
  <2>2. Within(j.from, q)
    BY <2>1, WithinTwice
  <2> QED  BY <1>7, <2>2
<1>11. \E p \in P : Within(fs.entries[p].path, q0)
  BY DEF Within, es
<1>12. Underway(gs, j, S, P)
  <2> HIDE DEF q0
  <2>1. /\ \A s \in S \ S : fs.entries[s].path = q0
        /\ \A p \in P \ P : \A q : Wanted(j, q) /\ Within(fs.entries[p].path, q) => q = q0
    OBVIOUS
  <2> QED  BY <1>5, <1>8, <1>9, <1>10, <1>11, <2>1, UnderwayOn
<1> QED  BY <1>5, <1>12

\* The engine is done with a collection, and leaves it.
LEMMA CollectionBrought ==
  ASSUME NEW j, IsJob(j), NEW fs, Sound(fs), ListingInv(fs.entries, j.listing),
         NEW S, NEW P, Underway(fs, j, S, P), NEW e \in S, e # 1,
         \A t \in S \ {e} : ~ Within(fs.entries[e].path, fs.entries[t].path),
         \A p \in P : ~ Within(fs.entries[e].path, fs.entries[p].path),
         NEW properties,
         j.before[fs.entries[e].path] = <<"collection", "empty", properties>>,
         NEW n \in DOMAIN fs.entries, Seen(fs.entries, n), fs.entries[n].kind = "collection",
         fs.entries[n].path = ImageIn(j, fs.entries[e].path), NEW moves,
         NEW hs, hs = SetProperties(fs, fs.entries[n].path, properties),
         NEW gs, gs = IF moves THEN TakeAway(hs, e) ELSE hs
  PROVE  /\ Leads(fs, gs) /\ Underway(gs, j, S \ {e}, P)
         /\ moves => Gone(gs, fs.entries[e].path)
<1> DEFINE es == fs.entries
           q0 == es[e].path
           a  == es[n].path
<1>1. /\ FileSystemInv(es) /\ e \in DOMAIN es \ {1} /\ Seen(es, e)
      /\ Within(j.from, q0) /\ q0 \in Path /\ a = ImageIn(j, q0)
  BY EntryIs DEF Underway, Sound
<1>2. a \in Path /\ Within(j.to, a) /\ ~ Within(q0, a) /\ ~ Within(a, q0)
  BY <1>1, ImageIs, SidesApart
<1> HIDE DEF es, q0, a
<1>3. Leads(fs, hs) /\ hs.entries = es /\ Sound(hs)
  BY SetPropertiesLeads DEF Leads, es
<1>4. e \in DOMAIN hs.entries \ {1} /\ hs.entries[e].path = q0 /\ Seen(hs.entries, e)
  BY <1>1, <1>3 DEF q0
<1>5. Leads(fs, gs)
  <2>1. Leads(hs, TakeAway(hs, e))
    BY <1>3, <1>4, TakeAwayLeads
  <2> QED  BY <1>3, <2>1, LeadsOn
<1>6. ASSUME NEW p \in Path, ~ Within(q0, p)  PROVE SeenAlike(hs, gs, p)
  <2>1. SeenAlike(hs, TakeAway(hs, e), p)
    BY <1>3, <1>4, <1>6, TakeAwayElsewhere
  <2> QED  BY <2>1 DEF SeenAlike, LooksAlike
<1>7. ASSUME NEW p \in Path, p # a, ~ Within(q0, p)  PROVE SeenAlike(fs, gs, p)
  <2>1. SeenAlike(fs, hs, p)
    BY <1>7, SetPropertiesElsewhere DEF a, es
  <2>2. SeenAlike(hs, gs, p)
    BY <1>6, <1>7
  <2> QED  BY <2>1, <2>2 DEF SeenAlike, LooksAlike
<1>8. ASSUME NEW p \in Path, Within(j.from, p), ~ Within(q0, p)  PROVE SeenAlike(fs, gs, p)
  <2>1. p # a
    BY <1>2, <1>8, SidesApart DEF Within
  <2> QED  BY <1>7, <1>8, <2>1
<1>9. moves => Gone(gs, q0)
  BY <1>3, <1>4, TakenAwayIsGone DEF Gone
<1>10. \A t \in S \ {e} : SeenAlike(fs, gs, fs.entries[t].path)
  <2> SUFFICES ASSUME NEW t \in S \ {e}  PROVE SeenAlike(fs, gs, es[t].path)
    BY DEF es
  <2>1. es[t].path \in Path /\ Within(j.from, es[t].path) /\ ~ Within(q0, es[t].path)
    BY <1>1, EntryIs DEF Underway, es, q0
  <2> QED  BY <1>8, <2>1
<1>11. \A p \in P, q \in Path : Within(fs.entries[p].path, q) => SeenAlike(fs, gs, q)
  <2> SUFFICES ASSUME NEW p \in P, NEW q \in Path, Within(es[p].path, q)
               PROVE  SeenAlike(fs, gs, q)
    BY DEF es
  <2>1. es[p].path \in Path /\ Within(j.from, es[p].path) /\ j.from \in Path
    BY <1>1, EntryIs DEF Underway, es, IsJob
  <2>2. ~ Within(q0, es[p].path) /\ ~ Within(es[p].path, q0)
    BY DEF Underway, es, q0
  <2>3. ~ Within(q0, q)
    BY <1>1, <2>1, <2>2, Comparable
  <2>4. Within(j.from, q)
    BY <2>1, WithinTwice
  <2> QED  BY <1>8, <2>3, <2>4
<1>12. \A q : Wanted(j, q) /\ q # q0 => SeenAlike(fs, gs, ImageIn(j, q))
  <2> SUFFICES ASSUME NEW q, Wanted(j, q), q # q0  PROVE SeenAlike(fs, gs, ImageIn(j, q))
    OBVIOUS
  <2>1. q \in Path /\ Within(j.from, q)
    BY DEF Wanted
  <2>2. ImageIn(j, q) \in Path /\ ImageIn(j, q) # a /\ ~ Within(q0, ImageIn(j, q))
    BY <1>1, <2>1, ImageIs, ImagesDiffer, SidesApart
  <2> QED  BY <1>7, <2>2
<1>13. Brought(gs, j, q0)
  <2>1. /\ Select(hs.entries, a).entry = n
        /\ hs.entries[n].kind = "collection" /\ n \in DOMAIN hs.entries
        /\ FileSystemInv(hs.entries)
    BY <1>3 DEF Seen, a, es, Sound
  <2>2. View(hs.entries, hs.props, a) = <<hs.entries[n].kind, Content(hs.entries[n]), hs.props[a]>>
    BY <1>2, <2>1, SeenView
  <2>3. View(gs.entries, gs.props, a) = <<"collection", "empty", hs.props[a]>>
    BY <1>2, <1>6, <2>1, <2>2 DEF SeenAlike, LooksAlike, Content
  <2>4. properties # "none" => hs.props[a] = properties
    BY <1>2 DEF SetProperties, Sound, a, es
  <2>5. j.before[q0] = <<"collection", "empty", properties>>
    BY DEF q0, es
  <2> QED  BY <1>1, <2>3, <2>4, <2>5 DEF Brought
<1>14. Underway(gs, j, S \ {e}, P)
  <2>1. \A s \in S \ (S \ {e}) : fs.entries[s].path = q0
    BY DEF q0, es
  <2>2. \A p \in P \ P : \A q : Wanted(j, q) /\ Within(fs.entries[p].path, q) => q = q0
    OBVIOUS
  <2> QED  BY <1>5, <1>10, <1>11, <1>12, <1>13, <2>1, <2>2, UnderwayOn
<1> QED  BY <1>5, <1>9, <1>14 DEF q0, es

-----------------------------------------------------------------------------
(* What is listed at the beginning.                                         *)

\* The listing has what is seen below the top, down to the depth.
LEMMA ListingSees ==
  ASSUME NEW es, FileSystemInv(es), NEW top, IsEntry(es, top, "collection"), Seen(es, top),
         NEW depth \in Nat
  PROVE  LET listing == Listing(es, top, depth) from == es[top].path IN
         \A d \in DOMAIN listing :
           /\ \A x \in listing[d] : Seen(es, x)
           /\ \A q \in Path \ {Root} :
                /\ Above[q] = es[d].path /\ Len(q) - Len(from) <= depth
                /\ Select(es, q).missing = 0
                => \E x \in listing[d] : es[x].path = q
<1> DEFINE level == Levels(es, top, depth)
           listing == Listing(es, top, depth)
           from == es[top].path
           Good(k) == \A d \in level[k] : /\ IsEntry(es, d, "collection") /\ Seen(es, d)
                                          /\ Len(es[d].path) = Len(from) + k
           bad == {k \in 0..depth : ~ Good(k)}
<1>1. \A k \in 0..depth :
        level[k] = IF k = 0 THEN {top}
                   ELSE {m \in UNION {es[d].members : d \in level[k - 1]} :
                           es[m].kind = "collection"}
  <2> SUFFICES ASSUME NEW k \in 0..depth
               PROVE  level[k] = LevelAt(es, top, level, k)
    BY DEF LevelAt
  <2> QED  BY LevelsIs
<1>2. listing = [d \in UNION {level[k] : k \in 0..depth} |->
                   IF d \in level[depth] THEN {} ELSE es[d].members]
  BY ListingIs
<1>3. from \in Path /\ Len(from) \in Nat
  BY EntryIs, PathIsSequence DEF IsEntry
<1> HIDE DEF level, listing, from
<1>4. ASSUME NEW k \in 0..depth, k # 0, Good(k - 1)  PROVE Good(k)
  <2> SUFFICES ASSUME NEW m \in level[k]
               PROVE  /\ IsEntry(es, m, "collection") /\ Seen(es, m)
                      /\ Len(es[m].path) = Len(from) + k
    OBVIOUS
  <2>0. level[k] = {x \in UNION {es[d].members : d \in level[k - 1]} : es[x].kind = "collection"}
    BY <1>1, <1>4
  <2>1. PICK d \in level[k - 1] : m \in es[d].members /\ es[m].kind = "collection"
    BY <2>0
  <2>2. IsEntry(es, d, "collection") /\ Seen(es, d) /\ Len(es[d].path) = Len(from) + (k - 1)
    BY <1>4
  <2>3. m \in DOMAIN es \ {1} /\ Seen(es, m) /\ es[m].parent = d
    BY <2>1, <2>2, MembersAreSeen
  <2> DEFINE p == es[m].path
  <2>4. p \in Path /\ p # Root /\ es[d].path = Above[p]
    BY <2>3, EntryIs
  <2> HIDE DEF p
  <2>5. Len(p) \in Nat /\ Len(Above[p]) = Len(p) - 1
    BY <2>4, AboveIs
  <2>6. Len(p) = Len(from) + k
    BY <1>3, <2>2, <2>4, <2>5
  <2> QED  BY <2>1, <2>3, <2>6 DEF IsEntry, p
<1>5. bad = {}
  <2> SUFFICES ASSUME bad # {}  PROVE FALSE
    OBVIOUS
  <2>1. bad \subseteq Nat
    OBVIOUS
  <2>2. PICK k \in bad : \A i \in bad : k <= i
    <3> HIDE DEF bad
    <3> QED  BY <2>1, Least
  <2>3. CASE k = 0
    <3>1. level[k] = {top}
      BY <1>1, <2>2, <2>3
    <3>2. Len(es[top].path) = Len(from) + k
      BY <1>3, <2>3 DEF from
    <3> QED  BY <2>2, <3>1, <3>2
  <2>4. CASE k # 0
    <3>1. k - 1 \in 0..depth /\ ~ (k <= k - 1)
      BY <2>2, <2>4
    <3>2. Good(k - 1)
      BY <2>2, <3>1
    <3> HIDE DEF Good
    <3> QED  BY <1>4, <2>2, <2>4, <3>2
  <2> QED  BY <2>3, <2>4
<1>6. \A k \in 0..depth : Good(k)
  BY <1>5
<1> SUFFICES ASSUME NEW d \in DOMAIN listing
             PROVE  /\ \A x \in listing[d] : Seen(es, x)
                    /\ \A q \in Path \ {Root} :
                         /\ Above[q] = es[d].path /\ Len(q) - Len(from) <= depth
                         /\ Select(es, q).missing = 0
                         => \E x \in listing[d] : es[x].path = q
  BY DEF listing, from
<1>7. PICK k \in 0..depth : d \in level[k]
  BY <1>2
<1>8. IsEntry(es, d, "collection") /\ Seen(es, d) /\ Len(es[d].path) = Len(from) + k
  BY <1>6, <1>7
<1>9. listing[d] = IF d \in level[depth] THEN {} ELSE es[d].members
  BY <1>2
<1>10. ASSUME NEW x \in listing[d]  PROVE Seen(es, x)
  BY <1>8, <1>9, MembersAreSeen
<1>11. ASSUME NEW q \in Path \ {Root}, Above[q] = es[d].path, Len(q) - Len(from) <= depth,
              Select(es, q).missing = 0
       PROVE  \E x \in listing[d] : es[x].path = q
  <2>1. IsPlace(es, q, d) /\ Select(es, Above[q]).entry = d
    BY <1>8, <1>11 DEF IsPlace, Seen
  <2>2. Members(es, d, q) # {}
    BY <1>11, <2>1, SeenMember
  <2>3. \E x \in es[d].members : es[x].path = q
    BY <2>2 DEF Members
  <2>4. d \notin level[depth]
    <3>1. Len(q) \in Nat /\ Len(Above[q]) = Len(q) - 1
      BY AboveIs
    <3>2. Len(es[d].path) # Len(from) + depth
      BY <1>3, <1>8, <1>11, <3>1
    <3> QED  BY <1>6, <3>2
  <2> QED  BY <1>9, <2>3, <2>4
<1> QED  BY <1>10, <1>11

\* At the beginning the source is still to come.
LEMMA StillToCome ==
  ASSUME NEW j, IsJob(j), NEW fs, Sound(fs), NEW e \in DOMAIN fs.entries,
         fs.entries[e].path = j.from, Seen(fs.entries, e),
         \A q \in Path : j.before[q] = View(fs.entries, fs.props, q),
         \/ j.listing = <<>>
         \/ /\ IsEntry(fs.entries, e, "collection")
            /\ j.listing = Listing(fs.entries, e, j.depth)
  PROVE  Underway(fs, j, {}, {e}) /\ ListsAll(fs.entries, j)
<1> DEFINE es == fs.entries
<1>1. FileSystemInv(es) /\ j.depth \in Nat /\ j.from \in Path
  BY DEF Sound, IsJob
<1>2. ASSUME NEW d \in DOMAIN j.listing
      PROVE  /\ \A x \in j.listing[d] : Seen(es, x)
             /\ \A q \in Path \ {Root} :
                  /\ Above[q] = es[d].path /\ Len(q) - Len(j.from) <= j.depth
                  /\ Select(es, q).missing = 0
                  => \E x \in j.listing[d] : es[x].path = q
  <2>1. CASE j.listing = <<>>
    BY <1>2, <2>1
  <2>2. CASE /\ IsEntry(es, e, "collection") /\ j.listing = Listing(es, e, j.depth)
    <3>1. j.from = es[e].path
      OBVIOUS
    <3> HIDE DEF es
    <3> QED  BY <1>1, <1>2, <2>2, <3>1, ListingSees DEF es
  <2> QED  BY <2>1, <2>2
<1>3. ListsAll(es, j)
  <2> SUFFICES ASSUME NEW d \in DOMAIN j.listing, NEW q \in Path \ {Root},
                      Above[q] = es[d].path, Wanted(j, q)
               PROVE  \E x \in j.listing[d] : es[x].path = q
    BY DEF ListsAll
  <2>1. View(es, fs.props, q) # <<>> /\ Len(q) - Len(j.from) <= j.depth
    BY DEF Wanted
  <2>2. Select(es, q).missing = 0
    BY <2>1 DEF View, IsMissing
  <2> QED  BY <1>2, <2>1, <2>2
<1>4. Intact(fs, j, j.from)
  BY <1>2 DEF Intact, Listed, Seen
<1>5. \A q : Wanted(j, q) => \E p \in {e} : Within(es[p].path, q)
  BY DEF Wanted
<1> QED  BY <1>1, <1>3, <1>4, <1>5 DEF Underway, Within

-----------------------------------------------------------------------------
(* The frames on a stack, when one is put on it, changed, or taken from it. *)

LEMMA FramesOf ==
  ASSUME NEW s, IsSequence(s)
  PROVE  /\ \A f : Frames(<<f>> \o s) = {f} \cup Frames(s) /\ IsSequence(<<f>> \o s)
         /\ s # <<>> => Frames(s) = {Head(s)} \cup Frames(Tail(s)) /\ IsSequence(Tail(s))
<1>1. ASSUME NEW f  PROVE Frames(<<f>> \o s) = {f} \cup Frames(s) /\ IsSequence(<<f>> \o s)
  <2> DEFINE more == <<f>> \o s
  <2>1. /\ IsSequence(more) /\ Len(s) \in Nat /\ Len(more) = Len(s) + 1
        /\ more[1] = f /\ \A i \in 1..Len(s) : more[i + 1] = s[i]
    BY PushIs
  <2> HIDE DEF more
  <2>2. ASSUME NEW i \in 1..Len(more)  PROVE more[i] \in {f} \cup Frames(s)
    <3>1. CASE i = 1
      BY <2>1, <3>1
    <3>2. CASE i # 1
      <4>1. i - 1 \in 1..Len(s) /\ (i - 1) + 1 = i
        BY <2>1, <3>2
      <4>2. more[i] = s[i - 1]
        BY <2>1, <4>1
      <4> QED  BY <4>1, <4>2 DEF Frames
    <3> QED  BY <3>1, <3>2
  <2>3. ASSUME NEW i \in 1..Len(s)  PROVE s[i] \in Frames(more)
    <3>1. i + 1 \in 1..Len(more) /\ more[i + 1] = s[i]
      BY <2>1
    <3> QED  BY <3>1 DEF Frames
  <2>4. f \in Frames(more)
    <3>1. 1 \in 1..Len(more)
      BY <2>1
    <3> QED  BY <2>1, <3>1 DEF Frames
  <2>5. Frames(more) \subseteq {f} \cup Frames(s)
    BY <2>2 DEF Frames
  <2>6. Frames(s) \subseteq Frames(more)
    <3> SUFFICES ASSUME NEW g \in Frames(s)  PROVE g \in Frames(more)
      OBVIOUS
    <3>1. PICK i \in 1..Len(s) : g = s[i]
      BY DEF Frames
    <3> QED  BY <2>3, <3>1
  <2> QED  BY <2>1, <2>4, <2>5, <2>6 DEF more
<1>2. ASSUME s # <<>>
      PROVE  Frames(s) = {Head(s)} \cup Frames(Tail(s)) /\ IsSequence(Tail(s))
  <2> DEFINE t == Tail(s)
  <2>1. /\ IsSequence(t) /\ Len(s) \in Nat \ {0} /\ Len(t) = Len(s) - 1
        /\ Head(s) = s[1] /\ \A i \in 1..(Len(s) - 1) : t[i] = s[i + 1]
    BY <1>2, PopIs
  <2> HIDE DEF t
  <2>2. ASSUME NEW i \in 1..Len(s)  PROVE s[i] \in {Head(s)} \cup Frames(t)
    <3>1. CASE i = 1
      BY <2>1, <3>1
    <3>2. CASE i # 1
      <4>1. i - 1 \in 1..Len(t) /\ i - 1 \in 1..(Len(s) - 1) /\ (i - 1) + 1 = i
        BY <2>1, <3>2
      <4>2. t[i - 1] = s[i]
        BY <2>1, <4>1
      <4> QED  BY <4>1, <4>2 DEF Frames
    <3> QED  BY <3>1, <3>2
  <2>3. ASSUME NEW i \in 1..Len(t)  PROVE t[i] \in Frames(s)
    <3>1. i \in 1..(Len(s) - 1) /\ i + 1 \in 1..Len(s)
      BY <2>1
    <3> QED  BY <2>1, <3>1 DEF Frames
  <2>4. 1 \in 1..Len(s)
    BY <2>1
  <2>5. Head(s) \in Frames(s)
    BY <2>1, <2>4 DEF Frames
  <2>6. Frames(t) \subseteq Frames(s)
    BY <2>3 DEF Frames
  <2>7. Frames(s) \subseteq {Head(s)} \cup Frames(t)
    BY <2>2 DEF Frames
  <2> QED  BY <2>1, <2>5, <2>6, <2>7 DEF t
<1> QED  BY <1>1, <1>2

LEMMA DeepensEvolves ==
  ASSUME NEW es, NEW fs, Evolves(es, fs), NEW s, NEW from, Deepens(es, s, from),
         \A f \in Frames(s) : f.source \in DOMAIN es
  PROVE  Deepens(fs, s, from)
<1>1. \A i \in 1..Len(s) : fs[s[i].source].path = es[s[i].source].path
  BY DEF Frames, Evolves
<1> QED  BY <1>1 DEF Deepens

\* One level down from the top of the stack.
LEMMA DeepensPush ==
  ASSUME NEW es, NEW s, IsSequence(s), NEW from, Len(from) \in Nat, Deepens(es, s, from),
         NEW f, Len(es[f.source].path) = Len(from) + Len(s)
  PROVE  Deepens(es, <<f>> \o s, from)
<1> DEFINE more == <<f>> \o s
           LenAt(g) == Len(es[g.source].path)
<1>1. /\ Len(s) \in Nat /\ Len(more) = Len(s) + 1
      /\ more[1] = f /\ \A i \in 1..Len(s) : more[i + 1] = s[i]
  BY PushIs
<1> HIDE DEF more
<1>2. \A i \in 1..Len(s) : LenAt(s[i]) = Len(from) + (Len(s) - i)
  BY DEF Deepens
<1>3. LenAt(f) = Len(from) + Len(s)
  OBVIOUS
<1> HIDE DEF LenAt
<1>4. ASSUME NEW i \in 1..Len(more)  PROVE LenAt(more[i]) = Len(from) + (Len(more) - i)
  <2>1. CASE i = 1
    BY <1>1, <1>3, <2>1
  <2>2. CASE i # 1
    <3>1. i - 1 \in 1..Len(s) /\ (i - 1) + 1 = i
      BY <1>1, <2>2
    <3>2. more[i] = s[i - 1] /\ LenAt(s[i - 1]) = Len(from) + (Len(s) - (i - 1))
      BY <1>1, <1>2, <3>1
    <3> QED  BY <1>1, <3>2
  <2> QED  BY <2>1, <2>2
<1> QED  BY <1>4 DEF Deepens, LenAt, more

\* Below the top of the stack all is higher up.
LEMMA DeepensPop ==
  ASSUME NEW es, NEW s, IsSequence(s), s # <<>>, NEW from, Len(from) \in Nat,
         Deepens(es, s, from)
  PROVE  /\ Deepens(es, Tail(s), from) /\ Len(Tail(s)) \in Nat
         /\ Len(es[Head(s).source].path) = Len(from) + Len(Tail(s))
         /\ \A f \in Frames(Tail(s)) : Len(es[f.source].path) < Len(from) + Len(Tail(s))
<1> DEFINE t == Tail(s)
           LenAt(g) == Len(es[g.source].path)
<1>1. /\ Len(s) \in Nat \ {0} /\ Len(t) = Len(s) - 1
      /\ Head(s) = s[1] /\ \A i \in 1..(Len(s) - 1) : t[i] = s[i + 1]
  BY PopIs
<1>2. \A i \in 1..Len(s) : LenAt(s[i]) = Len(from) + (Len(s) - i)
  BY DEF Deepens
<1> HIDE DEF t, LenAt
<1>3. ASSUME NEW i \in 1..Len(t)
      PROVE  LenAt(t[i]) = Len(from) + (Len(t) - i) /\ LenAt(t[i]) < Len(from) + Len(t)
  <2>1. i \in 1..(Len(s) - 1) /\ i + 1 \in 1..Len(s)
    BY <1>1
  <2>2. t[i] = s[i + 1] /\ LenAt(s[i + 1]) = Len(from) + (Len(s) - (i + 1))
    BY <1>1, <1>2, <2>1
  <2> QED  BY <1>1, <2>1, <2>2
<1>4. 1 \in 1..Len(s)
  BY <1>1
<1>5. LenAt(s[1]) = Len(from) + (Len(s) - 1)
  BY <1>2, <1>4
<1>6. LenAt(Head(s)) = Len(from) + Len(t) /\ Len(t) \in Nat
  BY <1>1, <1>5
<1>7. \A f \in Frames(t) : LenAt(f) < Len(from) + Len(t)
  <2> SUFFICES ASSUME NEW f \in Frames(t)  PROVE LenAt(f) < Len(from) + Len(t)
    OBVIOUS
  <2>1. PICK i \in 1..Len(t) : f = t[i]
    BY DEF Frames
  <2> QED  BY <1>3, <2>1
<1> QED  BY <1>3, <1>6, <1>7 DEF Deepens, LenAt, t

LEMMA RemembersEvolves ==
  ASSUME NEW es, NEW fs, Evolves(es, fs), NEW j, NEW f, Remembers(es, j, f),
         f.source \in DOMAIN es, f.target \in DOMAIN es, f.collections \subseteq DOMAIN es,
         Select(fs, es[f.target].path).entry = Select(es, es[f.target].path).entry
  PROVE  Remembers(fs, j, f)
BY DEF Evolves, Remembers, WasCollected, Seen

LEMMA ListsAllEvolves ==
  ASSUME NEW es, NEW fs, Evolves(es, fs), NEW j, ListingInv(es, j.listing), ListsAll(es, j)
  PROVE  ListsAll(fs, j)
<1> SUFFICES ASSUME NEW d \in DOMAIN j.listing, NEW q \in Path \ {Root},
                    Above[q] = fs[d].path, Wanted(j, q)
             PROVE  \E x \in j.listing[d] : fs[x].path = q
  BY DEF ListsAll
<1>1. d \in DOMAIN es /\ \A x \in j.listing[d] : x \in DOMAIN es
  BY DEF ListingInv, IsEntry
<1>2. fs[d].path = es[d].path /\ \A x \in j.listing[d] : fs[x].path = es[x].path
  BY <1>1 DEF Evolves
<1>3. PICK x \in j.listing[d] : es[x].path = q
  BY <1>2 DEF ListsAll
<1> QED  BY <1>2, <1>3

-----------------------------------------------------------------------------
(* The engine on its course.                                                *)

\* c is at work, nobody interfered, and everything went well until now.
OnCourse(c) ==
  /\ AtWork(c) /\ Far(task[c], work[c]) /\ Nested(entries, work[c].stack)
  /\ Walks(Now, JobOf(task[c], work[c]), work[c].stack)

LEMMA JobIs ==
  ASSUME TransfersInv, NEW c \in Client, task[c].pc \in TransferStage, Far(task[c], work[c])
  PROVE  LET j == JobOf(task[c], work[c])
         IN  /\ IsJob(j) /\ ListingInv(entries, j.listing) /\ Sound(Now)
             /\ j.from = task[c].path /\ j.to = work[c].destination
             /\ j.depth = work[c].depth /\ j.before = work[c].before
             /\ j.listing = work[c].listing
             /\ Moves(c) /\ ~ work[c].inside => j.lost = Late
<1> DEFINE j == JobOf(task[c], work[c])
<1>1. /\ task[c].path \in Path /\ work[c].destination \in Path /\ work[c].depth \in Nat
      /\ \A q \in Path : Within(task[c].path, q)
                           => Moved(q, task[c].path, work[c].destination) \in Path
      /\ ListingInv(entries, work[c].listing) /\ Sound(Now)
  BY AtTransfer DEF TransferInv
<1>2. /\ j.from = task[c].path /\ j.to = work[c].destination
      /\ j.depth = work[c].depth /\ j.before = work[c].before
      /\ j.listing = work[c].listing
      /\ Moves(c) /\ ~ work[c].inside => j.lost = Late
  BY DEF JobOf, LostBy, Moves
<1> HIDE DEF j
<1>3. IsJob(j)
  BY <1>1, <1>2 DEF IsJob, Far
<1> QED  BY <1>1, <1>2, <1>3 DEF j

\* The engine's step is about the same.
LEMMA SameJob ==
  ASSUME NEW c \in Client, EngineStep(c), task[c].pc = "engine"
  PROVE  /\ JobOf(task'[c], work'[c]) = JobOf(task[c], work[c])
         /\ Far(task'[c], work'[c]) <=> Far(task[c], work[c])
         /\ task'[c].method = task[c].method
<1>1. /\ task'[c].path = task[c].path /\ task'[c].method = task[c].method
      /\ SameAim(work[c], work'[c]) /\ work'[c].listing = work[c].listing
  BY DEF EngineStep, Onward
<1> QED  BY <1>1 DEF JobOf, LostBy, Far, SameAim

LEMMA BecomesNow ==
  ASSUME NEW gs, Sound(gs), Becomes(gs)
  PROVE  Now' = gs
BY DEF Sound, Becomes, Now

\* What is on the stack: the frames lie above one another, and what is left at
\* the top is left nowhere else.
LEMMA CourseIs ==
  ASSUME TransfersInv, NEW c \in Client, OnCourse(c)
  PROVE  LET stack == work[c].stack
             top   == Top(c)
             rest  == Tail(stack)
             todo  == top.documents \cup top.collections
         IN  /\ IsSequence(stack) /\ stack # <<>> /\ IsSequence(rest)
             /\ Frames(stack) = {top} \cup Frames(rest)
             /\ \A f \in Frames(stack) :
                  /\ FrameInv(entries, f, work[c].listing, task[c].path, work[c].destination)
                  /\ f.source \in DOMAIN entries /\ f.target \in DOMAIN entries
                  /\ f.collections \subseteq DOMAIN entries
                  /\ Within(entries[f.target].path, entries[top.target].path)
                  /\ \A m \in f.documents \cup f.collections :
                       m \in DOMAIN entries \ {1} /\ entries[m].parent = f.source
             /\ \A f \in Frames(rest) :
                  ~ Within(entries[top.source].path, entries[f.source].path)
             /\ Sources(stack) = {top.source} \cup Sources(rest)
             /\ Pending(stack) = todo \cup Pending(rest)
             /\ top.source \notin Sources(rest) /\ todo \cap Pending(rest) = {}
             /\ top.documents \cap top.collections = {}
             /\ Len(entries[top.source].path) = Len(task[c].path) + Len(rest)
             /\ Deepens(entries, rest, task[c].path) /\ Len(rest) \in Nat
<1> DEFINE stack == work[c].stack
           top   == Top(c)
           rest  == Tail(stack)
           todo  == top.documents \cup top.collections
           j     == JobOf(task[c], work[c])
           from  == task[c].path
           to    == work[c].destination
<1>1. /\ FileSystemInv(entries) /\ from \in Path /\ stack # <<>>
      /\ ListingInv(entries, work[c].listing) /\ StackInv(entries, work[c], from)
      /\ top = Head(stack) /\ IsSequence(stack) /\ top = stack[1] /\ 1 \in 1..Len(stack)
  BY AtEngine, FramesAre DEF OnCourse
<1>2. j.from = from /\ Deepens(entries, stack, j.from)
  BY DEF JobOf, OnCourse, Walks, Now
<1>3. Len(from) \in Nat
  BY <1>1, PathIsSequence
<1> HIDE DEF stack, top, rest, j, from, to
<1>4. Frames(stack) = {top} \cup Frames(rest) /\ IsSequence(rest)
  BY <1>1, FramesOf DEF rest
<1>5. /\ Deepens(entries, rest, from) /\ Len(rest) \in Nat
      /\ Len(entries[top.source].path) = Len(from) + Len(rest)
      /\ \A f \in Frames(rest) : Len(entries[f.source].path) < Len(from) + Len(rest)
  BY <1>1, <1>2, <1>3, DeepensPop DEF rest
<1>6. ASSUME NEW f \in Frames(stack)
      PROVE  /\ FrameInv(entries, f, work[c].listing, from, to)
             /\ f.source \in DOMAIN entries /\ f.target \in DOMAIN entries
             /\ Within(entries[f.target].path, entries[top.target].path)
             /\ f.collections \subseteq DOMAIN entries
             /\ entries[f.source].path \in Path
             /\ \A m \in f.documents \cup f.collections :
                  m \in DOMAIN entries \ {1} /\ entries[m].parent = f.source
  <2>1. PICK i \in 1..Len(stack) : f = stack[i]
    BY <1>6 DEF Frames
  <2>2. FrameInv(entries, f, work[c].listing, from, to)
    BY <1>1, <2>1 DEF StackInv, stack, to
  <2>3. /\ f.source \in DOMAIN entries /\ f.target \in DOMAIN entries
        /\ f.source \in DOMAIN work[c].listing
        /\ f.documents \cup f.collections \subseteq work[c].listing[f.source]
    BY <1>1, <2>2 DEF FrameInv, ListingInv, IsEntry
  <2>4. \A m \in work[c].listing[f.source] :
          m \in DOMAIN entries \ {1} /\ entries[m].parent = f.source
    BY <1>1, <2>3 DEF ListingInv
  <2>5. Within(entries[f.target].path, entries[top.target].path)
    <3>1. Nested(entries, stack) /\ 1 <= i
      BY <2>1 DEF OnCourse, stack
    <3> QED  BY <1>1, <2>1, <3>1 DEF Nested
  <2>6. entries[f.source].path \in Path
    BY <1>1, <2>3, EntryIs
  <2> QED  BY <2>2, <2>3, <2>4, <2>5, <2>6
<1>7. ASSUME NEW f \in Frames(rest)
      PROVE  /\ ~ Within(entries[top.source].path, entries[f.source].path)
             /\ f.source # top.source
  <2> DEFINE p == entries[top.source].path
             q == entries[f.source].path
  <2>1. p \in Path /\ q \in Path
    BY <1>4, <1>6
  <2>2. Len(q) < Len(p)
    BY <1>5
  <2> HIDE DEF p, q
  <2>3. Len(p) \in Nat /\ Len(q) \in Nat
    BY <2>1, PathIsSequence
  <2>4. ~ Within(p, q)
    BY <2>1, <2>2, <2>3, WithinIsLonger
  <2>5. p # q
    BY <2>2, <2>3
  <2> QED  BY <2>4, <2>5 DEF p, q
<1>8. top.documents \cap top.collections = {}
  BY <1>4, <1>6 DEF FrameInv
<1>9. Sources(stack) = {top.source} \cup Sources(rest)
  BY <1>4 DEF Sources
<1>10. Pending(stack) = todo \cup Pending(rest)
  BY <1>4 DEF Pending, todo
<1>11. top.source \notin Sources(rest)
  BY <1>7 DEF Sources
<1>12. todo \cap Pending(rest) = {}
  <2> SUFFICES ASSUME NEW m \in todo, NEW f \in Frames(rest), m \in f.documents \cup f.collections
               PROVE  FALSE
    BY DEF Pending
  <2>1. entries[m].parent = top.source /\ entries[m].parent = f.source
    BY <1>4, <1>6 DEF todo
  <2> QED  BY <1>7, <2>1
<1> QED  BY <1>1, <1>4, <1>5, <1>6, <1>7, <1>8, <1>9, <1>10, <1>11, <1>12
         DEF stack, top, rest, todo, from, to

\* A member of the collection the engine is at, with the place it goes to.
LEMMA CourseMember ==
  ASSUME TransfersInv, NEW c \in Client, OnCourse(c),
         NEW e \in Top(c).documents \cup Top(c).collections
  PROVE  LET top == Top(c)
             j == JobOf(task[c], work[c])
             a == PathIn(top.target, e)
             target == TargetOf(top, e)
         IN  /\ e \in Pending(work[c].stack) /\ e \in DOMAIN entries \ {1}
             /\ e \in top.documents => entries[e].kind = "document"
             /\ e \in top.collections => entries[e].kind = "collection" /\ e \in DOMAIN j.listing
             /\ a = ImageIn(j, entries[e].path) /\ a \in Path
             /\ Above[a] = entries[top.target].path
             /\ <<entries[top.target].path, a>> \in Ancestor
             /\ IsPlace(entries, a, top.target) /\ Select(entries, Above[a]).entry = top.target
             /\ target \in DOMAIN entries \cup {0}
             /\ target # 0 => entries[target].path = a /\ Select(entries, a).entry = target
             /\ entries[e].parent = top.source
<1> DEFINE top == Top(c)
           j == JobOf(task[c], work[c])
           a == PathIn(top.target, e)
           target == TargetOf(top, e)
           there == Members(entries, top.target, a)
<1>1. AtWork(c) /\ FileSystemInv(entries) /\ top \in Frames(work[c].stack)
  BY AtEngine, FramesAre DEF OnCourse
<1>2. /\ e \in DOMAIN entries \ {1} /\ entries[e].parent = top.source
      /\ e \in top.documents => entries[e].kind = "document"
      /\ e \in top.collections => entries[e].kind = "collection" /\ e \in DOMAIN work[c].listing
      /\ a = Moved(entries[e].path, task[c].path, work[c].destination)
      /\ IsPlace(entries, a, top.target) /\ target \in DOMAIN entries \cup {0}
      /\ target # 0 => entries[target].path = a
  BY <1>1, MemberIs
<1>3. e \in Pending(work[c].stack)
  BY <1>1 DEF Pending
<1>4. Seen(entries, top.target)
  BY <1>1 DEF OnCourse, Walks, Remembers, Now
<1>5. j.listing = work[c].listing /\ j.from = task[c].path /\ j.to = work[c].destination
  BY DEF JobOf
<1>6. target = IF top.created \/ there = {} THEN 0 ELSE CHOOSE m \in there : TRUE
  BY DEF TargetOf
<1> HIDE DEF top, j, a, target, there
<1>7. a \in Path /\ a # Root /\ Above[a] = entries[top.target].path
  BY <1>2 DEF IsPlace
<1>8. Select(entries, Above[a]).entry = top.target
  BY <1>4, <1>7 DEF Seen
<1>9. there # {} => Select(entries, a).entry = CHOOSE m \in there : TRUE
  BY <1>1, <1>2, <1>8, SeenMember DEF there
<1>10. target # 0 => Select(entries, a).entry = target
  BY <1>6, <1>9
<1>11. <<entries[top.target].path, a>> \in Ancestor
  BY <1>7, AboveIsAncestor
<1> QED  BY <1>2, <1>3, <1>5, <1>7, <1>8, <1>10, <1>11 DEF ImageIn, top, j, a, target

-----------------------------------------------------------------------------
(* Step by step.                                                            *)

LEMMA LessRemembers ==
  ASSUME NEW f, IsFrame(f), NEW e, NEW g \in {LessDocuments(f, e), LessCollections(f, e)}
  PROVE  g.properties = f.properties /\ g.memberProperties = f.memberProperties
BY DEF LessDocuments, LessCollections, IsFrame, FrameFields

\* Where the targets are still found, the stack without the member e is in order.
LEMMA CourseLess ==
  ASSUME TransfersInv, NEW c \in Client, OnCourse(c), NEW gs, Leads(Now, gs),
         \A f \in Frames(work[c].stack) :
           Select(gs.entries, entries[f.target].path).entry = f.target,
         NEW e \in Top(c).documents \cup Top(c).collections,
         NEW g, g = IF e \in Top(c).documents THEN LessDocuments(Top(c), e)
                    ELSE LessCollections(Top(c), e)
  PROVE  LET j == JobOf(task[c], work[c])
             stack == work[c].stack
             t == <<g>> \o Tail(stack)
         IN  /\ IsSequence(t) /\ Len(t) = Len(Tail(stack)) + 1
             /\ Deepens(gs.entries, t, j.from)
             /\ \A f \in Frames(t) : Remembers(gs.entries, j, f)
             /\ Sources(t) = Sources(stack) /\ Pending(t) = Pending(stack) \ {e}
<1> DEFINE j == JobOf(task[c], work[c])
           stack == work[c].stack
           top == Top(c)
           rest == Tail(stack)
           t == <<g>> \o rest
           todo  == top.documents \cup top.collections
<1>0. j.from = task[c].path
  BY DEF JobOf
<1>1. Evolves(entries, gs.entries) /\ task[c].path \in Path
  BY AtEngine DEF Leads, Now, OnCourse
<1>2. \A f \in Frames(stack) : Remembers(entries, j, f)
  BY DEF OnCourse, Walks, Now
<1>3. /\ IsSequence(rest) /\ Frames(stack) = {top} \cup Frames(rest)
      /\ \A f \in Frames(stack) :
           /\ FrameInv(entries, f, work[c].listing, task[c].path, work[c].destination)
           /\ f.source \in DOMAIN entries /\ f.target \in DOMAIN entries
           /\ f.collections \subseteq DOMAIN entries
      /\ Sources(stack) = {top.source} \cup Sources(rest)
      /\ Pending(stack) = todo \cup Pending(rest)
      /\ todo \cap Pending(rest) = {} /\ top.documents \cap top.collections = {}
      /\ Len(entries[top.source].path) = Len(task[c].path) + Len(rest)
      /\ Deepens(entries, rest, task[c].path) /\ Len(rest) \in Nat
  BY CourseIs
<1> HIDE DEF j, stack, rest, top
<1>4. IsFrame(top)
  BY <1>3 DEF FrameInv
<1>5. /\ g.source = top.source /\ g.target = top.target
      /\ g.properties = top.properties /\ g.memberProperties = top.memberProperties
      /\ g.documents \cup g.collections = todo \ {e}
      /\ g.collections \subseteq top.collections
  <2>1. CASE e \in top.documents
    BY <1>3, <1>4, <2>1, FrameWith, LessRemembers DEF top
  <2>2. CASE e \notin top.documents
    BY <1>3, <1>4, <2>2, FrameWith, LessRemembers DEF top
  <2> QED  BY <2>1, <2>2
<1>6. Frames(t) = {g} \cup Frames(rest) /\ IsSequence(t)
  BY <1>3, FramesOf
<1>7. Len(t) = Len(rest) + 1
  BY <1>3, PushIs
<1>8. Sources(t) = Sources(stack)
  BY <1>3, <1>5, <1>6 DEF Sources
<1>9. Pending(t) = Pending(stack) \ {e}
  <2>1. Pending(t) = (g.documents \cup g.collections) \cup Pending(rest)
    BY <1>6 DEF Pending
  <2>2. e \in todo
    BY DEF top
  <2> QED  BY <1>3, <1>5, <2>1, <2>2
<1>10. Deepens(gs.entries, t, j.from)
  <2>1. Deepens(gs.entries, rest, j.from)
    BY <1>0, <1>1, <1>3, DeepensEvolves
  <2>2. Len(gs.entries[g.source].path) = Len(j.from) + Len(rest)
    BY <1>0, <1>1, <1>3, <1>5 DEF Evolves
  <2>3. Len(j.from) \in Nat
    BY <1>0, <1>1, PathIsSequence
  <2> QED  BY <1>3, <2>1, <2>2, <2>3, DeepensPush
<1>11. ASSUME NEW f \in Frames(t)  PROVE Remembers(gs.entries, j, f)
  <2>1. \A h \in Frames(stack) : Remembers(gs.entries, j, h)
    <3> TAKE h \in Frames(stack)
    <3>1. Select(gs.entries, entries[h.target].path).entry = h.target
      BY DEF stack
    <3>2. Select(entries, entries[h.target].path).entry = h.target
      BY <1>2 DEF Remembers, Seen
    <3> QED  BY <1>1, <1>2, <1>3, <3>1, <3>2, RemembersEvolves
  <2>2. CASE f \in Frames(rest)
    BY <1>3, <2>1, <2>2
  <2>3. CASE f = g
    <3>1. Remembers(gs.entries, j, top)
      BY <1>3, <2>1
    <3> QED  BY <1>5, <2>3, <3>1 DEF Remembers, Seen
  <2> QED  BY <1>6, <2>2, <2>3
<1> QED  BY <1>6, <1>7, <1>8, <1>9, <1>10, <1>11 DEF j, stack, rest

\* What is put or taken at or below a source, or where nothing of the target is,
\* leaves the targets found.
LEMMA TargetsAway ==
  ASSUME TransfersInv, NEW c \in Client, OnCourse(c), NEW f \in Frames(work[c].stack)
  PROVE  LET j == JobOf(task[c], work[c])
             p == entries[f.target].path
         IN  /\ p \in Path /\ Within(j.to, p) /\ Select(entries, p).entry = f.target
             /\ \A q \in Path : Within(j.from, q) => ~ Within(q, p) /\ ~ Within(p, q)
             /\ \A a \in Path : <<entries[Top(c).target].path, a>> \in Ancestor => ~ Within(a, p)
<1> DEFINE j == JobOf(task[c], work[c])
           p == entries[f.target].path
           tp == entries[Top(c).target].path
<1>1. /\ IsJob(j) /\ j.to = work[c].destination /\ AtWork(c)
  BY JobIs DEF OnCourse, AtWork, TransferStage
<1>2. p \in Path /\ Within(j.to, p) /\ tp \in Path
  BY <1>1, FramesAre
<1>3. Select(entries, p).entry = f.target
  BY DEF OnCourse, Walks, Remembers, Seen, Now
<1>4. Within(p, tp)
  BY CourseIs
<1> HIDE DEF j, p, tp
<1>5. ASSUME NEW a \in Path, <<tp, a>> \in Ancestor, Within(a, p)
      PROVE  FALSE
  <2>1. Within(a, tp)
    BY <1>2, <1>4, <1>5, WithinTwice
  <2> QED  BY <1>2, <1>5, <2>1, AncestorIsForest DEF Within
<1> QED  BY <1>1, <1>2, <1>3, <1>5, SidesApart DEF j, p, tp

LEMMA ResultsAre ==
  ASSUME NEW w, IsWork(w), NEW x, NEW y, NEW z
  PROVE  /\ WithStack(w, x, y).results = y /\ WithResults(w, y).results = y
         /\ OnStack(w, x).results = w.results /\ WithListing(w, x, z).results = w.results
BY DEF WithStack, WithResults, OnStack, WithListing, IsWork, WorkFields

LEMMA ItSucceeded ==
  ASSUME NEW results, NEW status, NEW level, NEW more, more = results \cup Result(status, level),
         Successes(more)
  PROVE  status \in {"Created", "Overwritten"} /\ Successes(results)
<1> DEFINE r == [status |-> status, level |-> level]
<1>1. r \in more /\ results \subseteq more /\ r.status = status
  BY DEF Result
<1> QED  BY <1>1 DEF Successes

LEMMA EngineDocumentWalks ==
  ASSUME TransfersInv, NEW c \in Client, OnCourse(c), NEW e, EngineDocument(c, e), EngineStep(c),
         Successes(work'[c].results)
  PROVE  Walks(Now', JobOf(task'[c], work'[c]), work'[c].stack)
<1> DEFINE top    == Top(c)
           target == TargetOf(top, e)
           a      == PathIn(top.target, e)
           done   == IF target # 0 /\ entries[target].kind = "collection"
                     THEN [fs |-> Now, status |-> "OverwriteFailed"]
                     ELSE Execute(c, e, a, top.target, target)
           gs     == done.fs
           j      == JobOf(task[c], work[c])
           stack  == work[c].stack
           less   == LessDocuments(top, e)
           t      == <<less>> \o Tail(stack)
           results == work[c].results \cup Result(done.status, Level(c) + 1)
           S      == Sources(stack)
           P      == Pending(stack)
<1>1. /\ AtWork(c) /\ e \in top.documents /\ Becomes(gs)
      /\ Works(c, WithStack(work[c], t, results))
  BY DEF EngineDocument, WithStack, LessDocuments
<1>2. /\ IsWork(work[c]) /\ c \in DOMAIN work /\ Sound(Now) /\ FileSystemInv(entries)
      /\ task[c].pc \in TransferStage /\ task[c].pc = "engine"
  BY <1>1, AtEngine DEF TransfersInv, AtWork, TransferStage
<1>3. work'[c].stack = t /\ work'[c].results = results
  <2> DEFINE w == WithStack(work[c], t, results)
  <2> HIDE DEF t, results
  <2>1. w.stack = t /\ w.results = results
    BY <1>2, AimWith, ResultsAre
  <2>2. work'[c] = w
    BY <1>1, <1>2 DEF Works
  <2> QED  BY <2>1, <2>2
<1>4. done.status \in {"Created", "Overwritten"}
  <2> HIDE DEF done
  <2> QED  BY <1>3, ItSucceeded
<1>5. /\ e \in P /\ e \in DOMAIN entries /\ e # 1 /\ entries[e].kind = "document"
      /\ a = ImageIn(j, entries[e].path) /\ a \in Path
      /\ <<entries[top.target].path, a>> \in Ancestor
      /\ IsPlace(entries, a, top.target) /\ Select(entries, Above[a]).entry = top.target
      /\ target \in DOMAIN entries \cup {0}
      /\ target # 0 => entries[target].path = a /\ Select(entries, a).entry = target
  BY <1>1, CourseMember
<1>6. /\ target # 0 => entries[target].kind = "document"
      /\ done = Execute(c, e, a, top.target, target)
  <2>1. target # 0 => target \in DOMAIN entries
    BY <1>5
  <2>2. ~ (target # 0 /\ entries[target].kind = "collection")
    BY <1>4
  <2>3. target # 0 => entries[target].kind = "document"
    BY <1>2, <2>1, <2>2, EntryIs
  <2> QED  BY <2>2, <2>3
<1>7. /\ IsJob(j) /\ ListingInv(entries, j.listing) /\ j.from = task[c].path
      /\ Moves(c) /\ ~ work[c].inside => j.lost = Late
  BY <1>2, JobIs DEF OnCourse
<1>8. Underway(Now, j, S, P) /\ ListsAll(entries, j)
  BY DEF OnCourse, Walks, Now
<1>9. Within(j.from, entries[e].path) /\ entries[e].path \in Path
  BY <1>2, <1>5, <1>8, EntryIs DEF Underway, Now
<1>o. less = IF e \in top.documents THEN LessDocuments(top, e) ELSE LessCollections(top, e)
  BY <1>1
<1> HIDE DEF done, a, target, j, S, P, t, less, stack
<1>10. Underway(gs, j, S, P \ {e})
  BY <1>2, <1>4, <1>6, <1>5, <1>7, <1>8, DocumentBrought DEF top
<1>11. Leads(Now, gs)
  BY <1>2, <1>6, <1>5, ExecuteLeads
<1>12. ASSUME NEW f \in Frames(stack)
       PROVE  Select(gs.entries, entries[f.target].path).entry = f.target
  <2> DEFINE p == entries[f.target].path
  <2>1. /\ p \in Path /\ Select(entries, p).entry = f.target
        /\ ~ Within(entries[e].path, p) /\ ~ Within(a, p)
    BY <1>5, <1>9, TargetsAway DEF stack, j
  <2> HIDE DEF p
  <2>2. Clear(entries, a, p)
    BY <2>1 DEF Clear, Within
  <2>3. SeenAlike(Now, gs, p)
    BY <1>2, <1>6, <1>5, <2>1, <2>2, ExecuteElsewhere
  <2> QED  BY <2>1, <2>3 DEF SeenAlike, LooksAlike, Now, p
<1>13. /\ Deepens(gs.entries, t, j.from)
       /\ \A f \in Frames(t) : Remembers(gs.entries, j, f)
       /\ Sources(t) = S /\ Pending(t) = P \ {e}
  BY <1>1, <1>o, <1>11, <1>12, CourseLess DEF j, stack, t, S, P
<1>14. ListsAll(gs.entries, j)
  BY <1>7, <1>8, <1>11, ListsAllEvolves DEF Leads, Now
<1>15. Walks(gs, j, t)
  BY <1>10, <1>13, <1>14 DEF Walks
<1>16. Now' = gs /\ JobOf(task'[c], work'[c]) = j
  BY <1>1, <1>2, <1>11, BecomesNow, SameJob DEF Leads, j
<1> QED  BY <1>3, <1>15, <1>16

\* The frame of a listed collection: its members are left, and what properties
\* the collections among them have is known.
LEMMA FrameOf ==
  ASSUME NEW listing, FileSystemInv(entries), ListingInv(entries, listing),
         NEW e \in DOMAIN listing, NEW to, NEW created, NEW properties
  PROVE  LET f == Frame(listing, e, to, created, properties)
         IN  /\ f.source = e /\ f.target = to /\ f.properties = properties
             /\ f.documents \cup f.collections = listing[e]
             /\ \A m \in f.collections : /\ m \in listing[e] /\ entries[m].kind = "collection"
                                         /\ f.memberProperties[m] =
                                              Collected(props[entries[m].path])
<1>1. \A m \in listing[e] : entries[m].kind \in {"collection", "document"}
  BY EntryIs DEF ListingInv
<1> QED  BY <1>1 DEF Frame

\* It remembers what was there, where its target is found.
LEMMA FrameRemembers ==
  ASSUME FileSystemInv(entries), NEW j, ListingInv(entries, j.listing),
         NEW e \in DOMAIN j.listing, Intact(Now, j, entries[e].path),
         NEW es, Evolves(entries, es), NEW to, Seen(es, to), NEW created, NEW properties,
         WasCollected(j, entries[e].path, properties)
  PROVE  Remembers(es, j, Frame(j.listing, e, to, created, properties))
<1> DEFINE f == Frame(j.listing, e, to, created, properties)
           p == entries[e].path
<1>1. /\ f.source = e /\ f.target = to /\ f.properties = properties
      /\ \A m \in f.collections :
           /\ m \in j.listing[e] /\ entries[m].kind = "collection"
           /\ f.memberProperties[m] = Collected(props[entries[m].path])
  BY FrameOf
<1>2. e \in DOMAIN entries /\ p = entries[e].path
  BY DEF ListingInv, IsEntry
<1> HIDE DEF f, p
<1>3. WasCollected(j, es[f.source].path, f.properties)
  BY <1>1, <1>2 DEF Evolves
<1>4. ASSUME NEW m \in f.collections
      PROVE  WasCollected(j, es[m].path, f.memberProperties[m])
  <2> DEFINE q == entries[m].path
  <2>1. /\ m \in j.listing[e] /\ entries[m].kind = "collection"
        /\ f.memberProperties[m] = Collected(props[q])
    BY <1>1
  <2>2. m \in DOMAIN entries \ {1} /\ entries[m].parent = e
    BY <2>1 DEF ListingInv
  <2>3. q \in Path /\ q # Root /\ Above[q] = p
    BY <1>2, <2>2, EntryIs
  <2>4. es[m].path = q /\ q = entries[m].path
    BY <2>2 DEF Evolves
  <2> HIDE DEF q
  <2>5. Within(p, q)
    BY <2>3, AboveIsAncestor DEF Within
  <2>6. Intact(Now, j, p) /\ Listed(j, m)
    BY <1>2, <2>1 DEF Listed
  <2>7. View(entries, props, q) = j.before[q] /\ Select(entries, q).entry = m
    BY <2>3, <2>4, <2>5, <2>6 DEF Intact, Now
  <2>8. View(entries, props, q) = <<entries[m].kind, Content(entries[m]), props[q]>>
    BY <2>2, <2>3, <2>7, SeenView
  <2> QED  BY <2>1, <2>4, <2>7, <2>8 DEF Content, WasCollected
<1>5. Seen(es, f.target)
  BY <1>1
<1> QED  BY <1>3, <1>4, <1>5 DEF Remembers, f

\* Into a collection whose counterpart is found.
LEMMA EnterWalks ==
  ASSUME TransfersInv, NEW c \in Client, OnCourse(c), NEW e \in Top(c).collections,
         NEW gs, Leads(Now, gs),
         \A f \in Frames(work[c].stack) :
           Select(gs.entries, entries[f.target].path).entry = f.target,
         Underway(gs, JobOf(task[c], work[c]), Sources(work[c].stack), Pending(work[c].stack)),
         NEW to \in DOMAIN gs.entries, Seen(gs.entries, to), NEW created
  PROVE  LET top == Top(c)
             t == <<LessCollections(top, e)>> \o Tail(work[c].stack)
             f == Frame(work[c].listing, e, to, created, top.memberProperties[e])
         IN  Walks(gs, JobOf(task[c], work[c]), <<f>> \o t)
<1> DEFINE j == JobOf(task[c], work[c])
           stack == work[c].stack
           top == Top(c)
           less == LessCollections(top, e)
           t == <<less>> \o Tail(stack)
           f == Frame(work[c].listing, e, to, created, top.memberProperties[e])
           S == Sources(stack)
           P == Pending(stack)
           p == entries[e].path
<1>1. /\ FileSystemInv(entries) /\ task[c].pc \in TransferStage /\ AtWork(c)
      /\ task[c].path \in Path
  BY AtEngine DEF OnCourse, AtWork, TransferStage
<1>2. /\ IsJob(j) /\ ListingInv(entries, j.listing) /\ Sound(Now) /\ j.from = task[c].path
      /\ j.listing = work[c].listing
  BY <1>1, JobIs DEF OnCourse
<1>3. /\ e \in P /\ e \in DOMAIN entries \ {1} /\ e \in DOMAIN j.listing
      /\ entries[e].parent = top.source
  BY CourseMember
<1>4. /\ e \notin top.documents /\ top \in Frames(stack)
      /\ Len(entries[top.source].path) = Len(task[c].path) + Len(Tail(stack))
      /\ Len(Tail(stack)) \in Nat /\ IsSequence(stack)
  BY CourseIs
<1>5. /\ Underway(Now, j, S, P) /\ ListsAll(entries, j) /\ Remembers(entries, j, top)
      /\ Underway(gs, j, S, P)
  BY <1>4 DEF OnCourse, Walks, Now
<1>6. /\ f.source = e /\ f.target = to /\ f.properties = top.memberProperties[e]
      /\ f.documents \cup f.collections = j.listing[e]
      /\ \A m \in f.collections :
           /\ m \in j.listing[e] /\ entries[m].kind = "collection"
           /\ f.memberProperties[m] = Collected(props[entries[m].path])
  BY <1>1, <1>2, <1>3, FrameOf
<1>7. less = IF e \in top.documents THEN LessDocuments(top, e) ELSE LessCollections(top, e)
  BY <1>4
<1>8. p = entries[e].path
  OBVIOUS
<1> HIDE DEF j, less, f, p
<1>9. /\ IsSequence(t) /\ Len(t) = Len(Tail(stack)) + 1
      /\ Deepens(gs.entries, t, j.from)
      /\ \A h \in Frames(t) : Remembers(gs.entries, j, h)
      /\ Sources(t) = S /\ Pending(t) = P \ {e}
  BY <1>7, CourseLess DEF j
<1> HIDE DEF t, S, P, stack, top
<1>10. Sound(gs) /\ Evolves(entries, gs.entries) /\ FileSystemInv(gs.entries)
  BY DEF Leads, Now, Sound
<1>11. ListsAll(gs.entries, j) /\ ListingInv(gs.entries, j.listing)
  BY <1>2, <1>5, <1>10, ListsAllEvolves, ListingEvolves
<1>12. Underway(gs, j, S \cup {e}, (P \ {e}) \cup j.listing[e])
  BY <1>2, <1>3, <1>5, <1>10, <1>11, UnderwayEnters
<1>13. Frames(<<f>> \o t) = {f} \cup Frames(t)
  BY <1>9, FramesOf
<1>14. Sources(<<f>> \o t) = S \cup {e}
  BY <1>6, <1>9, <1>13 DEF Sources
<1>15. Pending(<<f>> \o t) = (P \ {e}) \cup j.listing[e]
  <2>1. Pending(<<f>> \o t) = (f.documents \cup f.collections) \cup Pending(t)
    BY <1>13 DEF Pending
  <2> QED  BY <1>6, <1>9, <2>1
<1>16. Deepens(gs.entries, <<f>> \o t, j.from)
  <2>1. /\ p \in Path /\ p # Root /\ Above[p] = entries[top.source].path
    BY <1>1, <1>3, <1>8, EntryIs
  <2>2. Len(p) = Len(j.from) + Len(t)
    <3>1. Len(p) \in Nat \ {0} /\ Len(Above[p]) = Len(p) - 1
      BY <2>1, AboveIs
    <3>2. Len(j.from) \in Nat
      BY <1>1, <1>2, PathIsSequence
    <3>3. Len(Above[p]) = Len(j.from) + Len(Tail(stack))
      BY <1>2, <1>4, <2>1
    <3> DEFINE k == Len(Tail(stack))
               l == Len(j.from)
               m == Len(p)
               n == Len(t)
    <3>4. k \in Nat /\ l \in Nat /\ m \in Nat /\ n = k + 1 /\ m - 1 = l + k
      BY <1>4, <1>9, <3>1, <3>2, <3>3
    <3> HIDE DEF k, l, m, n
    <3>5. m = l + n
      BY <3>4
    <3> QED  BY <3>5 DEF l, m, n
  <2>3. gs.entries[f.source].path = p
    BY <1>3, <1>6, <1>8, <1>10 DEF Evolves
  <2>4. Len(j.from) \in Nat
    BY <1>1, <1>2, PathIsSequence
  <2> QED  BY <1>9, <2>2, <2>3, <2>4, DeepensPush
<1>17. Remembers(gs.entries, j, f)
  <2>1. WasCollected(j, p, top.memberProperties[e])
    BY <1>5, <1>8 DEF Remembers, top
  <2>2. Intact(Now, j, p)
    BY <1>3, <1>5, <1>8 DEF Underway, Now
  <2>3. f = Frame(j.listing, e, to, created, top.memberProperties[e])
    BY <1>2 DEF f
  <2> QED  BY <1>1, <1>2, <1>3, <1>8, <1>10, <2>1, <2>2, <2>3, FrameRemembers
<1>18. \A h \in Frames(<<f>> \o t) : Remembers(gs.entries, j, h)
  BY <1>9, <1>13, <1>17
<1>19. Underway(gs, j, Sources(<<f>> \o t), Pending(<<f>> \o t))
  BY <1>12, <1>14, <1>15
<1>20. Walks(gs, j, <<f>> \o t)
  BY <1>11, <1>16, <1>18, <1>19 DEF Walks
<1> QED  BY <1>20 DEF t, f, j, less, top, stack

LEMMA EngineCollectionWalks ==
  ASSUME TransfersInv, NEW c \in Client, OnCourse(c), NEW e, EngineCollection(c, e), EngineStep(c),
         task'[c].pc = "engine", Successes(work'[c].results)
  PROVE  Walks(Now', JobOf(task'[c], work'[c]), work'[c].stack)
<1> DEFINE top  == Top(c)
           stack == work[c].stack
           less == LessCollections(top, e)
           rest == <<less>> \o Tail(stack)
           a    == PathIn(top.target, e)
           target == TargetOf(top, e)
           frame(at, created) == Frame(work[c].listing, e, at, created, top.memberProperties[e])
           Enter(at, created) == Works(c, OnStack(work[c], <<frame(at, created)>> \o rest))
           results == work[c].results \cup Result("OverwriteFailed", Level(c) + 1)
           j == JobOf(task[c], work[c])
           S == Sources(stack)
           P == Pending(stack)
<1>1. /\ AtWork(c) /\ e \in top.collections
      /\ \/ Works(c, WithStack(work[c], rest, results))
         \/ /\ target # 0 /\ Enter(target, FALSE) /\ UNCHANGED <<entries, props>>
         \/ /\ CanCreate(entries, a, top.target)
            /\ entries' = Create(entries, "collection", a, top.target, "empty")
            /\ Enter(Len(entries) + 1, TRUE) /\ UNCHANGED props
         \/ Throw(c)
  BY DEF EngineCollection, WithStack, OnStack, LessCollections
<1>2. /\ IsWork(work[c]) /\ c \in DOMAIN work /\ Sound(Now) /\ FileSystemInv(entries)
      /\ task[c].pc \in TransferStage /\ task[c].pc = "engine"
  BY <1>1, AtEngine DEF TransfersInv, RequestsInv, StateInv, AtWork, TransferStage
<1>3. /\ e \in P /\ e \in DOMAIN entries
      /\ a = ImageIn(j, entries[e].path) /\ a \in Path
      /\ <<entries[top.target].path, a>> \in Ancestor
      /\ IsPlace(entries, a, top.target) /\ Select(entries, Above[a]).entry = top.target
      /\ target \in DOMAIN entries \cup {0}
      /\ target # 0 => entries[target].path = a /\ Select(entries, a).entry = target
  BY <1>1, CourseMember
<1>4. /\ IsJob(j) /\ ListingInv(entries, j.listing)
  BY <1>2, JobIs DEF OnCourse
<1>5. Underway(Now, j, S, P)
  BY DEF OnCourse, Walks, Now
<1>6. JobOf(task'[c], work'[c]) = j
  BY <1>2, SameJob
<1>7. \A f \in Frames(stack) : /\ entries[f.target].path \in Path
                               /\ Select(entries, entries[f.target].path).entry = f.target
                               /\ ~ Within(a, entries[f.target].path)
  BY <1>3, TargetsAway
<1>8. ~ Throw(c)
  <2> SUFFICES ASSUME Throw(c)  PROVE FALSE
    OBVIOUS
  <2>1. /\ RequestsInv /\ GoTo(c, "dispose destination") /\ "dispose destination" \in Stage
    BY DEF TransfersInv, Throw, Stage
  <2>2. task'[c].pc = "dispose destination"
    BY <2>1, StageOf
  <2> QED  BY <2>2
<1>9. ~ Works(c, WithStack(work[c], rest, results))
  <2> SUFFICES ASSUME Works(c, WithStack(work[c], rest, results))  PROVE FALSE
    OBVIOUS
  <2> DEFINE w == WithStack(work[c], rest, results)
             status == "OverwriteFailed"
  <2>1. results = work[c].results \cup Result(status, Level(c) + 1)
    OBVIOUS
  <2> HIDE DEF rest, results, status
  <2>2. w.results = results
    BY <1>2, ResultsAre
  <2>3. work'[c] = w
    BY <1>2 DEF Works
  <2>4. status \in {"Created", "Overwritten"}
    BY <2>1, <2>2, <2>3, ItSucceeded
  <2> QED  BY <2>4 DEF status
<1>10. ASSUME NEW gs, Leads(Now, gs), Becomes(gs),
              \A f \in Frames(stack) :
                Select(gs.entries, entries[f.target].path).entry = f.target,
              Underway(gs, j, S, P), NEW at \in DOMAIN gs.entries, Seen(gs.entries, at),
              NEW created, Enter(at, created)
       PROVE  Walks(Now', JobOf(task'[c], work'[c]), work'[c].stack)
  <2> DEFINE t == <<frame(at, created)>> \o rest
             w == OnStack(work[c], t)
  <2>1. work'[c] = w
    BY <1>2, <1>10 DEF Works
  <2>2. Walks(gs, j, t)
    BY <1>1, <1>10, EnterWalks
  <2>3. Now' = gs
    BY <1>10, BecomesNow DEF Leads
  <2> HIDE DEF t
  <2>4. w.stack = t
    BY <1>2, OnStackIs
  <2> HIDE DEF w, j
  <2> QED  BY <1>6, <2>1, <2>2, <2>3, <2>4
<1>11. CASE target # 0 /\ Enter(target, FALSE) /\ UNCHANGED <<entries, props>>
  <2>1. Becomes(Now) /\ Leads(Now, Now)
    BY <1>2, <1>11, ItselfLeads DEF Becomes, Now
  <2>2. target \in DOMAIN entries /\ Seen(entries, target)
    BY <1>3, <1>11 DEF Seen
  <2>3. Enter(target, FALSE)
    BY <1>11
  <2>4. Now.entries = entries
    BY DEF Now
  <2> DEFINE now == Now
  <2> HIDE DEF Enter, target, a, top, j, S, P, stack, now
  <2>5. Walks(Now', JobOf(task'[c], work'[c]), work'[c].stack)
    BY <1>5, <1>7, <1>10, <2>1, <2>2, <2>3, <2>4
  <2> QED  BY <2>5
<1>12. CASE /\ CanCreate(entries, a, top.target)
            /\ entries' = Create(entries, "collection", a, top.target, "empty")
            /\ Enter(Len(entries) + 1, TRUE) /\ UNCHANGED props
  <2> DEFINE at == Len(entries) + 1
             gs == [entries |-> Create(entries, "collection", a, top.target, "empty"),
                    props |-> props]
             es == gs.entries
  <2>1. "empty" \in Data /\ "collection" \in {"collection", "document"}
    BY DEF Data
  <2>2. /\ Enter(at, TRUE) /\ Becomes(gs) /\ CanCreate(entries, a, top.target)
        /\ at = Len(entries) + 1
        /\ es = Create(entries, "collection", a, top.target, "empty")
        /\ gs = [entries |-> Create(Now.entries, "collection", a, top.target, "empty"),
                 props |-> Now.props]
        /\ gs.props = props
    BY <1>12 DEF Becomes, Now
  <2>3. Now.entries = entries /\ Now.props = props
    BY DEF Now
  <2> HIDE DEF Enter, target, a, top, j, S, P, stack, gs, at
  <2>4. Leads(Now, gs) /\ Underway(gs, j, S, P)
    BY <1>2, <1>3, <1>4, <1>5, <2>1, <2>2, <2>3, CollectionMade
  <2>5. Select(es, a).entry = at
    BY <1>2, <1>3, <2>1, <2>2, CreatedIsSeen
  <2>6. Grown(entries, es, "collection", a, top.target, "empty")
    BY <1>2, <1>3, <2>1, <2>2, CreateLeads
  <2>7. at \in DOMAIN es /\ es[at] = NewEntry("collection", a, top.target, "empty")
    BY <2>6 DEF Grown, at
  <2>8. es[at].path = a
    BY <2>7 DEF NewEntry
  <2>9. Seen(es, at)
    BY <2>5, <2>8 DEF Seen
  <2>10. ASSUME NEW f \in Frames(stack)
         PROVE  Select(es, entries[f.target].path).entry = f.target
    <3> DEFINE p == entries[f.target].path
    <3>1. p \in Path /\ p # a /\ Select(entries, p).entry = f.target
      BY <1>7 DEF Within
    <3> HIDE DEF p
    <3>2. LooksAlike(entries, props, es, gs.props, p)
      BY <1>2, <1>3, <2>1, <2>2, <3>1, CreateElsewhere
    <3> QED  BY <3>1, <3>2 DEF LooksAlike, p
  <2>11. Walks(Now', JobOf(task'[c], work'[c]), work'[c].stack)
    BY <1>10, <2>2, <2>4, <2>7, <2>9, <2>10
  <2> QED  BY <2>11
<1> HIDE DEF Enter, rest, results, target, a, top
<1> QED  BY <1>1, <1>8, <1>9, <1>11, <1>12

LEMMA RootAboveAll ==
  ASSUME NEW q \in Path
  PROVE  Within(Root, q)
<1> DEFINE bad == {r \in Path : ~ Within(Root, r)}
<1> SUFFICES ASSUME bad # {}  PROVE FALSE
  OBVIOUS
<1>1. PICK r \in bad : \A s \in bad : <<s, r>> \notin Ancestor
  BY Topmost
<1>2. r \in Path /\ r # Root /\ ~ Within(Root, r)
  BY <1>1 DEF Within
<1>3. Above[r] \in Path /\ <<Above[r], r>> \in Ancestor
  BY <1>2, AboveIsAncestor
<1>4. Within(Root, Above[r])
  BY <1>1, <1>3
<1> QED  BY <1>2, <1>4, RequestsAssumption DEF Within

\* Of a path there is one for each length.
LEMMA WithinAndAsLong ==
  ASSUME NEW p \in Path, NEW q \in Path, Within(p, q), Len(q) = Len(p)
  PROVE  p = q
<1> SUFFICES ASSUME p # q  PROVE FALSE
  OBVIOUS
<1>1. <<p, q>> \in Ancestor /\ q # Root
  BY RequestsAssumption DEF Within
<1>2. Above[q] \in Path /\ Within(p, Above[q])
  BY <1>1, RequestsAssumption DEF Within
<1>3. Len(Above[q]) = Len(q) - 1 /\ Len(q) \in Nat
  BY <1>1, AboveIs
<1>4. Len(p) <= Len(Above[q])
  BY <1>2, WithinIsLonger
<1> QED  BY <1>3, <1>4

\* The collection the engine is at: what is left elsewhere is not below it.
LEMMA TopIsApart ==
  ASSUME TransfersInv, NEW c \in Client, OnCourse(c)
  PROVE  LET top == Top(c)
             rest == Tail(work[c].stack)
             s == entries[top.source].path
         IN  /\ top.source # 1 /\ s \in Path /\ Within(task[c].path, s)
             /\ \A t \in Sources(rest) : ~ Within(s, entries[t].path)
             /\ \A p \in Pending(rest) : ~ Within(s, entries[p].path)
<1> DEFINE top == Top(c)
           stack == work[c].stack
           rest == Tail(stack)
           s == entries[top.source].path
           j == JobOf(task[c], work[c])
<1>1. /\ FileSystemInv(entries) /\ task[c].pc \in TransferStage
      /\ task[c].path \in Path /\ work[c].destination \in Path
  BY AtEngine DEF OnCourse, AtWork, TransferStage
<1>2. /\ Frames(stack) = {top} \cup Frames(rest)
      /\ \A f \in Frames(stack) :
           /\ FrameInv(entries, f, work[c].listing, task[c].path, work[c].destination)
           /\ f.source \in DOMAIN entries
           /\ \A m \in f.documents \cup f.collections :
                m \in DOMAIN entries \ {1} /\ entries[m].parent = f.source
      /\ \A f \in Frames(rest) : ~ Within(s, entries[f.source].path)
      /\ Sources(stack) = {top.source} \cup Sources(rest)
      /\ Pending(rest) \subseteq Pending(stack)
  BY CourseIs
<1>3. Underway(Now, j, Sources(stack), Pending(stack))
  BY DEF OnCourse, Walks
<1> HIDE DEF top, rest, j, stack
<1>4. s \in Path /\ Within(task[c].path, s)
  BY <1>1, <1>2, EntryIs DEF FrameInv
<1>5. top.source # 1
  <2> SUFFICES ASSUME top.source = 1  PROVE FALSE
    OBVIOUS
  <2>1. s = Root
    BY <1>1 DEF FileSystemInv
  <2>2. task[c].path = Root
    BY <1>1, <1>4, <2>1, RequestsAssumption DEF Within
  <2> QED  BY <1>1, <2>2, RootAboveAll DEF OnCourse, Far
<1>6. \A t \in Sources(rest) : ~ Within(s, entries[t].path)
  BY <1>2 DEF Sources
<1>7. ASSUME NEW p \in Pending(rest), Within(s, entries[p].path)
      PROVE  FALSE
  <2> DEFINE q == entries[p].path
  <2>1. PICK f \in Frames(rest) : p \in f.documents \cup f.collections
    BY DEF Pending
  <2>2. p \in DOMAIN entries \ {1} /\ entries[p].parent = f.source
    BY <1>2, <2>1
  <2>3. q \in Path /\ q # Root /\ Above[q] = entries[f.source].path
    BY <1>1, <2>2, EntryIs
  <2>4. ~ Within(s, Above[q])
    BY <1>2, <2>3
  <2>5. s # q
    <3>1. ~ Within(q, s)
      BY <1>2, <1>3 DEF Underway, Now
    <3> QED  BY <3>1 DEF Within
  <2> HIDE DEF q
  <2>6. <<s, q>> \in Ancestor
    BY <1>7, <2>5 DEF Within, q
  <2>7. s = Above[q] \/ <<s, Above[q]>> \in Ancestor
    BY <1>4, <2>3, <2>6, RequestsAssumption
  <2> QED  BY <2>4, <2>7 DEF Within
<1> QED  BY <1>4, <1>5, <1>6, <1>7 DEF top, rest, stack

LEMMA EngineFinishWalks ==
  ASSUME TransfersInv, NEW c \in Client, OnCourse(c), EngineFinish(c), EngineStep(c)
  PROVE  LET j == JobOf(task'[c], work'[c])
         IN  /\ Walks(Now', j, work'[c].stack)
             /\ task'[c].pc = "dispose destination" => HasBrought(Now', j, Moves(c))
<1> DEFINE top   == Top(c)
           stack == work[c].stack
           rest  == Tail(stack)
           e     == top.source
           n     == top.target
           s     == entries[e].path
           j     == JobOf(task[c], work[c])
           kept  == ReadOf(Now, s, top.properties)
           hs    == SetProperties(Now, entries[n].path, kept)
           gs    == IF Moves(c) /\ top.source # 1 THEN TakeAway(hs, e) ELSE hs
           S     == Sources(stack)
           P     == Pending(stack)
<1>1. /\ AtWork(c) /\ Becomes(gs) /\ \E results : Works(c, WithStack(work[c], rest, results))
      /\ top.documents = {} /\ top.collections = {}
      /\ Len(stack) - 1 = 0 \/ UNCHANGED task
  BY DEF EngineFinish, WithStack, Level
<1>2. /\ IsWork(work[c]) /\ c \in DOMAIN work /\ Sound(Now) /\ FileSystemInv(entries)
      /\ task[c].pc \in TransferStage /\ task[c].pc = "engine" /\ task[c].path \in Path
  BY <1>1, AtEngine DEF TransfersInv, AtWork, TransferStage
<1>3. work'[c].stack = rest
  <2> PICK results : Works(c, WithStack(work[c], rest, results))
    BY <1>1
  <2> DEFINE w == WithStack(work[c], rest, results)
  <2> HIDE DEF rest
  <2>1. w.stack = rest
    BY <1>2, AimWith
  <2>2. work'[c] = w
    BY <1>2 DEF Works
  <2> QED  BY <2>1, <2>2
<1>4. /\ IsJob(j) /\ ListingInv(entries, j.listing) /\ j.from = task[c].path
      /\ j.to = work[c].destination
  BY <1>2, JobIs DEF OnCourse
<1>5. JobOf(task'[c], work'[c]) = j
  BY <1>2, SameJob
<1>6. /\ e # 1 /\ s \in Path /\ Within(j.from, s)
      /\ \A t \in Sources(rest) : ~ Within(s, entries[t].path)
      /\ \A p \in Pending(rest) : ~ Within(s, entries[p].path)
  BY <1>4, TopIsApart
<1>7. /\ IsSequence(stack) /\ stack # <<>> /\ IsSequence(rest)
      /\ Frames(stack) = {top} \cup Frames(rest)
      /\ \A f \in Frames(stack) :
           /\ FrameInv(entries, f, work[c].listing, task[c].path, work[c].destination)
           /\ f.source \in DOMAIN entries /\ f.target \in DOMAIN entries
           /\ f.collections \subseteq DOMAIN entries
      /\ S = {e} \cup Sources(rest) /\ e \notin Sources(rest)
      /\ P = (top.documents \cup top.collections) \cup Pending(rest)
      /\ Len(s) = Len(task[c].path) + Len(rest)
      /\ Deepens(entries, rest, task[c].path)
  BY CourseIs
<1>8. /\ Underway(Now, j, S, P) /\ ListsAll(entries, j)
      /\ \A f \in Frames(stack) : Remembers(entries, j, f)
  BY DEF OnCourse, Walks, Now
<1>9. gs = IF Moves(c) THEN TakeAway(hs, e) ELSE hs
  BY <1>6
<1>10. s = entries[e].path /\ hs = SetProperties(Now, entries[n].path, kept)
       /\ Now.entries = entries /\ Now.props = props
       /\ kept = ReadOf(Now, s, top.properties)
  BY DEF Now
<1> HIDE DEF gs, hs, kept, j, s, S, P, stack, rest, e, n, top
<1>11. P = Pending(rest) /\ S \ {e} = Sources(rest) /\ e \in S
  BY <1>1, <1>7
<1>o. /\ WasCollected(j, s, top.properties)
      /\ n \in DOMAIN entries /\ Seen(entries, n) /\ entries[n].kind = "collection"
      /\ entries[n].path = ImageIn(j, s)
  <2>1. top \in Frames(stack)
    BY <1>7
  <2> QED  BY <1>4, <1>7, <1>8, <1>10, <2>1 DEF Remembers, FrameInv, IsEntry, ImageIn, e, n
<1>12. /\ j.before[s] = <<"collection", "empty", kept>>
       /\ n \in DOMAIN entries /\ Seen(entries, n) /\ entries[n].kind = "collection"
       /\ entries[n].path = ImageIn(j, s)
  <2>1. e \in DOMAIN entries /\ Seen(entries, e) /\ AsBefore(Now, j, e)
    BY <1>8, <1>10, <1>11 DEF Underway
  <2>2. View(entries, props, s) = <<entries[e].kind, Content(entries[e]), props[s]>>
    BY <1>2, <1>6, <1>10, <2>1, SeenView DEF Seen
  <2>3. View(entries, props, s) = j.before[s]
    BY <1>10, <2>1 DEF AsBefore
  <2>4. props[s] = j.before[s][3]
    BY <2>2, <2>3
  <2> DEFINE fs == Now
             v == j.before[s][3]
  <2>5. fs.props[s] = v /\ kept = ReadOf(fs, s, top.properties)
    BY <1>10, <2>4
  <2>6. top.properties = Collected(v) /\ j.before[s] = <<"collection", "empty", v>>
    BY <1>o DEF WasCollected
  <2> HIDE DEF fs, v
  <2>7. kept = v
    BY <2>5, <2>6, ReadIs
  <2> QED  BY <1>o, <2>6, <2>7
<1>13. /\ Leads(Now, gs) /\ Underway(gs, j, Sources(rest), Pending(rest))
       /\ Moves(c) => Gone(gs, s)
  <2> DEFINE fs == Now
             moves == Moves(c)
             Q == Pending(rest)
  <2>1. /\ Sound(fs) /\ ListingInv(fs.entries, j.listing) /\ Underway(fs, j, S, Q)
        /\ e \in S /\ s = fs.entries[e].path
        /\ \A t \in S \ {e} : ~ Within(s, fs.entries[t].path)
        /\ \A p \in Q : ~ Within(s, fs.entries[p].path)
    BY <1>2, <1>4, <1>6, <1>8, <1>10, <1>11
  <2>2. /\ n \in DOMAIN fs.entries /\ Seen(fs.entries, n) /\ fs.entries[n].kind = "collection"
        /\ fs.entries[n].path = ImageIn(j, s)
        /\ hs = SetProperties(fs, fs.entries[n].path, kept)
        /\ gs = IF moves THEN TakeAway(hs, e) ELSE hs
    BY <1>9, <1>10, <1>12
  <2> HIDE DEF fs, moves, Q
  <2>3. Leads(fs, gs) /\ Underway(gs, j, S \ {e}, Q) /\ (moves => Gone(gs, s))
    BY <1>4, <1>6, <1>12, <2>1, <2>2, CollectionBrought
  <2> QED  BY <1>11, <2>3 DEF fs, moves, Q
<1>14. Sound(gs) /\ Evolves(entries, gs.entries) /\ Now' = gs
  BY <1>1, <1>10, <1>13, BecomesNow DEF Leads
<1>15. ASSUME NEW f \in Frames(rest)
       PROVE  Remembers(gs.entries, j, f)
  <2> DEFINE p == entries[f.target].path
  <2>1. f \in Frames(stack)
    BY <1>7
  <2>2. p \in Path /\ Select(entries, p).entry = f.target /\ ~ Within(s, p)
    BY <1>6, <2>1, TargetsAway DEF stack, j
  <2> HIDE DEF p
  <2>3. Leads(Now, hs) /\ hs.entries = entries
    BY <1>2, <1>10, SetPropertiesLeads
  <2>4. Select(gs.entries, p).entry = Select(hs.entries, p).entry
    <3>1. e \in DOMAIN hs.entries /\ hs.entries[e].path = s /\ Sound(hs)
      BY <1>7, <1>10, <2>3 DEF Leads, e
    <3>2. CASE Moves(c)
      <4>1. SeenAlike(hs, TakeAway(hs, e), p)
        BY <1>6, <2>2, <3>1, TakeAwayElsewhere
      <4> QED  BY <1>9, <3>2, <4>1 DEF SeenAlike, LooksAlike
    <3>3. CASE ~ Moves(c)
      BY <1>9, <3>3
    <3> QED  BY <3>2, <3>3
  <2>5. /\ f.source \in DOMAIN entries /\ f.target \in DOMAIN entries
        /\ f.collections \subseteq DOMAIN entries /\ Remembers(entries, j, f)
    BY <1>7, <1>8, <2>1
  <2>6. Select(gs.entries, entries[f.target].path).entry =
          Select(entries, entries[f.target].path).entry
    BY <2>3, <2>4 DEF p
  <2> QED  BY <1>14, <2>5, <2>6, RemembersEvolves
<1>16. Walks(gs, j, rest)
  <2>1. Deepens(gs.entries, rest, j.from)
    BY <1>4, <1>7, <1>14, DeepensEvolves
  <2>2. ListsAll(gs.entries, j)
    BY <1>4, <1>8, <1>14, ListsAllEvolves
  <2> QED  BY <1>13, <1>15, <2>1, <2>2 DEF Walks
<1>17. ASSUME task'[c].pc = "dispose destination"
       PROVE  HasBrought(gs, j, Moves(c))
  <2>1. Len(stack) - 1 = 0
    BY <1>1, <1>2, <1>17
  <2>2. Len(rest) = 0
    BY <1>7, <2>1, PopIs DEF rest
  <2>3. Frames(rest) = {}
    BY <2>2 DEF Frames
  <2>4. Sources(rest) = {} /\ Pending(rest) = {}
    BY <2>3 DEF Sources, Pending
  <2>5. \A q : Wanted(j, q) => Brought(gs, j, q)
    BY <1>13, <2>4 DEF Underway
  <2>6. s = j.from
    <3>1. Len(j.from) \in Nat
      BY <1>2, <1>4, PathIsSequence
    <3>2. Len(s) = Len(j.from)
      BY <1>4, <1>7, <2>2, <3>1
    <3> QED  BY <1>2, <1>4, <1>6, <3>2, WithinAndAsLong
  <2> QED  BY <1>13, <2>5, <2>6 DEF HasBrought
<1> QED  BY <1>3, <1>5, <1>14, <1>16, <1>17

\* A copy leaves its source alone.
LEMMA EngineLeavesSource ==
  ASSUME TransfersInv, NEW c \in Client, Engine(c), FlatListing(task[c], work[c]),
         task[c].pc \in {"start", "engine"}, Far(task[c], work[c]), task[c].method = "COPY",
         NEW q \in Path, Within(task[c].path, q)
  PROVE  View(Now'.entries, Now'.props, q) = View(entries, props, q)
<1>1. task[c].path \in Path /\ work[c].destination \in Path /\ ~ Moves(c)
  BY AtTransfer DEF TransferStage, Moves
<1>2. ~ Within(work[c].destination, q)
  BY <1>1, Comparable DEF Far
<1>3. LeavesAlone(c, q)
  BY <1>1, <1>2 DEF LeavesAlone, Within
<1>4. ~ Changes(q)
  BY <1>3, EngineElsewhere
<1> QED  BY <1>4 DEF Changes, Now

\* What becomes of the results, and when the engine stops.
LEMMA EngineResults ==
  ASSUME TransfersInv, NEW c \in Client, NEW e,
         EngineDocument(c, e) \/ EngineCollection(c, e) \/ EngineFinish(c)
  PROVE  /\ task[c].pc = "engine"
         /\ \/ work[c].results \subseteq work'[c].results
            \/ work'[c].results = {} /\ task'[c].pc = "dispose destination"
         /\ task'[c].pc = "dispose destination" => EngineFinish(c) \/ work'[c].results = {}
<1>1. AtWork(c) /\ task[c].pc = "engine"
  BY DEF EngineDocument, EngineCollection, EngineFinish, AtWork
<1>2. /\ IsWork(work[c]) /\ c \in DOMAIN work /\ RequestsInv
  BY <1>1, AtEngine DEF TransfersInv
<1>3. ASSUME NEW stack, NEW more, Works(c, WithStack(work[c], stack, work[c].results \cup more))
      PROVE  work[c].results \subseteq work'[c].results
  <2> DEFINE results == work[c].results \cup more
             w == WithStack(work[c], stack, results)
  <2>1. work'[c] = w /\ work[c].results \subseteq results
    BY <1>2, <1>3 DEF Works
  <2> HIDE DEF results
  <2>2. w.results = results
    BY <1>2, ResultsAre
  <2> QED  BY <2>1, <2>2
<1>4. ASSUME NEW stack, Works(c, OnStack(work[c], stack))
      PROVE  work[c].results \subseteq work'[c].results
  <2> DEFINE w == OnStack(work[c], stack)
  <2>1. w.results = work[c].results
    BY <1>2, ResultsAre
  <2>2. work'[c] = w
    BY <1>2, <1>4 DEF Works
  <2> QED  BY <2>1, <2>2
<1>5. ASSUME Throw(c)
      PROVE  work'[c].results = {} /\ task'[c].pc = "dispose destination"
  <2> DEFINE w == WithStack(work[c], <<>>, {})
  <2>1. w.results = {}
    BY <1>2, ResultsAre
  <2>2. work'[c] = w
    BY <1>2, <1>5 DEF Works, Throw, WithStack
  <2>3. GoTo(c, "dispose destination") /\ "dispose destination" \in Stage
    BY <1>5 DEF Throw, Stage
  <2> QED  BY <1>2, <2>1, <2>2, <2>3, StageOf
<1>6. CASE EngineDocument(c, e)
  <2>1. /\ UNCHANGED task
        /\ \E stack, more : Works(c, WithStack(work[c], stack, work[c].results \cup more))
    BY <1>6 DEF EngineDocument, WithStack
  <2> QED  BY <1>1, <1>3, <2>1
<1>7. CASE EngineCollection(c, e)
  <2>1. \/ Throw(c)
        \/ /\ UNCHANGED task
           /\ \/ \E stack, more : Works(c, WithStack(work[c], stack, work[c].results \cup more))
              \/ \E stack : Works(c, OnStack(work[c], stack))
    BY <1>7 DEF EngineCollection, WithStack, OnStack
  <2> QED  BY <1>1, <1>3, <1>4, <1>5, <2>1
<1>8. CASE EngineFinish(c)
  <2>1. \E stack, more : Works(c, WithStack(work[c], stack, work[c].results \cup more))
    BY <1>8 DEF EngineFinish, WithStack
  <2> QED  BY <1>1, <1>3, <1>8, <2>1
<1> QED  BY <1>6, <1>7, <1>8

\* A step of the engine on its way goes on with it.
LEMMA EngineCompletes ==
  ASSUME TransfersInv, NEW c \in Client, NEW e, Engine(c), EngineStep(c),
         EngineDocument(c, e) \/ EngineCollection(c, e) \/ EngineFinish(c),
         Nested(entries, work[c].stack), FlatListing(task[c], work[c]),
         Completes(Now, task[c], work[c])
  PROVE  Completes(Now', task'[c], work'[c])
<1> DEFINE r == task[c]
           s == task'[c]
           w == work[c]
           v == work'[c]
           j == JobOf(r, w)
           k == JobOf(s, v)
<1>1. /\ r.pc = "engine" /\ s.pc \in {"engine", "dispose destination"}
      /\ k = j /\ (Far(s, v) <=> Far(r, w)) /\ s.method = r.method
  BY EngineResults, SameJob DEF EngineStep, Onward
<1>2. /\ w.results \subseteq v.results \/ (v.results = {} /\ s.pc = "dispose destination")
      /\ s.pc = "dispose destination" => EngineFinish(c) \/ v.results = {}
  BY EngineResults
<1>3. ASSUME Far(r, w), Successes(w.results)
      PROVE  OnCourse(c)
  BY <1>1, <1>3 DEF OnCourse, AtWork, Completes
<1>4. ASSUME s.pc = "engine", Far(s, v), Successes(v.results)
      PROVE  Walks(Now', k, v.stack)
  <2>1. Successes(w.results)
    BY <1>2, <1>4 DEF Successes
  <2>2. OnCourse(c)
    BY <1>1, <1>3, <1>4, <2>1
  <2> QED  BY <1>4, <2>2, EngineDocumentWalks, EngineCollectionWalks, EngineFinishWalks
<1>5. ASSUME Far(s, v), s.method = "COPY"
      PROVE  LeavesSource(Now', k)
  <2>1. LeavesSource(Now, j) /\ j.from = r.path
    BY <1>1, <1>5 DEF Completes, JobOf
  <2> SUFFICES ASSUME NEW q \in Path, Within(j.from, q)
               PROVE  View(Now'.entries, Now'.props, q) = j.before[q]
    BY <1>1 DEF LeavesSource
  <2>2. View(Now'.entries, Now'.props, q) = View(entries, props, q)
    BY <1>1, <1>5, <2>1, EngineLeavesSource
  <2>3. View(entries, props, q) = j.before[q]
    BY <2>1 DEF LeavesSource, Now
  <2> QED  BY <2>2, <2>3
<1>6. ASSUME s.pc = "dispose destination", Far(s, v), Successes(v.results), v.results # {}
      PROVE  HasBrought(Now', k, s.method = "MOVE")
  <2>1. EngineFinish(c) /\ Successes(w.results)
    BY <1>2, <1>6 DEF Successes
  <2>2. OnCourse(c)
    BY <1>1, <1>3, <1>6, <2>1
  <2>3. HasBrought(Now', k, Moves(c))
    BY <1>6, <2>1, <2>2, EngineFinishWalks
  <2> QED  BY <1>1, <2>3 DEF Moves
<1> HIDE DEF r, s, w, v, j, k
<1>7. Completes(Now', s, v)
  BY <1>1, <1>4, <1>5, <1>6 DEF Completes, k
<1> QED  BY <1>7 DEF s, v

-----------------------------------------------------------------------------
(* The engine starts.                                                       *)

JobWith(r, w, listing) == [from |-> r.path, to |-> w.destination, depth |-> w.depth,
                           before |-> w.before, listing |-> listing, lost |-> LostBy(r, w)]

\* A transfer that was alone still finds its source, which is still to come.
LEMMA SourceAtStart ==
  ASSUME TransfersInv, NEW c \in Client, task[c].pc = "start", Keeps(Now, task[c], work[c]),
         Completes(Now, task[c], work[c]), Far(task[c], work[c]), NEW listing,
         \/ listing = <<>>
         \/ /\ entries[task[c].found.entry].kind = "collection"
            /\ listing = Listing(entries, task[c].found.entry, work[c].depth)
  PROVE  LET j == JobWith(task[c], work[c], listing)
             e == task[c].found.entry
         IN  /\ IsJob(j) /\ ListingInv(entries, j.listing)
             /\ j.from = task[c].path /\ j.to = work[c].destination
             /\ j.before = work[c].before /\ j.listing = listing
             /\ Moves(c) /\ ~ work[c].inside => j.lost = Late
             /\ e \in DOMAIN entries \ {1} /\ entries[e].path = j.from /\ Seen(entries, e)
             /\ ImageIn(j, j.from) = j.to
             /\ \A q \in Path : j.before[q] = View(entries, props, q)
             /\ Underway(Now, j, {}, {e}) /\ Intact(Now, j, j.from) /\ ListsAll(entries, j)
<1> DEFINE j == JobWith(task[c], work[c], listing)
           e == task[c].found.entry
<1>1. /\ task[c].path \in Path /\ work[c].destination \in Path /\ work[c].depth \in Nat
      /\ \A q \in Path : Within(task[c].path, q)
                           => Moved(q, task[c].path, work[c].destination) \in Path
      /\ FileSystemInv(entries) /\ Sound(Now)
  BY AtTransfer, AtStart DEF TransferStage
<1>2. /\ j.from = task[c].path /\ j.to = work[c].destination
      /\ j.depth = work[c].depth /\ j.before = work[c].before /\ j.listing = listing
      /\ Moves(c) /\ ~ work[c].inside => j.lost = Late
  BY DEF JobWith, LostBy, Moves
<1>3. /\ e \in DOMAIN entries /\ entries[e].path = task[c].path
  BY <1>1, AtStart
<1>4. task[c].found = Select(entries, task[c].path)
  BY DEF Completes, Now
<1>5. \A q \in Path : work[c].before[q] = View(entries, props, q)
  BY AloneAtStart
<1>6. Seen(entries, e)
  BY <1>3, <1>4 DEF Seen
<1>7. e # 1
  <2> SUFFICES ASSUME e = 1  PROVE FALSE
    OBVIOUS
  <2>1. task[c].path = Root
    BY <1>1, <1>3 DEF FileSystemInv
  <2> QED  BY <1>1, <2>1, RootAboveAll DEF Far
<1> HIDE DEF j, e
<1>8. IsJob(j)
  BY <1>1, <1>2 DEF IsJob, Far
<1>9. ImageIn(j, j.from) = j.to
  BY <1>1, <1>2, MovedTop DEF ImageIn
<1>10. \/ j.listing = <<>>
       \/ IsEntry(entries, e, "collection") /\ j.listing = Listing(entries, e, j.depth)
  BY <1>2, <1>3 DEF IsEntry, e
<1>11. ListingInv(entries, j.listing)
  <2>1. CASE j.listing = <<>>
    BY <2>1, NoWorkIs
  <2>2. CASE IsEntry(entries, e, "collection") /\ j.listing = Listing(entries, e, j.depth)
    BY <1>1, <1>2, <2>2, ListingInOrder
  <2> QED  BY <1>10, <2>1, <2>2
<1>12. Underway(Now, j, {}, {e}) /\ ListsAll(entries, j)
  <2> DEFINE fs == Now
  <2>1. fs.entries = entries /\ fs.props = props /\ Sound(fs)
    BY <1>1 DEF Now
  <2> HIDE DEF fs
  <2>2. Underway(fs, j, {}, {e}) /\ ListsAll(fs.entries, j)
    BY <1>2, <1>3, <1>5, <1>6, <1>8, <1>10, <2>1, StillToCome
  <2> QED  BY <2>1, <2>2 DEF fs
<1>13. Intact(Now, j, j.from)
  BY <1>2, <1>3, <1>12 DEF Underway, Now
<1> QED  BY <1>2, <1>3, <1>5, <1>6, <1>7, <1>8, <1>9, <1>11, <1>12, <1>13 DEF j, e

\* The first step is about the same as before, and leaves the source of a copy.
LEMMA StartKeepsAim ==
  ASSUME TransfersInv, NEW c \in Client, Engine(c), EngineStep(c), task[c].pc = "start",
         FlatListing(task[c], work[c]), Keeps(Now, task[c], work[c])
  PROVE  LET s == task'[c]
             v == work'[c]
             k == JobOf(s, v)
         IN  /\ s.path = task[c].path /\ s.method = task[c].method
             /\ k = JobWith(task[c], work[c], v.listing)
             /\ Far(s, v) <=> Far(task[c], work[c])
             /\ Far(s, v) /\ s.method = "COPY" => LeavesSource(Now', k)
<1> DEFINE s == task'[c]
           v == work'[c]
           k == JobOf(s, v)
<1>1. s.path = task[c].path /\ s.method = task[c].method /\ SameAim(work[c], v)
  BY DEF EngineStep, Onward
<1>2. /\ k = JobWith(task[c], work[c], v.listing) /\ (Far(s, v) <=> Far(task[c], work[c]))
      /\ k.from = task[c].path /\ k.before = work[c].before
  BY <1>1 DEF JobOf, JobWith, LostBy, SameAim, Far
<1>3. ASSUME Far(s, v), s.method = "COPY"
      PROVE  LeavesSource(Now', k)
  <2>1. \A q \in Path : work[c].before[q] = View(entries, props, q)
    BY AloneAtStart
  <2> SUFFICES ASSUME NEW q \in Path, Within(task[c].path, q)
               PROVE  View(Now'.entries, Now'.props, q) = work[c].before[q]
    BY <1>2 DEF LeavesSource
  <2>2. View(Now'.entries, Now'.props, q) = View(entries, props, q)
    BY <1>1, <1>2, <1>3, EngineLeavesSource
  <2> QED  BY <2>1, <2>2
<1> QED  BY <1>1, <1>2, <1>3

\* The engine is done as soon as it started.
LEMMA StartStops ==
  ASSUME TransfersInv, NEW c \in Client, Engine(c), EngineStep(c), task[c].pc = "start",
         task'[c].pc = "dispose destination", FlatListing(task[c], work[c]),
         Keeps(Now, task[c], work[c]),
         Far(task[c], work[c]) /\ Successes(work'[c].results) /\ work'[c].results # {} =>
           HasBrought(Now', JobWith(task[c], work[c], work'[c].listing), Moves(c))
  PROVE  Completes(Now', task'[c], work'[c])
<1> DEFINE s == task'[c]
           v == work'[c]
           k == JobOf(s, v)
<1>1. /\ s.pc = "dispose destination" /\ s.method = task[c].method
      /\ k = JobWith(task[c], work[c], v.listing) /\ (Far(s, v) <=> Far(task[c], work[c]))
  BY StartKeepsAim
<1>2. Far(s, v) /\ s.method = "COPY" => LeavesSource(Now', k)
  BY StartKeepsAim
<1>3. ASSUME Far(s, v), Successes(v.results), v.results # {}
      PROVE  HasBrought(Now', k, s.method = "MOVE")
  BY <1>1, <1>3 DEF Moves
<1> HIDE DEF s, v, k
<1>4. Completes(Now', s, v)
  BY <1>1, <1>2, <1>3 DEF Completes, k
<1> QED  BY <1>4 DEF s, v

LEMMA StartOnRootCompletes ==
  ASSUME TransfersInv, NEW c \in Client, Engine(c), EngineStep(c), StartOnRoot(c),
         FlatListing(task[c], work[c]), Keeps(Now, task[c], work[c])
  PROVE  Completes(Now', task'[c], work'[c])
<1> DEFINE w == WithStack(work[c], <<>>, {})
<1>1. /\ task[c].pc = "start" /\ Works(c, w) /\ GoTo(c, "dispose destination")
      /\ "dispose destination" \in Stage
  BY DEF StartOnRoot, Throw, WithStack, Stage
<1>2. w.results = {} /\ c \in DOMAIN work /\ RequestsInv
  <2>1. IsWork(work[c])
    BY <1>1, AtStart
  <2>2. w.results = {}
    BY <2>1, ResultsAre
  <2> QED  BY <2>2 DEF TransfersInv
<1> HIDE DEF w
<1>3. work'[c].results = {} /\ task'[c].pc = "dispose destination"
  BY <1>1, <1>2, StageOf DEF Works
<1> QED  BY <1>1, <1>3, StartStops

LEMMA StartDocumentCompletes ==
  ASSUME TransfersInv, NEW c \in Client, Engine(c), EngineStep(c), StartDocument(c),
         FlatListing(task[c], work[c]), Keeps(Now, task[c], work[c]),
         Completes(Now, task[c], work[c])
  PROVE  Completes(Now', task'[c], work'[c])
<1> DEFINE e     == task[c].found.entry
           found == work[c].found
           a     == work[c].destination
           target == found.entry
           d     == found.collection
           done  == IF found.result = "FoundCollection"
                    THEN [fs |-> Now, status |-> "OverwriteFailed"]
                    ELSE Execute(c, e, a, d, target)
           gs    == done.fs
           results == Result(done.status, 0)
           w     == WithResults(work[c], results)
           k     == JobWith(task[c], work[c], work'[c].listing)
           j     == JobWith(task[c], work[c], <<>>)
<1>1. /\ task[c].pc = "start" /\ entries[e].kind = "document" /\ target # 1
      /\ GoTo(c, "dispose destination") /\ "dispose destination" \in Stage
      /\ Becomes(gs) /\ Works(c, w)
  BY DEF StartDocument, Starts, WithResults, Stage
<1>2. /\ FileSystemInv(entries) /\ Sound(Now) /\ a \in Path
      /\ Fits(entries, found, a) /\ found.missing \in {0, 1} /\ IsWork(work[c])
  BY <1>1, AtStart
<1>3. task'[c].pc = "dispose destination" /\ work'[c].results = results
  <2>1. RequestsInv /\ c \in DOMAIN work
    BY DEF TransfersInv
  <2> HIDE DEF results
  <2>2. w.results = results
    BY <1>2, ResultsAre
  <2> HIDE DEF w
  <2> QED  BY <1>1, <2>1, <2>2, StageOf DEF Works
<1>4. ASSUME Far(task[c], work[c]), Successes(work'[c].results)
      PROVE  HasBrought(Now', k, Moves(c))
  <2>1. done.status \in {"Created", "Overwritten"}
    <3> DEFINE status == done.status
    <3>1. [status |-> status, level |-> 0] \in work'[c].results
      BY <1>3 DEF Result
    <3> HIDE DEF status
    <3>2. status \in {"Created", "Overwritten"}
      BY <1>4, <3>1 DEF Successes
    <3> QED  BY <3>2 DEF status
  <2>2. done = Execute(c, e, a, d, target) /\ found.result # "FoundCollection"
    BY <2>1
  <2>3. /\ IsJob(j) /\ ListingInv(entries, j.listing)
        /\ j.from = task[c].path /\ j.to = a
        /\ Moves(c) /\ ~ work[c].inside => j.lost = Late
        /\ e \in DOMAIN entries \ {1} /\ entries[e].path = j.from /\ Seen(entries, e)
        /\ ImageIn(j, j.from) = j.to /\ Underway(Now, j, {}, {e})
    BY <1>1, <1>4, SourceAtStart
  <2>4. /\ found = Select(entries, a)
        /\ found.entry = 0 => /\ found.missing = 1 /\ IsPlace(entries, a, d)
                              /\ Select(entries, Above[a]).entry = d
    BY <1>1, AloneAtStart
  <2> HIDE DEF done, e, found, d, a, j, k, target, results, w
  <2>5. /\ IsPlace(entries, a, d) /\ Select(entries, Above[a]).entry = d
        /\ target \in DOMAIN entries \cup {0}
        /\ target # 0 => /\ Select(entries, a).entry = target
                         /\ entries[target].path = a /\ entries[target].kind = "document"
    <3>1. CASE target = 0
      BY <2>4, <3>1 DEF target
    <3>2. CASE target # 0
      <4>1. found.missing = 0
        BY <1>2, <3>2 DEF Fits, target
      <4>2. /\ target \in DOMAIN entries /\ entries[target].path = a
            /\ entries[target].kind # "collection"
            /\ entries[target].kind = "document" => d = entries[target].parent
        BY <1>2, <2>2, <4>1 DEF Fits, target, d
      <4>3. entries[target].kind = "document" /\ d = entries[target].parent
        BY <1>2, <4>2, EntryIs
      <4>4. Seen(entries, target) /\ Select(entries, a).entry = target
        BY <2>4, <4>2 DEF Seen, target
      <4>5. IsPlace(entries, a, d) /\ Select(entries, Above[a]).entry = d
        BY <1>1, <1>2, <4>2, <4>3, <4>4, ParentIsSeen
      <4> QED  BY <4>2, <4>3, <4>4, <4>5
    <3> QED  BY <3>1, <3>2
  <2> DEFINE none == {}
             only == {e}
  <2>6. /\ Underway(Now, j, none, only) /\ e \in only /\ e # 1
        /\ a = ImageIn(j, entries[e].path) /\ entries[e].kind = "document"
    BY <1>1, <2>3 DEF e
  <2> HIDE DEF none, only
  <2>7. /\ Underway(gs, j, none, only \ {e}) /\ (Moves(c) => Gone(gs, entries[e].path))
    BY <1>2, <2>1, <2>2, <2>3, <2>5, <2>6, DocumentBrought
  <2>8. Leads(Now, gs)
    BY <1>2, <2>2, <2>3, <2>5, ExecuteLeads
  <2>9. Now' = gs
    BY <1>1, <2>8, BecomesNow DEF Leads
  <2>10. \A q : Wanted(j, q) => Brought(gs, j, q)
    BY <2>7 DEF Underway, none, only
  <2>11. /\ k.from = j.from /\ k.to = j.to /\ k.depth = j.depth /\ k.before = j.before
         /\ k.lost = j.lost
    BY DEF k, j, JobWith
  <2>12. \A q : (Wanted(k, q) <=> Wanted(j, q)) /\ (Brought(gs, k, q) <=> Brought(gs, j, q))
    BY <2>11 DEF Wanted, Brought, ImageIn
  <2> QED  BY <2>3, <2>7, <2>9, <2>10, <2>11, <2>12 DEF HasBrought
<1> HIDE DEF k
<1> QED  BY <1>1, <1>3, <1>4, StartStops DEF k

\* The engine comes to the top of its source, whose counterpart is found.
LEMMA EnterAtStart ==
  ASSUME TransfersInv, NEW c \in Client, task[c].pc = "start", Keeps(Now, task[c], work[c]),
         Completes(Now, task[c], work[c]), Far(task[c], work[c]),
         entries[task[c].found.entry].kind = "collection",
         NEW listing, listing = Listing(entries, task[c].found.entry, work[c].depth),
         NEW gs, Leads(Now, gs),
         Underway(gs, JobWith(task[c], work[c], listing), {}, {task[c].found.entry}),
         NEW to, Seen(gs.entries, to), NEW created
  PROVE  LET e == task[c].found.entry
             f == Frame(listing, e, to, created, Collected(props[entries[e].path]))
         IN  Walks(gs, JobWith(task[c], work[c], listing), <<f>>)
<1> DEFINE j == JobWith(task[c], work[c], listing)
           e == task[c].found.entry
           p == entries[e].path
           f == Frame(listing, e, to, created, Collected(props[p]))
           none == {}
           only == {e}
<1>1. /\ IsJob(j) /\ ListingInv(entries, j.listing) /\ j.listing = listing
      /\ e \in DOMAIN entries \ {1} /\ p = j.from /\ Seen(entries, e)
      /\ \A q \in Path : j.before[q] = View(entries, props, q)
      /\ Intact(Now, j, p) /\ ListsAll(entries, j)
  <2>1. \/ listing = <<>>
        \/ entries[e].kind = "collection" /\ listing = Listing(entries, e, work[c].depth)
    OBVIOUS
  <2>2. /\ IsJob(j) /\ ListingInv(entries, j.listing) /\ j.listing = listing
        /\ e \in DOMAIN entries \ {1} /\ p = j.from /\ Seen(entries, e)
    BY <2>1, SourceAtStart
  <2>3. /\ \A q \in Path : j.before[q] = View(entries, props, q)
        /\ Intact(Now, j, j.from) /\ ListsAll(entries, j)
    BY <2>1, SourceAtStart, ZenonT(30)
  <2> HIDE DEF j, e
  <2> QED  BY <2>2, <2>3
<1>2. Underway(gs, j, none, only)
  OBVIOUS
<1>3. e \in DOMAIN listing /\ FileSystemInv(entries)
  <2>1. FileSystemInv(entries) /\ work[c].depth \in Nat
    BY AtStart
  <2>2. IsEntry(entries, e, "collection")
    BY <1>1 DEF IsEntry
  <2> QED  BY <2>1, <2>2, ListingInOrder
<1>4. /\ f.source = e /\ f.documents \cup f.collections = j.listing[e] /\ p = entries[e].path
  <2> HIDE DEF j, e, p
  <2>1. ListingInv(entries, listing) /\ listing[e] = j.listing[e]
    BY <1>1
  <2>2. f.source = e /\ f.documents \cup f.collections = listing[e]
    BY <1>3, <2>1, FrameOf
  <2> QED  BY <2>1, <2>2 DEF p
<1>5. f = Frame(j.listing, e, to, created, Collected(props[p])) /\ entries[e].kind = "collection"
      /\ e \in only
  BY <1>1
<1> HIDE DEF j, e, p, f, none, only
<1>6. Sound(gs) /\ Evolves(entries, gs.entries) /\ p \in Path
  BY <1>1 DEF Leads, Now, IsJob
<1>7. ListsAll(gs.entries, j) /\ ListingInv(gs.entries, j.listing)
  BY <1>1, <1>6, ListsAllEvolves, ListingEvolves
<1>8. Underway(gs, j, none \cup {e}, (only \ {e}) \cup j.listing[e])
  BY <1>1, <1>2, <1>3, <1>5, <1>6, <1>7, UnderwayEnters
<1>9. Frames(<<f>>) = {f}
  BY NoFrames
<1>10. Sources(<<f>>) = none \cup {e} /\ Pending(<<f>>) = (only \ {e}) \cup j.listing[e]
  BY <1>4, <1>9 DEF Sources, Pending, none, only
<1>11. Remembers(gs.entries, j, f)
  <2>1. View(entries, props, p) = <<entries[e].kind, Content(entries[e]), props[p]>>
    BY <1>1, <1>3, <1>4, <1>6, SeenView DEF Seen
  <2>2. j.before[p] = <<"collection", "empty", props[p]>>
    BY <1>1, <1>5, <1>6, <2>1 DEF Content
  <2> DEFINE properties == Collected(props[p])
  <2>3. WasCollected(j, p, properties) /\ f = Frame(j.listing, e, to, created, properties)
    BY <1>5, <2>2 DEF WasCollected
  <2> HIDE DEF properties
  <2>4. Intact(Now, j, entries[e].path) /\ e \in DOMAIN j.listing
        /\ WasCollected(j, entries[e].path, properties)
    BY <1>1, <1>3, <1>4, <2>3
  <2> QED  BY <1>1, <1>3, <1>6, <2>3, <2>4, FrameRemembers
<1>12. Deepens(gs.entries, <<f>>, j.from)
  <2>1. gs.entries[f.source].path = j.from
    BY <1>1, <1>4, <1>6 DEF Evolves
  <2>2. Len(j.from) \in Nat
    BY <1>1, PathIsSequence DEF IsJob
  <2> QED  BY <2>1, <2>2 DEF Deepens
<1>13. Walks(gs, j, <<f>>)
  BY <1>7, <1>8, <1>9, <1>10, <1>11, <1>12 DEF Walks
<1> QED  BY <1>13 DEF j, f, e, p

\* The engine is on its way.
LEMMA StartGoesOn ==
  ASSUME TransfersInv, NEW c \in Client, Engine(c), EngineStep(c), task[c].pc = "start",
         task'[c].pc = "engine", FlatListing(task[c], work[c]),
         Keeps(Now, task[c], work[c]),
         Far(task[c], work[c]) =>
           Walks(Now', JobWith(task[c], work[c], work'[c].listing), work'[c].stack)
  PROVE  Completes(Now', task'[c], work'[c])
<1> DEFINE s == task'[c]
           v == work'[c]
           k == JobOf(s, v)
<1>1. /\ s.pc = "engine" /\ s.method = task[c].method
      /\ k = JobWith(task[c], work[c], v.listing) /\ (Far(s, v) <=> Far(task[c], work[c]))
  BY StartKeepsAim
<1>2. Far(s, v) /\ s.method = "COPY" => LeavesSource(Now', k)
  BY StartKeepsAim
<1>3. ASSUME Far(s, v)
      PROVE  Walks(Now', k, v.stack)
  BY <1>1, <1>3
<1> HIDE DEF s, v, k
<1>4. Completes(Now', s, v)
  BY <1>1, <1>2, <1>3 DEF Completes, k
<1> QED  BY <1>4 DEF s, v

LEMMA StartCollectionCompletes ==
  ASSUME TransfersInv, NEW c \in Client, Engine(c), EngineStep(c), StartCollection(c),
         FlatListing(task[c], work[c]), Keeps(Now, task[c], work[c]),
         Completes(Now, task[c], work[c])
  PROVE  Completes(Now', task'[c], work'[c])
<1> DEFINE source  == task[c].found.entry
           found   == work[c].found
           listing == Listing(entries, source, work[c].depth)
           frame(target) == Frame(listing, source, target, IsMissing(found),
                                  Collected(props[entries[source].path]))
           Enter(target) == Works(c, WithListing(work[c], listing, <<frame(target)>>))
           Fail(status) == Works(c, WithResults(work[c], Result(status, 0)))
           a == work[c].destination
           d == found.collection
           creates == IsMissing(found) /\ CanCreate(entries, a, d)
           j == JobWith(task[c], work[c], listing)
           Goal == Completes(Now', task'[c], work'[c])
<1>1. /\ task[c].pc = "start" /\ entries[source].kind = "collection" /\ UNCHANGED props
      /\ \/ \E status \in {"OverwriteFailed", "CreateFailed"} :
              Fail(status) /\ GoTo(c, "dispose destination")
         \/ /\ found.result = "FoundCollection" /\ Enter(found.entry) /\ GoTo(c, "engine")
            /\ UNCHANGED entries
         \/ /\ creates /\ entries' = Create(entries, "collection", a, d, "empty")
            /\ Enter(Len(entries) + 1) /\ GoTo(c, "engine")
  <2> DEFINE Enters(target) == Enter(target) /\ GoTo(c, "engine")
             Fails(status) == Fail(status) /\ GoTo(c, "dispose destination")
  <2>1. (CASE found.result = "FoundDocument" ->
                Fails("OverwriteFailed") /\ UNCHANGED entries
           [] found.result = "FoundCollection" -> Enters(found.entry) /\ UNCHANGED entries
           [] IsMissing(found) /\ CanCreate(entries, a, d) ->
                /\ entries' = Create(entries, "collection", a, d, "empty")
                /\ Enters(Len(entries) + 1)
           [] OTHER -> Fails("CreateFailed") /\ UNCHANGED entries)
    BY DEF StartCollection, WithListing, WithResults
  <2>2. task[c].pc = "start" /\ entries[source].kind = "collection" /\ UNCHANGED props
    BY DEF StartCollection, Starts
  <2> HIDE DEF Fail, Enter
  <2> QED  BY <2>1, <2>2
<1>2. /\ FileSystemInv(entries) /\ a \in Path /\ Fits(entries, found, a) /\ Sound(Now)
      /\ IsWork(work[c]) /\ c \in DOMAIN work /\ RequestsInv
  BY <1>1, AtStart DEF TransfersInv
<1>3. ASSUME NEW pc \in Stage, GoTo(c, pc)  PROVE task'[c].pc = pc
  BY <1>2, <1>3, StageOf
<1>4. ASSUME NEW status \in {"OverwriteFailed", "CreateFailed"}, Fail(status),
             GoTo(c, "dispose destination")
      PROVE  Goal
  <2> DEFINE results == Result(status, 0)
             w == WithResults(work[c], results)
  <2>1. Works(c, w) /\ [status |-> status, level |-> 0] \in results
    BY <1>4 DEF Result
  <2>2. ~ Successes(results)
    <3> HIDE DEF results
    <3> SUFFICES ASSUME Successes(results)  PROVE FALSE
      OBVIOUS
    <3>1. [status |-> status, level |-> 0].status \in {"Created", "Overwritten"}
      BY <2>1 DEF Successes
    <3> QED  BY <1>4, <3>1
  <2> HIDE DEF results
  <2>3. w.results = results
    BY <1>2, ResultsAre
  <2> HIDE DEF w
  <2>4. work'[c].results = results
    BY <1>2, <2>1, <2>3 DEF Works
  <2>5. task'[c].pc = "dispose destination"
    BY <1>3, <1>4 DEF Stage
  <2> QED  BY <1>1, <2>2, <2>4, <2>5, StartStops
<1>5. Far(task[c], work[c]) =>
        /\ IsJob(j) /\ ListingInv(entries, j.listing) /\ j.from = task[c].path
        /\ source \in DOMAIN entries \ {1} /\ entries[source].path = j.from
        /\ ImageIn(j, j.from) = a
  <2> SUFFICES ASSUME Far(task[c], work[c])
               PROVE  /\ IsJob(j) /\ ListingInv(entries, j.listing) /\ j.from = task[c].path
                      /\ source \in DOMAIN entries \ {1} /\ entries[source].path = j.from
                      /\ ImageIn(j, j.from) = a
    OBVIOUS
  <2>1. IsJob(j) /\ ListingInv(entries, j.listing) /\ j.from = task[c].path
    BY <1>1, SourceAtStart, ZenonT(30)
  <2>2. source \in DOMAIN entries \ {1} /\ entries[source].path = j.from
    BY <1>1, SourceAtStart, ZenonT(30)
  <2>3. ImageIn(j, j.from) = j.to /\ j.to = a
    BY <1>1, SourceAtStart, ZenonT(30)
  <2> HIDE DEF j, source, a
  <2> QED  BY <2>1, <2>2, <2>3
<1>6. Far(task[c], work[c]) => Underway(Now, j, {}, {source})
  BY <1>1, SourceAtStart, ZenonT(30)
<1>7. ASSUME NEW target, Enter(target), GoTo(c, "engine"), NEW gs, Leads(Now, gs), Becomes(gs),
             Far(task[c], work[c]) => Underway(gs, j, {}, {source}),
             Seen(gs.entries, target)
      PROVE  Goal
  <2> DEFINE stack == <<frame(target)>>
             w == WithListing(work[c], listing, stack)
  <2>1. Works(c, w)
    BY <1>7
  <2>2. w.stack = stack /\ w.listing = listing
    <3> HIDE DEF stack, listing
    <3> QED  BY <1>2, ListingWith
  <2>3. work'[c].stack = stack /\ work'[c].listing = listing
    <3> HIDE DEF stack, listing, w
    <3> QED  BY <1>2, <2>1, <2>2 DEF Works
  <2>4. Now' = gs
    BY <1>7, BecomesNow DEF Leads
  <2>5. task'[c].pc = "engine"
    BY <1>3, <1>7 DEF Stage
  <2>6. Far(task[c], work[c]) => Walks(gs, j, stack)
    BY <1>1, <1>7, EnterAtStart
  <2> HIDE DEF stack, listing, w
  <2>7. Far(task[c], work[c]) =>
          Walks(Now', JobWith(task[c], work[c], work'[c].listing), work'[c].stack)
    BY <2>3, <2>4, <2>6
  <2> QED  BY <1>1, <2>5, <2>7, StartGoesOn
<1>8. CASE /\ found.result = "FoundCollection" /\ Enter(found.entry) /\ GoTo(c, "engine")
           /\ UNCHANGED entries
  <2>1. Becomes(Now) /\ Leads(Now, Now)
    BY <1>1, <1>2, <1>8, ItselfLeads DEF Becomes, Now
  <2> DEFINE target == found.entry
  <2>2. Seen(Now.entries, target)
    <3>1. found.missing = 0
      BY <1>2, <1>8 DEF Fits
    <3>2. entries[target].path = a
      BY <1>2, <3>1 DEF Fits
    <3>3. Select(entries, a).entry = target
      BY <1>1, AloneAtStart
    <3> QED  BY <3>2, <3>3 DEF Seen, Now
  <2>3. Enter(target) /\ GoTo(c, "engine")
    BY <1>8
  <2> HIDE DEF target, Enter, j, source
  <2> QED  BY <1>6, <1>7, <2>1, <2>2, <2>3
<1>9. CASE /\ creates /\ entries' = Create(entries, "collection", a, d, "empty")
           /\ Enter(Len(entries) + 1) /\ GoTo(c, "engine")
  <2> DEFINE target == Len(entries) + 1
             gs == [entries |-> Create(entries, "collection", a, d, "empty"), props |-> props]
             es == gs.entries
  <2>1. "empty" \in Data /\ "collection" \in {"collection", "document"}
    BY DEF Data
  <2>2. found.entry = 0
    BY <1>2, <1>9 DEF Fits, IsMissing
  <2>3. IsPlace(entries, a, d) /\ Select(entries, Above[a]).entry = d
    BY <1>1, <2>2, AloneAtStart
  <2>4. /\ Enter(target) /\ GoTo(c, "engine") /\ Becomes(gs) /\ CanCreate(entries, a, d)
        /\ target = Len(entries) + 1
        /\ es = Create(entries, "collection", a, d, "empty")
        /\ gs = [entries |-> Create(Now.entries, "collection", a, d, "empty"),
                 props |-> Now.props]
    BY <1>1, <1>9 DEF Becomes, Now
  <2>5. Now.entries = entries
    BY DEF Now
  <2> HIDE DEF Enter, a, d, j, gs, target, source
  <2>6. FileSystemInv(es) /\ Evolves(entries, es)
        /\ Grown(entries, es, "collection", a, d, "empty")
    BY <1>2, <2>1, <2>3, <2>4, CreateLeads
  <2>7. Seen(es, target)
    <3>1. Select(es, a).entry = target
      BY <1>2, <2>1, <2>3, <2>4, CreatedIsSeen
    <3>2. es[target] = NewEntry("collection", a, d, "empty")
      BY <2>4, <2>6 DEF Grown
    <3> QED  BY <3>1, <3>2 DEF Seen, NewEntry
  <2>8. Leads(Now, gs)
    <3>1. Sound(gs)
      BY <1>2, <2>4, <2>6 DEF Sound, Now
    <3> QED  BY <2>5, <2>6, <3>1 DEF Leads
  <2>9. ASSUME Far(task[c], work[c])  PROVE Underway(gs, j, {}, {source})
    <3> DEFINE none == {}
               only == {source}
    <3>1. Underway(Now, j, none, only) /\ source \in only
      BY <1>6, <2>9
    <3> HIDE DEF none, only
    <3>2. IsJob(j) /\ ListingInv(Now.entries, j.listing)
          /\ a = ImageIn(j, Now.entries[source].path)
      BY <1>5, <2>5, <2>9
    <3>3. Underway(gs, j, none, only)
      BY <1>2, <2>1, <2>3, <2>4, <2>5, <3>1, <3>2, CollectionMade
    <3> QED  BY <3>3 DEF none, only
  <2> QED  BY <1>7, <2>4, <2>7, <2>8, <2>9
<1> HIDE DEF Fail, Enter, creates, found, a, d, source
<1> QED  BY <1>1, <1>4, <1>8, <1>9

-----------------------------------------------------------------------------
(* The handler, and everybody else, as far as completeness goes.            *)

\* At these stages there is nothing more to know.
LEMMA RestCompletes ==
  ASSUME NEW fs, NEW r, NEW w, r.pc \notin TransferStage \ {"dispose source"}
  PROVE  Completes(fs, r, w)
BY DEF Completes, TransferStage

\* The handler goes on with what was selected.
LEMMA GoesWithFound ==
  ASSUME RequestsInv, NEW c \in Client, NEW pc, GoTo(c, pc)
  PROVE  /\ task'[c].pc = pc /\ task'[c].found = task[c].found
         /\ task'[c].path = task[c].path
BY DEF RequestsInv, StateInv, GoTo, Task

LEMMA LocksWithFound ==
  ASSUME RequestsInv, NEW c \in Client, NEW pc, NEW t,
         task' = [task EXCEPT ![c].pc = pc, ![c].lock = t]
  PROVE  /\ task'[c].pc = pc /\ task'[c].found = task[c].found
         /\ task'[c].path = task[c].path
<1> DEFINE r0 == task[c]
           s1 == [r0 EXCEPT !.pc = pc]
           s2 == [s1 EXCEPT !.lock = t]
<1>1. r0 \in Task /\ task'[c] = s2
  BY DEF RequestsInv, StateInv
<1>2. /\ r0.pc \in Stage /\ {"pc", "found", "path", "lock"} \subseteq DOMAIN r0
      /\ s1.pc = pc /\ s1.found = r0.found /\ s1.path = r0.path
      /\ s2.pc = s1.pc /\ s2.found = s1.found /\ s2.path = s1.path
  <2> HIDE DEF r0
  <2> QED  BY <1>1 DEF Task
<1> QED  BY <1>1, <1>2

LEMMA HandlerCompletes ==
  ASSUME TransfersInv, NEW c \in Client, Handler(c), Completes(Now, task[c], work[c])
  PROVE  Completes(Now', task'[c], work'[c])
<1> DEFINE r == task[c]
           s == task'[c]
           v == work'[c]
           Goal == Completes(Now', s, v)
<1>1. /\ UNCHANGED <<entries, props>> /\ RequestsInv
      /\ task \in [Client -> Task] /\ DOMAIN work = Client
  BY DEF Handler, LockSource, SelectDestination, LockDestination, DisposeDestination,
     DisposeSource, TransfersInv, RequestsInv, StateInv
<1>2. Now' = Now
  BY <1>1 DEF Now
<1>3. ASSUME NEW pc, \/ GoTo(c, pc)
                     \/ \E t : task' = [task EXCEPT ![c].pc = pc, ![c].lock = t],
             \/ pc \notin TransferStage \ {"dispose source"}
             \/ /\ pc \in {"select destination", "lock destination", "start"}
                /\ r.pc \in {"lock source", "select destination", "lock destination"}
      PROVE  Goal
  <2>1. s.pc = pc /\ s.found = r.found /\ s.path = r.path
    <3>1. CASE GoTo(c, pc)
      BY <1>1, <3>1, GoesWithFound
    <3>2. ASSUME NEW t, task' = [task EXCEPT ![c].pc = pc, ![c].lock = t]
          PROVE  s.pc = pc /\ s.found = r.found /\ s.path = r.path
      BY <1>1, <3>2, LocksWithFound
    <3> QED  BY <1>3, <3>1, <3>2
  <2> HIDE DEF s, v, r
  <2>2. CASE pc \notin TransferStage \ {"dispose source"}
    BY <2>1, <2>2, RestCompletes
  <2>3. CASE /\ pc \in {"select destination", "lock destination", "start"}
             /\ r.pc \in {"lock source", "select destination", "lock destination"}
    <3>1. r.found = Select(Now.entries, r.path)
      BY <2>3 DEF Completes, r
    <3>2. s.found = Select(Now'.entries, s.path)
      BY <1>2, <2>1, <3>1
    <3> DEFINE now == Now'
    <3>3. s.found = Select(now.entries, s.path)
      BY <3>2
    <3> HIDE DEF now
    <3>4. Completes(now, s, v)
      BY <2>1, <2>3, <3>3 DEF Completes
    <3> QED  BY <3>4 DEF now
  <2> QED  BY <1>3, <2>2, <2>3
<1>4. ASSUME Answer(c)  PROVE Goal
  <2>1. s.pc \notin TransferStage
    BY <1>1, <1>4, AnswerIs, IdleIsTask DEF TransferStage, RequestsInv
  <2> HIDE DEF s, v
  <2> QED  BY <2>1, RestCompletes
<1>5. CASE LockSource(c)
  BY <1>3, <1>4, <1>5 DEF LockSource
<1>6. CASE SelectDestination(c)
  <2>1. PICK pc \in {"dispose source", "lock destination"} : GoTo(c, pc)
    BY <1>6 DEF SelectDestination
  <2>2. r.pc = "select destination"
    BY <1>6 DEF SelectDestination
  <2> QED  BY <1>3, <2>1, <2>2
<1>7. CASE LockDestination(c)
  BY <1>3, <1>7 DEF LockDestination
<1>8. CASE DisposeDestination(c)
  BY <1>3, <1>8 DEF DisposeDestination
<1>9. CASE DisposeSource(c)
  <2>1. "affected" \notin TransferStage
    BY DEF TransferStage
  <2> QED  BY <1>3, <1>4, <1>9, <2>1 DEF DisposeSource
<1> QED  BY <1>5, <1>6, <1>7, <1>8, <1>9 DEF Handler

\* What c knows, if nobody interfered with it.
CompletesOwn(c) == alone[c] => Completes(Now, task[c], work[c])

LEMMA TransferSentCompletes ==
  ASSUME TransfersInv, NEW c \in Client, TransferSent(c), CompletesOwn(c)
  PROVE  CompletesOwn(c)'
<1>1. ASSUME NEW method, NEW pair, NEW depth, NEW overwrite, NEW inside, NEW submitted,
             NEW resource, ~ CompletesOwn(c)'
      PROVE  ~ TransferRequest(c, method, pair, depth, overwrite, inside, submitted, resource)
  <2> SUFFICES ASSUME TransferRequest(c, method, pair, depth, overwrite, inside, submitted,
                                      resource)
               PROVE  CompletesOwn(c)'
    BY <1>1
  <2> DEFINE found == Select(entries, pair[1])
             before == [p \in Path |-> View(entries, props, p)]
             pc == IF method = "MOVE" THEN "lock source" ELSE "select destination"
             begun == TransferTask(pc, method, pair[1], found, submitted, resource)
  <2>1. /\ UNCHANGED <<entries, props>>
        /\ IF IsMissing(found) THEN UNCHANGED <<task, work, alone>>
           ELSE task' = [task EXCEPT ![c] = begun]
    BY DEF TransferRequest, TransferTask, TransferWork
  <2>2. Now' = Now /\ Now.entries = entries
    BY <2>1 DEF Now
  <2>3. task \in [Client -> Task]
    BY DEF TransfersInv, RequestsInv, StateInv
  <2>4. CASE IsMissing(found)
    BY <2>1, <2>2, <2>4 DEF CompletesOwn
  <2>5. CASE ~ IsMissing(found)
    <3>1. pc \in {"lock source", "select destination"} /\ found = Select(entries, pair[1])
      OBVIOUS
    <3>2. task'[c] = begun
      BY <2>1, <2>3, <2>5
    <3> HIDE DEF pc, found
    <3>3. begun.pc = pc /\ begun.found = found /\ begun.path = pair[1]
      BY TransferTaskIs
    <3> DEFINE now == Now'
    <3>4. now.entries = entries
      BY <2>2
    <3> HIDE DEF begun, now
    <3>5. Completes(now, begun, work'[c])
      BY <3>1, <3>3, <3>4 DEF Completes
    <3> QED  BY <3>2, <3>5 DEF CompletesOwn, now
  <2> QED  BY <2>4, <2>5
<1> QED  BY <1>1, Zenon DEF TransferSent

\* Whose request does not go on knows what it knew, unless something changed.
LEMMA OthersComplete ==
  ASSUME NEW d \in Client, CompletesOwn(d), task'[d] = task[d], work'[d] = work[d],
         alone'[d] => alone[d] /\ UNCHANGED <<entries, props>>
  PROVE  CompletesOwn(d)'
<1> SUFFICES ASSUME alone'[d]  PROVE Completes(Now', task'[d], work'[d])
  BY DEF CompletesOwn
<1>1. Now' = Now
  BY DEF Now
<1> QED  BY <1>1 DEF CompletesOwn

LEMMA EngineCompletesAll ==
  ASSUME TransfersInv, NEW c \in Client, Engine(c), Nested(entries, work[c].stack),
         FlatListing(task[c], work[c]), Keeps(Now, task[c], work[c]),
         Completes(Now, task[c], work[c])
  PROVE  Completes(Now', task'[c], work'[c])
<1>1. EngineStep(c)
  BY EngineIs
<1>2. CASE StartOnRoot(c) \/ StartDocument(c) \/ StartCollection(c)
  BY <1>1, <1>2, StartOnRootCompletes, StartDocumentCompletes, StartCollectionCompletes
<1>3. ASSUME NEW e \in DOMAIN entries,
             EngineDocument(c, e) \/ EngineCollection(c, e) \/ EngineFinish(c)
      PROVE  Completes(Now', task'[c], work'[c])
  BY <1>1, <1>3, EngineCompletes
<1>4. DOMAIN entries # {}
  BY DEF TransfersInv, RequestsInv, StateInv, FileSystemInv, IsFileSystem
<1> QED  BY <1>2, <1>3, <1>4 DEF Engine

LEMMA RequestsComplete ==
  ASSUME TransfersInv, CompletesInv, Next, UNCHANGED work, Interferes(Client)
  PROVE  CompletesInv'
<1>1. RequestsInv
  BY DEF TransfersInv
<1> SUFFICES ASSUME NEW d \in Client  PROVE CompletesOwn(d)'
  BY DEF CompletesInv, CompletesOwn
<1>2. /\ CompletesOwn(d) /\ Ordinary(d) /\ work'[d] = work[d]
      /\ alone'[d] => alone[d] /\ UNCHANGED <<entries, props>>
  BY <1>1, NextIsOrdinary DEF Interferes, CompletesInv, CompletesOwn
<1>3. CASE task'[d] = task[d]
  BY <1>2, <1>3, OthersComplete
<1>4. CASE task'[d] # task[d]
  <2>1. task'[d].pc \notin TransferStage
    BY <1>2, <1>4 DEF Ordinary
  <2>2. Completes(Now', task'[d], work'[d])
    BY <2>1, RestCompletes
  <2> QED  BY <2>2 DEF CompletesOwn
<1> QED  BY <1>3, <1>4

\* The step of one client, with what it knows.
LEMMA OneCompletes ==
  ASSUME CompletesInv, NEW c \in Client, CompletesOwn(c)',
         \A d \in Client \ {c} : /\ task'[d] = task[d] /\ work'[d] = work[d]
                                 /\ alone'[d] => alone[d] /\ UNCHANGED <<entries, props>>
  PROVE  CompletesInv'
<1>1. ASSUME NEW d \in Client \ {c}  PROVE CompletesOwn(d)'
  <2>1. CompletesOwn(d)
    BY DEF CompletesInv, CompletesOwn
  <2> QED  BY <2>1, OthersComplete
<1>2. ASSUME NEW d \in Client  PROVE CompletesOwn(d)'
  BY <1>1, <1>2
<1> QED  BY <1>2 DEF CompletesInv, CompletesOwn

\* A transfer that nobody interferes with, and that had only successes until
\* now, has brought what the engine has been at, and still finds the rest.
LEMMA CompletesHolds == TransferSpec => []CompletesInv
<1>1. ASSUME TransferInit  PROVE CompletesInv
  BY <1>1 DEF TransferInit, CompletesInv
<1>2. ASSUME TransfersInv, MayWorkInv, KeepsInv, CompletesInv,
             [TransferNext]_transferVars
      PROVE  CompletesInv'
  <2>0. /\ DOMAIN alone = Client /\ \A c \in Client : KeepsOwn(c) /\ CompletesOwn(c)
        /\ \A c \in Client : FlatListing(task[c], work[c])
    BY <1>2 DEF KeepsInv, CompletesInv, CompletesOwn, MayWorkInv, MayWork
  <2>1. CASE Next /\ UNCHANGED work /\ Interferes(Client)
    BY <1>2, <2>1, RequestsComplete
  <2>2. ASSUME NEW c \in Client, TransferSent(c), UNCHANGED lost  PROVE CompletesInv'
    <3>1. TransferProgress(c)
      BY <1>2, <2>2, TransferSentKeeps
    <3>2. CompletesOwn(c)'
      BY <1>2, <2>0, <2>2, TransferSentCompletes
    <3>3. /\ UNCHANGED <<entries, props>>
          /\ UNCHANGED alone \/ alone' = [alone EXCEPT ![c] = TRUE]
      <4>1. ASSUME NEW method, NEW pair, NEW depth, NEW overwrite, NEW inside, NEW submitted,
                   NEW resource,
                   TransferRequest(c, method, pair, depth, overwrite, inside, submitted, resource)
            PROVE  /\ UNCHANGED <<entries, props>>
                   /\ UNCHANGED alone \/ alone' = [alone EXCEPT ![c] = TRUE]
        BY <4>1 DEF TransferRequest
      <4> QED  BY <2>2, <4>1, Zenon DEF TransferSent
    <3> QED  BY <1>2, <2>0, <3>1, <3>2, <3>3, OneCompletes DEF TransferProgress, Progress
  <2>3. ASSUME NEW c \in Client, Engine(c) \/ Handler(c), Interferes(Client \ {c}),
               UNCHANGED <<known, left, lost>>
        PROVE  CompletesInv'
    <3>1. TransferProgress(c)
      BY <1>2, <2>3, TransferProgresses
    <3>2. /\ alone'[c] => alone[c]
          /\ \A d \in Client \ {c} : alone'[d] => alone[d] /\ UNCHANGED <<entries, props>>
      BY <2>3 DEF Interferes
    <3>3. ASSUME alone'[c]  PROVE Completes(Now', task'[c], work'[c])
      <4>1. /\ Nested(entries, work[c].stack) /\ Keeps(Now, task[c], work[c])
            /\ Completes(Now, task[c], work[c]) /\ FlatListing(task[c], work[c])
        BY <2>0, <3>2, <3>3 DEF KeepsOwn, CompletesOwn
      <4> QED  BY <1>2, <2>3, <4>1, EngineCompletesAll, HandlerCompletes
    <3>4. CompletesOwn(c)'
      BY <3>3 DEF CompletesOwn
    <3> QED  BY <1>2, <3>1, <3>2, <3>4, OneCompletes DEF TransferProgress, Progress
  <2>4. CASE UNCHANGED transferVars
    <3>1. UNCHANGED <<entries, props, task, work, alone>>
      BY <2>4 DEF transferVars, vars
    <3>2. Now' = Now
      BY <3>1 DEF Now
    <3> QED  BY <1>2, <3>1, <3>2 DEF CompletesInv
  <2> QED  BY <1>2, <2>1, <2>2, <2>3, <2>4 DEF TransferNext
<1> QED  BY <1>1, <1>2, TransfersInvHolds, MayWorkHolds, KeepsHolds, PTL DEF TransferSpec

\* A COPY or MOVE that nobody interferes with, of a source and a destination
\* that are apart, and with nothing but successes among its results, has brought
\* every resource of the source, down to the depth, to the destination, with its
\* data and its dead property, unless that is one of the late ones of a document
\* which MOVE took to another file system; COPY left the source as it was, and MOVE
\* left nothing of it.  The recursive engine creates collections on its way down and
\* removes them on its way up, and leaves out none of the members it listed.
THEOREM TransferIsCompleteHolds == TransferSpec => []TransferIsComplete
<1>1. ASSUME TransfersInv, CompletesInv  PROVE TransferIsComplete
  <2> SUFFICES ASSUME NEW c \in Client, task[c].pc = "dispose destination", alone[c], Apart(c),
                      Succeeded(work[c].results), NEW q \in Path, Within(task[c].path, q)
               PROVE  /\ Was(c, q) # <<>> /\ Len(q) - Len(task[c].path) <= work[c].depth =>
                           LET was == Was(c, q) is == Is(Image(c, q))
                           IN  /\ is # <<>> /\ is[1] = was[1] /\ is[2] = was[2]
                               /\ was[3] # "none" /\ ~ LosesProperty(c, was)
                                    => is[3] = was[3]
                      /\ Is(q) = IF Moves(c) THEN <<>> ELSE Was(c, q)
    BY DEF TransferIsComplete, Source
  <2> DEFINE j == JobOf(task[c], work[c])
  <2>1. Far(task[c], work[c]) /\ Completes(Now, task[c], work[c])
    BY <1>1 DEF Apart, Far, CompletesInv
  <2>2. Successes(work[c].results) /\ work[c].results # {}
    BY DEF Succeeded, Successes
  <2>3. task[c].method \in {"COPY", "MOVE"}
    <3>1. task[c].pc \in TransferStage
      BY DEF TransferStage
    <3> QED  BY <1>1, <3>1, AtTransfer DEF TransferInv
  <2>4. /\ j.from = task[c].path /\ j.to = work[c].destination
        /\ j.depth = work[c].depth /\ j.before = work[c].before
        /\ j.lost = IF Moves(c) /\ ~ work[c].inside THEN Late ELSE {}
    BY DEF JobOf, LostBy, Moves
  <2>5. /\ HasBrought(Now, j, Moves(c))
        /\ task[c].method = "COPY" => LeavesSource(Now, j)
    BY <2>1, <2>2 DEF Completes, Moves
  <2>6. Now.entries = entries /\ Now.props = props
    BY DEF Now
  <2> HIDE DEF j
  <2>7. ASSUME Was(c, q) # <<>>, Len(q) - Len(task[c].path) <= work[c].depth
        PROVE  LET was == Was(c, q) is == Is(Image(c, q))
               IN  /\ is # <<>> /\ is[1] = was[1] /\ is[2] = was[2]
                   /\ was[3] # "none" /\ ~ LosesProperty(c, was) => is[3] = was[3]
    <3>1. Wanted(j, q)
      BY <2>4, <2>7 DEF Wanted, Was
    <3>2. Brought(Now, j, q)
      BY <2>5, <3>1 DEF HasBrought
    <3> QED  BY <2>4, <2>6, <3>2 DEF Brought, LosesProperty, Was, Is, Image, ImageIn
  <2>8. Is(q) = IF Moves(c) THEN <<>> ELSE Was(c, q)
    BY <2>3, <2>4, <2>5, <2>6 DEF HasBrought, Gone, LeavesSource, Is, Was, Moves
  <2> QED  BY <2>7, <2>8
<1> QED  BY <1>1, TransfersInvHolds, CompletesHolds, PTL
=============================================================================
