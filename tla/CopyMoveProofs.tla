--------------------------- MODULE CopyMoveProofs ---------------------------
(***************************************************************************)
(* COPY and MOVE among the other requests: what the engine is at keeps     *)
(* corresponding to the source, the temporary locks end, the lock manager  *)
(* is used as LockTable allows, and the exclusive locks of others are      *)
(* respected, for every tree, every depth and every number of clients and  *)
(* transfers.                                                              *)
(***************************************************************************)
EXTENDS CopyMove, RequestsProofs, WellFoundedInduction

-----------------------------------------------------------------------------
(* The invariant. *)

TransferStage == {"lock source", "select destination", "lock destination", "start",
                  "engine", "dispose destination", "dispose source"}

\* The stages at which the destination is locked or is going to be.
Aimed == {"lock destination", "start", "engine", "dispose destination"}

WorkFields == {"destination", "depth", "overwrite", "inside", "found", "sourceLock",
               "listing", "stack", "results", "before"}

IsWork(w) == w = [field \in WorkFields |-> w[field]]

FrameFields == {"source", "target", "created", "properties", "documents", "collections",
                "memberProperties"}

IsFrame(f) == f = [field \in FrameFields |-> f[field]]

IsEntry(es, e, kind) == e \in DOMAIN es /\ es[e].kind = kind

\* A listing names members of collections; those that are collections are in it.
ListingInv(es, listing) ==
  \A d \in DOMAIN listing :
    /\ IsEntry(es, d, "collection")
    /\ \A m \in listing[d] :
         /\ m \in DOMAIN es \ {1} /\ es[m].parent = d
         /\ es[m].kind = "collection" => m \in DOMAIN listing

\* The two collections of a frame correspond; what is left are members of the
\* source.
FrameInv(es, f, listing, from, to) ==
  /\ IsFrame(f)
  /\ f.source \in DOMAIN listing /\ IsEntry(es, f.target, "collection")
  /\ Within(from, es[f.source].path) /\ Len(from) <= Len(es[f.source].path)
  /\ es[f.target].path = Moved(es[f.source].path, from, to)
  /\ f.documents \subseteq {m \in listing[f.source] : es[m].kind = "document"}
  /\ f.collections \subseteq {m \in listing[f.source] : es[m].kind = "collection"}

IsSequence(s) == \E S : s \in Seq(S)

StackInv(es, w, from) ==
  /\ IsSequence(w.stack)
  /\ \A i \in 1..Len(w.stack) : FrameInv(es, w.stack[i], w.listing, from, w.destination)
  /\ \A i \in 1..Len(w.stack) :
       i < Len(w.stack) => es[w.stack[i].source].parent = w.stack[i + 1].source

\* What c's COPY or MOVE goes by at each stage of it.
TransferInv(es, t, w) ==
  /\ t.method \in {"COPY", "MOVE"}
  /\ Fits(es, t.found, t.path) /\ t.found.missing = 0
  /\ w.depth \in Nat
  /\ t.pc \in {"lock source", "select destination", "lock destination", "dispose source"} =>
       t.lock = NoToken
  /\ t.pc = "lock source" => w.sourceLock = NoToken
  /\ t.pc \in Aimed => Fits(es, w.found, w.destination) /\ w.found.missing <= 1
  /\ t.pc = "engine" => w.stack # <<>>

WorkInv(c) ==
  /\ IsWork(work[c])
  /\ work[c].sourceLock \in issued \cup {NoToken}
  /\ task[c].pc \notin TransferStage => work[c] = NoWork
  /\ task[c].pc \in TransferStage =>
       /\ <<task[c].path, work[c].destination>> \in Transfers[c]
       /\ TransferInv(entries, task[c], work[c])
  /\ task[c].pc # "engine" => work[c].stack = <<>>
  /\ ListingInv(entries, work[c].listing)
  /\ StackInv(entries, work[c], task[c].path)

TransfersInv ==
  /\ RequestsInv
  /\ DOMAIN work = Client
  /\ \A c \in Client : WorkInv(c)
  /\ TransferLocksEnd

-----------------------------------------------------------------------------
(* Sequences and paths. *)

LEMMA PushIs ==
  ASSUME NEW s, IsSequence(s), NEW f
  PROVE  LET more == <<f>> \o s IN
         /\ IsSequence(more) /\ Len(s) \in Nat /\ Len(more) = Len(s) + 1
         /\ more[1] = f /\ \A i \in 1..Len(s) : more[i + 1] = s[i]
<1>1. PICK S : s \in Seq(S)
  BY DEF IsSequence
<1>2. s \in Seq(S \cup {f}) /\ <<f>> \in Seq(S \cup {f})
  BY <1>1
<1>3. <<f>> \o s \in Seq(S \cup {f})
  BY <1>2
<1>4. IsSequence(<<f>> \o s)
  BY <1>3 DEF IsSequence
<1> QED  BY <1>2, <1>4

LEMMA PopIs ==
  ASSUME NEW s, IsSequence(s), s # <<>>
  PROVE  /\ IsSequence(Tail(s)) /\ Len(s) \in Nat \ {0} /\ Len(Tail(s)) = Len(s) - 1
         /\ Head(s) = s[1] /\ \A i \in 1..(Len(s) - 1) : Tail(s)[i] = s[i + 1]
<1>1. PICK S : s \in Seq(S)
  BY DEF IsSequence
<1>2. Tail(s) \in Seq(S)
  BY <1>1
<1>3. IsSequence(Tail(s))
  BY <1>2 DEF IsSequence
<1> QED  BY <1>1, <1>3

Names == UNION {{p[i] : i \in DOMAIN p} : p \in Path}

LEMMA PathIsSequence ==
  ASSUME NEW p \in Path
  PROVE  p \in Seq(Names)
<1>1. p \in Seq({p[i] : i \in DOMAIN p})
  BY CopyMoveAssumption
<1>2. Len(p) \in Nat /\ p \in [1..Len(p) -> {p[i] : i \in DOMAIN p}]
  BY <1>1
<1>3. \A i \in 1..Len(p) : p[i] \in Names
  BY <1>2 DEF Names
<1>4. p \in [1..Len(p) -> Names]
  BY <1>2, <1>3
<1> QED  BY <1>2, <1>4

LEMMA AboveIs ==
  ASSUME NEW p \in Path, p # Root
  PROVE  /\ Above[p] \in Path /\ Len(p) \in Nat \ {0} /\ Len(Above[p]) = Len(p) - 1
         /\ p[Len(p)] \in Names
         /\ \A i \in 1..(Len(p) - 1) : Above[p][i] = p[i]
<1>1. Above[p] \in Path
  BY RequestsAssumption
<1>2. p \in Seq(Names) /\ Above[p] \in Seq(Names)
  BY <1>1, PathIsSequence
<1>3. p = Append(Above[p], p[Len(p)])
  BY CopyMoveAssumption
<1> DEFINE a == Above[p]
           x == p[Len(p)]
<1>4. p = Append(a, x) /\ a \in Seq(Names)
  BY <1>2, <1>3
<1> HIDE DEF a, x
<1>5. Len(p) = Len(a) + 1 /\ Len(a) \in Nat /\ \A i \in 1..Len(a) : p[i] = a[i]
  BY <1>2, <1>4
<1> QED  BY <1>1, <1>2, <1>5 DEF a

\* Two sequences of names that agree are the same.
LEMMA SameNames ==
  ASSUME NEW a \in Seq(Names), NEW b \in Seq(Names), Len(a) = Len(b),
         \A i \in 1..Len(a) : a[i] = b[i]
  PROVE  a = b
OBVIOUS

LEMMA ConcatIs ==
  ASSUME NEW S, NEW a \in Seq(S), NEW b \in Seq(S)
  PROVE  /\ a \o b \in Seq(S) /\ Len(a \o b) = Len(a) + Len(b)
         /\ \A i \in 1..Len(a \o b) :
              (a \o b)[i] = IF i <= Len(a) THEN a[i] ELSE b[i - Len(a)]
OBVIOUS

\* The names of r are those of `to' and then what q has beyond `from'.
IsMoved(r, q, from, to) ==
  /\ r \in Seq(Names)
  /\ Len(r) = Len(to) + (Len(q) - Len(from))
  /\ \A i \in 1..Len(r) : r[i] = IF i <= Len(to) THEN to[i]
                                ELSE q[Len(from) + (i - Len(to))]

LEMMA MovedIs ==
  ASSUME NEW q \in Path, NEW from \in Path, NEW to \in Path, Len(from) <= Len(q)
  PROVE  IsMoved(Moved(q, from, to), q, from, to)
<1> DEFINE rest == SubSeq(q, Len(from) + 1, Len(q))
<1>1. q \in Seq(Names) /\ from \in Seq(Names) /\ to \in Seq(Names)
  BY PathIsSequence
<1>2. Len(q) \in Nat /\ Len(from) \in Nat /\ Len(to) \in Nat
  BY <1>1
<1>3. /\ rest \in Seq(Names) /\ Len(rest) = Len(q) - Len(from)
      /\ \A i \in 1..Len(rest) : rest[i] = q[Len(from) + i]
  BY <1>1, <1>2
<1> HIDE DEF rest
<1>4. Moved(q, from, to) = to \o rest
  BY DEF Moved, rest
<1>5. /\ to \o rest \in Seq(Names) /\ Len(to \o rest) = Len(to) + Len(rest)
      /\ \A i \in 1..Len(to \o rest) :
           (to \o rest)[i] = IF i <= Len(to) THEN to[i] ELSE rest[i - Len(to)]
  BY <1>1, <1>3, ConcatIs
<1> DEFINE all == to \o rest
<1> HIDE DEF all
<1>6. /\ all = Moved(q, from, to) /\ all \in Seq(Names) /\ Len(all) = Len(to) + Len(rest)
      /\ \A i \in 1..Len(all) : all[i] = IF i <= Len(to) THEN to[i] ELSE rest[i - Len(to)]
  BY <1>4, <1>5 DEF all
<1>7. ASSUME NEW i \in 1..Len(all), i > Len(to)
      PROVE  all[i] = q[Len(from) + (i - Len(to))]
  <2>1. i - Len(to) \in 1..Len(rest)
    BY <1>2, <1>3, <1>6, <1>7
  <2> DEFINE j == i - Len(to)
  <2>2. rest[j] = q[Len(from) + j] /\ all[i] = rest[j]
    BY <1>2, <1>3, <1>6, <1>7, <2>1
  <2> QED  BY <2>2
<1>8. \A i \in 1..Len(all) : all[i] = IF i <= Len(to) THEN to[i]
                                      ELSE q[Len(from) + (i - Len(to))]
  BY <1>2, <1>6, <1>7
<1> QED  BY <1>2, <1>3, <1>6, <1>8 DEF IsMoved

LEMMA MovedTop ==
  ASSUME NEW from \in Path, NEW to \in Path
  PROVE  Moved(from, from, to) = to
<1>1. from \in Seq(Names) /\ to \in Seq(Names) /\ Len(from) \in Nat /\ Len(to) \in Nat
  BY PathIsSequence
<1> QED  BY <1>1, MovedIs, SameNames DEF IsMoved

\* A member of a collection goes to a member of where the collection goes.
LEMMA MovedMember ==
  ASSUME NEW p \in Path, NEW q \in Path, q # Root, Above[q] = p,
         NEW from \in Path, NEW to \in Path, Within(from, p), Len(from) <= Len(p)
  PROVE  /\ Within(from, q) /\ Len(from) <= Len(q)
         /\ Append(Moved(p, from, to), q[Len(q)]) = Moved(q, from, to)
<1>1. /\ Len(q) \in Nat \ {0} /\ Len(p) = Len(q) - 1 /\ q[Len(q)] \in Names
      /\ \A i \in 1..(Len(q) - 1) : p[i] = q[i]
  BY AboveIs
<1>2. from \in Seq(Names) /\ to \in Seq(Names) /\ Len(from) \in Nat /\ Len(to) \in Nat
  BY PathIsSequence
<1>3. Within(from, q)
  BY RequestsAssumption DEF Within
<1>4. Len(from) <= Len(q) /\ Len(from) <= Len(p)
  BY <1>1, <1>2
<1> DEFINE a == Moved(p, from, to)
           b == Moved(q, from, to)
           x == q[Len(q)]
<1>5. /\ a \in Seq(Names) /\ Len(a) = Len(to) + (Len(p) - Len(from))
      /\ \A i \in 1..Len(a) : a[i] = IF i <= Len(to) THEN to[i]
                                     ELSE p[Len(from) + (i - Len(to))]
  <2>1. IsMoved(a, p, from, to)
    BY <1>4, MovedIs
  <2> QED  BY <2>1 DEF IsMoved
<1>6. /\ b \in Seq(Names) /\ Len(b) = Len(to) + (Len(q) - Len(from))
      /\ \A i \in 1..Len(b) : b[i] = IF i <= Len(to) THEN to[i]
                                     ELSE q[Len(from) + (i - Len(to))]
  <2>1. IsMoved(b, q, from, to)
    BY <1>4, MovedIs
  <2> QED  BY <2>1 DEF IsMoved
<1>7. x \in Names /\ x = q[Len(q)]
  BY <1>1
<1> HIDE DEF a, b, x
<1>8. /\ Append(a, x) \in Seq(Names) /\ Len(Append(a, x)) = Len(a) + 1
      /\ \A i \in 1..Len(a) : Append(a, x)[i] = a[i]
      /\ Append(a, x)[Len(a) + 1] = x
  BY <1>5, <1>7
<1>9. Len(Append(a, x)) = Len(b)
  BY <1>1, <1>2, <1>5, <1>6, <1>8
<1>10. ASSUME NEW i \in 1..Len(b)  PROVE Append(a, x)[i] = b[i]
  <2>1. CASE i = Len(b)
    <3>1. i = Len(a) + 1 /\ i > Len(to) /\ Len(from) + (i - Len(to)) = Len(q)
      BY <1>1, <1>2, <1>4, <1>5, <1>6, <1>8, <1>9, <2>1
    <3>2. b[i] = q[Len(q)]
      BY <1>2, <1>6, <3>1
    <3> QED  BY <1>7, <1>8, <3>1, <3>2
  <2>2. CASE i < Len(b)
    <3>1. i \in 1..Len(a)
      BY <1>1, <1>2, <1>5, <1>6, <2>2
    <3>2. a[i] = b[i]
      <4>1. CASE i <= Len(to)
        BY <1>5, <1>6, <3>1, <4>1
      <4>2. CASE i > Len(to)
        <5>1. Len(from) + (i - Len(to)) \in 1..(Len(q) - 1)
          BY <1>1, <1>2, <1>5, <3>1, <4>2
        <5> QED  BY <1>1, <1>2, <1>5, <1>6, <3>1, <4>2, <5>1
      <4> QED  BY <1>2, <4>1, <4>2
    <3> QED  BY <1>8, <3>1, <3>2
  <2>3. Len(b) \in Nat
    BY <1>6
  <2>4. i = Len(b) \/ i < Len(b)
    BY <2>3
  <2> QED  BY <2>1, <2>2, <2>4
<1>11. Append(a, x) = b
  BY <1>6, <1>8, <1>9, <1>10, SameNames
<1> QED  BY <1>3, <1>4, <1>11 DEF a, b, x

\* A path that is another one and a name is a member of that one.
LEMMA AppendIs ==
  ASSUME NEW p \in Path, NEW a \in Path, NEW x \in Names, p = Append(a, x)
  PROVE  p # Root /\ Above[p] = a
<1>1. /\ a \in Seq(Names) /\ Append(a, x) \in Seq(Names) /\ p \in Seq(Names)
      /\ Len(a) \in Nat
  <2>1. a \in Seq(Names)
    BY PathIsSequence
  <2> QED  BY <2>1
<1>2. Len(p) = Len(a) + 1 /\ \A i \in 1..Len(a) : p[i] = a[i]
  BY <1>1
<1>3. p # Root
  BY <1>1, <1>2, CopyMoveAssumption
<1>4. /\ Above[p] \in Path /\ Len(Above[p]) = Len(p) - 1
      /\ \A i \in 1..(Len(p) - 1) : Above[p][i] = p[i]
  BY <1>3, AboveIs
<1>5. Above[p] \in Seq(Names)
  BY <1>4, PathIsSequence
<1> QED  BY <1>1, <1>2, <1>3, <1>4, <1>5, SameNames

-----------------------------------------------------------------------------
(* What the target actions do to the file system and the properties. *)

Sound(fs) ==
  /\ fs = [entries |-> fs.entries, props |-> fs.props]
  /\ FileSystemInv(fs.entries) /\ DOMAIN fs.props = Path

\* gs comes after fs.
Leads(fs, gs) == Sound(gs) /\ Evolves(fs.entries, gs.entries)

LEMMA EvolvesTwice ==
  ASSUME NEW es, NEW fs, NEW gs, Evolves(es, fs), Evolves(fs, gs)
  PROVE  Evolves(es, gs)
BY DEF Evolves

LEMMA LeadsOn ==
  ASSUME NEW fs, NEW gs, NEW hs, Leads(fs, gs), Leads(gs, hs)
  PROVE  Leads(fs, hs)
BY EvolvesTwice DEF Leads

LEMMA ItselfLeads ==
  ASSUME NEW fs, Sound(fs)
  PROVE  Leads(fs, fs)
BY DEF Leads, Evolves

LEMMA EntryIs ==
  ASSUME NEW es, FileSystemInv(es), NEW e \in DOMAIN es
  PROVE  /\ es[e].path \in Path /\ es[e].data \in Data
         /\ es[e].kind \in {"collection", "document"}
         /\ es[e].kind = "document" => e # 1
         /\ e # 1 => /\ es[e].parent \in DOMAIN es /\ es[e].path # Root
                     /\ es[es[e].parent].kind = "collection"
                     /\ es[es[e].parent].path = Above[es[e].path]
<1>1. es \in Seq(Entry)
  BY DEF FileSystemInv
<1>2. es[e] \in Entry
  BY <1>1
<1>3. /\ es[e].path \in Path /\ es[e].data \in Data
      /\ es[e].kind \in {"collection", "document"}
  BY <1>2 DEF Entry
<1> QED  BY <1>3 DEF FileSystemInv

LEMMA TakeAwayLeads ==
  ASSUME NEW fs, Sound(fs), NEW e \in DOMAIN fs.entries, e # 1
  PROVE  Leads(fs, TakeAway(fs, e))
<1> DEFINE p  == fs.entries[e].path
           d  == fs.entries[e].parent
           es == Remove(fs.entries, p, d)
           ps == [fs.props EXCEPT ![p] = "none"]
<1>1. d \in DOMAIN fs.entries /\ FileSystemInv(fs.entries)
  BY EntryIs DEF Sound
<1>2. FileSystemInv(es) /\ Evolves(fs.entries, es)
  BY <1>1, RemoveKeeps
<1>3. DOMAIN ps = Path
  BY DEF Sound
<1>4. CASE Members(fs.entries, d, p) = {}
  BY <1>4, ItselfLeads DEF TakeAway
<1>5. CASE Members(fs.entries, d, p) # {}
  <2>1. TakeAway(fs, e) = [entries |-> es, props |-> ps]
    BY <1>5 DEF TakeAway
  <2> HIDE DEF es, ps
  <2> QED  BY <1>2, <1>3, <2>1 DEF Leads, Sound
<1> QED  BY <1>4, <1>5

LEMMA SetPropertiesLeads ==
  ASSUME NEW fs, Sound(fs), NEW p, NEW properties
  PROVE  /\ Leads(fs, SetProperties(fs, p, properties))
         /\ SetProperties(fs, p, properties).entries = fs.entries
<1> DEFINE ps == [fs.props EXCEPT ![p] = properties]
<1>1. CASE properties = "none"
  BY <1>1, ItselfLeads DEF SetProperties
<1>2. CASE properties # "none"
  <2>1. fs = [entries |-> fs.entries, props |-> fs.props]
    BY DEF Sound
  <2>2. SetProperties(fs, p, properties) = [entries |-> fs.entries, props |-> ps]
    BY <1>2, <2>1 DEF SetProperties
  <2>3. DOMAIN ps = Path
    BY DEF Sound
  <2> HIDE DEF ps
  <2> QED  BY <2>2, <2>3 DEF Leads, Sound, Evolves
<1> QED  BY <1>1, <1>2

\* A place for p: the collection it is to be a member of.
IsPlace(es, p, d) == p \in Path \ {Root} /\ IsEntry(es, d, "collection") /\ es[d].path = Above[p]

LEMMA PlaceStays ==
  ASSUME NEW es, NEW fs, Evolves(es, fs), NEW p, NEW d, IsPlace(es, p, d)
  PROVE  IsPlace(fs, p, d)
BY DEF IsPlace, IsEntry, Evolves

LEMMA CreateLeads ==
  ASSUME NEW es, FileSystemInv(es), NEW kind \in {"collection", "document"},
         NEW p, NEW d, IsPlace(es, p, d), CanCreate(es, p, d), NEW data \in Data,
         NEW fs, fs = Create(es, kind, p, d, data)
  PROVE  /\ FileSystemInv(fs) /\ Evolves(es, fs)
         /\ Grown(es, fs, kind, p, d, data)
BY CreateKeeps DEF IsPlace, IsEntry

\* After a removal the name is free.
LEMMA RemoveFrees ==
  ASSUME NEW es, FileSystemInv(es), NEW p, NEW d \in DOMAIN es,
         NEW fs, fs = Remove(es, p, d)
  PROVE  CanCreate(fs, p, d)
<1>1. FileSystemInv(fs) /\ Evolves(es, fs) /\ Shrunk(es, fs, p, d)
  BY RemoveKeeps
<1>2. fs[d].members = es[d].members \ Members(es, d, p)
  BY <1>1 DEF Shrunk
<1>3. es[d].members \subseteq DOMAIN es
  BY DEF FileSystemInv
<1>4. \A e \in es[d].members : fs[e].path = es[e].path
  BY <1>1, <1>3 DEF Evolves
<1> QED  BY <1>2, <1>4 DEF CanCreate, Members

LEMMA CopyToLeads ==
  ASSUME NEW fs, Sound(fs), NEW e \in DOMAIN fs.entries, NEW p, NEW d,
         IsPlace(fs.entries, p, d)
  PROVE  Leads(fs, CopyTo(fs, e, p, d).fs)
<1> DEFINE es == Remove(fs.entries, p, d)
           gs == Create(es, "document", p, d, fs.entries[e].data)
           ps == [fs.props EXCEPT ![p] = fs.props[fs.entries[e].path]]
<1>1. /\ FileSystemInv(fs.entries) /\ d \in DOMAIN fs.entries /\ fs.entries[e].data \in Data
      /\ DOMAIN ps = Path
  BY EntryIs DEF Sound, IsPlace, IsEntry
<1>2. FileSystemInv(es) /\ Evolves(fs.entries, es) /\ CanCreate(es, p, d)
  BY <1>1, RemoveKeeps, RemoveFrees
<1>3. IsPlace(es, p, d)
  BY <1>2, PlaceStays
<1>4. CopyTo(fs, e, p, d).fs = [entries |-> gs, props |-> ps]
  BY DEF CopyTo, Outcome
<1> HIDE DEF es
<1>5. FileSystemInv(gs) /\ Evolves(es, gs)
  BY <1>1, <1>2, <1>3, CreateLeads
<1> HIDE DEF gs, ps
<1>6. Evolves(fs.entries, gs)
  BY <1>2, <1>5, EvolvesTwice
<1> QED  BY <1>1, <1>4, <1>5, <1>6 DEF Leads, Sound

LEMMA MoveToLeads ==
  ASSUME NEW fs, Sound(fs), NEW e \in DOMAIN fs.entries, e # 1, NEW p, NEW d,
         IsPlace(fs.entries, p, d)
  PROVE  Leads(fs, MoveTo(fs, e, p, d).fs)
<1> DEFINE it == fs.entries[e]
           es == Create(fs.entries, "document", p, d, it.data)
           gs == Remove(es, it.path, it.parent)
           ps == [fs.props EXCEPT ![p] = fs.props[it.path]]
<1>1. /\ FileSystemInv(fs.entries) /\ it.data \in Data /\ it.parent \in DOMAIN fs.entries
      /\ DOMAIN ps = Path /\ DOMAIN fs.props = Path
      /\ fs = [entries |-> fs.entries, props |-> fs.props]
  BY EntryIs DEF Sound
<1>2. CASE ~ CanCreate(fs.entries, p, d)
  <2>1. MoveTo(fs, e, p, d).fs = fs
    BY <1>2 DEF MoveTo, Outcome
  <2> QED  BY <2>1, ItselfLeads
<1>3. CASE CanCreate(fs.entries, p, d)
  <2>1. FileSystemInv(es) /\ Evolves(fs.entries, es)
    BY <1>1, <1>3, CreateLeads
  <2>2. it.parent \in DOMAIN es
    BY <1>1, <2>1 DEF Evolves
  <2>3. CASE Members(es, it.parent, it.path) = {}
    <3>1. MoveTo(fs, e, p, d).fs = [fs EXCEPT !.entries = es]
      BY <1>3, <2>3 DEF MoveTo, Outcome
    <3> HIDE DEF es
    <3>2. MoveTo(fs, e, p, d).fs = [entries |-> es, props |-> fs.props]
      BY <1>1, <3>1
    <3> QED  BY <1>1, <2>1, <3>2 DEF Leads, Sound
  <2>4. CASE Members(es, it.parent, it.path) # {}
    <3>1. MoveTo(fs, e, p, d).fs = [entries |-> gs, props |-> ps]
      BY <1>3, <2>4 DEF MoveTo, Outcome
    <3> HIDE DEF es
    <3>2. FileSystemInv(gs) /\ Evolves(es, gs)
      BY <2>1, <2>2, RemoveKeeps
    <3> HIDE DEF gs, ps
    <3>3. Evolves(fs.entries, gs)
      BY <2>1, <3>2, EvolvesTwice
    <3> QED  BY <1>1, <3>1, <3>2, <3>3 DEF Leads, Sound
  <2> QED  BY <2>3, <2>4
<1> QED  BY <1>2, <1>3

LEMMA StreamLeads ==
  ASSUME NEW fs, Sound(fs), NEW e \in DOMAIN fs.entries, e # 1, NEW p, NEW d,
         IsPlace(fs.entries, p, d), NEW target \in DOMAIN fs.entries \cup {0},
         NEW moves
  PROVE  Leads(fs, Stream(fs, e, p, d, target, moves).fs)
<1> DEFINE data == fs.entries[e].data
           es   == IF target = 0 THEN Create(fs.entries, "document", p, d, data)
                   ELSE [fs.entries EXCEPT ![target].data = data]
           done == [fs EXCEPT !.entries = es]
<1>1. /\ FileSystemInv(fs.entries) /\ data \in Data /\ DOMAIN fs.props = Path
      /\ fs = [entries |-> fs.entries, props |-> fs.props]
  BY EntryIs DEF Sound
<1>2. CASE target = 0 /\ ~ CanCreate(fs.entries, p, d)
  <2>1. Stream(fs, e, p, d, target, moves).fs = fs
    BY <1>2 DEF Stream, Outcome
  <2> QED  BY <2>1, ItselfLeads
<1>3. CASE ~ (target = 0 /\ ~ CanCreate(fs.entries, p, d))
  <2>1. FileSystemInv(es) /\ Evolves(fs.entries, es)
    <3>1. CASE target = 0
      BY <1>1, <1>3, <3>1, CreateLeads
    <3>2. CASE target # 0
      BY <1>1, <3>2, PutKeeps
    <3> QED  BY <3>1, <3>2
  <2>2. Stream(fs, e, p, d, target, moves).fs = IF moves THEN TakeAway(done, e) ELSE done
    BY <1>3 DEF Stream, Outcome
  <2> HIDE DEF es
  <2>3. done = [entries |-> es, props |-> fs.props]
    BY <1>1
  <2> HIDE DEF done
  <2>4. Leads(fs, done)
    BY <1>1, <2>1, <2>3 DEF Leads, Sound
  <2>5. e \in DOMAIN done.entries
    BY <2>4 DEF Leads, Evolves
  <2>6. Leads(done, TakeAway(done, e))
    BY <2>4, <2>5, TakeAwayLeads DEF Leads
  <2>7. Leads(fs, TakeAway(done, e))
    BY <2>4, <2>6, LeadsOn
  <2> QED  BY <2>2, <2>4, <2>7
<1> QED  BY <1>2, <1>3

LEMMA ExecuteLeads ==
  ASSUME Sound(Now), NEW c \in Client, NEW e \in DOMAIN entries, e # 1, NEW p, NEW d,
         IsPlace(entries, p, d), NEW target \in DOMAIN entries \cup {0}
  PROVE  Leads(Now, Execute(c, e, p, d, target).fs)
<1> DEFINE outcome == IF ~ work[c].inside THEN Stream(Now, e, p, d, target, Moves(c))
                      ELSE IF Moves(c) THEN MoveTo(Now, e, p, d)
                      ELSE CopyTo(Now, e, p, d)
           properties == ReadOf(outcome.fs, entries[e].path,
                                Collected(props[entries[e].path]))
<1>1. Now.entries = entries
  BY DEF Now
<1>2. Leads(Now, outcome.fs)
  BY <1>1, StreamLeads, MoveToLeads, CopyToLeads
<1>3. Execute(c, e, p, d, target).fs \in {Now, SetProperties(outcome.fs, p, properties), outcome.fs}
  BY DEF Execute
<1> HIDE DEF outcome, properties
<1>4. Leads(outcome.fs, SetProperties(outcome.fs, p, properties))
  BY <1>2, SetPropertiesLeads DEF Leads
<1>5. Leads(Now, SetProperties(outcome.fs, p, properties))
  BY <1>2, <1>4, LeadsOn
<1> QED  BY <1>2, <1>3, <1>5, ItselfLeads

-----------------------------------------------------------------------------
(* What Listing computes.  Its function goes down the levels; that there is *)
(* such a function has to be shown.                                         *)

LevelAt(es, top, w, k) ==
  IF k = 0 THEN {top}
  ELSE {m \in UNION {es[d].members : d \in w[k - 1]} : es[m].kind = "collection"}

Levels(es, top, depth) == CHOOSE w : w = [k \in 0..depth |-> LevelAt(es, top, w, k)]

LEMMA ListingIs ==
  ASSUME NEW es, NEW top, NEW depth
  PROVE  LET level == Levels(es, top, depth) IN
         Listing(es, top, depth) =
           [d \in UNION {level[k] : k \in 0..depth} |->
              IF d \in level[depth] THEN {} ELSE es[d].members]
BY DEF Listing, Levels, LevelAt

LEMMA Least ==
  ASSUME NEW ns, ns \subseteq Nat, ns # {}
  PROVE  \E n \in ns : \A k \in ns : n <= k
<1>1. PICK n \in ns : \A k \in ns : ~ (<<k, n>> \in OpToRel(<, Nat))
  BY WFMin, NatLessThanWellFounded, Zenon
<1>2. \A k \in ns : ~ (k < n)
  BY <1>1 DEF OpToRel
<1> QED  BY <1>2

LEMMA LevelsExist ==
  ASSUME NEW es, NEW top
  PROVE  \A n \in Nat : \E w : w = [k \in 0..n |-> LevelAt(es, top, w, k)]
<1> DEFINE bad == {n \in Nat : ~ \E w : w = [k \in 0..n |-> LevelAt(es, top, w, k)]}
<1> SUFFICES ASSUME bad # {}  PROVE FALSE
  OBVIOUS
<1>1. PICK n \in bad : \A k \in bad : n <= k
  BY Least
<1>2. CASE n = 0
  <2> DEFINE w == [k \in 0..0 |-> {top}]
  <2>1. w = [k \in 0..0 |-> LevelAt(es, top, w, k)]
    BY DEF LevelAt
  <2> QED  BY <1>2, <2>1
<1>3. CASE n # 0
  <2>1. n - 1 \in Nat /\ n - 1 \notin bad
    BY <1>1, <1>3
  <2>2. PICK w : w = [k \in 0..(n - 1) |-> LevelAt(es, top, w, k)]
    BY <2>1
  <2> DEFINE more == [k \in 0..n |-> IF k = n THEN LevelAt(es, top, w, n) ELSE w[k]]
  <2>3. \A k \in 0..n : more[k] = LevelAt(es, top, more, k)
    <3> SUFFICES ASSUME NEW k \in 0..n  PROVE more[k] = LevelAt(es, top, more, k)
      OBVIOUS
    <3>1. k # 0 => more[k - 1] = w[k - 1]
      BY <2>1
    <3>2. more[k] = LevelAt(es, top, w, k)
      <4>1. CASE k = n
        BY <4>1
      <4>2. CASE k # n
        <5>1. k \in 0..(n - 1)
          BY <2>1, <4>2
        <5>2. w[k] = LevelAt(es, top, w, k)
          BY <2>2, <5>1
        <5> QED  BY <4>2, <5>2
      <4> QED  BY <4>1, <4>2
    <3> HIDE DEF more
    <3> QED  BY <3>1, <3>2 DEF LevelAt
  <2>4. more = [k \in 0..n |-> LevelAt(es, top, more, k)]
    BY <2>3
  <2> HIDE DEF more
  <2> QED  BY <2>4
<1> QED  BY <1>2, <1>3

LEMMA LevelsIs ==
  ASSUME NEW es, NEW top, NEW depth \in Nat, NEW k \in 0..depth
  PROVE  Levels(es, top, depth)[k] = LevelAt(es, top, Levels(es, top, depth), k)
<1>1. \E w : w = [i \in 0..depth |-> LevelAt(es, top, w, i)]
  BY LevelsExist
<1> DEFINE level == Levels(es, top, depth)
<1>2. level = [i \in 0..depth |-> LevelAt(es, top, level, i)]
  BY <1>1 DEF Levels
<1> HIDE DEF level
<1>3. level[k] = LevelAt(es, top, level, k)
  BY <1>2
<1> QED  BY <1>3 DEF level

\* The listing of a collection is in order, and has the collection.
LEMMA ListingInOrder ==
  ASSUME NEW es, FileSystemInv(es), NEW top, IsEntry(es, top, "collection"),
         NEW depth \in Nat
  PROVE  ListingInv(es, Listing(es, top, depth)) /\ top \in DOMAIN Listing(es, top, depth)
<1> DEFINE level == Levels(es, top, depth)
           listing == Listing(es, top, depth)
           Good(k) == \A d \in level[k] : IsEntry(es, d, "collection")
           bad == {k \in 0..depth : ~ Good(k)}
<1>1. \A k \in 0..depth :
        level[k] = IF k = 0 THEN {top}
                   ELSE {m \in UNION {es[d].members : d \in level[k - 1]} :
                           es[m].kind = "collection"}
  <2> SUFFICES ASSUME NEW k \in 0..depth
               PROVE  level[k] = LevelAt(es, top, level, k)
    BY DEF LevelAt
  <2> QED  BY LevelsIs
<1>2. listing = [d \in UNION {level[k] : k \in 0..depth} |->
                   IF d \in level[depth] THEN {} ELSE es[d].members]
  BY ListingIs
<1>3. \A d \in DOMAIN es : es[d].members \subseteq DOMAIN es \ {1}
                           /\ \A m \in es[d].members : es[m].parent = d
  BY DEF FileSystemInv, IsFileSystem
<1> HIDE DEF level, listing
<1>4. bad = {}
  <2> SUFFICES ASSUME bad # {}  PROVE FALSE
    OBVIOUS
  <2>1. bad \subseteq Nat
    OBVIOUS
  <2>2. PICK k \in bad : \A i \in bad : k <= i
    <3> HIDE DEF bad
    <3> QED  BY <2>1, Least
  <2>3. CASE k = 0
    BY <1>1, <2>2, <2>3 DEF IsEntry
  <2>4. CASE k # 0
    <3>1. k - 1 \in 0..depth /\ ~ (k <= k - 1)
      BY <2>2, <2>4
    <3>2. Good(k - 1)
      BY <2>2, <3>1
    <3>3. level[k] = {m \in UNION {es[d].members : d \in level[k - 1]} :
                        es[m].kind = "collection"}
      BY <1>1, <2>2, <2>4
    <3>4. Good(k)
      BY <1>3, <3>2, <3>3 DEF IsEntry
    <3> QED  BY <2>2, <3>4
  <2> QED  BY <2>3, <2>4
<1>5. \A k \in 0..depth : Good(k)
  BY <1>4
<1>6. \A d \in DOMAIN listing : IsEntry(es, d, "collection")
  BY <1>2, <1>5
<1>7. ASSUME NEW d \in DOMAIN listing, NEW m \in listing[d]
      PROVE  /\ m \in DOMAIN es \ {1} /\ es[m].parent = d
             /\ es[m].kind = "collection" => m \in DOMAIN listing
  <2>1. d \in DOMAIN es /\ m \in es[d].members /\ d \notin level[depth]
    BY <1>2, <1>6, <1>7 DEF IsEntry
  <2>2. PICK k \in 0..depth : d \in level[k]
    BY <1>2, <1>7
  <2>3. k + 1 \in 0..depth /\ k + 1 # 0 /\ (k + 1) - 1 = k
    BY <2>1, <2>2
  <2>4. level[k + 1] = {i \in UNION {es[x].members : x \in level[k]} :
                          es[i].kind = "collection"}
    BY <1>1, <2>3
  <2>5. es[m].kind = "collection" => m \in level[k + 1]
    BY <2>1, <2>2, <2>4
  <2> QED  BY <1>2, <1>3, <2>1, <2>3, <2>5
<1>8. top \in DOMAIN listing
  <2>1. 0 \in 0..depth
    OBVIOUS
  <2>2. level[0] = IF 0 = 0 THEN {top}
                   ELSE {m \in UNION {es[d].members : d \in level[0 - 1]} :
                           es[m].kind = "collection"}
    BY <1>1, <2>1
  <2>3. top \in level[0]
    BY <2>2
  <2> QED  BY <1>2, <2>1, <2>3
<1> QED  BY <1>6, <1>7, <1>8 DEF ListingInv, listing

-----------------------------------------------------------------------------
(* What a step does to the transfers of others. *)

LEMMA ListingEvolves ==
  ASSUME NEW es, NEW fs, Evolves(es, fs), NEW listing, ListingInv(es, listing)
  PROVE  ListingInv(fs, listing)
BY DEF ListingInv, IsEntry, Evolves

LEMMA FrameEvolves ==
  ASSUME NEW es, NEW fs, Evolves(es, fs), NEW listing, ListingInv(es, listing),
         NEW f, NEW from, NEW to, FrameInv(es, f, listing, from, to)
  PROVE  FrameInv(fs, f, listing, from, to)
<1>1. /\ IsEntry(es, f.source, "collection") /\ IsEntry(es, f.target, "collection")
      /\ \A m \in listing[f.source] : m \in DOMAIN es
  BY DEF FrameInv, ListingInv
<1>2. /\ fs[f.source].path = es[f.source].path /\ fs[f.target].path = es[f.target].path
      /\ IsEntry(fs, f.target, "collection")
      /\ \A m \in listing[f.source] : fs[m].kind = es[m].kind
  BY <1>1 DEF IsEntry, Evolves
<1> QED  BY <1>1, <1>2 DEF FrameInv

LEMMA StackEvolves ==
  ASSUME NEW es, NEW fs, Evolves(es, fs), NEW w, ListingInv(es, w.listing),
         NEW from, StackInv(es, w, from)
  PROVE  StackInv(fs, w, from)
<1>1. \A i \in 1..Len(w.stack) : FrameInv(es, w.stack[i], w.listing, from, w.destination)
  BY DEF StackInv
<1>2. \A i \in 1..Len(w.stack) : FrameInv(fs, w.stack[i], w.listing, from, w.destination)
  BY <1>1, FrameEvolves
<1>3. \A i \in 1..Len(w.stack) : w.stack[i].source \in DOMAIN es
  BY <1>1 DEF FrameInv, ListingInv, IsEntry
<1>4. \A i \in 1..Len(w.stack) : fs[w.stack[i].source].parent = es[w.stack[i].source].parent
  BY <1>3 DEF Evolves
<1> QED  BY <1>2, <1>4 DEF StackInv

LEMMA OthersWork ==
  ASSUME NEW d \in Client, WorkInv(d), task'[d] = task[d], work'[d] = work[d],
         Evolves(entries, entries'), issued \subseteq issued'
  PROVE  WorkInv(d)'
<1>1. ListingInv(entries', work[d].listing)
  BY ListingEvolves DEF WorkInv
<1>2. StackInv(entries', work[d], task[d].path)
  BY StackEvolves DEF WorkInv
<1>3. TransferInv(entries, task[d], work[d]) => TransferInv(entries', task[d], work[d])
  <2>1. Fits(entries, task[d].found, task[d].path) => Fits(entries', task[d].found, task[d].path)
    BY FitsEvolves
  <2>2. Fits(entries, work[d].found, work[d].destination)
          => Fits(entries', work[d].found, work[d].destination)
    BY FitsEvolves
  <2> QED  BY <2>1, <2>2 DEF TransferInv
<1> QED  BY <1>1, <1>2, <1>3 DEF WorkInv

\* The locks that are to end with c's request.
Carried(c) == {task[c].lock, work[c].sourceLock}

\* A step of c's request, or of a client that has one.
TransferProgress(c) ==
  /\ Progress(c)
  /\ DOMAIN work' = Client
  /\ \A d \in Client \ {c} : work'[d] = work[d]
  /\ WorkInv(c)'
  /\ \A t \in Held' \ issued : locks'[t].temporary => locks'[t].owner = c /\ t \in Carried(c)'
  /\ \A t \in Carried(c) \cap Held' :
       locks'[t].temporary => t \in Carried(c)' \/ t \in lost'
  /\ lost \subseteq lost'

LEMMA TransferProgressKeeps ==
  ASSUME TransfersInv, NEW c \in Client, TransferProgress(c)
  PROVE  TransfersInv'
<1>1. RequestsInv'
  BY ProgressKeeps DEF TransfersInv, TransferProgress
<1>2. ASSUME NEW d \in Client  PROVE WorkInv(d)'
  <2>1. CASE d = c
    BY <2>1 DEF TransferProgress
  <2>2. CASE d # c
    <3>1. /\ WorkInv(d) /\ task'[d] = task[d] /\ work'[d] = work[d]
          /\ Evolves(entries, entries') /\ issued \subseteq issued'
      BY <2>2 DEF TransfersInv, TransferProgress, Progress, Kept
    <3> QED  BY <3>1, OthersWork
  <2> QED  BY <2>1, <2>2
<1>3. TransferLocksEnd'
  <2>1. /\ \A t \in Held' \cap issued : t \in Held /\ locks'[t] = locks[t]
        /\ \A t \in Held' : locks'[t] \in ActiveLock
    BY HeldBefore DEF TransfersInv, RequestsInv, TransferProgress, Progress
  <2> SUFFICES ASSUME NEW t \in Held', locks'[t].temporary
               PROVE  t \in {task'[locks'[t].owner].lock, work'[locks'[t].owner].sourceLock}
                      \/ t \in lost'
    BY DEF TransferLocksEnd, Explicit
  <2>2. CASE t \notin issued
    BY <2>2 DEF TransferProgress, Carried
  <2>3. CASE t \in issued
    <3>1. t \in Held /\ locks'[t] = locks[t] /\ locks[t].owner \in Client
      BY <2>1, <2>3 DEF ActiveLock
    <3>2. t \in {task[locks[t].owner].lock, work[locks[t].owner].sourceLock} \/ t \in lost
      BY <3>1 DEF TransfersInv, TransferLocksEnd, Explicit
    <3>3. CASE locks[t].owner = c
      BY <3>1, <3>2, <3>3 DEF TransferProgress, Carried
    <3>4. CASE locks[t].owner # c
      BY <3>1, <3>2, <3>4 DEF TransferProgress, Progress
    <3> QED  BY <3>3, <3>4
  <2> QED  BY <2>2, <2>3
<1> QED  BY <1>1, <1>2, <1>3 DEF TransfersInv, TransferProgress

-----------------------------------------------------------------------------
(* The other requests neither begin nor go on with a transfer. *)

Ordinary(c) ==
  task'[c] # task[c] => task[c].pc \notin TransferStage /\ task'[c].pc \notin TransferStage

LEMMA StagesAre ==
  /\ \A pc \in {"idle", "lock", "act", "write", "properties", "affected", "release",
                "dispose", "select", "create"} : pc \in Stage \ TransferStage
  /\ TransferStage \subseteq Stage /\ Aimed \subseteq TransferStage
BY DEF Stage, TransferStage, Aimed

LEMMA OrdinaryGoes ==
  ASSUME RequestsInv, NEW c \in Client, task[c].pc \notin TransferStage,
         NEW pc \in Stage \ TransferStage,
         \/ GoTo(c, pc)
         \/ \E e : task' = [task EXCEPT ![c].pc = pc, ![c].entry = e]
         \/ \E t : task' = [task EXCEPT ![c].pc = pc, ![c].lock = t]
         \/ \E r : task' = [task EXCEPT ![c].pc = pc, ![c].remove = r]
         \/ \E f : task' = [task EXCEPT ![c].pc = pc, ![c].found = f]
  PROVE  Ordinary(c)
<1>1. task'[c].pc = pc
  BY StageOf
<1> QED  BY <1>1 DEF Ordinary

LEMMA OrdinaryAnswers ==
  ASSUME RequestsInv, NEW c \in Client, task[c].pc \notin TransferStage, Answer(c)
  PROVE  Ordinary(c)
BY AnswerIs, IdleIsTask, StagesAre DEF Ordinary, RequestsInv

LEMMA SentIsOrdinary ==
  ASSUME RequestsInv, NEW c \in Client, Sent(c)
  PROVE  Ordinary(c)
<1>0. task \in [Client -> Task]
  BY DEF RequestsInv, StateInv
<1>u. ASSUME UNCHANGED task  PROVE Ordinary(c)
  BY <1>u DEF Ordinary
<1>1. ASSUME NEW p, NEW method, NEW t, Begin(c, method, p, t)
      PROVE  Ordinary(c)
  <2>1. task[c].pc = "idle"
    BY <1>1 DEF Begin, Sends
  <2>2. ASSUME task' = [task EXCEPT ![c] = BeginTask(method, p, t, p, Select(entries, p))]
        PROVE  Ordinary(c)
    <3>1. task'[c].pc = "lock"
      BY <1>0, <2>2, BeginTaskIs
    <3> QED  BY <2>1, <3>1 DEF Ordinary, TransferStage
  <2> QED  BY <1>1, <1>u, <2>2 DEF Begin, BeginTask
<1>2. ASSUME NEW p, NEW recursive, NEW share, LockRequest(c, p, recursive, share)
      PROVE  Ordinary(c)
  <2>1. task[c].pc = "idle"
    BY <1>2 DEF LockRequest, Sends
  <2>2. ASSUME NEW t, task' = [task EXCEPT ![c] = LockTask(p, t)]
        PROVE  Ordinary(c)
    <3>1. task'[c].pc = "select"
      BY <1>0, <2>2, LockTaskIs
    <3> QED  BY <2>1, <3>1 DEF Ordinary, TransferStage
  <2> QED  BY <1>2, <1>u, <2>2 DEF LockRequest, LockTask
<1> QED  BY <1>1, <1>2, <1>u DEF Sent, Unlock

LEMMA StepIsOrdinary ==
  ASSUME RequestsInv, NEW c \in Client, Step(c) \/ HangUp(c)
  PROVE  Ordinary(c)
<1>0. task \in [Client -> Task] /\ OwnInv(c) /\ PowerInv(c)
  BY DEF RequestsInv, StateInv
<1>1. task[c].pc \notin TransferStage
  BY DEF Step, HangUp, LockImplicit, Dispose, LockSelect, LockCreate, Open, Write,
         WriteProperties, Make, Delete, FindAffected, ReleaseAffected, At, TransferStage
<1>g. ASSUME NEW pc \in {"act", "properties", "affected", "release", "dispose"}, GoTo(c, pc)
      PROVE  Ordinary(c)
  BY <1>1, <1>g, StagesAre, OrdinaryGoes
<1>4. CASE LockImplicit(c)
  <2>1. ASSUME NEW t, task' = [task EXCEPT ![c].pc = "act", ![c].lock = t]
        PROVE  Ordinary(c)
    BY <1>1, <2>1, StagesAre, OrdinaryGoes
  <2> QED  BY <1>1, <1>4, <2>1, OrdinaryAnswers DEF LockImplicit
<1>5. CASE LockSelect(c)
  <2>1. ASSUME NEW f, task' = [task EXCEPT ![c].pc = "create", ![c].found = f]
        PROVE  Ordinary(c)
    BY <1>1, <2>1, StagesAre, OrdinaryGoes
  <2> QED  BY <1>1, <1>5, <2>1, OrdinaryAnswers DEF LockSelect
<1>6. CASE Open(c)
  <2>1. ASSUME NEW e, task' = [task EXCEPT ![c].pc = "write", ![c].entry = e]
        PROVE  Ordinary(c)
    BY <1>1, <2>1, StagesAre, OrdinaryGoes
  <2> QED  BY <1>6, <1>g, <2>1 DEF Open
<1>8. CASE FindAffected(c)
  <2>1. ASSUME NEW r, task' = [task EXCEPT ![c].pc = "release", ![c].remove = r]
        PROVE  Ordinary(c)
    BY <1>1, <2>1, StagesAre, OrdinaryGoes
  <2> QED  BY <1>8, <2>1 DEF FindAffected
<1>9. CASE ReleaseAffected(c)
  <2>1. ASSUME NEW r, task' = [task EXCEPT ![c].remove = r]
        PROVE  Ordinary(c)
    <3>1. task'[c] = [task[c] EXCEPT !.remove = r]
      BY <1>0, <2>1
    <3>2. task'[c].pc = task[c].pc
      BY <1>0, <3>1, TaskWith
    <3> QED  BY <1>1, <3>2 DEF Ordinary
  <2> QED  BY <1>9, <1>g, <2>1 DEF ReleaseAffected
<1>10. CASE HangUp(c) \/ Dispose(c) \/ LockCreate(c)
  BY <1>1, <1>10, <1>g, OrdinaryAnswers DEF HangUp, Dispose, LockCreate
<1>11. CASE Write(c) \/ WriteProperties(c) \/ Make(c) \/ Delete(c)
  BY <1>11, <1>g DEF Write, WriteProperties, Make, Delete
<1> QED  BY <1>4, <1>5, <1>6, <1>8, <1>9, <1>10, <1>11 DEF Step

LEMMA NextIsOrdinary ==
  ASSUME RequestsInv, Next, NEW c \in Client
  PROVE  Ordinary(c)
<1>1. CASE UNCHANGED task
  BY <1>1 DEF Ordinary
<1>2. ASSUME NEW d \in Client, Sent(d) \/ Step(d) \/ HangUp(d)
      PROVE  Ordinary(c)
  <2>1. CASE d = c
    BY <1>2, <2>1, SentIsOrdinary, StepIsOrdinary
  <2>2. CASE d # c
    <3>1. task'[c] = task[c]
      BY <1>2, <2>2, SentKeeps, StepKeeps, HangUpKeeps DEF Progress
    <3> QED  BY <3>1 DEF Ordinary
  <2> QED  BY <2>1, <2>2
<1> QED  BY <1>1, <1>2 DEF Next, Expire

LEMMA NoWorkIs ==
  /\ IsWork(NoWork) /\ NoWork.sourceLock = NoToken /\ NoWork.stack = <<>>
  /\ NoWork.listing = <<>> /\ NoWork.found = Nothing
  /\ \A es : ListingInv(es, <<>>)
  /\ \A es, p : StackInv(es, NoWork, p)
<1>1. /\ IsWork(NoWork) /\ NoWork.sourceLock = NoToken /\ NoWork.stack = <<>>
      /\ NoWork.listing = <<>> /\ NoWork.found = Nothing
  BY DEF NoWork, IsWork, WorkFields
<1>2. \A es : ListingInv(es, <<>>)
  BY DEF ListingInv
<1>3. IsSequence(<<>>)
  <2>1. <<>> \in Seq({})
    OBVIOUS
  <2> QED  BY <2>1 DEF IsSequence
<1>4. \A es, p : StackInv(es, NoWork, p)
  BY <1>1, <1>3 DEF StackInv
<1> QED  BY <1>1, <1>2, <1>4

\* A client that is at no transfer has no work.
LEMMA RestIsInOrder ==
  ASSUME NEW c \in Client, work'[c] = NoWork, task'[c].pc \notin TransferStage
  PROVE  WorkInv(c)'
BY NoWorkIs, StagesAre DEF WorkInv, TransferStage

\* The steps of the other requests keep the transfers in order.
LEMMA RequestsKeepTransfers ==
  ASSUME TransfersInv, Next, UNCHANGED work
  PROVE  TransfersInv'
<1>1. RequestsInv
  BY DEF TransfersInv
<1>2. PICK c \in Client : Progress(c) /\ EndsWith(c)
  BY <1>1, NextIsProgress
<1>3. Evolves(entries, entries') /\ issued \subseteq issued'
  BY <1>2 DEF Progress, Kept
<1>4. WorkInv(c)'
  <2>1. WorkInv(c) /\ Ordinary(c)
    BY <1>1, NextIsOrdinary DEF TransfersInv
  <2>2. CASE task'[c] = task[c]
    BY <1>3, <2>1, <2>2, OthersWork
  <2>3. CASE task'[c] # task[c]
    <3>1. task'[c].pc \notin TransferStage /\ work'[c] = NoWork
      BY <2>1, <2>3 DEF WorkInv, Ordinary
    <3> QED  BY <3>1, RestIsInOrder
  <2> QED  BY <2>2, <2>3
<1>5. NoToken \notin Held'
  BY RequestsAssumption DEF Held
<1>6. TransferProgress(c)
  BY <1>2, <1>4, <1>5 DEF TransferProgress, EndsWith, Carried, TransfersInv
<1> QED  BY <1>6, TransferProgressKeeps

-----------------------------------------------------------------------------
(* Work, frames and stacks with something changed.                          *)

LEMMA SourceLockWith ==
  ASSUME NEW w, IsWork(w), NEW x, NEW v, v = [w EXCEPT !.sourceLock = x]
  PROVE  /\ IsWork(v) /\ v.sourceLock = x
         /\ v.destination = w.destination /\ v.depth = w.depth /\ v.found = w.found
         /\ v.listing = w.listing /\ v.stack = w.stack
BY DEF IsWork, WorkFields

LEMMA FoundWith ==
  ASSUME NEW w, IsWork(w), NEW x, NEW v, v = [w EXCEPT !.found = x]
  PROVE  /\ IsWork(v) /\ v.found = x
         /\ v.destination = w.destination /\ v.depth = w.depth
         /\ v.sourceLock = w.sourceLock /\ v.listing = w.listing /\ v.stack = w.stack
BY DEF IsWork, WorkFields

WithResults(w, results) == [w EXCEPT !.results = results]

LEMMA ResultsWith ==
  ASSUME NEW w, IsWork(w), NEW x
  PROVE  LET v == WithResults(w, x) IN
         /\ IsWork(v)
         /\ v.destination = w.destination /\ v.depth = w.depth /\ v.found = w.found
         /\ v.sourceLock = w.sourceLock /\ v.listing = w.listing /\ v.stack = w.stack
BY DEF WithResults, IsWork, WorkFields

WithStack(w, stack, results) == [w EXCEPT !.stack = stack, !.results = results]

LEMMA StackWith ==
  ASSUME NEW w, IsWork(w), NEW x, NEW y
  PROVE  LET v == WithStack(w, x, y) IN
         /\ IsWork(v) /\ v.stack = x
         /\ v.destination = w.destination /\ v.depth = w.depth /\ v.found = w.found
         /\ v.sourceLock = w.sourceLock /\ v.listing = w.listing
BY DEF WithStack, IsWork, WorkFields

OnStack(w, stack) == [w EXCEPT !.stack = stack]

LEMMA OnStackIs ==
  ASSUME NEW w, IsWork(w), NEW x
  PROVE  LET v == OnStack(w, x) IN
         /\ IsWork(v) /\ v.stack = x
         /\ v.destination = w.destination /\ v.depth = w.depth /\ v.found = w.found
         /\ v.sourceLock = w.sourceLock /\ v.listing = w.listing
BY DEF OnStack, IsWork, WorkFields

WithListing(w, listing, stack) == [w EXCEPT !.listing = listing, !.stack = stack]

LEMMA ListingWith ==
  ASSUME NEW w, IsWork(w), NEW x, NEW y
  PROVE  LET v == WithListing(w, x, y) IN
         /\ IsWork(v) /\ v.listing = x /\ v.stack = y
         /\ v.destination = w.destination /\ v.depth = w.depth /\ v.found = w.found
         /\ v.sourceLock = w.sourceLock
BY DEF WithListing, IsWork, WorkFields

LessDocuments(f, e)   == [f EXCEPT !.documents = @ \ {e}]
LessCollections(f, e) == [f EXCEPT !.collections = @ \ {e}]

LEMMA FrameWith ==
  ASSUME NEW f, IsFrame(f), NEW e
  PROVE  /\ LET g == LessDocuments(f, e) IN
              /\ IsFrame(g) /\ g.source = f.source /\ g.target = f.target
              /\ g.documents = f.documents \ {e} /\ g.collections = f.collections
         /\ LET g == LessCollections(f, e) IN
              /\ IsFrame(g) /\ g.source = f.source /\ g.target = f.target
              /\ g.documents = f.documents /\ g.collections = f.collections \ {e}
BY DEF LessDocuments, LessCollections, IsFrame, FrameFields

LEMMA LessInOrder ==
  ASSUME NEW es, NEW f, NEW listing, NEW from, NEW to, FrameInv(es, f, listing, from, to),
         NEW e, NEW g \in {LessDocuments(f, e), LessCollections(f, e)}
  PROVE  FrameInv(es, g, listing, from, to) /\ g.source = f.source
<1>1. /\ IsFrame(g) /\ g.source = f.source /\ g.target = f.target
      /\ g.documents \subseteq f.documents /\ g.collections \subseteq f.collections
  BY FrameWith DEF FrameInv
<1> QED  BY <1>1 DEF FrameInv

\* The frame of a collection that the engine comes to.
LEMMA NewFrame ==
  ASSUME NEW es, es = entries', Evolves(entries, es), NEW listing, ListingInv(entries, listing),
         NEW source \in DOMAIN listing, NEW target, IsEntry(es, target, "collection"),
         NEW created, NEW properties, NEW from, NEW to,
         Within(from, entries[source].path), Len(from) <= Len(entries[source].path),
         es[target].path = Moved(entries[source].path, from, to)
  PROVE  LET f == Frame(listing, source, target, created, properties) IN
         FrameInv(es, f, listing, from, to) /\ f.source = source
<1> DEFINE f == Frame(listing, source, target, created, properties)
<1>1. /\ IsFrame(f) /\ f.source = source /\ f.target = target
      /\ f.documents = {m \in listing[source] : entries[m].kind = "document"}
      /\ f.collections = {m \in listing[source] : entries[m].kind = "collection"}
  BY DEF Frame, IsFrame, FrameFields
<1>2. /\ source \in DOMAIN entries /\ \A m \in listing[source] : m \in DOMAIN entries
  BY DEF ListingInv, IsEntry
<1>3. es[source].path = entries[source].path
      /\ \A m \in listing[source] : es[m].kind = entries[m].kind
  BY <1>2 DEF Evolves
<1> HIDE DEF f
<1>4. FrameInv(es, f, listing, from, to)
  BY <1>1, <1>2, <1>3 DEF FrameInv
<1> QED  BY <1>1, <1>4 DEF f

LEMMA EmptyStack ==
  ASSUME NEW es, NEW w, w.stack = <<>>, NEW from
  PROVE  StackInv(es, w, from)
<1>1. <<>> \in Seq({})
  OBVIOUS
<1> QED  BY <1>1 DEF StackInv, IsSequence

\* The frame at the top, and one that the engine is at further up.
LEMMA TopIs ==
  ASSUME NEW es, NEW w, NEW from, StackInv(es, w, from), w.stack # <<>>
  PROVE  /\ FrameInv(es, Head(w.stack), w.listing, from, w.destination)
         /\ Head(w.stack) = w.stack[1]
<1>1. Len(w.stack) \in Nat \ {0} /\ Head(w.stack) = w.stack[1]
  BY PopIs DEF StackInv
<1> QED  BY <1>1 DEF StackInv

LEMMA PushFrame ==
  ASSUME NEW es, NEW w, NEW from, StackInv(es, w, from),
         NEW f, FrameInv(es, f, w.listing, from, w.destination),
         w.stack # <<>> => es[f.source].parent = Head(w.stack).source,
         NEW v, v.listing = w.listing, v.destination = w.destination, v.stack = <<f>> \o w.stack
  PROVE  StackInv(es, v, from) /\ v.stack # <<>> /\ Head(v.stack) = f
<1> DEFINE s == w.stack
           more == v.stack
<1>1. /\ IsSequence(more) /\ Len(s) \in Nat /\ Len(more) = Len(s) + 1
      /\ more[1] = f /\ \A i \in 1..Len(s) : more[i + 1] = s[i]
  <2>1. IsSequence(s) /\ more = <<f>> \o s
    BY DEF StackInv
  <2> HIDE DEF s, more
  <2> QED  BY <2>1, PushIs
<1>2. /\ \A i \in 1..Len(s) : FrameInv(es, s[i], w.listing, from, w.destination)
      /\ \A i \in 1..Len(s) : i < Len(s) => es[s[i].source].parent = s[i + 1].source
  BY DEF StackInv
<1>3. s # <<>> => es[f.source].parent = s[1].source
  BY PopIs DEF StackInv
<1>4. Len(s) # 0 => s # <<>>
  OBVIOUS
<1>5. v.listing = w.listing /\ v.destination = w.destination
  OBVIOUS
<1>6. FrameInv(es, f, v.listing, from, v.destination)
  BY <1>5
<1>7. more # <<>>
  BY <1>1
<1>8. Head(more) = f
  BY <1>1, <1>7, PopIs
<1> HIDE DEF s, more
<1>9. ASSUME NEW i \in 1..Len(more)
      PROVE  /\ FrameInv(es, more[i], v.listing, from, v.destination)
             /\ i < Len(more) => es[more[i].source].parent = more[i + 1].source
  <2>1. CASE i = 1
    <3>1. Len(more) > 1 => more[2] = s[1] /\ s # <<>>
      BY <1>1, <1>4
    <3> QED  BY <1>1, <1>3, <1>6, <2>1, <3>1
  <2>2. CASE i # 1
    <3> DEFINE j == i - 1
    <3>1. j \in 1..Len(s) /\ i = j + 1
      BY <1>1, <2>2
    <3>2. j < Len(s) => j + 1 \in 1..Len(s)
      BY <1>1, <3>1
    <3> HIDE DEF j
    <3>3. more[i] = s[j] /\ (i < Len(more) => j < Len(s) /\ more[i + 1] = s[j + 1])
      BY <1>1, <3>1, <3>2
    <3> QED  BY <1>2, <1>5, <3>1, <3>3
  <2> QED  BY <2>1, <2>2
<1> QED  BY <1>1, <1>7, <1>8, <1>9 DEF StackInv, more

LEMMA PopFrame ==
  ASSUME NEW es, NEW w, NEW from, StackInv(es, w, from), w.stack # <<>>,
         NEW v, v.listing = w.listing, v.destination = w.destination, v.stack = Tail(w.stack)
  PROVE  /\ StackInv(es, v, from)
         /\ Len(w.stack) \in Nat /\ (Len(w.stack) - 1 = 0 <=> v.stack = <<>>)
<1> DEFINE s == w.stack
           less == v.stack
<1>1. /\ IsSequence(less) /\ Len(s) \in Nat \ {0} /\ Len(less) = Len(s) - 1
      /\ \A i \in 1..(Len(s) - 1) : less[i] = s[i + 1]
  BY PopIs DEF StackInv
<1>2. /\ \A i \in 1..Len(s) : FrameInv(es, s[i], w.listing, from, w.destination)
      /\ \A i \in 1..Len(s) : i < Len(s) => es[s[i].source].parent = s[i + 1].source
  BY DEF StackInv
<1>3. v.listing = w.listing /\ v.destination = w.destination
  OBVIOUS
<1>4. Len(less) = 0 <=> less = <<>>
  <2>1. PICK S : less \in Seq(S)
    BY <1>1 DEF IsSequence
  <2> HIDE DEF less
  <2> QED  BY <2>1
<1>5. less = v.stack /\ s = w.stack
  OBVIOUS
<1> HIDE DEF s, less
<1>6. ASSUME NEW i \in 1..Len(less)
      PROVE  /\ FrameInv(es, less[i], v.listing, from, v.destination)
             /\ i < Len(less) => es[less[i].source].parent = less[i + 1].source
  <2> DEFINE j == i + 1
  <2>1. j \in 1..Len(s) /\ less[i] = s[j]
    BY <1>1
  <2>2. i < Len(less) => j < Len(s) /\ less[i + 1] = s[j + 1]
    BY <1>1
  <2> HIDE DEF j
  <2> QED  BY <1>2, <1>3, <2>1, <2>2
<1>7. StackInv(es, v, from)
  BY <1>1, <1>5, <1>6 DEF StackInv
<1> QED  BY <1>1, <1>4, <1>5, <1>7

LEMMA ReplaceTop ==
  ASSUME NEW es, NEW w, NEW from, StackInv(es, w, from), w.stack # <<>>,
         NEW f, FrameInv(es, f, w.listing, from, w.destination),
         f.source = Head(w.stack).source,
         NEW v, v.listing = w.listing, v.destination = w.destination,
         v.stack = <<f>> \o Tail(w.stack)
  PROVE  StackInv(es, v, from) /\ v.stack # <<>> /\ Head(v.stack) = f
<1> DEFINE u == [listing |-> w.listing, destination |-> w.destination, stack |-> Tail(w.stack)]
<1>1. u.listing = w.listing /\ u.destination = w.destination /\ u.stack = Tail(w.stack)
  OBVIOUS
<1> HIDE DEF u
<1>2. StackInv(es, u, from)
  BY <1>1, PopFrame
<1>3. u.stack # <<>> => es[f.source].parent = Head(u.stack).source
  <2> SUFFICES ASSUME u.stack # <<>>
               PROVE  es[Head(w.stack).source].parent = Head(Tail(w.stack)).source
    BY <1>1
  <2>1. /\ Len(w.stack) \in Nat \ {0} /\ Len(Tail(w.stack)) = Len(w.stack) - 1
        /\ Head(w.stack) = w.stack[1] /\ IsSequence(Tail(w.stack))
        /\ \A i \in 1..(Len(w.stack) - 1) : Tail(w.stack)[i] = w.stack[i + 1]
    BY PopIs DEF StackInv
  <2>2. Tail(w.stack) # <<>>
    BY <1>1
  <2>3. Len(Tail(w.stack)) \in Nat \ {0} /\ Head(Tail(w.stack)) = Tail(w.stack)[1]
    BY <2>1, <2>2, PopIs
  <2>4. 1 \in 1..Len(w.stack) /\ 1 < Len(w.stack) /\ Tail(w.stack)[1] = w.stack[2]
    BY <2>1, <2>3
  <2>5. \A i \in 1..Len(w.stack) :
          i < Len(w.stack) => es[w.stack[i].source].parent = w.stack[i + 1].source
    BY DEF StackInv
  <2>6. es[w.stack[1].source].parent = w.stack[1 + 1].source
    BY <2>4, <2>5
  <2> QED  BY <2>1, <2>3, <2>4, <2>6
<1>4. FrameInv(es, f, u.listing, from, u.destination)
  BY <1>1
<1>5. v.listing = u.listing /\ v.destination = u.destination /\ v.stack = <<f>> \o u.stack
  BY <1>1
<1> QED  BY <1>2, <1>3, <1>4, <1>5, PushFrame

-----------------------------------------------------------------------------
(* How a transfer goes on from one stage to the next.                       *)

\* c's request is at the stage pc, with the lock `lock'.
Onward(c, pc, lock) ==
  LET r == task[c] s == task'[c] IN
  /\ task' \in [Client -> Task]
  /\ \A d \in Client \ {c} : task'[d] = task[d]
  /\ s.pc = pc /\ s.lock = lock
  /\ s.method = r.method /\ s.path = r.path /\ s.submitted = r.submitted
  /\ s.found = r.found /\ s.remove = r.remove

LEMMA OnwardIs ==
  ASSUME StateInv, NEW c \in Client
  PROVE  /\ \A pc \in Stage : GoTo(c, pc) => Onward(c, pc, task[c].lock)
         /\ UNCHANGED task => Onward(c, task[c].pc, task[c].lock)
         /\ \A pc \in Stage, t \in Tokens :
              task' = [task EXCEPT ![c].pc = pc, ![c].lock = t] => Onward(c, pc, t)
<1>1. task \in [Client -> Task] /\ task[c] \in Task
  BY DEF StateInv
<1>2. \A pc \in Stage : GoTo(c, pc) => Onward(c, pc, task[c].lock)
  BY GoToIs DEF Onward
<1>3. UNCHANGED task => Onward(c, task[c].pc, task[c].lock)
  BY <1>1 DEF Onward
<1>4. ASSUME NEW pc \in Stage, NEW t \in Tokens,
             task' = [task EXCEPT ![c].pc = pc, ![c].lock = t]
      PROVE  Onward(c, pc, t)
  <2> DEFINE r == task[c]
             s1 == [r EXCEPT !.pc = pc]
             s == [s1 EXCEPT !.lock = t]
  <2>1. task' = [task EXCEPT ![c] = s]
    BY <1>4
  <2>2. s1 \in Task /\ s1.pc = pc /\ s1.method = r.method /\ s1.path = r.path
        /\ s1.submitted = r.submitted /\ s1.found = r.found /\ s1.remove = r.remove
    BY <1>1, TaskWith
  <2> HIDE DEF s1
  <2>3. s \in Task /\ s.pc = pc /\ s.method = r.method /\ s.path = r.path
        /\ s.submitted = r.submitted /\ s.found = r.found /\ s.remove = r.remove /\ s.lock = t
    BY <2>2, TaskWith
  <2> HIDE DEF s
  <2> QED  BY <1>1, <2>1, <2>3 DEF Onward
<1> QED  BY <1>2, <1>3, <1>4

\* c's work becomes w, and no other.
Worked(c, w) ==
  DOMAIN work' = Client /\ work'[c] = w /\ \A d \in Client \ {c} : work'[d] = work[d]

LEMMA WorkedIs ==
  ASSUME TransfersInv, NEW c \in Client, NEW w,
         Works(c, w) \/ (UNCHANGED work /\ w = work[c])
  PROVE  Worked(c, w)
BY DEF TransfersInv, Works, Worked

\* What c's transfer goes by now.
LEMMA AtTransfer ==
  ASSUME TransfersInv, NEW c \in Client, task[c].pc \in TransferStage
  PROVE  /\ StateInv /\ OwnInv(c) /\ PowerInv(c) /\ Sound(Now)
         /\ task[c] \in Task /\ task[c].path \in Path /\ work[c].destination \in Path
         /\ <<task[c].path, work[c].destination>> \in Transfers[c]
         /\ \A q \in Path : Within(task[c].path, q)
                              => Moved(q, task[c].path, work[c].destination) \in Path
         /\ IsWork(work[c]) /\ TransferInv(entries, task[c], work[c])
         /\ work[c].sourceLock \in issued \cup {NoToken}
         /\ task[c].pc # "engine" => work[c].stack = <<>>
         /\ ListingInv(entries, work[c].listing)
         /\ StackInv(entries, work[c], task[c].path)
         /\ DOMAIN work = Client
<1>1. /\ StateInv /\ OwnInv(c) /\ PowerInv(c) /\ WorkInv(c) /\ DOMAIN work = Client
      /\ task[c] \in Task
  BY DEF TransfersInv, RequestsInv, StateInv
<1>2. <<task[c].path, work[c].destination>> \in Transfers[c]
  BY <1>1 DEF WorkInv
<1>3. /\ Transfers[c] \subseteq Path \X Path
      /\ \A pair \in Transfers[c], q \in Path :
            Within(pair[1], q) => Moved(q, pair[1], pair[2]) \in Path
  BY CopyMoveAssumption
<1>4. /\ task[c].path \in Path /\ work[c].destination \in Path
      /\ \A q \in Path : Within(task[c].path, q)
                           => Moved(q, task[c].path, work[c].destination) \in Path
  <2> DEFINE pair == <<task[c].path, work[c].destination>>
  <2>1. pair \in Transfers[c] /\ pair[1] = task[c].path /\ pair[2] = work[c].destination
    BY <1>2
  <2> HIDE DEF pair
  <2> QED  BY <1>3, <2>1
<1>5. Sound(Now)
  BY <1>1 DEF Sound, Now, StateInv
<1> QED  BY <1>1, <1>2, <1>4, <1>5 DEF WorkInv

LEMMA TransferGoes ==
  ASSUME TransfersInv, NEW c \in Client, task[c].pc \in TransferStage,
         NEW pc \in TransferStage \cup {"affected"}, NEW lock, Onward(c, pc, lock),
         StateInv', Kept, Evolves(entries, entries'), UNCHANGED known,
         \/ lock \in {task[c].lock, NoToken}
         \/ lock \in issued' /\ locks'[lock].owner = c,
         \A t \in Held' \ issued : locks'[t].temporary
  PROVE  Progress(c)
<1> DEFINE r == task[c]
           s == task'[c]
<1>1. /\ StateInv /\ OwnInv(c) /\ PowerInv(c) /\ TransferInv(entries, r, work[c])
  BY AtTransfer
<1>2. /\ s.pc = pc /\ s.lock = lock /\ s.method = r.method /\ s.path = r.path
      /\ s.submitted = r.submitted /\ s.found = r.found /\ s.remove = r.remove
      /\ \A d \in Client \ {c} : task'[d] = task[d]
  BY DEF Onward
<1>3. s.method \in {"COPY", "MOVE"}
  BY <1>1, <1>2 DEF TransferInv
<1>4. pc \notin {"idle", "lock", "create", "write"}
  BY DEF TransferStage
<1> HIDE DEF s
<1>5. SelectionInv(c)'
  BY <1>2, <1>3, <1>4 DEF SelectionInv, Writing, s
<1>6. \A u \in Held' \cap issued : u \in Held /\ locks'[u] = locks[u]
  BY <1>1, HeldBefore
<1>7. Held' \subseteq Token /\ NoToken \notin Token
  BY RequestsAssumption DEF Held
<1>8. OwnInv(c)'
  <2>1. /\ {r.submitted, r.lock} \subseteq issued \cup {NoToken} /\ r.remove \subseteq issued
        /\ \A u \in Held : u \in known[c] \cup {r.submitted} =>
             locks[u].owner = c /\ ~ locks[u].temporary
        /\ r.lock \in Held => locks[r.lock].owner = c
    BY <1>1 DEF OwnInv
  <2>2. known[c] \subseteq issued /\ issued \subseteq issued'
    BY <1>1 DEF StateInv, Kept
  <2>3. {s.submitted, s.lock} \subseteq issued' \cup {NoToken} /\ s.remove \subseteq issued'
    BY <1>2, <2>1, <2>2
  <2>4. \A u \in Held' : u \in known'[c] \cup {s.submitted} =>
             locks'[u].owner = c /\ ~ locks'[u].temporary
    BY <1>2, <1>6, <1>7, <2>1, <2>2
  <2>5. s.lock \in Held' => locks'[s.lock].owner = c
    BY <1>2, <1>6, <1>7, <2>1
  <2> QED  BY <1>2, <1>4, <2>3, <2>4, <2>5 DEF OwnInv, s
<1>9. PowerInv(c)'
  <2>1. /\ \A u \in r.remove \cap Held : IsBaseOf(r.path, locks[u].path)
        /\ r.remove \subseteq issued
    BY <1>1 DEF OwnInv, PowerInv
  <2>2. \A u \in s.remove \cap Held' : IsBaseOf(s.path, locks'[u].path)
    BY <1>2, <1>6, <2>1
  <2> QED  BY <1>2, <1>3, <1>4, <2>2 DEF PowerInv, Writing, s
<1> QED  BY <1>2, <1>5, <1>8, <1>9 DEF Progress

\* The next stage of a transfer, with work w.
LEMMA TransferOn ==
  ASSUME TransfersInv, NEW c \in Client, task[c].pc \in TransferStage,
         NEW pc \in TransferStage \ {"lock source"}, NEW lock, Onward(c, pc, lock),
         StateInv', Kept, Evolves(entries, entries'), UNCHANGED <<known, lost>>,
         \/ lock \in {task[c].lock, NoToken}
         \/ lock \in issued' /\ locks'[lock].owner = c,
         pc \in {"select destination", "lock destination", "dispose source"} => lock = NoToken,
         NEW w, Worked(c, w), IsWork(w),
         w.destination = work[c].destination, w.depth = work[c].depth,
         w.sourceLock \in issued' \cup {NoToken},
         pc \in Aimed => Fits(entries', w.found, w.destination) /\ w.found.missing <= 1,
         pc = "engine" <=> w.stack # <<>>,
         ListingInv(entries', w.listing), StackInv(entries', w, task[c].path),
         \A t \in Held' \ issued :
           t \in {lock, w.sourceLock} /\ locks'[t].temporary /\ locks'[t].owner = c,
         \A t \in Carried(c) \cap Held' : t \in {lock, w.sourceLock}
  PROVE  TransferProgress(c)
<1>1. Progress(c)
  BY TransferGoes
<1>2. /\ DOMAIN work' = Client /\ \A d \in Client \ {c} : work'[d] = work[d]
      /\ work'[c] = w
  BY DEF Worked
<1>3. /\ <<task[c].path, work[c].destination>> \in Transfers[c]
      /\ TransferInv(entries, task[c], work[c])
  BY AtTransfer
<1>4. /\ task'[c].pc = pc /\ task'[c].lock = lock /\ task'[c].path = task[c].path
      /\ task'[c].method = task[c].method /\ task'[c].found = task[c].found
  BY DEF Onward
<1>5. TransferInv(entries', task'[c], w)
  <2>1. Fits(entries', task[c].found, task[c].path)
    BY <1>3, FitsEvolves DEF TransferInv
  <2> QED  BY <1>3, <1>4, <2>1 DEF TransferInv
<1>6. WorkInv(c)'
  BY <1>2, <1>3, <1>4, <1>5 DEF WorkInv
<1>7. Carried(c)' = {lock, w.sourceLock}
  BY <1>2, <1>4 DEF Carried
<1> QED  BY <1>1, <1>2, <1>6, <1>7 DEF TransferProgress

\* A step of the engine, which leaves the locks alone.
LEMMA EngineOn ==
  ASSUME TransfersInv, NEW c \in Client, task[c].pc \in {"start", "engine"},
         NEW pc \in {"engine", "dispose destination"}, Onward(c, pc, task[c].lock),
         UNCHANGED <<locks, issued, known, left, lost>>,
         NEW gs, Leads(Now, gs), Becomes(gs),
         NEW w, Works(c, w), IsWork(w),
         w.destination = work[c].destination, w.depth = work[c].depth,
         w.found = work[c].found, w.sourceLock = work[c].sourceLock,
         pc = "engine" <=> w.stack # <<>>,
         ListingInv(entries', w.listing), StackInv(entries', w, task[c].path)
  PROVE  TransferProgress(c)
<1>1. /\ StateInv /\ TransferInv(entries, task[c], work[c])
      /\ work[c].sourceLock \in issued \cup {NoToken}
      /\ task[c].pc \in TransferStage /\ task[c].pc \in Aimed
      /\ pc \in TransferStage \ {"lock source"}
      /\ pc \notin {"select destination", "lock destination", "dispose source"}
  BY AtTransfer DEF TransferStage, Aimed
<1>2. Kept /\ Held' = Held /\ Held' \ issued = {}
  BY <1>1, SameLocks
<1>3. FileSystemInv(entries') /\ DOMAIN props' = Path /\ Evolves(entries, entries')
  BY DEF Leads, Sound, Becomes, Now
<1>4. StateInv'
  BY <1>1, <1>3, SameLocks DEF StateInv, Onward
<1>5. Fits(entries', w.found, w.destination) /\ w.found.missing <= 1
  BY <1>1, <1>3, FitsEvolves DEF TransferInv
<1>6. Carried(c) = {task[c].lock, w.sourceLock}
  BY DEF Carried
<1>7. Worked(c, w)
  BY WorkedIs
<1> QED  BY <1>1, <1>2, <1>3, <1>4, <1>5, <1>6, <1>7, TransferOn

-----------------------------------------------------------------------------
(* One lemma per action of a transfer.                                      *)

TransferTask(pc, method, p, found, submitted, resource) ==
  [Idle EXCEPT !.pc = pc, !.method = method, !.path = p, !.found = found,
               !.submitted = submitted, !.resource = resource]

LEMMA TransferTaskIs ==
  ASSUME NEW pc, NEW method, NEW p, NEW found, NEW submitted, NEW resource
  PROVE  TransferTask(pc, method, p, found, submitted, resource) =
           [pc |-> pc, method |-> method, path |-> p, submitted |-> submitted,
            resource |-> resource, found |-> found, lock |-> NoToken, entry |-> 0,
            remove |-> {}]
<1> DEFINE R(k, m, q, f, s, o) ==
             [pc |-> k, method |-> m, path |-> q, submitted |-> s, resource |-> o,
              found |-> f, lock |-> NoToken, entry |-> 0, remove |-> {}]
           d0 == Idle
           d1 == [d0 EXCEPT !.pc = pc]
           d2 == [d1 EXCEPT !.method = method]
           d3 == [d2 EXCEPT !.path = p]
           d4 == [d3 EXCEPT !.found = found]
           d5 == [d4 EXCEPT !.submitted = submitted]
           d6 == [d5 EXCEPT !.resource = resource]
<1>0. d0 = R("idle", "none", Root, Nothing, NoToken, Root)
  BY DEF Idle
<1>b. TransferTask(pc, method, p, found, submitted, resource) = d6
  BY DEF TransferTask
<1> HIDE DEF d0
<1>1. d1 = R(pc, "none", Root, Nothing, NoToken, Root)
  BY <1>0
<1> HIDE DEF d1
<1>2. d2 = R(pc, method, Root, Nothing, NoToken, Root)
  BY <1>1
<1> HIDE DEF d2
<1>3. d3 = R(pc, method, p, Nothing, NoToken, Root)
  BY <1>2
<1> HIDE DEF d3
<1>4. d4 = R(pc, method, p, found, NoToken, Root)
  BY <1>3
<1> HIDE DEF d4
<1>5. d5 = R(pc, method, p, found, submitted, Root)
  BY <1>4
<1> HIDE DEF d5
<1>6. d6 = R(pc, method, p, found, submitted, resource)
  BY <1>5
<1> HIDE DEF d6
<1> QED  BY <1>b, <1>6

TransferWork(destination, depth, overwrite, inside, before) ==
  [NoWork EXCEPT !.destination = destination, !.depth = depth, !.overwrite = overwrite,
                 !.inside = inside, !.before = before]

LEMMA TransferWorkIs ==
  ASSUME NEW destination, NEW depth, NEW overwrite, NEW inside, NEW before
  PROVE  LET w == TransferWork(destination, depth, overwrite, inside, before) IN
         /\ IsWork(w) /\ w.destination = destination /\ w.depth = depth
         /\ w.sourceLock = NoToken /\ w.stack = <<>> /\ w.listing = <<>>
BY DEF TransferWork, NoWork, IsWork, WorkFields

LEMMA TransferRequestKeeps ==
  ASSUME TransfersInv, NEW c \in Client, NEW method \in {"COPY", "MOVE"},
         NEW pair \in Transfers[c], NEW depth \in Nat, NEW overwrite, NEW inside,
         NEW submitted \in known[c] \cup {NoToken}, NEW resource \in Path,
         TransferRequest(c, method, pair, depth, overwrite, inside, submitted, resource),
         UNCHANGED lost
  PROVE  TransferProgress(c)
<1> DEFINE found == Select(entries, pair[1])
           pc == IF method = "MOVE" THEN "lock source" ELSE "select destination"
           begun == TransferTask(pc, method, pair[1], found, submitted, resource)
           w == TransferWork(pair[2], depth, overwrite, inside,
                             [p \in Path |-> View(entries, props, p)])
<1>1. /\ RequestsInv /\ StateInv /\ OwnInv(c) /\ WorkInv(c)
      /\ UNCHANGED <<entries, props, locks, issued, known>>
  BY DEF TransfersInv, RequestsInv, TransferRequest
<1>2. Kept /\ Held' = Held /\ Held' \ issued = {} /\ issued \subseteq issued'
  BY <1>1, SameLocks
<1>3. Evolves(entries, entries')
  BY <1>1, SameEntries
<1>4. left' \in [Client -> Nat] /\ task[c].pc = "idle"
  BY <1>1 DEF TransferRequest, Sends, StateInv
<1>5. pair \in Path \X Path /\ pair = <<pair[1], pair[2]>>
  BY CopyMoveAssumption
<1>6. Fits(entries, found, pair[1])
  BY <1>1, <1>5, SelectFits DEF StateInv
<1>7. submitted \in issued \cup {NoToken} /\ issued \subseteq Token
  BY <1>1 DEF StateInv
<1>8. Carried(c) \cap Held' = {}
  <2>1. task[c] = Idle /\ work[c] = NoWork
    BY <1>1, <1>4 DEF OwnInv, WorkInv, TransferStage
  <2>2. NoToken \notin Held'
    BY RequestsAssumption DEF Held
  <2> QED  BY <2>1, <2>2, NoWorkIs, IdleIsTask DEF Carried
<1>9. DOMAIN work' = Client /\ \A d \in Client \ {c} : work'[d] = work[d]
  BY DEF TransfersInv, TransferRequest, Works
<1>10. CASE IsMissing(found)
  <2>1. UNCHANGED <<task, work>>
    BY <1>10 DEF TransferRequest
  <2>2. StateInv'
    BY <1>1, <1>4, <2>1, SameLocks DEF StateInv
  <2>3. SelectionInv(c)' /\ OwnInv(c)' /\ PowerInv(c)'
    BY <1>1, <1>2, <1>3, <2>1, <2>2, Rests
  <2>4. WorkInv(c)'
    BY <1>1, <1>2, <1>3, <2>1, OthersWork
  <2> QED  BY <1>1, <1>2, <1>3, <1>8, <1>9, <2>1, <2>2, <2>3, <2>4
           DEF Progress, TransferProgress
<1>11. CASE ~ IsMissing(found)
  <2>1. task' = [task EXCEPT ![c] = begun] /\ Works(c, w)
    BY <1>11 DEF TransferRequest, TransferTask, TransferWork
  <2>2. begun = [pc |-> pc, method |-> method, path |-> pair[1], submitted |-> submitted,
                 resource |-> resource, found |-> found, lock |-> NoToken, entry |-> 0,
                 remove |-> {}]
    BY TransferTaskIs
  <2>3. /\ IsWork(w) /\ w.destination = pair[2] /\ w.depth = depth
        /\ w.sourceLock = NoToken /\ w.stack = <<>> /\ w.listing = <<>>
    BY TransferWorkIs
  <2>4. found.missing = 0
    BY <1>11 DEF IsMissing
  <2>5. pc \in Stage /\ pc \in TransferStage /\ pc \notin Aimed
        /\ pc \notin {"idle", "lock", "create", "write", "engine"}
    BY DEF Stage, TransferStage, Aimed
  <2> HIDE DEF begun, found, pc, w
  <2>6. begun \in Task
    BY <1>5, <1>6, <1>7, <2>2, <2>5 DEF Task, Tokens, Fits
  <2>7. task' \in [Client -> Task] /\ task'[c] = begun
        /\ \A d \in Client \ {c} : task'[d] = task[d]
    BY <1>1, <2>1, <2>6 DEF StateInv
  <2>8. StateInv'
    BY <1>1, <1>4, <2>7, SameLocks DEF StateInv
  <2>9. SelectionInv(c)'
    BY <2>2, <2>5, <2>7 DEF SelectionInv, Writing
  <2>10. OwnInv(c)'
    <3>1. NoToken \notin Held'
      BY RequestsAssumption DEF Held
    <3>2. \A u \in Held : u \in known[c] => locks[u].owner = c /\ ~ locks[u].temporary
      BY <1>1 DEF OwnInv
    <3> QED  BY <1>1, <1>2, <1>7, <2>2, <2>5, <2>7, <3>1, <3>2 DEF OwnInv
  <2>11. PowerInv(c)'
    BY <2>2, <2>5, <2>7 DEF PowerInv, Writing
  <2>12. WorkInv(c)'
    <3>1. work'[c] = w
      BY <2>1 DEF TransfersInv, Works
    <3>2. TransferInv(entries', task'[c], w)
      BY <1>1, <1>6, <2>2, <2>3, <2>4, <2>5, <2>7 DEF TransferInv
    <3>3. ListingInv(entries', w.listing) /\ StackInv(entries', w, task'[c].path)
      BY <2>3, NoWorkIs, EmptyStack
    <3> QED  BY <1>5, <2>2, <2>3, <2>5, <2>7, <3>1, <3>2, <3>3 DEF WorkInv
  <2> QED  BY <1>1, <1>2, <1>3, <1>8, <1>9, <2>7, <2>8, <2>9, <2>10, <2>11, <2>12
           DEF Progress, TransferProgress
<1> QED  BY <1>10, <1>11

LEMMA TransferSentKeeps ==
  ASSUME TransfersInv, NEW c \in Client, TransferSent(c), UNCHANGED lost
  PROVE  TransferProgress(c)
<1>1. PICK pair \in Transfers[c], overwrite \in Overwrites, inside \in InFileSystem,
          submitted \in known[c] \cup {NoToken} :
        \E resource \in IF submitted = NoToken THEN {Root} ELSE {pair[1], pair[2]} :
          \/ \E depth \in CopyDepths :
               TransferRequest(c, "COPY", pair, depth, overwrite, inside, submitted, resource)
          \/ TransferRequest(c, "MOVE", pair, Infinite, overwrite, inside, submitted, resource)
  BY DEF TransferSent
<1>2. Infinite \in Nat /\ CopyDepths \subseteq Nat /\ pair \in Path \X Path
  BY CopyMoveAssumption
<1>3. pair[1] \in Path /\ pair[2] \in Path /\ Root \in Path
  BY <1>2, RequestsAssumption
<1> QED  BY <1>1, <1>2, <1>3, TransferRequestKeeps

\* A temporary lock that c asks for.
LEMMA TransferLockIs ==
  ASSUME NEW c, c \in Client, NEW p \in Path, NEW recursive \in BOOLEAN
  PROVE  LET lock == Lock(c, p, recursive, "shared", TRUE) IN
         lock \in ActiveLock /\ lock.owner = c /\ lock.temporary
BY DEF Lock, ActiveLock, ShareMode

\* The request ends, or goes on to what a MOVE ends with.
LEMMA TransferEnds ==
  ASSUME TransfersInv, NEW c \in Client, task[c].pc \in TransferStage,
         UNCHANGED <<entries, props, issued, known, left, lost>>, Works(c, NoWork),
         Kept, locks' \in [Token -> ActiveLock \cup {NoLock}],
         Held' \subseteq issued', Held' \ issued = {}, Carried(c) \cap Held' = {},
         Answer(c) \/ (GoTo(c, "affected") /\ task[c].lock = NoToken)
  PROVE  TransferProgress(c)
<1>1. StateInv /\ RequestsInv /\ Evolves(entries, entries')
  BY AtTransfer, SameEntries DEF TransfersInv
<1>2. /\ DOMAIN work' = Client /\ \A d \in Client \ {c} : work'[d] = work[d]
      /\ work'[c] = NoWork
  BY DEF TransfersInv, Works
<1>3. CASE Answer(c)
  <2>1. /\ task' \in [Client -> Task] /\ task'[c] = Idle
        /\ \A d \in Client \ {c} : task'[d] = task[d]
    BY <1>1, <1>3, AnswerIs
  <2>2. StateInv'
    BY <1>1, <2>1 DEF StateInv
  <2>3. SelectionInv(c)' /\ OwnInv(c)' /\ PowerInv(c)'
    BY <1>1, <2>1, <2>2, StillKnown, Answered
  <2>4. WorkInv(c)'
    <3>1. task'[c].pc \notin TransferStage
      BY <2>1, IdleIsTask DEF TransferStage
    <3> QED  BY <1>2, <3>1, RestIsInOrder
  <2> QED  BY <1>1, <1>2, <2>1, <2>2, <2>3, <2>4 DEF Progress, TransferProgress
<1>4. CASE GoTo(c, "affected") /\ task[c].lock = NoToken
  <2>1. "affected" \in Stage /\ "affected" \notin TransferStage
    BY StagesAre
  <2>2. Onward(c, "affected", task[c].lock)
    BY <1>1, <1>4, <2>1, OnwardIs
  <2>3. StateInv'
    BY <1>1, <2>2 DEF StateInv, Onward
  <2>4. Progress(c)
    BY <1>1, <2>2, <2>3, TransferGoes
  <2>5. WorkInv(c)'
    <3>1. task'[c].pc \notin TransferStage
      BY <2>1, <2>2 DEF Onward
    <3> QED  BY <1>2, <3>1, RestIsInOrder
  <2> QED  BY <1>2, <2>4, <2>5 DEF TransferProgress
<1> QED  BY <1>3, <1>4

LEMMA LockSourceKeeps ==
  ASSUME TransfersInv, NEW c \in Client, LockSource(c), UNCHANGED <<known, left, lost>>
  PROVE  TransferProgress(c)
<1> DEFINE lock == Lock(c, task[c].path, TRUE, "shared", TRUE)
           r == task[c]
<1>1. /\ task[c].pc = "lock source" /\ task[c].pc \in TransferStage
      /\ UNCHANGED <<entries, props>> /\ Evolves(entries, entries')
  BY SameEntries DEF LockSource, TransferStage
<1>2. /\ StateInv /\ RequestsInv /\ r.path \in Path /\ IsWork(work[c])
      /\ TransferInv(entries, r, work[c]) /\ work[c].stack = <<>>
      /\ ListingInv(entries, work[c].listing)
  BY <1>1, AtTransfer DEF TransfersInv
<1>3. r.lock = NoToken /\ work[c].sourceLock = NoToken
  BY <1>1, <1>2 DEF TransferInv
<1>4. lock \in ActiveLock /\ lock.owner = c /\ lock.temporary
  BY <1>2, TransferLockIs
<1>5. NoToken \notin Held'
  BY RequestsAssumption DEF Held
<1>6. Carried(c) \cap Held' = {}
  BY <1>3, <1>5 DEF Carried
<1> HIDE DEF lock
<1>7. ASSUME NEW t \in Token \cup {NoToken}, Permitted(c, lock, t),
             GoTo(c, "select destination"), Works(c, [work[c] EXCEPT !.sourceLock = t])
      PROVE  TransferProgress(c)
  <2> DEFINE w == [work[c] EXCEPT !.sourceLock = t]
  <2>1. /\ Kept /\ t \in issued' \cup {NoToken}
        /\ locks' \in [Token -> ActiveLock \cup {NoLock}]
        /\ issued' \subseteq Token /\ Held' \subseteq issued'
        /\ Held' \ issued \subseteq {t} \ {NoToken}
        /\ t # NoToken => t \notin issued /\ locks'[t] = lock
    BY <1>2, <1>4, <1>7, PermittedIs
  <2>2. /\ IsWork(w) /\ w.sourceLock = t
        /\ w.destination = work[c].destination /\ w.depth = work[c].depth
        /\ w.found = work[c].found /\ w.listing = work[c].listing /\ w.stack = work[c].stack
    BY <1>2, SourceLockWith
  <2>3. Worked(c, w)
    BY <1>7, WorkedIs
  <2> HIDE DEF w
  <2> DEFINE pc == "select destination"
  <2>4. /\ pc \in Stage /\ pc \in TransferStage \ {"lock source"} /\ pc \notin Aimed
        /\ pc # "engine"
    BY DEF Stage, TransferStage, Aimed
  <2>5. GoTo(c, pc)
    BY <1>7
  <2> HIDE DEF pc
  <2>6. Onward(c, pc, r.lock)
    BY <1>2, <2>4, <2>5, OnwardIs
  <2>7. StateInv'
    BY <1>1, <1>2, <2>1, <2>6 DEF StateInv, Onward, Kept
  <2>8. \A u \in Held' \ issued :
           u \in {r.lock, w.sourceLock} /\ locks'[u].temporary /\ locks'[u].owner = c
    BY <1>4, <2>1, <2>2
  <2>9. ListingInv(entries', w.listing) /\ StackInv(entries', w, task[c].path)
    BY <1>1, <1>2, <2>2, EmptyStack
  <2>10. w.sourceLock \in issued' \cup {NoToken} /\ w.stack = <<>>
    BY <1>2, <2>1, <2>2
  <2> QED  BY <1>1, <1>3, <1>6, <2>1, <2>2, <2>3, <2>4, <2>6, <2>7, <2>8, <2>9, <2>10,
              TransferOn
<1>8. ASSUME Denied(c, lock), Answer(c), Works(c, NoWork)
      PROVE  TransferProgress(c)
  <2>1. UNCHANGED <<locks, issued>>
    BY <1>8 DEF Denied, Refused
  <2>2. /\ Kept /\ locks' \in [Token -> ActiveLock \cup {NoLock}]
        /\ Held' \subseteq issued' /\ Held' \ issued = {}
    BY <1>2, <2>1, SameLocks
  <2> QED  BY <1>1, <1>6, <1>8, <2>1, <2>2, TransferEnds
<1> QED  BY <1>7, <1>8 DEF LockSource, lock

LEMMA SelectDestinationKeeps ==
  ASSUME TransfersInv, NEW c \in Client, SelectDestination(c), UNCHANGED <<known, left, lost>>
  PROVE  TransferProgress(c)
<1> DEFINE found == Select(entries, work[c].destination)
           pc == IF found.missing > 1 THEN "dispose source" ELSE "lock destination"
           w == [work[c] EXCEPT !.found = found]
<1>1. /\ task[c].pc = "select destination" /\ task[c].pc \in TransferStage
      /\ UNCHANGED <<entries, props, locks, issued>> /\ Evolves(entries, entries')
      /\ GoTo(c, pc) /\ Worked(c, w)
  BY SameEntries, WorkedIs DEF SelectDestination, TransferStage
<1>2. /\ StateInv /\ work[c].destination \in Path /\ IsWork(work[c])
      /\ TransferInv(entries, task[c], work[c]) /\ work[c].stack = <<>>
      /\ ListingInv(entries, work[c].listing)
      /\ work[c].sourceLock \in issued \cup {NoToken}
  BY <1>1, AtTransfer
<1>3. task[c].lock = NoToken
  BY <1>1, <1>2 DEF TransferInv
<1>4. Fits(entries, found, work[c].destination) /\ found.missing \in Nat
  <2>1. Fits(entries, found, work[c].destination)
    BY <1>2, SelectFits DEF StateInv
  <2> HIDE DEF found
  <2> QED  BY <2>1 DEF Fits, Selection
<1> HIDE DEF found
<1>5. /\ IsWork(w) /\ w.found = found
      /\ w.destination = work[c].destination /\ w.depth = work[c].depth
      /\ w.sourceLock = work[c].sourceLock /\ w.listing = work[c].listing
      /\ w.stack = work[c].stack
  BY <1>2, FoundWith
<1>6. /\ pc \in Stage /\ pc \in TransferStage \ {"lock source"} /\ pc # "engine"
      /\ pc \in Aimed => found.missing <= 1
  <2>1. found.missing > 1 \/ found.missing <= 1
    BY <1>4
  <2> QED  BY <2>1 DEF Stage, TransferStage, Aimed
<1> HIDE DEF w, pc
<1>7. Onward(c, pc, task[c].lock)
  BY <1>1, <1>2, <1>6, OnwardIs
<1>8. Kept /\ Held' = Held /\ Held' \ issued = {}
  BY <1>1, <1>2, SameLocks
<1>9. StateInv'
  BY <1>1, <1>2, <1>7, SameLocks DEF StateInv, Onward
<1>10. ListingInv(entries', w.listing) /\ StackInv(entries', w, task[c].path)
  BY <1>1, <1>2, <1>5, EmptyStack
<1>11. Carried(c) = {task[c].lock, w.sourceLock}
  BY <1>5 DEF Carried
<1>12. Fits(entries', w.found, w.destination) /\ (pc \in Aimed => w.found.missing <= 1)
  BY <1>1, <1>4, <1>5, <1>6
<1> QED  BY <1>1, <1>2, <1>3, <1>5, <1>6, <1>7, <1>8, <1>9, <1>10, <1>11, <1>12, TransferOn

LEMMA LockDestinationKeeps ==
  ASSUME TransfersInv, NEW c \in Client, LockDestination(c), UNCHANGED <<known, left, lost>>
  PROVE  TransferProgress(c)
<1> DEFINE recursive == Moves(c) \/ work[c].depth # 0
           lock == Lock(c, work[c].destination, recursive, "shared", TRUE)
           r == task[c]
           w == work[c]
<1>1. /\ task[c].pc = "lock destination" /\ task[c].pc \in TransferStage
      /\ UNCHANGED <<entries, props, work>> /\ Evolves(entries, entries')
  BY SameEntries DEF LockDestination, TransferStage
<1>2. /\ StateInv /\ RequestsInv /\ w.destination \in Path /\ IsWork(w)
      /\ TransferInv(entries, r, w) /\ w.stack = <<>> /\ ListingInv(entries, w.listing)
      /\ w.sourceLock \in issued \cup {NoToken}
  BY <1>1, AtTransfer DEF TransfersInv
<1>3. /\ r.lock = NoToken /\ Worked(c, w)
      /\ Fits(entries, w.found, w.destination) /\ w.found.missing <= 1
  <2>1. "lock destination" \in Aimed
    BY DEF Aimed
  <2>2. Worked(c, w)
    BY <1>1, WorkedIs
  <2> QED  BY <1>1, <1>2, <2>1, <2>2 DEF TransferInv
<1>4. lock \in ActiveLock /\ lock.owner = c /\ lock.temporary
  <2> HIDE DEF recursive
  <2>1. recursive \in BOOLEAN
    BY DEF recursive
  <2> QED  BY <1>2, <2>1, TransferLockIs
<1>5. NoToken \notin Held' /\ NoToken \notin Token
  BY RequestsAssumption DEF Held
<1>6. Carried(c) \cap Held' \subseteq {w.sourceLock}
  BY <1>3, <1>5 DEF Carried
<1> HIDE DEF lock, w
<1>7. ASSUME NEW t \in Token \cup {NoToken}, Permitted(c, lock, t),
             task' = [task EXCEPT ![c].pc = "start", ![c].lock = t]
      PROVE  TransferProgress(c)
  <2>1. /\ Kept /\ t \in issued' \cup {NoToken}
        /\ locks' \in [Token -> ActiveLock \cup {NoLock}]
        /\ issued' \subseteq Token /\ Held' \subseteq issued'
        /\ Held' \ issued \subseteq {t} \ {NoToken}
        /\ t # NoToken => t \notin issued /\ locks'[t] = lock
    BY <1>2, <1>4, <1>7, PermittedIs
  <2> DEFINE pc == "start"
  <2>2. /\ pc \in Stage /\ pc \in TransferStage \ {"lock source"} /\ pc # "engine"
        /\ pc \notin {"select destination", "lock destination", "dispose source"}
    BY DEF Stage, TransferStage
  <2>3. task' = [task EXCEPT ![c].pc = pc, ![c].lock = t] /\ t \in Tokens
    BY <1>7 DEF Tokens
  <2> HIDE DEF pc
  <2>4. Onward(c, pc, t)
    BY <1>2, <2>2, <2>3, OnwardIs
  <2>5. StateInv'
    BY <1>1, <1>2, <2>1, <2>4 DEF StateInv, Onward, Kept
  <2>6. \A u \in Held' \ issued :
           u \in {t, w.sourceLock} /\ locks'[u].temporary /\ locks'[u].owner = c
    BY <1>4, <2>1
  <2>7. ListingInv(entries', w.listing) /\ StackInv(entries', w, task[c].path)
    BY <1>1, <1>2, EmptyStack
  <2>8. \/ t \in {r.lock, NoToken}
        \/ t \in issued' /\ locks'[t].owner = c
    BY <1>4, <2>1, Zenon
  <2>9. w.sourceLock \in issued' \cup {NoToken}
    BY <1>2, <2>1 DEF Kept
  <2>10. \A u \in Carried(c) \cap Held' : u \in {t, w.sourceLock}
    BY <1>6
  <2>11. w.destination = work[c].destination /\ w.depth = work[c].depth
    BY DEF w
  <2>12. Fits(entries', w.found, w.destination) /\ w.found.missing <= 1
    BY <1>1, <1>3
  <2>13. /\ pc \in {"select destination", "lock destination", "dispose source"} => t = NoToken
         /\ pc \in Aimed => Fits(entries', w.found, w.destination) /\ w.found.missing <= 1
         /\ pc = "engine" <=> w.stack # <<>>
    BY <1>2, <2>2, <2>12
  <2>14. UNCHANGED <<known, lost>> /\ Kept /\ Worked(c, w) /\ IsWork(w)
    BY <1>2, <1>3, <2>1
  <2> HIDE DEF r
  <2> QED  BY <1>1, <2>2, <2>4, <2>5, <2>6, <2>7, <2>8, <2>9, <2>10, <2>11, <2>13, <2>14,
              TransferOn DEF r
<1>8. ASSUME Denied(c, lock), GoTo(c, "dispose source")
      PROVE  TransferProgress(c)
  <2>1. UNCHANGED <<locks, issued>>
    BY <1>8 DEF Denied, Refused
  <2>2. Kept /\ Held' = Held /\ Held' \ issued = {}
    BY <1>2, <2>1, SameLocks
  <2> DEFINE pc == "dispose source"
  <2>3. /\ pc \in Stage /\ pc \in TransferStage \ {"lock source"} /\ pc # "engine"
        /\ pc \notin Aimed
    BY DEF Stage, TransferStage, Aimed
  <2>4. GoTo(c, pc)
    BY <1>8
  <2> HIDE DEF pc
  <2>5. Onward(c, pc, r.lock)
    BY <1>2, <2>3, <2>4, OnwardIs
  <2>6. StateInv'
    BY <1>1, <1>2, <2>1, <2>5, SameLocks DEF StateInv, Onward
  <2>7. ListingInv(entries', w.listing) /\ StackInv(entries', w, task[c].path)
    BY <1>1, <1>2, EmptyStack
  <2>8. \A u \in Carried(c) \cap Held' : u \in {r.lock, w.sourceLock}
    BY <1>6
  <2>9. w.destination = work[c].destination /\ w.depth = work[c].depth
    BY DEF w
  <2> QED  BY <1>1, <1>2, <1>3, <2>1, <2>2, <2>3, <2>5, <2>6, <2>7, <2>8, <2>9, TransferOn
<1> QED  BY <1>7, <1>8 DEF LockDestination, lock, w

LEMMA DisposeDestinationKeeps ==
  ASSUME TransfersInv, NEW c \in Client, DisposeDestination(c), UNCHANGED <<known, left, lost>>
  PROVE  TransferProgress(c)
<1> DEFINE r == task[c]
           w == work[c]
           pc == "dispose source"
<1>1. /\ task[c].pc = "dispose destination" /\ task[c].pc \in TransferStage
      /\ UNCHANGED <<entries, props, issued, work>> /\ Evolves(entries, entries')
      /\ task' = [task EXCEPT ![c].pc = pc, ![c].lock = NoToken]
  BY SameEntries DEF DisposeDestination, TransferStage
<1>2. /\ StateInv /\ OwnInv(c) /\ IsWork(w) /\ w.stack = <<>>
      /\ ListingInv(entries, w.listing) /\ w.sourceLock \in issued \cup {NoToken}
      /\ issued \subseteq Token
  BY <1>1, AtTransfer DEF StateInv
<1>3. Worked(c, w)
  BY <1>1, WorkedIs
<1>4. /\ Kept /\ locks' \in [Token -> ActiveLock \cup {NoLock}]
      /\ issued' \subseteq Token /\ Held' \subseteq issued' /\ Held' \ issued = {}
      /\ r.lock \notin Held'
  <2>1. CASE r.lock = NoToken
    <3>1. NoToken \notin Held'
      BY RequestsAssumption DEF Held
    <3> QED  BY <1>1, <1>2, <2>1, <3>1, SameLocks DEF DisposeDestination
  <2>2. CASE r.lock # NoToken
    <3>1. r.lock \in Token
      BY <1>2, <2>2 DEF OwnInv
    <3> QED  BY <1>1, <1>2, <2>2, <3>1, ReleasedIs DEF DisposeDestination
  <2> QED  BY <2>1, <2>2
<1>5. /\ pc \in Stage /\ pc \in TransferStage \ {"lock source"} /\ pc # "engine"
      /\ pc \notin Aimed
  BY DEF Stage, TransferStage, Aimed
<1> HIDE DEF pc, w
<1>6. Onward(c, pc, NoToken)
  BY <1>1, <1>2, <1>5, OnwardIs DEF Tokens
<1>7. StateInv'
  BY <1>1, <1>2, <1>4, <1>6 DEF StateInv, Onward
<1>8. ListingInv(entries', w.listing) /\ StackInv(entries', w, task[c].path)
  BY <1>1, <1>2, EmptyStack
<1>9. /\ \A t \in Carried(c) \cap Held' : t \in {NoToken, w.sourceLock}
      /\ w.destination = work[c].destination /\ w.depth = work[c].depth
  BY <1>4 DEF Carried, w
<1> QED  BY <1>1, <1>2, <1>3, <1>4, <1>5, <1>6, <1>7, <1>8, <1>9, TransferOn

LEMMA DisposeSourceKeeps ==
  ASSUME TransfersInv, NEW c \in Client, DisposeSource(c), UNCHANGED <<known, left, lost>>
  PROVE  TransferProgress(c)
<1> DEFINE t == work[c].sourceLock
<1>1. /\ task[c].pc = "dispose source" /\ task[c].pc \in TransferStage
      /\ UNCHANGED <<entries, props, issued>> /\ Works(c, NoWork)
      /\ GoTo(c, "affected") \/ Answer(c)
  BY DEF DisposeSource, TransferStage
<1>2. /\ StateInv /\ t \in issued \cup {NoToken} /\ issued \subseteq Token
      /\ TransferInv(entries, task[c], work[c])
  BY <1>1, AtTransfer DEF StateInv
<1>3. task[c].lock = NoToken /\ NoToken \notin Held'
  BY <1>1, <1>2, RequestsAssumption DEF TransferInv, Held
<1>4. /\ Kept /\ locks' \in [Token -> ActiveLock \cup {NoLock}]
      /\ Held' \subseteq issued' /\ Held' \ issued = {} /\ t \notin Held'
  <2>1. CASE t = NoToken
    BY <1>1, <1>2, <1>3, <2>1, SameLocks DEF DisposeSource
  <2>2. CASE t # NoToken
    <3>1. t \in Token /\ Released(t)
      BY <1>2, <2>2 DEF DisposeSource
    <3> HIDE DEF t
    <3> QED  BY <1>1, <1>2, <3>1, ReleasedIs
  <2> QED  BY <2>1, <2>2
<1>5. Carried(c) \cap Held' = {}
  BY <1>3, <1>4 DEF Carried
<1> QED  BY <1>1, <1>3, <1>4, <1>5, TransferEnds

LEMMA ThrowKeeps ==
  ASSUME TransfersInv, NEW c \in Client, task[c].pc \in {"start", "engine"}, Throw(c),
         UNCHANGED <<locks, issued, known, left, lost>>
  PROVE  TransferProgress(c)
<1> DEFINE w == [work[c] EXCEPT !.stack = <<>>, !.results = {}]
           pc == "dispose destination"
<1>1. /\ StateInv /\ Sound(Now) /\ IsWork(work[c]) /\ ListingInv(entries, work[c].listing)
      /\ task[c].pc \in TransferStage
  BY AtTransfer DEF TransferStage
<1>2. GoTo(c, pc) /\ Works(c, w) /\ Becomes(Now) /\ UNCHANGED entries
  BY DEF Throw, Becomes, Now
<1>3. /\ IsWork(w) /\ w.stack = <<>>
      /\ w.destination = work[c].destination /\ w.depth = work[c].depth
      /\ w.found = work[c].found /\ w.sourceLock = work[c].sourceLock
      /\ w.listing = work[c].listing
  <2>1. w = WithStack(work[c], <<>>, {})
    BY DEF WithStack
  <2> HIDE DEF w
  <2> QED  BY <1>1, <2>1, StackWith
<1>4. pc \in Stage /\ pc # "engine" /\ pc \in {"engine", "dispose destination"}
  BY DEF Stage
<1> HIDE DEF w, pc
<1>5. Onward(c, pc, task[c].lock) /\ Leads(Now, Now)
  BY <1>1, <1>2, <1>4, OnwardIs, ItselfLeads
<1>6. ListingInv(entries', w.listing) /\ StackInv(entries', w, task[c].path)
  BY <1>1, <1>2, <1>3, EmptyStack
<1> QED  BY <1>2, <1>3, <1>4, <1>5, <1>6, EngineOn

\* The request has its results, and no stack.
LEMMA ResultKeeps ==
  ASSUME TransfersInv, NEW c \in Client, task[c].pc = "start",
         GoTo(c, "dispose destination"), UNCHANGED <<locks, issued, known, left, lost>>,
         NEW gs, Leads(Now, gs), Becomes(gs),
         NEW results, Works(c, [work[c] EXCEPT !.results = results])
  PROVE  TransferProgress(c)
<1> DEFINE w == [work[c] EXCEPT !.results = results]
           pc == "dispose destination"
<1>1. /\ StateInv /\ IsWork(work[c]) /\ ListingInv(entries, work[c].listing)
      /\ task[c].pc \in TransferStage /\ work[c].stack = <<>>
  <2>1. task[c].pc \in TransferStage /\ task[c].pc # "engine"
    BY DEF TransferStage
  <2> QED  BY <2>1, AtTransfer
<1>2. GoTo(c, pc) /\ Works(c, w) /\ Evolves(entries, entries')
  BY DEF Leads, Becomes, Now
<1>3. /\ IsWork(w)
      /\ w.destination = work[c].destination /\ w.depth = work[c].depth
      /\ w.found = work[c].found /\ w.sourceLock = work[c].sourceLock
      /\ w.listing = work[c].listing /\ w.stack = work[c].stack
  <2>1. w = WithResults(work[c], results)
    BY DEF WithResults
  <2> HIDE DEF w
  <2> QED  BY <1>1, <2>1, ResultsWith
<1>4. pc \in Stage /\ pc # "engine" /\ pc \in {"engine", "dispose destination"}
  BY DEF Stage
<1> HIDE DEF w, pc
<1>5. Onward(c, pc, task[c].lock)
  BY <1>1, <1>2, <1>4, OnwardIs
<1>6. ListingInv(entries', w.listing) /\ StackInv(entries', w, task[c].path)
  BY <1>1, <1>2, <1>3, EmptyStack, ListingEvolves
<1>7. w.stack = <<>> /\ task[c].pc \in {"start", "engine"}
  BY <1>1, <1>3
<1> QED  BY <1>2, <1>3, <1>4, <1>5, <1>6, <1>7, EngineOn

\* What the engine starts with.
LEMMA AtStart ==
  ASSUME TransfersInv, NEW c \in Client, task[c].pc = "start"
  PROVE  /\ StateInv /\ FileSystemInv(entries) /\ Sound(Now) /\ IsWork(work[c])
         /\ task[c].pc \in TransferStage /\ work[c].stack = <<>>
         /\ task[c].path \in Path /\ work[c].destination \in Path /\ work[c].depth \in Nat
         /\ task[c].found.entry \in DOMAIN entries
         /\ entries[task[c].found.entry].path = task[c].path
         /\ Fits(entries, work[c].found, work[c].destination)
         /\ work[c].found.missing \in {0, 1}
<1>1. task[c].pc \in TransferStage /\ task[c].pc # "engine" /\ task[c].pc \in Aimed
  BY DEF TransferStage, Aimed
<1>2. TransferInv(entries, task[c], work[c]) /\ StateInv
  BY <1>1, AtTransfer
<1>3. Fits(entries, work[c].found, work[c].destination) /\ work[c].found.missing <= 1
  BY <1>1, <1>2 DEF TransferInv
<1>4. work[c].found.missing \in Nat
  BY <1>3 DEF Fits, Selection
<1>5. work[c].depth \in Nat /\ task[c].found.entry \in DOMAIN entries
      /\ entries[task[c].found.entry].path = task[c].path
  BY <1>2 DEF TransferInv, Fits
<1>6. /\ Sound(Now) /\ IsWork(work[c]) /\ work[c].stack = <<>>
      /\ task[c].path \in Path /\ work[c].destination \in Path
  BY <1>1, AtTransfer
<1>7. FileSystemInv(entries)
  BY <1>2 DEF StateInv
<1>8. work[c].found.missing \in {0, 1}
  BY <1>3, <1>4
<1> QED  BY <1>1, <1>2, <1>3, <1>5, <1>6, <1>7, <1>8

LEMMA StartDocumentKeeps ==
  ASSUME TransfersInv, NEW c \in Client, StartDocument(c), UNCHANGED <<known, left, lost>>
  PROVE  TransferProgress(c)
<1> DEFINE e     == task[c].found.entry
           found == work[c].found
           p     == work[c].destination
           done  == IF found.result = "FoundCollection"
                    THEN [fs |-> Now, status |-> "OverwriteFailed"]
                    ELSE Execute(c, e, p, found.collection, found.entry)
           results == Result(done.status, 0)
<1>1. /\ task[c].pc = "start" /\ entries[e].kind = "document" /\ found.entry # 1
      /\ GoTo(c, "dispose destination") /\ UNCHANGED <<locks, issued>>
      /\ Becomes(done.fs) /\ Works(c, [work[c] EXCEPT !.results = results])
  BY DEF StartDocument, Starts
<1>2. /\ FileSystemInv(entries) /\ Sound(Now) /\ p \in Path /\ e \in DOMAIN entries
      /\ Fits(entries, found, p) /\ found.missing \in {0, 1}
  BY <1>1, AtStart
<1>3. e # 1
  BY <1>1, <1>2, EntryIs
<1>4. Leads(Now, done.fs)
  <2>1. CASE found.result = "FoundCollection"
    <3>1. done.fs = Now
      BY <2>1
    <3> QED  BY <1>2, <3>1, ItselfLeads
  <2>2. CASE found.result # "FoundCollection"
    <3> HIDE DEF found, e, p
    <3>1. IsPlace(entries, p, found.collection) /\ found.entry \in DOMAIN entries \cup {0}
      <4>1. CASE found.missing = 1
        BY <1>2, <4>1 DEF Fits, IsPlace, IsEntry
      <4>2. CASE found.missing = 0
        <5>1. /\ found.entry \in DOMAIN entries /\ entries[found.entry].path = p
              /\ entries[found.entry].kind = "collection" => found.result = "FoundCollection"
              /\ entries[found.entry].kind = "document" =>
                   found.collection = entries[found.entry].parent
          BY <1>2, <4>2 DEF Fits
        <5>2. /\ entries[found.entry].kind = "document" /\ found.entry # 1
              /\ entries[found.entry].parent \in DOMAIN entries /\ p # Root
              /\ entries[entries[found.entry].parent].kind = "collection"
              /\ entries[entries[found.entry].parent].path = Above[p]
          BY <1>2, <2>2, <5>1, EntryIs
        <5> QED  BY <1>2, <5>1, <5>2 DEF IsPlace, IsEntry
      <4> QED  BY <1>2, <4>1, <4>2
    <3>2. Leads(Now, Execute(c, e, p, found.collection, found.entry).fs)
      BY <1>2, <1>3, <3>1, ExecuteLeads
    <3>3. done = Execute(c, e, p, found.collection, found.entry)
      BY <2>2
    <3> QED  BY <3>2, <3>3
  <2> QED  BY <2>1, <2>2
<1> HIDE DEF done, results
<1> QED  BY <1>1, <1>4, ResultKeeps

\* The engine enters the collection `target', which corresponds to the source.
LEMMA EnterTop ==
  ASSUME TransfersInv, NEW c \in Client, task[c].pc = "start",
         entries[task[c].found.entry].kind = "collection",
         UNCHANGED <<props, locks, issued, known, left, lost>>,
         FileSystemInv(entries'), Evolves(entries, entries'),
         NEW target, IsEntry(entries', target, "collection"),
         entries'[target].path = work[c].destination,
         NEW listing, listing = Listing(entries, task[c].found.entry, work[c].depth),
         NEW created, NEW properties,
         NEW frame, frame = Frame(listing, task[c].found.entry, target, created, properties),
         Works(c, [work[c] EXCEPT !.listing = listing, !.stack = <<frame>>]),
         GoTo(c, "engine")
  PROVE  TransferProgress(c)
<1> DEFINE source == task[c].found.entry
           w == WithListing(work[c], listing, <<frame>>)
           u == [listing |-> listing, destination |-> work[c].destination, stack |-> <<>>]
           from == task[c].path
           to == work[c].destination
           pc == "engine"
           gs == [entries |-> entries', props |-> props']
           es == entries'
<1>1. /\ StateInv /\ FileSystemInv(entries) /\ Sound(Now) /\ IsWork(work[c])
      /\ from \in Path /\ to \in Path /\ work[c].depth \in Nat
      /\ source \in DOMAIN entries /\ entries[source].path = from
  BY AtStart
<1>2. ListingInv(entries, listing) /\ source \in DOMAIN listing
  BY <1>1, ListingInOrder DEF IsEntry
<1>3. from \in Seq(Names) /\ Len(from) <= Len(from) /\ Within(from, from)
      /\ Moved(from, from, to) = to
  <2>1. from \in Seq(Names) /\ Len(from) \in Nat
    BY <1>1, PathIsSequence
  <2> QED  BY <1>1, <2>1, MovedTop DEF Within
<1>4. /\ es = entries' /\ Evolves(entries, es) /\ IsEntry(es, target, "collection")
      /\ es[target].path = Moved(entries[source].path, from, to)
  BY <1>1, <1>3
<1>5. GoTo(c, pc) /\ Works(c, w)
  BY DEF WithListing
<1>6. /\ IsWork(w) /\ w.listing = listing /\ w.stack = <<frame>>
      /\ w.destination = work[c].destination /\ w.depth = work[c].depth
      /\ w.found = work[c].found /\ w.sourceLock = work[c].sourceLock
  BY <1>1, ListingWith
<1>7. u.listing = listing /\ u.destination = to /\ u.stack = <<>>
  OBVIOUS
<1>8. pc \in Stage /\ pc = "engine" /\ pc \in {"engine", "dispose destination"}
  BY DEF Stage
<1>9. /\ Leads(Now, gs) /\ Becomes(gs)
  <2>1. DOMAIN props' = Path
    BY <1>1 DEF StateInv
  <2> QED  BY <2>1 DEF Leads, Sound, Now, Becomes
<1> HIDE DEF source, w, u, from, to, pc, gs, es
<1>10. FrameInv(es, frame, listing, from, to)
  BY <1>1, <1>2, <1>3, <1>4, NewFrame DEF source
<1>11. StackInv(es, u, from)
  BY <1>7, EmptyStack
<1>12. StackInv(es, w, from) /\ w.stack # <<>>
  <2>1. w.stack = <<frame>> \o u.stack
    BY <1>6, <1>7
  <2>2. FrameInv(es, frame, u.listing, from, u.destination)
    BY <1>7, <1>10
  <2>3. w.listing = u.listing /\ w.destination = u.destination
    BY <1>6, <1>7 DEF to
  <2>4. u.stack # <<>> => es[frame.source].parent = Head(u.stack).source
    BY <1>7
  <2> QED  BY <1>11, <2>1, <2>2, <2>3, <2>4, PushFrame
<1>13. Onward(c, pc, task[c].lock)
  BY <1>1, <1>5, <1>8, OnwardIs
<1>14. ListingInv(entries', w.listing) /\ StackInv(entries', w, task[c].path)
  BY <1>2, <1>4, <1>6, <1>12, ListingEvolves DEF from
<1>15. task[c].pc \in {"start", "engine"}
  OBVIOUS
<1> QED  BY <1>5, <1>6, <1>8, <1>9, <1>12, <1>13, <1>14, <1>15, EngineOn

LEMMA StartCollectionKeeps ==
  ASSUME TransfersInv, NEW c \in Client, StartCollection(c), UNCHANGED <<known, left, lost>>
  PROVE  TransferProgress(c)
<1> DEFINE source  == task[c].found.entry
           found   == work[c].found
           listing == Listing(entries, source, work[c].depth)
           frame(target) == Frame(listing, source, target, IsMissing(found),
                                  Collected(props[entries[source].path]))
           Enter(target) == /\ Works(c, [work[c] EXCEPT !.listing = listing,
                                                        !.stack = <<frame(target)>>])
                            /\ GoTo(c, "engine")
           Fail(status) == /\ Works(c, [work[c] EXCEPT !.results = Result(status, 0)])
                           /\ GoTo(c, "dispose destination")
           p == work[c].destination
           creates == IsMissing(found) /\ CanCreate(entries, p, found.collection)
<1>1. /\ task[c].pc = "start" /\ entries[source].kind = "collection"
      /\ UNCHANGED <<props, locks, issued>>
  BY DEF StartCollection, Starts
<1>2. /\ FileSystemInv(entries) /\ Sound(Now) /\ p \in Path
      /\ Fits(entries, found, p) /\ found.missing \in {0, 1}
  BY <1>1, AtStart
<1>3. ASSUME NEW status, Fail(status), UNCHANGED entries  PROVE TransferProgress(c)
  <2> DEFINE results == Result(status, 0)
  <2>1. Becomes(Now) /\ Leads(Now, Now)
    BY <1>1, <1>2, <1>3, ItselfLeads DEF Becomes, Now
  <2>2. Works(c, [work[c] EXCEPT !.results = results])
    BY <1>3
  <2>3. UNCHANGED <<locks, issued, known, left, lost>>
    BY <1>1
  <2> HIDE DEF results
  <2> QED  BY <1>1, <1>3, <2>1, <2>2, <2>3, ResultKeeps
<1>4. ASSUME NEW target, Enter(target), FileSystemInv(entries'), Evolves(entries, entries'),
             IsEntry(entries', target, "collection"), entries'[target].path = p
      PROVE  TransferProgress(c)
  <2> DEFINE created == IsMissing(found)
             properties == Collected(props[entries[source].path])
             f == Frame(listing, source, target, created, properties)
  <2>1. Works(c, [work[c] EXCEPT !.listing = listing, !.stack = <<f>>]) /\ GoTo(c, "engine")
    BY <1>4
  <2>2. /\ listing = Listing(entries, task[c].found.entry, work[c].depth)
        /\ f = Frame(listing, task[c].found.entry, target, created, properties)
        /\ entries[task[c].found.entry].kind = "collection"
        /\ entries'[target].path = work[c].destination
        /\ UNCHANGED <<props, locks, issued, known, left, lost>>
    BY <1>1, <1>4
  <2> HIDE DEF f, created, properties, listing, source, found, p
  <2> QED  BY <1>1, <1>4, <2>1, <2>2, EnterTop
<1>5. CASE found.result = "FoundCollection" /\ Enter(found.entry) /\ UNCHANGED entries
  <2>1. IsEntry(entries, found.entry, "collection") /\ entries[found.entry].path = p
    <3> HIDE DEF found, p
    <3>1. found.missing = 0
      BY <1>2, <1>5 DEF Fits
    <3>2. /\ found.entry \in DOMAIN entries /\ entries[found.entry].path = p
          /\ entries[found.entry].kind = "document" => found.result = "FoundDocument"
      BY <1>2, <3>1 DEF Fits
    <3>3. entries[found.entry].kind \in {"collection", "document"}
      BY <1>2, <3>2, EntryIs
    <3> QED  BY <1>5, <3>2, <3>3 DEF IsEntry
  <2>2. FileSystemInv(entries') /\ Evolves(entries, entries')
    BY <1>2, <1>5, SameEntries
  <2> DEFINE target == found.entry
  <2>3. /\ Enter(target) /\ IsEntry(entries', target, "collection")
        /\ entries'[target].path = p
    BY <1>5, <2>1
  <2> HIDE DEF target, Enter, p
  <2> QED  BY <1>4, <2>2, <2>3
<1>6. CASE /\ creates
           /\ entries' = Create(entries, "collection", p, found.collection, "empty")
           /\ Enter(Len(entries) + 1)
  <2>1. IsPlace(entries, p, found.collection) /\ CanCreate(entries, p, found.collection)
    <3>1. found.missing = 1
      BY <1>2, <1>6 DEF IsMissing
    <3> HIDE DEF found, p
    <3> QED  BY <1>2, <1>6, <3>1 DEF Fits, IsPlace, IsEntry, found, p
  <2>2. "empty" \in Data /\ "collection" \in {"collection", "document"}
    BY DEF Data
  <2>3. /\ FileSystemInv(entries') /\ Evolves(entries, entries')
        /\ Grown(entries, entries', "collection", p, found.collection, "empty")
    <3> HIDE DEF found, p
    <3> QED  BY <1>2, <1>6, <2>1, <2>2, CreateLeads DEF found, p
  <2> DEFINE target == Len(entries) + 1
  <2>4. /\ target \in DOMAIN entries'
        /\ entries'[target] = NewEntry("collection", p, found.collection, "empty")
    BY <2>3 DEF Grown
  <2>5. IsEntry(entries', target, "collection") /\ entries'[target].path = p /\ Enter(target)
    BY <1>6, <2>4 DEF IsEntry, NewEntry
  <2> HIDE DEF target, Enter, p
  <2> QED  BY <1>4, <2>3, <2>5
<1>7. \/ \E status : Fail(status) /\ UNCHANGED entries
      \/ found.result = "FoundCollection" /\ Enter(found.entry) /\ UNCHANGED entries
      \/ /\ creates
         /\ entries' = Create(entries, "collection", p, found.collection, "empty")
         /\ Enter(Len(entries) + 1)
  <2>1. (CASE found.result = "FoundDocument" ->
                Fail("OverwriteFailed") /\ UNCHANGED entries
           [] found.result = "FoundCollection" -> Enter(found.entry) /\ UNCHANGED entries
           [] IsMissing(found) /\ CanCreate(entries, work[c].destination, found.collection) ->
                /\ entries' = Create(entries, "collection", work[c].destination,
                                     found.collection, "empty")
                /\ Enter(Len(entries) + 1)
           [] OTHER -> Fail("CreateFailed") /\ UNCHANGED entries)
    BY DEF StartCollection
  <2> HIDE DEF Fail, Enter
  <2> QED  BY <2>1
<1> HIDE DEF Fail, Enter, creates
<1> QED  BY <1>3, <1>5, <1>6, <1>7

\* What the engine is at.
LEMMA AtEngine ==
  ASSUME TransfersInv, NEW c \in Client, AtWork(c)
  PROVE  /\ StateInv /\ FileSystemInv(entries) /\ Sound(Now) /\ IsWork(work[c])
         /\ task[c].path \in Path /\ work[c].destination \in Path
         /\ \A q \in Path : Within(task[c].path, q)
                              => Moved(q, task[c].path, work[c].destination) \in Path
         /\ work[c].stack # <<>> /\ ListingInv(entries, work[c].listing)
         /\ StackInv(entries, work[c], task[c].path)
         /\ FrameInv(entries, Top(c), work[c].listing, task[c].path, work[c].destination)
         /\ Top(c).source \in DOMAIN entries /\ Top(c).target \in DOMAIN entries
<1>1. task[c].pc = "engine" /\ task[c].pc \in TransferStage
  BY DEF AtWork, TransferStage
<1>2. /\ StateInv /\ Sound(Now) /\ IsWork(work[c]) /\ TransferInv(entries, task[c], work[c])
      /\ task[c].path \in Path /\ work[c].destination \in Path
      /\ \A q \in Path : Within(task[c].path, q)
                           => Moved(q, task[c].path, work[c].destination) \in Path
      /\ ListingInv(entries, work[c].listing) /\ StackInv(entries, work[c], task[c].path)
  BY <1>1, AtTransfer
<1>3. work[c].stack # <<>>
  BY <1>1, <1>2 DEF TransferInv
<1>4. FrameInv(entries, Top(c), work[c].listing, task[c].path, work[c].destination)
  BY <1>2, <1>3, TopIs DEF Top
<1>5. Top(c).source \in DOMAIN entries /\ Top(c).target \in DOMAIN entries
  BY <1>2, <1>4 DEF FrameInv, ListingInv, IsEntry
<1>6. FileSystemInv(entries)
  BY <1>2 DEF StateInv
<1> QED  BY <1>2, <1>3, <1>4, <1>5, <1>6

\* A member of the collection the engine is at, and where it goes.
LEMMA MemberIs ==
  ASSUME TransfersInv, NEW c \in Client, AtWork(c),
         NEW e \in Top(c).documents \cup Top(c).collections
  PROVE  LET top == Top(c)
             from == task[c].path
             to == work[c].destination
             p == PathIn(top.target, e)
             target == TargetOf(top, e)
         IN  /\ e \in DOMAIN entries \ {1} /\ entries[e].parent = top.source
             /\ e \in top.documents => entries[e].kind = "document"
             /\ e \in top.collections => /\ entries[e].kind = "collection"
                                         /\ e \in DOMAIN work[c].listing
             /\ Within(from, entries[e].path) /\ Len(from) <= Len(entries[e].path)
             /\ p = Moved(entries[e].path, from, to)
             /\ IsPlace(entries, p, top.target)
             /\ target \in DOMAIN entries \cup {0}
             /\ target # 0 => target \in DOMAIN entries /\ entries[target].path = p
<1> DEFINE top == Top(c)
           from == task[c].path
           to == work[c].destination
           q == entries[e].path
           up == entries[top.source].path
           x == q[Len(q)]
           p == PathIn(top.target, e)
           target == TargetOf(top, e)
<1>1. /\ FileSystemInv(entries) /\ from \in Path /\ to \in Path
      /\ \A r \in Path : Within(from, r) => Moved(r, from, to) \in Path
      /\ ListingInv(entries, work[c].listing)
      /\ FrameInv(entries, top, work[c].listing, from, to)
      /\ top.source \in DOMAIN entries /\ top.target \in DOMAIN entries
  BY AtEngine
<1>2. /\ e \in DOMAIN entries \ {1} /\ entries[e].parent = top.source
      /\ e \in top.documents => entries[e].kind = "document"
      /\ e \in top.collections => /\ entries[e].kind = "collection"
                                  /\ e \in DOMAIN work[c].listing
  <2> HIDE DEF top, from, to
  <2>1. /\ e \in work[c].listing[top.source] /\ top.source \in DOMAIN work[c].listing
        /\ e \in top.documents => entries[e].kind = "document"
        /\ e \in top.collections => entries[e].kind = "collection"
    BY <1>1 DEF FrameInv, top
  <2> QED  BY <1>1, <2>1 DEF ListingInv
<1>3. /\ q \in Path /\ q # Root /\ up \in Path /\ up = Above[q]
  <2>1. /\ entries[e].path \in Path /\ entries[e].path # Root
        /\ entries[entries[e].parent].path = Above[entries[e].path]
    BY <1>1, <1>2, EntryIs
  <2>2. entries[top.source].path \in Path
    BY <1>1, EntryIs
  <2> QED  BY <1>2, <2>1, <2>2
<1>4. /\ Within(from, up) /\ Len(from) <= Len(up)
      /\ entries[top.target].path = Moved(up, from, to)
      /\ entries[top.target].kind = "collection"
  BY <1>1 DEF FrameInv, IsEntry
<1>5. p = Append(entries[top.target].path, x)
  BY DEF PathIn
<1>6. x \in Names
  BY <1>3, AboveIs
<1>7. entries[top.target].path \in Path
  BY <1>1, EntryIs
<1>8. target # 0 => target \in entries[top.target].members /\ entries[target].path = p
  <2> DEFINE there == Members(entries, top.target, p)
  <2>1. target = IF top.created \/ there = {} THEN 0 ELSE CHOOSE m \in there : TRUE
    BY DEF TargetOf
  <2>2. \A m \in there : m \in entries[top.target].members /\ entries[m].path = p
    BY DEF Members
  <2> HIDE DEF target, there
  <2>3. target # 0 => target \in there
    BY <2>1
  <2> QED  BY <2>2, <2>3
<1>9. entries[top.target].members \subseteq DOMAIN entries
  BY <1>1 DEF FileSystemInv
<1> HIDE DEF top, from, to, q, up, x, p, target
<1>10. Within(from, q) /\ Len(from) <= Len(q) /\ Append(Moved(up, from, to), q[Len(q)]) = Moved(q, from, to)
  BY <1>1, <1>3, <1>4, MovedMember
<1>11. p = Moved(q, from, to) /\ p \in Path
  BY <1>1, <1>3, <1>4, <1>5, <1>10 DEF x
<1>12. p # Root /\ Above[p] = entries[top.target].path
  BY <1>5, <1>6, <1>7, <1>11, AppendIs
<1>13. IsPlace(entries, p, top.target)
  BY <1>1, <1>4, <1>11, <1>12 DEF IsPlace, IsEntry
<1>14. /\ target \in DOMAIN entries \cup {0}
       /\ target # 0 => target \in DOMAIN entries /\ entries[target].path = p
  BY <1>8, <1>9
<1> QED  BY <1>2, <1>10, <1>11, <1>13, <1>14 DEF top, from, to, q, p, target

LEMMA EngineGoes ==
  ASSUME TransfersInv, NEW c \in Client, AtWork(c),
         UNCHANGED <<locks, issued, known, left, lost>>,
         NEW gs, Leads(Now, gs), Becomes(gs),
         NEW w, Works(c, w), IsWork(w),
         w.destination = work[c].destination, w.depth = work[c].depth,
         w.found = work[c].found, w.sourceLock = work[c].sourceLock,
         w.listing = work[c].listing, StackInv(entries', w, task[c].path),
         \/ w.stack # <<>> /\ UNCHANGED task
         \/ w.stack = <<>> /\ GoTo(c, "dispose destination")
  PROVE  TransferProgress(c)
<1>1. /\ StateInv /\ ListingInv(entries, work[c].listing) /\ Evolves(entries, entries')
      /\ task[c].pc = "engine"
  BY AtEngine DEF Leads, Becomes, Now, AtWork
<1>2. ListingInv(entries', w.listing)
  BY <1>1, ListingEvolves
<1>3. "dispose destination" \in Stage
  BY DEF Stage
<1> DEFINE pc == task'[c].pc
<1>4. /\ Onward(c, pc, task[c].lock) /\ pc \in {"engine", "dispose destination"}
      /\ pc = "engine" <=> w.stack # <<>>
  <2>1. CASE w.stack # <<>> /\ UNCHANGED task
    BY <1>1, <2>1, OnwardIs
  <2>2. CASE w.stack = <<>> /\ GoTo(c, "dispose destination")
    <3>1. Onward(c, "dispose destination", task[c].lock)
      BY <1>1, <1>3, <2>2, OnwardIs
    <3>2. pc = "dispose destination"
      BY <3>1 DEF Onward
    <3> HIDE DEF pc
    <3> QED  BY <2>2, <3>1, <3>2
  <2> QED  BY <2>1, <2>2
<1> HIDE DEF pc
<1> QED  BY <1>1, <1>2, <1>4, EngineOn

LEMMA EngineDocumentKeeps ==
  ASSUME TransfersInv, NEW c \in Client, NEW e, EngineDocument(c, e),
         UNCHANGED <<known, left, lost>>
  PROVE  TransferProgress(c)
<1> DEFINE top    == Top(c)
           target == TargetOf(top, e)
           p      == PathIn(top.target, e)
           done   == IF target # 0 /\ entries[target].kind = "collection"
                     THEN [fs |-> Now, status |-> "OverwriteFailed"]
                     ELSE Execute(c, e, p, top.target, target)
           less    == LessDocuments(top, e)
           results == work[c].results \cup Result(done.status, Level(c) + 1)
           w == WithStack(work[c], <<less>> \o Tail(work[c].stack), results)
           from == task[c].path
           es == entries'
<1>1. /\ AtWork(c) /\ e \in Top(c).documents
      /\ UNCHANGED <<task, locks, issued, known, left, lost>>
      /\ Becomes(done.fs) /\ Works(c, w)
  BY DEF EngineDocument, WithStack, LessDocuments
<1>2. /\ Sound(Now) /\ IsWork(work[c]) /\ work[c].stack # <<>>
      /\ ListingInv(entries, work[c].listing) /\ StackInv(entries, work[c], from)
  BY <1>1, AtEngine
<1>3. Leads(Now, done.fs)
  <2>1. CASE target # 0 /\ entries[target].kind = "collection"
    <3>1. done.fs = Now
      BY <2>1
    <3> QED  BY <1>2, <3>1, ItselfLeads
  <2>2. CASE ~ (target # 0 /\ entries[target].kind = "collection")
    <3>1. done = Execute(c, e, p, top.target, target)
      BY <2>2
    <3>2. /\ e \in DOMAIN entries /\ e # 1 /\ IsPlace(entries, p, top.target)
          /\ target \in DOMAIN entries \cup {0}
      BY <1>1, MemberIs
    <3> HIDE DEF done, p, top, target
    <3> QED  BY <1>2, <3>1, <3>2, ExecuteLeads
  <2> QED  BY <2>1, <2>2
<1>4. Evolves(entries, es)
  BY <1>1, <1>3 DEF Leads, Becomes, Now
<1>5. StackInv(es, work[c], from)
  BY <1>2, <1>4, StackEvolves
<1>6. /\ IsWork(w) /\ w.stack = <<less>> \o Tail(work[c].stack)
      /\ w.destination = work[c].destination /\ w.depth = work[c].depth
      /\ w.found = work[c].found /\ w.sourceLock = work[c].sourceLock
      /\ w.listing = work[c].listing
  <2> DEFINE rest == <<less>> \o Tail(work[c].stack)
  <2>1. w = WithStack(work[c], rest, results)
    OBVIOUS
  <2>2. rest = <<less>> \o Tail(work[c].stack)
    OBVIOUS
  <2>3. IsWork(work[c])
    BY <1>2
  <2> HIDE DEF w, rest, results, less
  <2>4. /\ IsWork(w) /\ w.stack = rest
        /\ w.destination = work[c].destination /\ w.depth = work[c].depth
        /\ w.found = work[c].found /\ w.sourceLock = work[c].sourceLock
        /\ w.listing = work[c].listing
    BY <2>1, <2>3, StackWith
  <2> QED  BY <2>2, <2>4
<1>7. /\ FrameInv(es, less, work[c].listing, from, work[c].destination)
      /\ less.source = Head(work[c].stack).source
  BY <1>2, <1>5, TopIs, LessInOrder DEF Top
<1> HIDE DEF w, less, done, es, from
<1>8. StackInv(es, w, from) /\ w.stack # <<>>
  BY <1>2, <1>5, <1>6, <1>7, ReplaceTop
<1> QED  BY <1>1, <1>3, <1>6, <1>8, EngineGoes DEF es, from

LEMMA EngineCollectionKeeps ==
  ASSUME TransfersInv, NEW c \in Client, NEW e, EngineCollection(c, e),
         UNCHANGED <<known, left, lost>>
  PROVE  TransferProgress(c)
<1> DEFINE top    == Top(c)
           target == TargetOf(top, e)
           p      == PathIn(top.target, e)
           less   == LessCollections(top, e)
           rest   == <<less>> \o Tail(work[c].stack)
           from == task[c].path
           to == work[c].destination
           listing == work[c].listing
           frame(at, created) == Frame(listing, e, at, created, top.memberProperties[e])
           Enter(at, created) == Works(c, OnStack(work[c], <<frame(at, created)>> \o rest))
           results == work[c].results \cup Result("OverwriteFailed", Level(c) + 1)
           es == entries'
<1>1. /\ AtWork(c) /\ e \in Top(c).collections
      /\ UNCHANGED <<locks, issued, known, left, lost>>
      /\ \/ /\ target # 0 /\ entries[target].kind = "document"
            /\ Works(c, WithStack(work[c], rest, results))
            /\ UNCHANGED <<entries, props, task>>
         \/ /\ target # 0 /\ entries[target].kind = "collection"
            /\ Enter(target, FALSE)
            /\ UNCHANGED <<entries, props, task>>
         \/ /\ target = 0 /\ CanCreate(entries, p, top.target)
            /\ entries' = Create(entries, "collection", p, top.target, "empty")
            /\ Enter(Len(entries) + 1, TRUE)
            /\ UNCHANGED <<props, task>>
         \/ /\ target = 0 /\ ~ CanCreate(entries, p, top.target)
            /\ Throw(c)
  BY DEF EngineCollection, WithStack, OnStack, LessCollections
<1>2. /\ StateInv /\ FileSystemInv(entries) /\ Sound(Now) /\ IsWork(work[c])
      /\ work[c].stack # <<>>
      /\ ListingInv(entries, listing) /\ StackInv(entries, work[c], from)
  BY <1>1, AtEngine
<1>3. /\ e \in DOMAIN entries \ {1} /\ entries[e].parent = top.source
      /\ entries[e].kind = "collection" /\ e \in DOMAIN listing
      /\ Within(from, entries[e].path) /\ Len(from) <= Len(entries[e].path)
      /\ p = Moved(entries[e].path, from, to) /\ IsPlace(entries, p, top.target)
      /\ target # 0 => target \in DOMAIN entries /\ entries[target].path = p
  BY <1>1, MemberIs
<1>4. ASSUME NEW w, w.listing = listing, w.destination = to, w.stack = rest,
             Evolves(entries, es)
      PROVE  StackInv(es, w, from) /\ w.stack # <<>> /\ Head(w.stack) = less
  <2>1. StackInv(es, work[c], from)
    BY <1>2, <1>4, StackEvolves
  <2>2. /\ FrameInv(es, less, work[c].listing, from, work[c].destination)
        /\ less.source = Head(work[c].stack).source
    BY <1>2, <2>1, TopIs, LessInOrder DEF Top
  <2> HIDE DEF less, es, from
  <2> QED  BY <1>2, <1>4, <2>1, <2>2, ReplaceTop
<1>5. ASSUME NEW at, NEW created, Enter(at, created), UNCHANGED <<props, task>>,
             FileSystemInv(es), Evolves(entries, es), IsEntry(es, at, "collection"),
             es[at].path = p
      PROVE  TransferProgress(c)
  <2> DEFINE f == frame(at, created)
             w == OnStack(work[c], <<f>> \o rest)
             u == [listing |-> listing, destination |-> to, stack |-> rest]
             gs == [entries |-> entries', props |-> props']
  <2>1. u.listing = listing /\ u.destination = to /\ u.stack = rest
    OBVIOUS
  <2>2. StackInv(es, u, from) /\ u.stack # <<>> /\ Head(u.stack) = less
    <3> HIDE DEF u, rest, less, es, from, to, listing
    <3> QED  BY <1>4, <1>5, <2>1
  <2>3. /\ IsWork(w) /\ w.stack = <<f>> \o rest
        /\ w.destination = work[c].destination /\ w.depth = work[c].depth
        /\ w.found = work[c].found /\ w.sourceLock = work[c].sourceLock
        /\ w.listing = work[c].listing
    <3> DEFINE stack == <<f>> \o rest
    <3>1. w = OnStack(work[c], stack)
      OBVIOUS
    <3>2. stack = <<f>> \o rest
      OBVIOUS
    <3>3. IsWork(work[c])
      BY <1>2
    <3> HIDE DEF w, stack, f, rest
    <3>4. /\ IsWork(w) /\ w.stack = stack
          /\ w.destination = work[c].destination /\ w.depth = work[c].depth
          /\ w.found = work[c].found /\ w.sourceLock = work[c].sourceLock
          /\ w.listing = work[c].listing
      BY <3>1, <3>3, OnStackIs
    <3> QED  BY <3>2, <3>4
  <2>4. Leads(Now, gs) /\ Becomes(gs)
    <3>1. DOMAIN props' = Path
      BY <1>2, <1>5 DEF StateInv
    <3> QED  BY <1>5, <3>1 DEF Leads, Sound, Now, Becomes
  <2>5. FrameInv(es, f, listing, from, to) /\ f.source = e
    <3>1. es[at].path = Moved(entries[e].path, from, to) /\ es = entries'
      BY <1>3, <1>5
    <3> HIDE DEF es, from, to, listing
    <3> QED  BY <1>2, <1>3, <1>5, <3>1, NewFrame
  <2>6. es[f.source].parent = less.source
    <3>1. less.source = top.source
      BY <1>2, TopIs, LessInOrder DEF Top
    <3>2. es[e].parent = entries[e].parent
      BY <1>3, <1>5 DEF Evolves
    <3> QED  BY <1>3, <2>5, <3>1, <3>2
  <2>7. Works(c, w)
    BY <1>5
  <2> HIDE DEF f, w, u, gs, rest, less, es, from, to, listing
  <2>8. StackInv(es, w, from) /\ w.stack # <<>>
    <3>1. w.listing = u.listing /\ w.destination = u.destination /\ w.stack = <<f>> \o u.stack
      BY <2>1, <2>3 DEF to, listing
    <3>2. FrameInv(es, f, u.listing, from, u.destination)
      BY <2>1, <2>5
    <3>3. u.stack # <<>> => es[f.source].parent = Head(u.stack).source
      BY <2>2, <2>6
    <3> QED  BY <2>2, <3>1, <3>2, <3>3, PushFrame
  <2> QED  BY <1>1, <1>5, <2>3, <2>4, <2>7, <2>8, EngineGoes DEF es, from
<1>6. CASE /\ target # 0 /\ entries[target].kind = "document"
           /\ Works(c, WithStack(work[c], rest, results))
           /\ UNCHANGED <<entries, props, task>>
  <2> DEFINE w == WithStack(work[c], rest, results)
  <2>1. /\ IsWork(w) /\ w.stack = rest
        /\ w.destination = work[c].destination /\ w.depth = work[c].depth
        /\ w.found = work[c].found /\ w.sourceLock = work[c].sourceLock
        /\ w.listing = work[c].listing
    <3>1. w = WithStack(work[c], rest, results)
      OBVIOUS
    <3> HIDE DEF w, rest, results
    <3> QED  BY <1>2, <3>1, StackWith
  <2>2. Leads(Now, Now) /\ Becomes(Now) /\ Evolves(entries, es)
    BY <1>2, <1>6, ItselfLeads, SameEntries DEF Becomes, Now
  <2>3. Works(c, w)
    BY <1>6
  <2> HIDE DEF w, rest, less, es, from, results
  <2>4. StackInv(es, w, from) /\ w.stack # <<>>
    BY <1>4, <2>1, <2>2
  <2> QED  BY <1>1, <1>6, <2>1, <2>2, <2>3, <2>4, EngineGoes DEF es, from
<1>7. CASE /\ target # 0 /\ entries[target].kind = "collection"
           /\ Enter(target, FALSE)
           /\ UNCHANGED <<entries, props, task>>
  <2>1. FileSystemInv(es) /\ Evolves(entries, es)
    BY <1>2, <1>7, SameEntries
  <2>2. IsEntry(es, target, "collection") /\ es[target].path = p
    BY <1>3, <1>7 DEF IsEntry
  <2> HIDE DEF Enter, target, es, p
  <2> QED  BY <1>5, <1>7, <2>1, <2>2
<1>8. CASE /\ target = 0 /\ CanCreate(entries, p, top.target)
           /\ entries' = Create(entries, "collection", p, top.target, "empty")
           /\ Enter(Len(entries) + 1, TRUE)
           /\ UNCHANGED <<props, task>>
  <2>1. "empty" \in Data /\ "collection" \in {"collection", "document"}
    BY DEF Data
  <2>2. /\ FileSystemInv(es) /\ Evolves(entries, es)
        /\ Grown(entries, es, "collection", p, top.target, "empty")
    <3>1. es = Create(entries, "collection", p, top.target, "empty")
      BY <1>8
    <3> HIDE DEF es, p, top
    <3> QED  BY <1>2, <1>3, <1>8, <2>1, <3>1, CreateLeads
  <2> DEFINE at == Len(entries) + 1
  <2>3. at \in DOMAIN es /\ es[at] = NewEntry("collection", p, top.target, "empty")
    BY <2>2 DEF Grown
  <2>4. IsEntry(es, at, "collection") /\ es[at].path = p
    BY <2>3 DEF IsEntry, NewEntry
  <2>5. Enter(at, TRUE) /\ UNCHANGED <<props, task>>
    BY <1>8
  <2> HIDE DEF Enter, at, es, p
  <2> QED  BY <1>5, <2>2, <2>4, <2>5
<1>9. CASE Throw(c)
  <2>1. task[c].pc \in {"start", "engine"}
    BY <1>1 DEF AtWork
  <2> QED  BY <1>1, <1>9, <2>1, ThrowKeeps
<1> HIDE DEF Enter, target, p, rest, results
<1> QED  BY <1>1, <1>6, <1>7, <1>8, <1>9

LEMMA EngineFinishKeeps ==
  ASSUME TransfersInv, NEW c \in Client, EngineFinish(c), UNCHANGED <<known, left, lost>>
  PROVE  TransferProgress(c)
<1> DEFINE top    == Top(c)
           kept   == ReadOf(Now, entries[top.source].path, top.properties)
           fs     == SetProperties(Now, entries[top.target].path, kept)
           gs     == IF Moves(c) /\ top.source # 1 THEN TakeAway(fs, top.source) ELSE fs
           status == IF Moves(c) /\ top.source = 1 THEN "CleanupFailed" ELSE "Created"
           results == work[c].results \cup Result(status, Level(c))
           w == WithStack(work[c], Tail(work[c].stack), results)
           from == task[c].path
           es == entries'
<1>1. /\ AtWork(c) /\ UNCHANGED <<locks, issued, known, left, lost>>
      /\ Becomes(gs) /\ Works(c, w)
      /\ IF Level(c) = 0 THEN GoTo(c, "dispose destination") ELSE UNCHANGED task
  BY DEF EngineFinish, WithStack
<1>2. /\ Sound(Now) /\ IsWork(work[c]) /\ work[c].stack # <<>>
      /\ ListingInv(entries, work[c].listing) /\ StackInv(entries, work[c], from)
      /\ top.source \in DOMAIN entries
  BY <1>1, AtEngine
<1>3. Leads(Now, gs)
  <2>1. Leads(Now, fs) /\ fs.entries = Now.entries /\ Now.entries = entries
    BY <1>2, SetPropertiesLeads DEF Now
  <2> HIDE DEF fs, top
  <2>2. CASE Moves(c) /\ top.source # 1
    <3>1. Leads(fs, TakeAway(fs, top.source))
      BY <1>2, <2>1, <2>2, TakeAwayLeads DEF Leads
    <3>2. gs = TakeAway(fs, top.source)
      BY <2>2
    <3> HIDE DEF gs
    <3> QED  BY <2>1, <3>1, <3>2, LeadsOn
  <2>3. CASE ~ (Moves(c) /\ top.source # 1)
    BY <2>1, <2>3
  <2> QED  BY <2>2, <2>3
<1>4. Evolves(entries, es)
  <2> HIDE DEF gs
  <2> QED  BY <1>1, <1>3 DEF Leads, Becomes, Now
<1>5. StackInv(es, work[c], from)
  BY <1>2, <1>4, StackEvolves
<1>6. /\ IsWork(w) /\ w.stack = Tail(work[c].stack)
      /\ w.destination = work[c].destination /\ w.depth = work[c].depth
      /\ w.found = work[c].found /\ w.sourceLock = work[c].sourceLock
      /\ w.listing = work[c].listing
  BY <1>2, StackWith
<1> HIDE DEF w, gs, es, from
<1>7. StackInv(es, w, from) /\ (Level(c) = 0 <=> w.stack = <<>>)
  BY <1>2, <1>5, <1>6, PopFrame DEF Level
<1>8. \/ w.stack # <<>> /\ UNCHANGED task
      \/ w.stack = <<>> /\ GoTo(c, "dispose destination")
  BY <1>1, <1>7
<1> QED  BY <1>1, <1>3, <1>6, <1>7, <1>8, EngineGoes DEF es, from

-----------------------------------------------------------------------------
(* The invariant holds. *)

\* Every step of a COPY or MOVE keeps the transfers in order.
LEMMA TransferProgresses ==
  ASSUME TransfersInv, NEW c \in Client, Engine(c) \/ Handler(c),
         UNCHANGED <<known, left, lost>>
  PROVE  TransferProgress(c)
<1>1. CASE StartOnRoot(c)
  <2>1. /\ task[c].pc \in {"start", "engine"} /\ Throw(c)
        /\ UNCHANGED <<locks, issued, known, left, lost>>
    BY <1>1 DEF StartOnRoot
  <2> QED  BY <2>1, ThrowKeeps
<1>2. ASSUME NEW e \in DOMAIN entries, EngineDocument(c, e) \/ EngineCollection(c, e)
      PROVE  TransferProgress(c)
  BY <1>2, EngineDocumentKeeps, EngineCollectionKeeps
<1>3. CASE StartDocument(c) \/ StartCollection(c) \/ EngineFinish(c)
  BY <1>3, StartDocumentKeeps, StartCollectionKeeps, EngineFinishKeeps
<1>4. CASE Handler(c)
  BY <1>4, LockSourceKeeps, SelectDestinationKeeps, LockDestinationKeeps,
     DisposeDestinationKeeps, DisposeSourceKeeps DEF Handler
<1> QED  BY <1>1, <1>2, <1>3, <1>4 DEF Engine

LEMMA TransferNextKeeps ==
  ASSUME TransfersInv, [TransferNext]_transferVars
  PROVE  TransfersInv'
<1>1. CASE Next /\ UNCHANGED work
  BY <1>1, RequestsKeepTransfers
<1>2. ASSUME NEW c \in Client, TransferSent(c), UNCHANGED lost
      PROVE  TransfersInv'
  BY <1>2, TransferSentKeeps, TransferProgressKeeps
<1>3. ASSUME NEW c \in Client, Engine(c) \/ Handler(c), UNCHANGED <<known, left, lost>>
      PROVE  TransfersInv'
  BY <1>3, TransferProgresses, TransferProgressKeeps
<1>4. CASE UNCHANGED transferVars
  <2>1. UNCHANGED vars /\ UNCHANGED work
    BY <1>4 DEF transferVars
  <2>2. RequestsInv' /\ StateInv
    BY <2>1, InvStuttering DEF TransfersInv, RequestsInv
  <2>3. /\ UNCHANGED <<entries, locks, issued, task, lost>>
        /\ Evolves(entries, entries') /\ issued \subseteq issued'
    BY <2>1, SameEntries DEF vars
  <2>4. \A c \in Client : WorkInv(c)'
    BY <2>1, <2>3, OthersWork DEF TransfersInv
  <2>5. TransferLocksEnd'
    BY <2>1, <2>3 DEF TransfersInv, TransferLocksEnd, Held, Explicit
  <2> QED  BY <2>1, <2>2, <2>4, <2>5 DEF TransfersInv
<1> QED  BY <1>1, <1>2, <1>3, <1>4 DEF TransferNext

LEMMA TransferInitInv ==
  ASSUME TransferInit
  PROVE  TransfersInv
<1>1. RequestsInv
  BY InitInv DEF TransferInit, Inv, RequestsInv
<1>2. /\ work = [c \in Client |-> NoWork] /\ task = [c \in Client |-> Idle]
      /\ locks = [t \in Token |-> NoLock]
  BY DEF TransferInit, Init
<1>3. ASSUME NEW c \in Client  PROVE WorkInv(c)
  <2>1. work[c] = NoWork /\ task[c].pc \notin TransferStage /\ task[c].pc # "engine"
    BY <1>2, IdleIsTask DEF TransferStage
  <2> QED  BY <2>1, NoWorkIs DEF WorkInv
<1>4. TransferLocksEnd
  BY <1>2 DEF TransferLocksEnd, Held
<1> QED  BY <1>1, <1>2, <1>3, <1>4 DEF TransfersInv

\* Transfers and the other requests fit together at every moment.
THEOREM TransfersInvHolds == TransferSpec => []TransfersInv
<1>1. TransferInit => TransfersInv
  BY TransferInitInv
<1>2. TransfersInv /\ [TransferNext]_transferVars => TransfersInv'
  BY TransferNextKeeps
<1> QED  BY <1>1, <1>2, PTL DEF TransferSpec

\* Whatever the requests of other clients do to the source and the destination
\* of a COPY or MOVE while it runs, the collections the engine is at have the
\* paths that correspond, one below the other; and however it ends, no
\* temporary lock is left, unless its client hung up.
THEOREM TransferIsTidyHolds == TransferSpec => []TransferIsTidy
<1>1. TransfersInv => TransferIsTidy
  <2> SUFFICES ASSUME TransfersInv  PROVE TransferIsTidy
    OBVIOUS
  <2>1. /\ StateInv /\ TransferLocksEnd
        /\ \A c \in Client : OwnInv(c) /\ WorkInv(c)
    BY DEF TransfersInv, RequestsInv
  <2>2. TypeOK
    <3>1. IsFileSystem(entries) /\ DOMAIN props = Path /\ issued \subseteq Token
      BY <2>1 DEF StateInv, FileSystemInv
    <3>2. \A t \in Held : locks[t] \in ActiveLock
      BY <2>1 DEF StateInv, Held
    <3>3. \A c \in Client : known[c] \subseteq issued /\ task[c].remove \subseteq issued
                            /\ task[c].lock \in issued \cup {NoToken}
      BY <2>1 DEF StateInv, OwnInv
    <3> QED  BY <3>1, <3>2, <3>3 DEF TypeOK, ActiveLock
  <2>3. ASSUME NEW c \in Client, NEW i \in 1..Len(work[c].stack)
        PROVE  LET frame == work[c].stack[i]
               IN  /\ entries[frame.target].path = Image(c, entries[frame.source].path)
                   /\ entries[frame.source].kind = "collection"
                   /\ entries[frame.target].kind = "collection"
                   /\ i < Len(work[c].stack) =>
                        entries[frame.source].parent = work[c].stack[i + 1].source
    <3> DEFINE frame == work[c].stack[i]
    <3>1. /\ FrameInv(entries, frame, work[c].listing, task[c].path, work[c].destination)
          /\ i < Len(work[c].stack) =>
               entries[frame.source].parent = work[c].stack[i + 1].source
          /\ ListingInv(entries, work[c].listing)
      BY <2>1 DEF WorkInv, StackInv
    <3>2. entries[frame.source].kind = "collection"
      BY <3>1 DEF FrameInv, ListingInv, IsEntry
    <3> QED  BY <3>1, <3>2 DEF FrameInv, IsEntry, Image
  <2>4. \A c \in Client : work[c].stack # <<>> => task[c].pc = "engine"
    BY <2>1 DEF WorkInv
  <2> QED  BY <2>1, <2>2, <2>3, <2>4 DEF TransferIsTidy, TransferTypeOK
<1> QED  BY <1>1, TransfersInvHolds, PTL

-----------------------------------------------------------------------------
(* The contract of the lock manager. *)

\* A COPY or MOVE locks, or disposes of a lock, as every other request does.
LEMMA TransferIsLockStep ==
  ASSUME TransfersInv, NEW c \in Client, TransferSent(c) \/ Engine(c) \/ Handler(c)
  PROVE  LockStep
<1>1. StateInv /\ issued \subseteq Token /\ task[c].lock \in issued \cup {NoToken}
      /\ work[c].sourceLock \in issued \cup {NoToken}
  BY DEF TransfersInv, RequestsInv, StateInv, OwnInv, WorkInv
<1>2. ASSUME NEW p \in Path, NEW recursive \in BOOLEAN,
             LET lock == Lock(c, p, recursive, "shared", TRUE)
             IN  (\E t : Permitted(c, lock, t)) \/ Denied(c, lock)
      PROVE  LockStep
  <2> DEFINE lock == Lock(c, p, recursive, "shared", TRUE)
  <2>1. lock \in ActiveLock
    BY TransferLockIs
  <2> HIDE DEF lock
  <2>2. (\E t : Permitted(c, lock, t)) \/ Denied(c, lock)
    BY <1>2 DEF lock
  <2> QED  BY <1>1, <2>1, <2>2, GrantIsStep DEF Permitted, Denied, Refused, LockStep
<1>3. ASSUME NEW t, t \in issued, Released(t), UNCHANGED issued  PROVE LockStep
  BY <1>1, <1>3 DEF LockStep
<1>4. CASE LockSource(c)
  <2>1. task[c].path \in Path
    BY <1>4, AtTransfer DEF LockSource, TransferStage
  <2> QED  BY <1>2, <1>4, <2>1 DEF LockSource
<1>5. CASE LockDestination(c)
  <2> DEFINE recursive == Moves(c) \/ work[c].depth # 0
  <2>1. work[c].destination \in Path /\ recursive \in BOOLEAN
    BY <1>5, AtTransfer DEF LockDestination, TransferStage
  <2>2. LET lock == Lock(c, work[c].destination, recursive, "shared", TRUE)
        IN  (\E t : Permitted(c, lock, t)) \/ Denied(c, lock)
    BY <1>5 DEF LockDestination
  <2> HIDE DEF recursive
  <2> QED  BY <1>2, <2>1, <2>2
<1>6. CASE DisposeDestination(c)
  BY <1>1, <1>3, <1>6 DEF DisposeDestination, LockStep
<1>7. CASE DisposeSource(c)
  BY <1>1, <1>3, <1>7 DEF DisposeSource, LockStep
<1>8. CASE TransferSent(c) \/ Engine(c) \/ SelectDestination(c)
  <2>1. TransferSent(c) \/ SelectDestination(c) => UNCHANGED <<locks, issued>>
    <3>1. \A method, pair, depth, overwrite, inside, submitted, resource :
            TransferRequest(c, method, pair, depth, overwrite, inside, submitted, resource)
              => UNCHANGED <<locks, issued>>
      BY Zenon DEF TransferRequest
    <3>2. TransferSent(c) => UNCHANGED <<locks, issued>>
      BY <3>1, Zenon DEF TransferSent
    <3> QED  BY <3>2 DEF SelectDestination
  <2>2. StartOnRoot(c) \/ StartDocument(c) => UNCHANGED <<locks, issued>>
    BY DEF StartOnRoot, StartDocument
  <2>3. StartCollection(c) \/ EngineFinish(c) => UNCHANGED <<locks, issued>>
    BY DEF StartCollection, EngineFinish
  <2>4. \A e : EngineDocument(c, e) \/ EngineCollection(c, e) => UNCHANGED <<locks, issued>>
    BY DEF EngineDocument, EngineCollection
  <2> QED  BY <1>8, <2>1, <2>2, <2>3, <2>4 DEF Engine, LockStep
<1> QED  BY <1>4, <1>5, <1>6, <1>7, <1>8 DEF Handler

\* With COPY and MOVE, and their two temporary locks, among the requests, the
\* lock manager is still used as its contract has it.
THEOREM TransferContractHolds == TransferSpec => Contract
<1>1. TransferInit => Manager!Init
  BY DEF TransferInit, Init, Manager!Init, Held
<1>2. TransfersInv /\ TransfersInv' /\ [TransferNext]_transferVars
        => [Manager!Next]_(Manager!vars)
  <2> SUFFICES ASSUME TransfersInv, TransfersInv', [TransferNext]_transferVars
               PROVE  [Manager!Next]_(Manager!vars)
    OBVIOUS
  <2>1. RequestsInv /\ StateInv /\ StateInv'
    BY DEF TransfersInv, RequestsInv
  <2>2. LockStep
    <3>1. CASE Next
      BY <2>1, <3>1, NextIsLockStep
    <3>2. CASE UNCHANGED transferVars
      BY <3>2 DEF transferVars, vars, LockStep
    <3> QED  BY <3>1, <3>2, TransferIsLockStep DEF TransferNext
  <2> QED  BY <2>1, <2>2, LockStepIsManagerStep
<1> QED  BY <1>1, <1>2, TransfersInvHolds, PTL DEF TransferSpec, Contract, Manager!Spec

\* With COPY and MOVE among the requests as well, no resource is covered by an
\* exclusive lock and by another one, temporary or not.
THEOREM TransferLocksAreApartHolds == TransferSpec => []LocksAreApart
<1>1. TransfersInv /\ TableProofs!ExclusiveMeansAlone => LocksAreApart
  BY ApartIs DEF TransfersInv, RequestsInv
<1> QED  BY <1>1, TransfersInvHolds, TransferContractHolds, ContractExcludes, PTL

-----------------------------------------------------------------------------
(* What the locks of a transfer cover.                                      *)

\* The locks a COPY or MOVE asks for: r is its task, w its work.
SourceLock(c, r) == Lock(c, r.path, TRUE, "shared", TRUE)
DestinationLock(c, r, w) ==
  Lock(c, w.destination, r.method = "MOVE" \/ w.depth # 0, "shared", TRUE)

\* What a request asked for as `lock' it was given as t, or else the lock it
\* submitted covers the path; unless what it goes by was taken away.
GoesBy(ls, submitted, t, lock) ==
  IF t # NoToken THEN ls[t] # NoLock => ls[t] = lock
  ELSE /\ submitted # NoToken
       /\ ls[submitted] # NoLock => lock.path \in Scope(ls[submitted])

\* The stages at which a MOVE has locked its source.
AfterSource == {"select destination", "lock destination", "start", "engine"}

\* A listing of Depth 0 names no members.
FlatListing(r, w) ==
  w.depth = 0 => \A d \in DOMAIN w.listing : d = r.found.entry /\ w.listing[d] = {}

\* The request of c, at any of its stages, may do what it is about to do.
MayWork(c, ls, r, w) ==
  /\ r.pc \in {"start", "engine"} => GoesBy(ls, r.submitted, r.lock, DestinationLock(c, r, w))
  /\ r.method = "MOVE" /\ r.pc \in AfterSource =>
       GoesBy(ls, r.submitted, w.sourceLock, SourceLock(c, r))
  /\ FlatListing(r, w)

MayWorkInv ==
  \A c \in Client : MayWork(c, locks, task[c], work[c]) /\ StageInv(c, {"DELETE", "MOVE"})

-----------------------------------------------------------------------------
(* What every step of the engine has in common. *)

\* What a transfer is for stays the same.
SameAim(w, v) ==
  /\ v.destination = w.destination /\ v.depth = w.depth /\ v.overwrite = w.overwrite
  /\ v.inside = w.inside /\ v.found = w.found /\ v.sourceLock = w.sourceLock
  /\ v.before = w.before

LEMMA AimWith ==
  ASSUME NEW w, IsWork(w)
  PROVE  /\ \A x : LET v == WithResults(w, x) IN SameAim(w, v) /\ v.listing = w.listing
         /\ \A x, y : LET v == WithStack(w, x, y) IN
              SameAim(w, v) /\ v.listing = w.listing /\ v.stack = x
         /\ \A x : LET v == OnStack(w, x) IN
              SameAim(w, v) /\ v.listing = w.listing /\ v.stack = x
         /\ \A x, y : LET v == WithListing(w, x, y) IN SameAim(w, v) /\ v.listing = x
BY DEF WithResults, WithStack, OnStack, WithListing, SameAim, IsWork, WorkFields

\* A step of the engine, as c's request sees it.
EngineStep(c) ==
  LET r == task[c] w == work[c] v == work'[c] IN
  /\ \E pc \in {"engine", "dispose destination"} : Onward(c, pc, r.lock)
  /\ \A d \in Client \ {c} : work'[d] = work[d]
  /\ SameAim(w, v)
  /\ \/ v.listing = w.listing
     \/ r.pc = "start" /\ v.listing = Listing(entries, r.found.entry, w.depth)
  /\ UNCHANGED <<locks, issued>>
  /\ task'[c] # r \/ v # w

LEMMA EngineStepIs ==
  ASSUME TransfersInv, NEW c \in Client, task[c].pc \in {"start", "engine"},
         NEW pc \in {"engine", "dispose destination"}, Onward(c, pc, task[c].lock),
         UNCHANGED <<locks, issued>>,
         NEW w, Works(c, w), SameAim(work[c], w),
         \/ w.listing = work[c].listing
         \/ task[c].pc = "start" /\ w.listing = Listing(entries, task[c].found.entry,
                                                        work[c].depth),
         pc # task[c].pc \/ w # work[c]
  PROVE  EngineStep(c)
<1>1. Worked(c, w)
  BY WorkedIs
<1>2. task'[c].pc = pc
  BY DEF Onward
<1>3. task'[c] # task[c] \/ w # work[c]
  BY <1>2
<1> QED  BY <1>1, <1>3 DEF EngineStep, Worked

LEMMA ThrowIs ==
  ASSUME TransfersInv, NEW c \in Client, task[c].pc \in {"start", "engine"}, Throw(c),
         UNCHANGED <<locks, issued>>
  PROVE  EngineStep(c)
<1> DEFINE w == WithStack(work[c], <<>>, {})
           pc == "dispose destination"
<1>1. StateInv /\ IsWork(work[c])
  BY AtTransfer DEF TransferStage
<1>2. GoTo(c, pc) /\ Works(c, w) /\ pc \in Stage
  BY DEF Throw, WithStack, Stage
<1>3. pc \in {"engine", "dispose destination"} /\ pc # task[c].pc
  OBVIOUS
<1>4. SameAim(work[c], w) /\ w.listing = work[c].listing
  BY <1>1, AimWith
<1> HIDE DEF w, pc
<1>5. Onward(c, pc, task[c].lock)
  BY <1>1, <1>2, OnwardIs
<1> QED  BY <1>2, <1>3, <1>4, <1>5, EngineStepIs

LEMMA ResultIs ==
  ASSUME TransfersInv, NEW c \in Client, task[c].pc = "start",
         GoTo(c, "dispose destination"), UNCHANGED <<locks, issued>>,
         NEW results, Works(c, [work[c] EXCEPT !.results = results])
  PROVE  EngineStep(c)
<1> DEFINE w == WithResults(work[c], results)
           pc == "dispose destination"
<1>1. StateInv /\ IsWork(work[c])
  BY AtTransfer DEF TransferStage
<1>2. GoTo(c, pc) /\ Works(c, w) /\ pc \in Stage
  BY DEF WithResults, Stage
<1>3. pc \in {"engine", "dispose destination"} /\ pc # task[c].pc
  OBVIOUS
<1>4. SameAim(work[c], w) /\ w.listing = work[c].listing
  BY <1>1, AimWith
<1> HIDE DEF w, pc
<1>5. Onward(c, pc, task[c].lock)
  BY <1>1, <1>2, OnwardIs
<1> QED  BY <1>2, <1>3, <1>4, <1>5, EngineStepIs

LEMMA StartCollectionIs ==
  ASSUME TransfersInv, NEW c \in Client, StartCollection(c)
  PROVE  EngineStep(c)
<1> DEFINE source  == task[c].found.entry
           found   == work[c].found
           listing == Listing(entries, source, work[c].depth)
           frame(target) == Frame(listing, source, target, IsMissing(found),
                                  Collected(props[entries[source].path]))
           Enter(target) == /\ Works(c, [work[c] EXCEPT !.listing = listing,
                                                        !.stack = <<frame(target)>>])
                            /\ GoTo(c, "engine")
           Fail(status) == /\ Works(c, [work[c] EXCEPT !.results = Result(status, 0)])
                           /\ GoTo(c, "dispose destination")
<1>1. task[c].pc = "start" /\ UNCHANGED <<locks, issued>>
  BY DEF StartCollection, Starts
<1>2. ASSUME NEW status, Fail(status)  PROVE EngineStep(c)
  <2> DEFINE results == Result(status, 0)
  <2>1. Works(c, [work[c] EXCEPT !.results = results]) /\ GoTo(c, "dispose destination")
    BY <1>2
  <2> HIDE DEF results
  <2> QED  BY <1>1, <2>1, ResultIs
<1>3. ASSUME NEW target, Enter(target)  PROVE EngineStep(c)
  <2> DEFINE stack == <<frame(target)>>
             w == WithListing(work[c], listing, stack)
             pc == "engine"
  <2>1. StateInv /\ IsWork(work[c])
    BY <1>1, AtTransfer DEF TransferStage
  <2>2. Works(c, w) /\ GoTo(c, pc) /\ pc \in Stage
    BY <1>3 DEF WithListing, Stage
  <2>3. pc \in {"engine", "dispose destination"} /\ pc # task[c].pc
    BY <1>1
  <2>4. SameAim(work[c], w) /\ w.listing = listing
    BY <2>1, AimWith
  <2>5. listing = Listing(entries, task[c].found.entry, work[c].depth)
    OBVIOUS
  <2> HIDE DEF w, pc, listing
  <2>6. Onward(c, pc, task[c].lock)
    BY <2>1, <2>2, OnwardIs
  <2> QED  BY <1>1, <2>2, <2>3, <2>4, <2>5, <2>6, EngineStepIs
<1>4. (\E status : Fail(status)) \/ (\E target : Enter(target))
  <2>1. (CASE found.result = "FoundDocument" ->
                Fail("OverwriteFailed") /\ UNCHANGED entries
           [] found.result = "FoundCollection" -> Enter(found.entry) /\ UNCHANGED entries
           [] IsMissing(found) /\ CanCreate(entries, work[c].destination, found.collection) ->
                /\ entries' = Create(entries, "collection", work[c].destination,
                                     found.collection, "empty")
                /\ Enter(Len(entries) + 1)
           [] OTHER -> Fail("CreateFailed") /\ UNCHANGED entries)
    BY DEF StartCollection
  <2> HIDE DEF Fail, Enter
  <2> QED  BY <2>1
<1> HIDE DEF Fail, Enter
<1> QED  BY <1>2, <1>3, <1>4

\* The stack is another one when the frame at the top is, or one was put on it,
\* or taken from it.
LEMMA StackChanges ==
  ASSUME TransfersInv, NEW c \in Client, AtWork(c)
  PROVE  LET stack == work[c].stack top == Top(c) IN
         /\ Tail(stack) # stack
         /\ \A e \in top.documents : <<LessDocuments(top, e)>> \o Tail(stack) # stack
         /\ \A e \in top.collections : \A f :
              LET rest == <<LessCollections(top, e)>> \o Tail(stack)
              IN  rest # stack /\ <<f>> \o rest # stack
<1> DEFINE stack == work[c].stack
           top == Top(c)
           more(f) == <<f>> \o Tail(stack)
<1>1. IsSequence(stack) /\ stack # <<>> /\ IsFrame(top)
  BY AtEngine DEF StackInv, FrameInv
<1>2. /\ IsSequence(Tail(stack)) /\ Len(stack) \in Nat \ {0}
      /\ Len(Tail(stack)) = Len(stack) - 1 /\ top = stack[1]
  BY <1>1, PopIs DEF Top
<1>3. Tail(stack) # stack
  <2> DEFINE s == Tail(stack)
  <2>1. Len(s) = Len(stack) - 1 /\ Len(stack) \in Nat
    BY <1>2
  <2> HIDE DEF s, stack
  <2>2. s # stack
    BY <2>1
  <2> QED  BY <2>2 DEF s
<1>4. \A f : IsSequence(more(f)) /\ Len(more(f)) = Len(stack) /\ more(f)[1] = f
  <2> SUFFICES ASSUME NEW f
               PROVE  IsSequence(more(f)) /\ Len(more(f)) = Len(stack) /\ more(f)[1] = f
    OBVIOUS
  <2> DEFINE s == Tail(stack)
  <2>1. IsSequence(s) /\ Len(s) + 1 = Len(stack)
    BY <1>2
  <2> HIDE DEF s, stack
  <2>2. /\ IsSequence(<<f>> \o s) /\ Len(<<f>> \o s) = Len(s) + 1
        /\ (<<f>> \o s)[1] = f
    BY <2>1, PushIs
  <2> QED  BY <2>1, <2>2 DEF s
<1>5. \A f, g : Len(<<g>> \o more(f)) = Len(stack) + 1
  <2> SUFFICES ASSUME NEW f, NEW g  PROVE Len(<<g>> \o more(f)) = Len(stack) + 1
    OBVIOUS
  <2>1. IsSequence(more(f)) /\ Len(more(f)) = Len(stack)
    BY <1>4
  <2> HIDE DEF more, stack
  <2> QED  BY <2>1, PushIs
<1> HIDE DEF more
<1>6. \A e \in top.documents : LessDocuments(top, e) # top
  BY <1>1, FrameWith
<1>7. \A e \in top.collections : LessCollections(top, e) # top
  BY <1>1, FrameWith
<1>8. \A f : f # top => more(f) # stack
  BY <1>2, <1>4
<1>9. \A f, g : <<g>> \o more(f) # stack
  BY <1>2, <1>5
<1> QED  BY <1>3, <1>6, <1>7, <1>8, <1>9 DEF more

LEMMA EngineDocumentIs ==
  ASSUME TransfersInv, NEW c \in Client, NEW e, EngineDocument(c, e)
  PROVE  EngineStep(c)
<1> DEFINE top   == Top(c)
           stack == <<LessDocuments(top, e)>> \o Tail(work[c].stack)
<1>1. /\ AtWork(c) /\ e \in Top(c).documents /\ UNCHANGED <<task, locks, issued>>
      /\ \E results : Works(c, WithStack(work[c], stack, results))
  BY DEF EngineDocument, WithStack, LessDocuments
<1>2. PICK results : Works(c, WithStack(work[c], stack, results))
  BY <1>1
<1>3. StateInv /\ IsWork(work[c]) /\ stack # work[c].stack
  BY <1>1, AtEngine, StackChanges
<1> DEFINE w == WithStack(work[c], stack, results)
<1> HIDE DEF stack
<1>4. SameAim(work[c], w) /\ w.listing = work[c].listing /\ w # work[c]
  BY <1>3, AimWith
<1>5. Onward(c, "engine", task[c].lock) /\ task[c].pc = "engine"
  BY <1>1, <1>3, OnwardIs DEF AtWork
<1>6. Works(c, w)
  BY <1>2
<1> HIDE DEF w
<1> QED  BY <1>1, <1>4, <1>5, <1>6, EngineStepIs

LEMMA EngineCollectionIs ==
  ASSUME TransfersInv, NEW c \in Client, NEW e, EngineCollection(c, e)
  PROVE  EngineStep(c)
<1> DEFINE top  == Top(c)
           rest == <<LessCollections(top, e)>> \o Tail(work[c].stack)
           p    == PathIn(top.target, e)
           target == TargetOf(top, e)
           frame(at, created) == Frame(work[c].listing, e, at, created, top.memberProperties[e])
           Enter(at, created) == Works(c, OnStack(work[c], <<frame(at, created)>> \o rest))
           results == work[c].results \cup Result("OverwriteFailed", Level(c) + 1)
<1>1. /\ AtWork(c) /\ e \in Top(c).collections /\ UNCHANGED <<locks, issued>>
      /\ \/ /\ target # 0 /\ entries[target].kind = "document"
            /\ Works(c, WithStack(work[c], rest, results))
            /\ UNCHANGED <<entries, props, task>>
         \/ /\ target # 0 /\ entries[target].kind = "collection"
            /\ Enter(target, FALSE)
            /\ UNCHANGED <<entries, props, task>>
         \/ /\ target = 0 /\ CanCreate(entries, p, top.target)
            /\ entries' = Create(entries, "collection", p, top.target, "empty")
            /\ Enter(Len(entries) + 1, TRUE)
            /\ UNCHANGED <<props, task>>
         \/ /\ target = 0 /\ ~ CanCreate(entries, p, top.target)
            /\ Throw(c)
  BY DEF EngineCollection, WithStack, OnStack, LessCollections
<1>2. /\ StateInv /\ IsWork(work[c]) /\ task[c].pc = "engine"
      /\ rest # work[c].stack /\ \A f : <<f>> \o rest # work[c].stack
  BY <1>1, AtEngine, StackChanges DEF AtWork
<1>3. ASSUME NEW w, Works(c, w), UNCHANGED task, SameAim(work[c], w),
             w.listing = work[c].listing, w # work[c]
      PROVE  EngineStep(c)
  <2>1. Onward(c, "engine", task[c].lock)
    BY <1>2, <1>3, OnwardIs
  <2> QED  BY <1>1, <1>2, <1>3, <2>1, EngineStepIs
<1>4. ASSUME NEW f, Works(c, OnStack(work[c], <<f>> \o rest)), UNCHANGED task
      PROVE  EngineStep(c)
  <2> DEFINE stack == <<f>> \o rest
             w == OnStack(work[c], stack)
  <2>1. Works(c, w) /\ stack # work[c].stack
    BY <1>2, <1>4
  <2> HIDE DEF stack
  <2>2. SameAim(work[c], w) /\ w.listing = work[c].listing /\ w # work[c]
    BY <1>2, <2>1, AimWith
  <2> HIDE DEF w
  <2> QED  BY <1>3, <1>4, <2>1, <2>2
<1>5. CASE Works(c, WithStack(work[c], rest, results)) /\ UNCHANGED task
  <2> DEFINE w == WithStack(work[c], rest, results)
  <2>1. Works(c, w)
    BY <1>5
  <2> HIDE DEF rest, results
  <2>2. SameAim(work[c], w) /\ w.listing = work[c].listing /\ w # work[c]
    BY <1>2, <2>1, AimWith
  <2> HIDE DEF w
  <2> QED  BY <1>3, <1>5, <2>1, <2>2
<1>6. CASE Throw(c)
  BY <1>1, <1>2, <1>6, ThrowIs
<1>7. CASE (\E at, created : Enter(at, created)) /\ UNCHANGED task
  <2> HIDE DEF frame, rest
  <2> QED  BY <1>4, <1>7
<1> HIDE DEF rest, results, target, p, Enter
<1> QED  BY <1>1, <1>5, <1>6, <1>7

LEMMA EngineFinishIs ==
  ASSUME TransfersInv, NEW c \in Client, EngineFinish(c)
  PROVE  EngineStep(c)
<1> DEFINE stack == Tail(work[c].stack)
<1>1. /\ AtWork(c) /\ UNCHANGED <<locks, issued>>
      /\ GoTo(c, "dispose destination") \/ UNCHANGED task
      /\ \E results : Works(c, WithStack(work[c], stack, results))
  BY DEF EngineFinish, WithStack
<1>2. PICK results : Works(c, WithStack(work[c], stack, results))
  BY <1>1
<1>3. StateInv /\ IsWork(work[c]) /\ stack # work[c].stack /\ task[c].pc = "engine"
  BY <1>1, AtEngine, StackChanges DEF AtWork
<1> DEFINE w == WithStack(work[c], stack, results)
<1> HIDE DEF stack
<1>4. SameAim(work[c], w) /\ w.listing = work[c].listing /\ w # work[c]
  BY <1>3, AimWith
<1>5. Works(c, w)
  BY <1>2
<1> HIDE DEF w
<1>6. CASE UNCHANGED task
  <2>1. Onward(c, "engine", task[c].lock)
    BY <1>3, <1>6, OnwardIs
  <2> QED  BY <1>1, <1>3, <1>4, <1>5, <2>1, EngineStepIs
<1>7. CASE GoTo(c, "dispose destination")
  <2>1. "dispose destination" \in Stage
    BY DEF Stage
  <2>2. Onward(c, "dispose destination", task[c].lock)
    BY <1>3, <1>7, <2>1, OnwardIs
  <2> QED  BY <1>1, <1>3, <1>4, <1>5, <2>2, EngineStepIs
<1> QED  BY <1>1, <1>6, <1>7

LEMMA EngineIs ==
  ASSUME TransfersInv, NEW c \in Client, Engine(c)
  PROVE  EngineStep(c)
<1>1. CASE StartOnRoot(c)
  <2>1. task[c].pc \in {"start", "engine"} /\ Throw(c) /\ UNCHANGED <<locks, issued>>
    BY <1>1 DEF StartOnRoot
  <2> QED  BY <2>1, ThrowIs
<1>2. CASE StartDocument(c)
  <2> DEFINE done == LET found == work[c].found
                     IN  IF found.result = "FoundCollection"
                         THEN [fs |-> Now, status |-> "OverwriteFailed"]
                         ELSE Execute(c, task[c].found.entry, work[c].destination,
                                      found.collection, found.entry)
             results == Result(done.status, 0)
  <2>1. /\ task[c].pc = "start" /\ GoTo(c, "dispose destination") /\ UNCHANGED <<locks, issued>>
        /\ Works(c, [work[c] EXCEPT !.results = results])
    BY <1>2 DEF StartDocument, Starts
  <2> HIDE DEF results
  <2> QED  BY <2>1, ResultIs
<1> QED  BY <1>1, <1>2, StartCollectionIs, EngineDocumentIs, EngineCollectionIs, EngineFinishIs
         DEF Engine

-----------------------------------------------------------------------------
(* A transfer goes by the locks it asked for. *)

LEMMA GoesByStays ==
  ASSUME StateInv, Kept, NEW submitted \in issued \cup {NoToken},
         NEW t \in issued \cup {NoToken}, NEW lock, GoesBy(locks, submitted, t, lock)
  PROVE  GoesBy(locks', submitted, t, lock)
<1>1. \A u \in issued : locks'[u] \in {locks[u], NoLock}
  BY DEF Kept
<1> QED  BY <1>1 DEF GoesBy

\* Which locks c asks for, and by which it goes, stays the same.
LEMMA MayWorkStays ==
  ASSUME StateInv, NEW c, OwnInv(c), Kept, NEW r, NEW w, r = task[c],
         w.sourceLock \in issued \cup {NoToken}, MayWork(c, locks, r, w)
  PROVE  MayWork(c, locks', r, w)
<1>1. r.submitted \in issued \cup {NoToken} /\ r.lock \in issued \cup {NoToken}
  BY DEF OwnInv
<1>2. GoesBy(locks, r.submitted, r.lock, DestinationLock(c, r, w))
        => GoesBy(locks', r.submitted, r.lock, DestinationLock(c, r, w))
  BY <1>1, GoesByStays
<1>3. GoesBy(locks, r.submitted, w.sourceLock, SourceLock(c, r))
        => GoesBy(locks', r.submitted, w.sourceLock, SourceLock(c, r))
  BY <1>1, GoesByStays
<1> QED  BY <1>2, <1>3 DEF MayWork

LEMMA RestMayWork ==
  ASSUME NEW c, NEW ls, NEW r, NEW w, r.pc \notin TransferStage, w = NoWork
  PROVE  MayWork(c, ls, r, w)
<1>1. FlatListing(r, w)
  BY NoWorkIs DEF FlatListing
<1>2. r.pc \notin {"start", "engine"} /\ r.pc \notin AfterSource
  BY DEF TransferStage, AfterSource
<1> QED  BY <1>1, <1>2 DEF MayWork

\* At a stage of a transfer, the handler is at none that others share.
LEMMA StageElsewhere ==
  ASSUME NEW c, task'[c].pc \in TransferStage \cup {"idle"}
  PROVE  StageInv(c, {"DELETE", "MOVE"})'
BY DEF StageInv, TransferStage

\* A Depth 0 listing has no members in it.
LEMMA FlatListingIs ==
  ASSUME NEW es, NEW top
  PROVE  \A d \in DOMAIN Listing(es, top, 0) : d = top /\ Listing(es, top, 0)[d] = {}
<1> DEFINE level == Levels(es, top, 0)
<1>1. 0 \in 0..0 /\ 0 \in Nat /\ 0..0 = {0}
  OBVIOUS
<1>2. level[0] = {top}
  <2>1. level[0] = LevelAt(es, top, level, 0)
    BY <1>1, LevelsIs
  <2> HIDE DEF level
  <2> QED  BY <2>1 DEF LevelAt
<1>3. Listing(es, top, 0) = [d \in UNION {level[k] : k \in 0..0} |->
                               IF d \in level[0] THEN {} ELSE es[d].members]
  BY ListingIs
<1> HIDE DEF level
<1>4. UNION {level[k] : k \in 0..0} = {top}
  BY <1>1, <1>2
<1> QED  BY <1>2, <1>3, <1>4

\* The engine goes on under the locks it began with.
LEMMA EngineMayWork ==
  ASSUME TransfersInv, NEW c \in Client, EngineStep(c), task[c].pc \in {"start", "engine"},
         MayWork(c, locks, task[c], work[c])
  PROVE  MayWork(c, locks', task'[c], work'[c]) /\ StageInv(c, {"DELETE", "MOVE"})'
<1> DEFINE r == task[c]
           s == task'[c]
           w == work[c]
           v == work'[c]
<1>1. /\ s.pc \in {"engine", "dispose destination"} /\ s.lock = r.lock /\ s.method = r.method
      /\ s.path = r.path /\ s.submitted = r.submitted /\ s.found = r.found
      /\ UNCHANGED locks
      /\ v.destination = w.destination /\ v.depth = w.depth /\ v.sourceLock = w.sourceLock
      /\ \/ v.listing = w.listing
         \/ v.listing = Listing(entries, r.found.entry, w.depth)
  BY DEF EngineStep, Onward, SameAim
<1>2. /\ DestinationLock(c, s, v) = DestinationLock(c, r, w)
      /\ SourceLock(c, s) = SourceLock(c, r)
  BY <1>1 DEF DestinationLock, SourceLock
<1>3. FlatListing(s, v)
  <2>1. CASE v.listing = w.listing
    BY <1>1, <2>1 DEF FlatListing, MayWork
  <2>2. CASE v.listing = Listing(entries, r.found.entry, w.depth)
    <3> DEFINE top == r.found.entry
               flat == Listing(entries, top, 0)
    <3> HIDE DEF r, s, w, v
    <3>1. \A d \in DOMAIN flat : d = top /\ flat[d] = {}
      BY FlatListingIs
    <3>2. /\ w.depth = 0 => v.listing = flat
          /\ v.depth = w.depth /\ s.found.entry = top
      BY <1>1, <2>2
    <3> HIDE DEF flat, top
    <3> QED  BY <3>1, <3>2 DEF FlatListing
  <2> QED  BY <1>1, <2>1, <2>2
<1>4. s.pc \in TransferStage /\ r.pc \in AfterSource
  BY <1>1 DEF TransferStage, AfterSource
<1>5. GoesBy(locks, r.submitted, r.lock, DestinationLock(c, r, w))
  BY DEF MayWork
<1>6. r.method = "MOVE" => GoesBy(locks, r.submitted, w.sourceLock, SourceLock(c, r))
  BY <1>4 DEF MayWork
<1> HIDE DEF r, s, w, v
<1>7. MayWork(c, locks', s, v)
  BY <1>1, <1>2, <1>3, <1>5, <1>6 DEF MayWork
<1> QED  BY <1>4, <1>7, StageElsewhere DEF s, v

\* A request that has its lock goes by it.
LEMMA PermittedGoesBy ==
  ASSUME RequestsInv, NEW c \in Client, NEW lock \in ActiveLock, NEW t, Permitted(c, lock, t)
  PROVE  GoesBy(locks', task[c].submitted, t, lock)
<1>1. /\ Kept /\ (t # NoToken => locks'[t] = lock)
      /\ t = NoToken => /\ task[c].submitted # NoToken
                        /\ task[c].submitted \in Held
                             => lock.path \in Scope(locks[task[c].submitted])
  BY PermittedIs
<1>2. task[c].submitted \in issued \cup {NoToken} /\ issued \subseteq Token
  BY DEF RequestsInv, StateInv, OwnInv
<1>3. ASSUME task[c].submitted # NoToken, locks'[task[c].submitted] # NoLock
      PROVE  /\ task[c].submitted \in Held
             /\ locks'[task[c].submitted] = locks[task[c].submitted]
  BY <1>1, <1>2, <1>3 DEF Kept, Held
<1> QED  BY <1>1, <1>3 DEF GoesBy

WithFound(w, found) == [w EXCEPT !.found = found]

LEMMA WithFoundIs ==
  ASSUME NEW w, IsWork(w), NEW x
  PROVE  LET v == WithFound(w, x) IN
         /\ v.destination = w.destination /\ v.depth = w.depth
         /\ v.sourceLock = w.sourceLock /\ v.listing = w.listing
BY DEF WithFound, IsWork, WorkFields

LEMMA HandlerMayWork ==
  ASSUME TransfersInv, NEW c \in Client, Handler(c), MayWork(c, locks, task[c], work[c])
  PROVE  MayWork(c, locks', task'[c], work'[c]) /\ StageInv(c, {"DELETE", "MOVE"})'
<1> DEFINE r == task[c]
           s == task'[c]
           w == work[c]
           v == work'[c]
<1>0. /\ "select destination" \in Stage /\ "dispose source" \in Stage /\ "affected" \in Stage
      /\ "lock destination" \in Stage /\ "start" \in Stage
      /\ NoToken \in Tokens /\ "dispose source" \notin AfterSource
  BY DEF Stage, Tokens, AfterSource
<1>1. /\ r.pc \in TransferStage /\ StateInv /\ OwnInv(c) /\ IsWork(w) /\ r.path \in Path
      /\ w.destination \in Path /\ w.sourceLock \in issued \cup {NoToken}
      /\ RequestsInv /\ task \in [Client -> Task] /\ DOMAIN work = Client
  <2>1. r.pc \in TransferStage
    BY DEF Handler, LockSource, SelectDestination, LockDestination, DisposeDestination,
       DisposeSource, TransferStage
  <2> QED  BY <2>1, AtTransfer DEF TransfersInv, RequestsInv, StateInv
<1>a. ASSUME Answer(c), Works(c, NoWork)
      PROVE  MayWork(c, locks', s, v) /\ StageInv(c, {"DELETE", "MOVE"})'
  <2>1. s.pc = "idle" /\ s.pc \notin TransferStage /\ v = NoWork
    BY <1>1, <1>a, AnswerIs, IdleIsTask DEF Works, TransferStage
  <2> HIDE DEF s, v
  <2> QED  BY <2>1, RestMayWork, StageElsewhere DEF s
\* On to another stage of the transfer, in the same direction.
<1>b. ASSUME NEW pc \in TransferStage, NEW lock, Onward(c, pc, lock),
             v.destination = w.destination, v.depth = w.depth, v.listing = w.listing,
             pc = "start" => GoesBy(locks', r.submitted, lock, DestinationLock(c, r, w)),
             pc # "engine",
             r.method = "MOVE" /\ pc \in AfterSource =>
               GoesBy(locks', r.submitted, v.sourceLock, SourceLock(c, r))
      PROVE  MayWork(c, locks', s, v) /\ StageInv(c, {"DELETE", "MOVE"})'
  <2>1. /\ s.pc = pc /\ s.lock = lock /\ s.method = r.method /\ s.path = r.path
        /\ s.submitted = r.submitted /\ s.found = r.found
    BY <1>b DEF Onward
  <2>2. /\ DestinationLock(c, s, v) = DestinationLock(c, r, w)
        /\ SourceLock(c, s) = SourceLock(c, r)
    BY <1>b, <2>1 DEF DestinationLock, SourceLock
  <2>3. FlatListing(s, v)
    BY <1>b, <2>1 DEF FlatListing, MayWork
  <2> HIDE DEF r, s, w, v
  <2>4. MayWork(c, locks', s, v)
    BY <1>b, <2>1, <2>2, <2>3 DEF MayWork
  <2> QED  BY <1>b, <2>1, <2>4, StageElsewhere DEF s
\* What it goes by on its source is still there.
<1>c. ASSUME Kept, r.pc \in AfterSource, r.method = "MOVE"
      PROVE  GoesBy(locks', r.submitted, w.sourceLock, SourceLock(c, r))
  <2>1. r.submitted \in issued \cup {NoToken}
    BY <1>1 DEF OwnInv
  <2>2. GoesBy(locks, r.submitted, w.sourceLock, SourceLock(c, r))
    BY <1>c DEF MayWork
  <2> HIDE DEF r, w
  <2> QED  BY <1>1, <1>c, <2>1, <2>2, GoesByStays
<1>2. CASE LockSource(c)
  <2> DEFINE lock == SourceLock(c, r)
  <2>1. lock \in ActiveLock /\ lock = Lock(c, task[c].path, TRUE, "shared", TRUE)
    BY <1>1, TransferLockIs DEF SourceLock
  <2> HIDE DEF lock
  <2>2. ASSUME NEW t, Permitted(c, lock, t), GoTo(c, "select destination"),
               Works(c, [work[c] EXCEPT !.sourceLock = t])
        PROVE  MayWork(c, locks', s, v) /\ StageInv(c, {"DELETE", "MOVE"})'
    <3>1. /\ v.sourceLock = t /\ v.destination = w.destination /\ v.depth = w.depth
          /\ v.listing = w.listing
      <4>1. v = [w EXCEPT !.sourceLock = t]
        BY <1>1, <2>2 DEF Works
      <4> HIDE DEF v, w
      <4> QED  BY <1>1, <4>1, SourceLockWith
    <3>2. GoesBy(locks', r.submitted, t, lock)
      BY <1>1, <2>1, <2>2, PermittedGoesBy
    <3>3. Onward(c, "select destination", r.lock) /\ "select destination" \in TransferStage
      BY <1>0, <1>1, <2>2, OnwardIs DEF TransferStage
    <3> HIDE DEF r, s, w, v
    <3> QED  BY <1>b, <3>1, <3>2, <3>3 DEF lock
  <2> QED  BY <1>2, <1>a, <2>1, <2>2 DEF LockSource
<1>3. CASE SelectDestination(c)
  <2>1. PICK pc \in {"dispose source", "lock destination"} :
          /\ GoTo(c, pc)
          /\ Works(c, [work[c] EXCEPT !.found = Select(entries, work[c].destination)])
          /\ UNCHANGED <<locks, issued>>
    BY <1>3 DEF SelectDestination
  <2>2. /\ v.sourceLock = w.sourceLock /\ v.destination = w.destination /\ v.depth = w.depth
        /\ v.listing = w.listing
    <3> DEFINE x == Select(entries, work[c].destination)
    <3>1. v = WithFound(w, x) /\ IsWork(w)
      BY <1>1, <2>1 DEF Works, WithFound
    <3> HIDE DEF v, w, x
    <3> QED  BY <3>1, WithFoundIs
  <2>3. Onward(c, pc, r.lock) /\ pc \in TransferStage
    BY <1>0, <1>1, <2>1, OnwardIs DEF TransferStage
  <2>4. Kept /\ r.pc \in AfterSource
    BY <1>1, <1>3, <2>1, SameLocks DEF SelectDestination, AfterSource
  <2>5. pc \notin {"start", "engine"}
    OBVIOUS
  <2> HIDE DEF r, s, w, v
  <2> QED  BY <1>b, <1>c, <2>2, <2>3, <2>4, <2>5 DEF s, v
<1>4. CASE LockDestination(c)
  <2> DEFINE lock == DestinationLock(c, r, w)
             recursive == Moves(c) \/ work[c].depth # 0
  <2>1. lock \in ActiveLock /\ lock = Lock(c, work[c].destination, recursive, "shared", TRUE)
    <3>1. recursive \in BOOLEAN
      OBVIOUS
    <3>2. lock = Lock(c, work[c].destination, recursive, "shared", TRUE)
      BY DEF DestinationLock, Moves
    <3> HIDE DEF recursive, lock
    <3> QED  BY <1>1, <3>1, <3>2, TransferLockIs
  <2>2. /\ UNCHANGED work
        /\ \/ \E t \in Token \cup {NoToken} :
                /\ Permitted(c, lock, t)
                /\ task' = [task EXCEPT ![c].pc = "start", ![c].lock = t]
           \/ Denied(c, lock) /\ GoTo(c, "dispose source")
    BY <1>4, <2>1 DEF LockDestination
  <2>3. r.pc \in AfterSource
    BY <1>4 DEF LockDestination, AfterSource
  <2> HIDE DEF lock
  <2>4. ASSUME NEW t \in Tokens, Permitted(c, lock, t),
               task' = [task EXCEPT ![c].pc = "start", ![c].lock = t]
        PROVE  MayWork(c, locks', s, v) /\ StageInv(c, {"DELETE", "MOVE"})'
    <3>1. Onward(c, "start", t) /\ "start" \in TransferStage
      BY <1>0, <1>1, <2>4, OnwardIs DEF TransferStage
    <3>2. GoesBy(locks', r.submitted, t, lock) /\ Kept
      BY <1>1, <2>1, <2>4, PermittedGoesBy, PermittedIs
    <3>3. v = w
      BY <2>2
    <3> HIDE DEF r, s, w, v
    <3> QED  BY <1>b, <1>c, <2>3, <3>1, <3>2, <3>3 DEF lock
  <2>5. ASSUME GoTo(c, "dispose source")
        PROVE  MayWork(c, locks', s, v) /\ StageInv(c, {"DELETE", "MOVE"})'
    <3>1. Onward(c, "dispose source", r.lock) /\ "dispose source" \in TransferStage
      BY <1>0, <1>1, <2>5, OnwardIs DEF TransferStage
    <3>2. v = w
      BY <2>2
    <3> HIDE DEF r, s, w, v
    <3> QED  BY <1>0, <1>b, <3>1, <3>2
  <2> QED  BY <2>2, <2>4, <2>5 DEF Tokens
<1>5. CASE DisposeDestination(c)
  <2>1. task' = [task EXCEPT ![c].pc = "dispose source", ![c].lock = NoToken] /\ v = w
    BY <1>5 DEF DisposeDestination
  <2>2. Onward(c, "dispose source", NoToken) /\ "dispose source" \in TransferStage
    BY <1>0, <1>1, <2>1, OnwardIs DEF TransferStage
  <2>3. v = w
    BY <2>1
  <2> HIDE DEF r, s, w, v
  <2> QED  BY <1>0, <1>b, <2>2, <2>3 DEF s, v
<1>6. CASE DisposeSource(c)
  <2>1. Works(c, NoWork) /\ (Answer(c) \/ (GoTo(c, "affected") /\ Moves(c)))
    BY <1>6 DEF DisposeSource
  <2>2. CASE GoTo(c, "affected") /\ Moves(c)
    <3>1. Onward(c, "affected", r.lock) /\ v = NoWork
      BY <1>0, <1>1, <2>1, <2>2, OnwardIs DEF Works
    <3>2. s.pc = "affected" /\ s.method = "MOVE"
      BY <2>2, <3>1 DEF Onward, Moves
    <3>3. s.pc \notin TransferStage
      BY <3>2 DEF TransferStage
    <3>4. StageInv(c, {"DELETE", "MOVE"})'
      BY <3>2 DEF StageInv
    <3>5. v = NoWork
      BY <3>1
    <3> HIDE DEF s, v
    <3>6. MayWork(c, locks', s, v)
      BY <3>3, <3>5, RestMayWork
    <3> QED  BY <3>4, <3>6 DEF s, v
  <2> QED  BY <1>a, <2>1, <2>2
<1> QED  BY <1>2, <1>3, <1>4, <1>5, <1>6 DEF Handler

LEMMA TransferSentMayWork ==
  ASSUME TransfersInv, NEW c \in Client, TransferSent(c),
         MayWork(c, locks, task[c], work[c]), StageInv(c, {"DELETE", "MOVE"})
  PROVE  MayWork(c, locks', task'[c], work'[c]) /\ StageInv(c, {"DELETE", "MOVE"})'
<1>1. ASSUME NEW method, NEW pair, NEW depth, NEW overwrite, NEW inside, NEW submitted,
             NEW resource,
             TransferRequest(c, method, pair, depth, overwrite, inside, submitted, resource)
      PROVE  MayWork(c, locks', task'[c], work'[c]) /\ StageInv(c, {"DELETE", "MOVE"})'
  <2> DEFINE found == Select(entries, pair[1])
             before == [p \in Path |-> View(entries, props, p)]
             pc == IF method = "MOVE" THEN "lock source" ELSE "select destination"
             begun == TransferTask(pc, method, pair[1], found, submitted, resource)
             w == TransferWork(pair[2], depth, overwrite, inside, before)
  <2>1. /\ UNCHANGED locks
        /\ IF IsMissing(found) THEN UNCHANGED <<task, work>>
           ELSE task' = [task EXCEPT ![c] = begun] /\ Works(c, w)
    BY <1>1 DEF TransferRequest, TransferTask, TransferWork
  <2>2. /\ task \in [Client -> Task] /\ DOMAIN work = Client
    BY DEF TransfersInv, RequestsInv, StateInv
  <2>3. CASE IsMissing(found)
    BY <2>1, <2>3 DEF StageInv
  <2>4. CASE ~ IsMissing(found)
    <3>1. begun.pc = pc /\ begun.method = method
      <4> HIDE DEF pc, found
      <4> QED  BY TransferTaskIs
    <3>2. w.listing = <<>>
      <4> HIDE DEF before
      <4> QED  BY TransferWorkIs
    <3>3. pc = "lock source" \/ (pc = "select destination" /\ method # "MOVE")
      OBVIOUS
    <3> HIDE DEF begun, w, pc
    <3>4. task'[c] = begun /\ work'[c] = w
      BY <2>1, <2>2, <2>4 DEF Works
    <3>5. FlatListing(begun, w)
      BY <3>2 DEF FlatListing
    <3>6. begun.pc \in TransferStage
      BY <3>1, <3>3 DEF TransferStage
    <3>7. MayWork(c, locks', begun, w)
      BY <3>1, <3>3, <3>5 DEF MayWork, AfterSource
    <3> QED  BY <3>4, <3>6, <3>7, StageElsewhere
  <2> QED  BY <2>3, <2>4
<1> QED  BY <1>1, Zenon DEF TransferSent

\* The other clients' transfers go on as they may.
LEMMA OthersMayWork ==
  ASSUME TransfersInv, MayWorkInv, NEW d \in Client, task'[d] = task[d],
         work'[d] = work[d], Kept
  PROVE  MayWork(d, locks', task'[d], work'[d]) /\ StageInv(d, {"DELETE", "MOVE"})'
<1>1. /\ StateInv /\ OwnInv(d) /\ work[d].sourceLock \in issued \cup {NoToken}
      /\ MayWork(d, locks, task[d], work[d]) /\ StageInv(d, {"DELETE", "MOVE"})
  BY DEF TransfersInv, RequestsInv, WorkInv, MayWorkInv
<1>2. MayWork(d, locks', task[d], work[d])
  BY <1>1, MayWorkStays
<1> QED  BY <1>1, <1>2 DEF StageInv

\* One client's step, with what it may do after it.
LEMMA OneMayWork ==
  ASSUME TransfersInv, MayWorkInv, NEW c \in Client,
         MayWork(c, locks', task'[c], work'[c]), StageInv(c, {"DELETE", "MOVE"})',
         Kept, \A d \in Client \ {c} : task'[d] = task[d] /\ work'[d] = work[d]
  PROVE  MayWorkInv'
<1>1. ASSUME NEW d \in Client
      PROVE  MayWork(d, locks', task'[d], work'[d]) /\ StageInv(d, {"DELETE", "MOVE"})'
  BY OthersMayWork
<1> QED  BY <1>1 DEF MayWorkInv

\* A step of the other requests.
LEMMA RequestsMayWork ==
  ASSUME TransfersInv, MayWorkInv, Next, UNCHANGED work
  PROVE  MayWorkInv'
<1>1. RequestsInv
  BY DEF TransfersInv
<1>2. PICK c \in Client : Progress(c)
  BY <1>1, NextIsProgress
<1>3. Kept /\ \A d \in Client \ {c} : task'[d] = task[d]
  BY <1>2 DEF Progress
<1>4. CASE task'[c] = task[c]
  BY <1>3, <1>4, OneMayWork, OthersMayWork
<1>5. CASE task'[c] # task[c]
  <2>1. task[c].pc \notin TransferStage /\ task'[c].pc \notin TransferStage
    BY <1>1, <1>5, NextIsOrdinary DEF Ordinary
  <2>2. work'[c] = NoWork
    BY <2>1 DEF TransfersInv, WorkInv
  <2>3. MayWork(c, locks', task'[c], work'[c])
    BY <2>1, <2>2, RestMayWork
  <2>4. Sent(c) \/ Step(c) \/ HangUp(c)
    <3>1. By(c) /\ [Next]_vars
      BY <1>5 DEF By
    <3> QED  BY <1>1, <3>1, ByIs
  <2>5. StageInv(c, {"DELETE", "MOVE"})'
    <3>1. StageInv(c, {"DELETE", "MOVE"})
      BY DEF MayWorkInv
    <3> QED  BY <1>1, <2>4, <3>1, StageKeeps
  <2> QED  BY <1>3, <2>3, <2>5, OneMayWork
<1> QED  BY <1>4, <1>5

LEMMA MayWorkHolds == TransferSpec => []MayWorkInv
<1>1. ASSUME TransferInit  PROVE MayWorkInv
  <2> SUFFICES ASSUME NEW c \in Client
               PROVE  MayWork(c, locks, task[c], work[c]) /\ StageInv(c, {"DELETE", "MOVE"})
    BY DEF MayWorkInv
  <2>1. task[c] = Idle /\ work[c] = NoWork
    BY <1>1 DEF TransferInit, Init
  <2>2. task[c].pc = "idle"
    BY <2>1, IdleIsTask
  <2>3. task[c].pc \notin TransferStage /\ StageInv(c, {"DELETE", "MOVE"})
    BY <2>2 DEF TransferStage, StageInv
  <2> QED  BY <2>1, <2>3, RestMayWork
<1>2. ASSUME TransfersInv, TransfersInv', MayWorkInv, [TransferNext]_transferVars
      PROVE  MayWorkInv'
  <2>0. RequestsInv /\ StateInv
    BY <1>2 DEF TransfersInv, RequestsInv
  <2>1. CASE Next /\ UNCHANGED work
    BY <1>2, <2>1, RequestsMayWork
  <2>2. ASSUME NEW c \in Client, TransferSent(c), UNCHANGED lost  PROVE MayWorkInv'
    <3>1. TransferProgress(c)
      BY <1>2, <2>2, TransferSentKeeps
    <3>2. MayWork(c, locks', task'[c], work'[c]) /\ StageInv(c, {"DELETE", "MOVE"})'
      BY <1>2, <2>2, TransferSentMayWork DEF MayWorkInv
    <3> QED  BY <1>2, <3>1, <3>2, OneMayWork DEF TransferProgress, Progress
  <2>3. ASSUME NEW c \in Client, Engine(c)  PROVE MayWorkInv'
    <3>1. EngineStep(c)
      BY <1>2, <2>3, EngineIs
    <3>2. task[c].pc \in {"start", "engine"}
      BY <2>3 DEF Engine, StartOnRoot, StartDocument, StartCollection, Starts, EngineDocument,
         EngineCollection, EngineFinish, AtWork
    <3>3. MayWork(c, locks', task'[c], work'[c]) /\ StageInv(c, {"DELETE", "MOVE"})'
      BY <1>2, <3>1, <3>2, EngineMayWork DEF MayWorkInv
    <3>4. Kept /\ \A d \in Client \ {c} : task'[d] = task[d] /\ work'[d] = work[d]
      BY <2>0, <3>1, SameLocks DEF EngineStep, Onward
    <3> QED  BY <1>2, <3>3, <3>4, OneMayWork
  <2>4. ASSUME NEW c \in Client, Handler(c), UNCHANGED <<known, left, lost>>
        PROVE  MayWorkInv'
    <3>1. TransferProgress(c)
      BY <1>2, <2>4, TransferProgresses
    <3>2. MayWork(c, locks', task'[c], work'[c]) /\ StageInv(c, {"DELETE", "MOVE"})'
      BY <1>2, <2>4, HandlerMayWork DEF MayWorkInv
    <3> QED  BY <1>2, <3>1, <3>2, OneMayWork DEF TransferProgress, Progress
  <2>5. CASE UNCHANGED transferVars
    BY <1>2, <2>5 DEF transferVars, vars, MayWorkInv, StageInv
  <2> QED  BY <1>2, <2>1, <2>2, <2>3, <2>4, <2>5 DEF TransferNext
<1> QED  BY <1>1, <1>2, TransfersInvHolds, PTL DEF TransferSpec

-----------------------------------------------------------------------------
(* Where what the target actions do is seen.                                *)

\* What is taken away has one name, and there is at most one of it.
LEMMA MembersLeft ==
  ASSUME NEW es, FileSystemInv(es), NEW a, NEW d \in DOMAIN es, NEW fs, fs = Remove(es, a, d),
         NEW k \in DOMAIN es
  PROVE  /\ \A q : q # a => Members(fs, k, q) = Members(es, k, q)
         /\ Members(fs, k, a) \subseteq Members(es, k, a)
<1>1. Evolves(es, fs) /\ Shrunk(es, fs, a, d)
  BY RemoveKeeps
<1>2. /\ es[k].members \subseteq DOMAIN es
      /\ fs[k].members = IF k = d THEN es[k].members \ Members(es, d, a) ELSE es[k].members
  BY <1>1 DEF FileSystemInv, Shrunk
<1>3. \A m \in es[k].members : fs[m].path = es[m].path
  BY <1>1, <1>2 DEF Evolves
<1> QED  BY <1>2, <1>3 DEF Members

\* Whatever has the name is taken away: only below a collection that has it
\* something is missed.
LEMMA RemoveElsewhere ==
  ASSUME NEW es, FileSystemInv(es), NEW a \in Path, NEW d \in DOMAIN es,
         NEW fs, fs = Remove(es, a, d),
         NEW ps, NEW qs, NEW p \in Path, p # a, qs[p] = ps[p],
         <<a, p>> \in Ancestor => a # Root /\ Select(es, a).result # "FoundCollection"
  PROVE  LooksAlike(es, ps, fs, qs, p)
<1>1. FileSystemInv(fs) /\ Evolves(es, fs) /\ Shrunk(es, fs, a, d)
  BY RemoveKeeps
<1>2. \A q \in Path \ {Root, a} : SameAt(es, fs, q)
  <2>1. ASSUME NEW q \in Path \ {Root, a}, NEW k, k \in DOMAIN es
        PROVE  Members(fs, k, q) = Members(es, k, q)
    BY <2>1, MembersLeft
  <2> QED  BY <2>1, AboveIsAncestor, FoundIs DEF SameAt
<1>3. ASSUME <<a, p>> \in Ancestor  PROVE Bare(es, a) /\ Bare(fs, a)
  <2> DEFINE up == Select(es, Above[a])
  <2>1. a # Root /\ Select(es, a).result # "FoundCollection"
    BY <1>3
  <2>2. Above[a] \in Path /\ \A q \in UpTo(Above[a]) \ {Root} : SameAt(es, fs, q)
    <3>1. Above[a] \in Path /\ <<Above[a], a>> \in Ancestor
      BY <2>1, AboveIsAncestor
    <3>2. a \notin UpTo(Above[a])
      BY <3>1, AncestorIsForest DEF UpTo
    <3> QED  BY <1>2, <3>1, <3>2 DEF UpTo
  <2>3. /\ Select(es, a) = OneDown(es, up, a) /\ Select(fs, a) = OneDown(fs, up, a)
        /\ up \in Selection
    <3>1. Select(fs, Above[a]) = up
      BY <1>1, <2>2, SelectElsewhere
    <3>2. up \in Selection
      BY <2>2, SelectFits DEF Fits
    <3> QED  BY <2>1, <3>1, <3>2, SelectDown
  <2>4. up.result = "FoundCollection" => up.entry \in DOMAIN es
    BY <2>2, FoundIs
  <2> HIDE DEF up
  <2>5. CASE up.result # "FoundCollection"
    BY <2>1, <2>3, <2>5 DEF OneDown, Bare
  <2>6. CASE up.result = "FoundCollection" /\ Members(fs, up.entry, a) = {}
    <3>1. Select(fs, a).result = "MissingDocumentOrCollection"
      BY <2>3, <2>6 DEF OneDown, Selection
    <3> QED  BY <2>1, <3>1 DEF Bare
  <2>7. CASE up.result = "FoundCollection" /\ Members(fs, up.entry, a) # {}
    <3>1. Members(fs, up.entry, a) \subseteq Members(es, up.entry, a)
      BY <2>4, <2>7, MembersLeft
    <3>2. \A m, n \in Members(es, up.entry, a) : m = n /\ m \in DOMAIN es
      BY <2>4, <2>7 DEF Members, FileSystemInv, IsFileSystem
    <3>3. Members(fs, up.entry, a) = Members(es, up.entry, a)
      BY <2>7, <3>1, <3>2
    <3> DEFINE m == CHOOSE n \in Members(es, up.entry, a) : TRUE
    <3>4. Select(es, a) = Found(es, m) /\ Select(fs, a) = Found(fs, m)
      BY <2>3, <2>7, <3>3 DEF OneDown
    <3>5. m \in DOMAIN es
      BY <2>7, <3>2, <3>3
    <3> HIDE DEF m
    <3>6. Select(fs, a).result = Select(es, a).result
      BY <1>1, <3>4, <3>5 DEF Found, Evolves
    <3> QED  BY <2>1, <3>6 DEF Bare
  <2> QED  BY <2>5, <2>6, <2>7
<1>4. \A m \in DOMAIN es : es[m].path # a => fs[m].data = es[m].data
  BY <1>1 DEF Shrunk
<1> QED  BY <1>1, <1>2, <1>3, <1>4, ViewElsewhere

\* At p the file systems fs and gs show the same.
SeenAlike(fs, gs, p) == LooksAlike(fs.entries, fs.props, gs.entries, gs.props, p)

\* p is not a, nor below a collection that is there.
Clear(es, a, p) == p # a /\ (<<a, p>> \in Ancestor => Select(es, a).result # "FoundCollection")

LEMMA TakeAwayElsewhere ==
  ASSUME NEW fs, Sound(fs), NEW e \in DOMAIN fs.entries, e # 1,
         NEW p \in Path, ~ Within(fs.entries[e].path, p)
  PROVE  SeenAlike(fs, TakeAway(fs, e), p)
<1> DEFINE a  == fs.entries[e].path
           d  == fs.entries[e].parent
           es == Remove(fs.entries, a, d)
           ps == [fs.props EXCEPT ![a] = "none"]
<1>1. /\ d \in DOMAIN fs.entries /\ a \in Path /\ FileSystemInv(fs.entries)
      /\ DOMAIN fs.props = Path /\ p # a /\ <<a, p>> \notin Ancestor
  BY EntryIs DEF Sound, Within
<1>2. CASE Members(fs.entries, d, a) = {}
  BY <1>2 DEF TakeAway, SeenAlike, LooksAlike
<1>3. CASE Members(fs.entries, d, a) # {}
  <2>1. TakeAway(fs, e) = [entries |-> es, props |-> ps]
    BY <1>3 DEF TakeAway
  <2>2. ps[p] = fs.props[p] /\ es = Remove(fs.entries, a, d)
    BY <1>1
  <2> HIDE DEF es, ps, a, d
  <2>3. LooksAlike(fs.entries, fs.props, es, ps, p)
    BY <1>1, <2>2, RemoveElsewhere
  <2> QED  BY <2>1, <2>3 DEF SeenAlike, LooksAlike
<1> QED  BY <1>2, <1>3

LEMMA SetPropertiesElsewhere ==
  ASSUME NEW fs, Sound(fs), NEW a, NEW properties, NEW p \in Path, p # a
  PROVE  SeenAlike(fs, SetProperties(fs, a, properties), p)
<1> DEFINE ps == [fs.props EXCEPT ![a] = properties]
<1>1. CASE properties = "none"
  BY <1>1 DEF SetProperties, SeenAlike, LooksAlike
<1>2. CASE properties # "none"
  <2>1. fs = [entries |-> fs.entries, props |-> fs.props] /\ ps[p] = fs.props[p]
    BY DEF Sound
  <2>2. SetProperties(fs, a, properties) = [entries |-> fs.entries, props |-> ps]
    BY <1>2, <2>1 DEF SetProperties
  <2> HIDE DEF ps
  <2> QED  BY <2>1, <2>2 DEF SeenAlike, LooksAlike, View
<1> QED  BY <1>1, <1>2

LEMMA CreateElsewhere ==
  ASSUME NEW es, FileSystemInv(es), NEW kind \in {"collection", "document"},
         NEW a, NEW d, IsPlace(es, a, d), CanCreate(es, a, d), NEW data \in Data,
         NEW fs, fs = Create(es, kind, a, d, data),
         NEW ps, NEW qs, NEW p \in Path, p # a, qs[p] = ps[p]
  PROVE  LooksAlike(es, ps, fs, qs, p)
<1>1. a \in Path \ {Root} /\ d \in DOMAIN es /\ es[d].kind = "collection" /\ es[d].path = Above[a]
  BY DEF IsPlace, IsEntry
<1> QED  BY <1>1, CreateViews

LEMMA CopyToElsewhere ==
  ASSUME NEW fs, Sound(fs), NEW e \in DOMAIN fs.entries, NEW a, NEW d,
         IsPlace(fs.entries, a, d), NEW p \in Path, Clear(fs.entries, a, p)
  PROVE  SeenAlike(fs, CopyTo(fs, e, a, d).fs, p)
<1> DEFINE es == Remove(fs.entries, a, d)
           data == fs.entries[e].data
           gs == Create(es, "document", a, d, data)
           ps == [fs.props EXCEPT ![a] = fs.props[fs.entries[e].path]]
<1>1. /\ FileSystemInv(fs.entries) /\ d \in DOMAIN fs.entries /\ data \in Data
      /\ a \in Path /\ a # Root /\ p # a
      /\ <<a, p>> \in Ancestor => Select(fs.entries, a).result # "FoundCollection"
      /\ ps[p] = fs.props[p]
  BY EntryIs DEF Sound, IsPlace, IsEntry, Clear
<1>2. FileSystemInv(es) /\ Evolves(fs.entries, es) /\ CanCreate(es, a, d)
  BY <1>1, RemoveKeeps, RemoveFrees
<1>3. IsPlace(es, a, d)
  BY <1>2, PlaceStays
<1>4. CopyTo(fs, e, a, d).fs = [entries |-> gs, props |-> ps]
  BY DEF CopyTo, Outcome
<1>5. es = Remove(fs.entries, a, d) /\ gs = Create(es, "document", a, d, data)
  OBVIOUS
<1> HIDE DEF es, gs, ps, data
<1>6. LooksAlike(fs.entries, fs.props, es, ps, p)
  BY <1>1, <1>5, RemoveElsewhere
<1>7. LooksAlike(es, ps, gs, ps, p)
  BY <1>1, <1>2, <1>3, <1>5, CreateElsewhere
<1> QED  BY <1>4, <1>6, <1>7 DEF SeenAlike, LooksAlike

LEMMA MoveToElsewhere ==
  ASSUME NEW fs, Sound(fs), NEW e \in DOMAIN fs.entries, e # 1, NEW a, NEW d,
         IsPlace(fs.entries, a, d), NEW p \in Path, p # a, ~ Within(fs.entries[e].path, p)
  PROVE  SeenAlike(fs, MoveTo(fs, e, a, d).fs, p)
<1> DEFINE from == fs.entries[e].path
           up == fs.entries[e].parent
           data == fs.entries[e].data
           es == Create(fs.entries, "document", a, d, data)
           gs == Remove(es, from, up)
           ps == [fs.props EXCEPT ![a] = fs.props[from]]
<1>1. /\ FileSystemInv(fs.entries) /\ data \in Data /\ up \in DOMAIN fs.entries
      /\ from \in Path /\ p # from /\ <<from, p>> \notin Ancestor
      /\ ps[p] = fs.props[p] /\ fs = [entries |-> fs.entries, props |-> fs.props]
  BY EntryIs DEF Sound, Within
<1>2. CASE ~ CanCreate(fs.entries, a, d)
  BY <1>2 DEF MoveTo, Outcome, SeenAlike, LooksAlike
<1>3. CASE CanCreate(fs.entries, a, d)
  <2>1. FileSystemInv(es) /\ Evolves(fs.entries, es)
    BY <1>1, <1>3, CreateLeads
  <2>2. up \in DOMAIN es
    BY <1>1, <2>1 DEF Evolves
  <2>3. es = Create(fs.entries, "document", a, d, data) /\ gs = Remove(es, from, up)
    OBVIOUS
  <2>4. \/ MoveTo(fs, e, a, d).fs = [fs EXCEPT !.entries = es]
        \/ MoveTo(fs, e, a, d).fs = [entries |-> gs, props |-> ps]
    BY <1>3 DEF MoveTo, Outcome
  <2> HIDE DEF es, gs, ps, data, up, from
  <2>5. /\ LooksAlike(fs.entries, fs.props, es, fs.props, p)
        /\ LooksAlike(fs.entries, fs.props, es, ps, p)
    BY <1>1, <1>3, <2>3, CreateElsewhere
  <2>6. LooksAlike(es, ps, gs, ps, p)
    BY <1>1, <2>1, <2>2, <2>3, RemoveElsewhere
  <2>7. CASE MoveTo(fs, e, a, d).fs = [fs EXCEPT !.entries = es]
    <3>1. MoveTo(fs, e, a, d).fs = [entries |-> es, props |-> fs.props]
      BY <1>1, <2>7
    <3> QED  BY <2>5, <3>1 DEF SeenAlike, LooksAlike
  <2>8. CASE MoveTo(fs, e, a, d).fs = [entries |-> gs, props |-> ps]
    BY <2>5, <2>6, <2>8 DEF SeenAlike, LooksAlike
  <2> QED  BY <2>4, <2>7, <2>8
<1> QED  BY <1>2, <1>3

LEMMA StreamElsewhere ==
  ASSUME NEW fs, Sound(fs), NEW e \in DOMAIN fs.entries, e # 1, NEW a, NEW d,
         IsPlace(fs.entries, a, d), NEW target \in DOMAIN fs.entries \cup {0},
         target # 0 => fs.entries[target].path = a, NEW moves,
         NEW p \in Path, p # a, moves => ~ Within(fs.entries[e].path, p)
  PROVE  SeenAlike(fs, Stream(fs, e, a, d, target, moves).fs, p)
<1> DEFINE data == fs.entries[e].data
           es   == IF target = 0 THEN Create(fs.entries, "document", a, d, data)
                   ELSE [fs.entries EXCEPT ![target].data = data]
           done == [fs EXCEPT !.entries = es]
<1>1. /\ FileSystemInv(fs.entries) /\ data \in Data /\ DOMAIN fs.props = Path
      /\ fs = [entries |-> fs.entries, props |-> fs.props]
  BY EntryIs DEF Sound
<1>2. CASE target = 0 /\ ~ CanCreate(fs.entries, a, d)
  BY <1>2 DEF Stream, Outcome, SeenAlike, LooksAlike
<1>3. CASE ~ (target = 0 /\ ~ CanCreate(fs.entries, a, d))
  <2>1. /\ FileSystemInv(es) /\ Evolves(fs.entries, es)
        /\ LooksAlike(fs.entries, fs.props, es, fs.props, p)
    <3>1. CASE target = 0
      <4>1. es = Create(fs.entries, "document", a, d, data)
        BY <3>1
      <4> HIDE DEF es, data
      <4> QED  BY <1>1, <1>3, <3>1, <4>1, CreateLeads, CreateElsewhere
    <3>2. CASE target # 0
      <4>1. es = [fs.entries EXCEPT ![target].data = data]
            /\ target \in DOMAIN fs.entries /\ p # fs.entries[target].path
        BY <3>2
      <4> HIDE DEF es, data
      <4>2. FileSystemInv(es) /\ Evolves(fs.entries, es) /\ Stored(fs.entries, es, target)
        BY <1>1, <4>1, PutKeeps
      <4> QED  BY <1>1, <4>1, <4>2, PutViews
    <3> QED  BY <3>1, <3>2
  <2>2. Stream(fs, e, a, d, target, moves).fs = IF moves THEN TakeAway(done, e) ELSE done
    BY <1>3 DEF Stream, Outcome
  <2> HIDE DEF es
  <2>3. done = [entries |-> es, props |-> fs.props]
    BY <1>1
  <2> HIDE DEF done
  <2>4. Leads(fs, done) /\ SeenAlike(fs, done, p)
    BY <1>1, <2>1, <2>3 DEF Leads, Sound, SeenAlike, LooksAlike
  <2>5. e \in DOMAIN done.entries /\ done.entries[e].path = fs.entries[e].path
    BY <2>4 DEF Leads, Evolves
  <2>6. moves => SeenAlike(done, TakeAway(done, e), p)
    BY <2>4, <2>5, TakeAwayElsewhere DEF Leads
  <2> QED  BY <2>2, <2>4, <2>6 DEF SeenAlike, LooksAlike
<1> QED  BY <1>2, <1>3

\* A document that is copied to a is seen nowhere else, when no collection is
\* in its way; one that is moved is missed where it was as well.
LEMMA ExecuteElsewhere ==
  ASSUME Sound(Now), NEW c \in Client, NEW e \in DOMAIN entries, e # 1, NEW a, NEW d,
         IsPlace(entries, a, d), NEW target \in DOMAIN entries \cup {0},
         target # 0 => entries[target].path = a,
         NEW p \in Path, Clear(entries, a, p),
         Moves(c) => ~ Within(entries[e].path, p)
  PROVE  SeenAlike(Now, Execute(c, e, a, d, target).fs, p)
<1> DEFINE outcome == IF ~ work[c].inside THEN Stream(Now, e, a, d, target, Moves(c))
                      ELSE IF Moves(c) THEN MoveTo(Now, e, a, d)
                      ELSE CopyTo(Now, e, a, d)
           properties == ReadOf(outcome.fs, entries[e].path,
                                Collected(props[entries[e].path]))
<1>1. Now.entries = entries /\ p # a
  BY DEF Now, Clear
<1>2. Leads(Now, outcome.fs)
  BY <1>1, StreamLeads, MoveToLeads, CopyToLeads
<1>3. SeenAlike(Now, outcome.fs, p)
  <2>1. CASE ~ work[c].inside
    <3>1. SeenAlike(Now, Stream(Now, e, a, d, target, Moves(c)).fs, p)
      BY <1>1, StreamElsewhere
    <3> QED  BY <2>1, <3>1
  <2>2. CASE work[c].inside /\ Moves(c)
    <3>1. SeenAlike(Now, MoveTo(Now, e, a, d).fs, p)
      BY <1>1, <2>2, MoveToElsewhere
    <3> QED  BY <2>2, <3>1
  <2>3. CASE work[c].inside /\ ~ Moves(c)
    <3>1. SeenAlike(Now, CopyTo(Now, e, a, d).fs, p)
      BY <1>1, CopyToElsewhere
    <3> QED  BY <2>3, <3>1
  <2> QED  BY <2>1, <2>2, <2>3
<1>4. Execute(c, e, a, d, target).fs \in {Now, SetProperties(outcome.fs, a, properties), outcome.fs}
  BY DEF Execute
<1> HIDE DEF outcome, properties
<1>5. SeenAlike(outcome.fs, SetProperties(outcome.fs, a, properties), p)
  BY <1>1, <1>2, SetPropertiesElsewhere DEF Leads
<1> QED  BY <1>3, <1>4, <1>5 DEF SeenAlike, LooksAlike

LEMMA WithinTwice ==
  ASSUME NEW p \in Path, NEW q \in Path, NEW r \in Path, Within(p, q), Within(q, r)
  PROVE  Within(p, r)
BY AncestorIsForest DEF Within

\* Everything that goes with a collection goes below its destination.
LEMMA MovedWithin ==
  ASSUME NEW from \in Path, NEW to \in Path,
         \A q \in Path : Within(from, q) => Moved(q, from, to) \in Path,
         NEW q \in Path, Within(from, q)
  PROVE  Within(to, Moved(q, from, to))
<1> DEFINE bad == {r \in Path : /\ Within(from, r)
                                /\ ~ (Within(to, Moved(r, from, to)) /\ Len(from) <= Len(r))}
<1> SUFFICES ASSUME bad # {}  PROVE FALSE
  OBVIOUS
<1>1. PICK r \in bad : \A s \in bad : <<s, r>> \notin Ancestor
  BY Topmost
<1>2. r \in Path /\ Within(from, r)
  BY <1>1
<1>3. r # from
  <2>1. Within(to, Moved(from, from, to)) /\ Len(from) <= Len(from)
    <3>1. Len(from) \in Nat
      BY PathIsSequence
    <3> QED  BY <3>1, MovedTop DEF Within
  <2> QED  BY <1>1, <2>1
<1> DEFINE up == Above[r]
           a == Moved(up, from, to)
           b == Moved(r, from, to)
<1>4. r # Root /\ Within(from, up) /\ up \in Path /\ <<up, r>> \in Ancestor
  <2>1. r # Root
    BY <1>2, <1>3, RequestsAssumption DEF Within
  <2> QED  BY <1>2, <1>3, <2>1, RequestsAssumption, AboveIsAncestor DEF Within
<1>5. Within(to, a) /\ Len(from) <= Len(up)
  BY <1>1, <1>4
<1>6. Len(from) <= Len(r) /\ b = Append(a, r[Len(r)])
  BY <1>2, <1>4, <1>5, MovedMember
<1>7. a \in Path /\ b \in Path /\ r[Len(r)] \in Names
  BY <1>2, <1>4, AboveIs
<1>8. ~ (Within(to, b) /\ Len(from) <= Len(r))
  BY <1>1
<1> HIDE DEF a, b
<1>9. b # Root /\ Above[b] = a
  BY <1>6, <1>7, AppendIs
<1>10. Within(a, b)
  BY <1>7, <1>9, AboveIsAncestor DEF Within
<1> QED  BY <1>5, <1>6, <1>7, <1>8, <1>10, WithinTwice

\* What the transfer of c leaves alone: what is not below its destination, nor,
\* for a MOVE, below its source; and with Depth 0 what is below the destination
\* as well, as long as that is what it was.
LeavesAlone(c, p) ==
  /\ p \in Path /\ p # work[c].destination
  /\ Moves(c) => ~ Within(task[c].path, p)
  /\ Within(work[c].destination, p) =>
       /\ work[c].depth = 0
       /\ Select(entries, work[c].destination).entry = work[c].found.entry

LEMMA BecomesElsewhere ==
  ASSUME NEW gs, Becomes(gs), NEW p, SeenAlike(Now, gs, p)
  PROVE  ~ Changes(p)
BY DEF Becomes, SeenAlike, LooksAlike, Now, Changes

LEMMA StartDocumentElsewhere ==
  ASSUME TransfersInv, NEW c \in Client, StartDocument(c), NEW p, LeavesAlone(c, p)
  PROVE  ~ Changes(p)
<1> DEFINE e     == task[c].found.entry
           found == work[c].found
           a     == work[c].destination
           done  == IF found.result = "FoundCollection"
                    THEN [fs |-> Now, status |-> "OverwriteFailed"]
                    ELSE Execute(c, e, a, found.collection, found.entry)
<1>1. /\ task[c].pc = "start" /\ entries[e].kind = "document" /\ found.entry # 1
      /\ Becomes(done.fs)
  BY DEF StartDocument, Starts
<1>2. /\ FileSystemInv(entries) /\ Sound(Now) /\ a \in Path /\ e \in DOMAIN entries
      /\ entries[e].path = task[c].path
      /\ Fits(entries, found, a) /\ found.missing \in {0, 1}
  BY <1>1, AtStart
<1>3. e # 1
  BY <1>1, <1>2, EntryIs
<1>4. /\ p \in Path /\ p # a /\ (Moves(c) => ~ Within(entries[e].path, p))
      /\ <<a, p>> \in Ancestor => Select(entries, a).entry = found.entry
  BY <1>2 DEF LeavesAlone, Within
<1>5. CASE found.result = "FoundCollection"
  <2>1. done.fs = Now
    BY <1>5
  <2>2. SeenAlike(Now, Now, p)
    BY DEF SeenAlike, LooksAlike
  <2> QED  BY <1>1, <2>1, <2>2, BecomesElsewhere
<1>6. CASE found.result # "FoundCollection"
  <2>0. done = Execute(c, e, a, found.collection, found.entry)
    BY <1>6
  <2> HIDE DEF found, e, a, done
  <2>1. /\ IsPlace(entries, a, found.collection) /\ found.entry \in DOMAIN entries \cup {0}
        /\ found.entry # 0 => entries[found.entry].path = a
    <3>1. CASE found.missing = 1
      BY <1>2, <3>1 DEF Fits, IsPlace, IsEntry
    <3>2. CASE found.missing = 0
      <4>1. /\ found.entry \in DOMAIN entries /\ entries[found.entry].path = a
            /\ entries[found.entry].kind = "collection" => found.result = "FoundCollection"
            /\ entries[found.entry].kind = "document" =>
                 found.collection = entries[found.entry].parent
        BY <1>2, <3>2 DEF Fits
      <4>2. /\ entries[found.entry].kind = "document" /\ found.entry # 1
            /\ entries[found.entry].parent \in DOMAIN entries /\ a # Root
            /\ entries[entries[found.entry].parent].kind = "collection"
            /\ entries[entries[found.entry].parent].path = Above[a]
        BY <1>2, <1>6, <4>1, EntryIs
      <4> QED  BY <1>2, <4>1, <4>2 DEF IsPlace, IsEntry
    <3> QED  BY <1>2, <3>1, <3>2
  <2>2. ASSUME <<a, p>> \in Ancestor  PROVE Select(entries, a).result # "FoundCollection"
    <3> DEFINE now == Select(entries, a)
    <3>1. Fits(entries, now, a) /\ now.entry = found.entry
      BY <1>2, <1>4, <2>2, SelectFits
    <3> HIDE DEF now
    <3> SUFFICES ASSUME now.result = "FoundCollection"  PROVE FALSE
      BY DEF now
    <3>2. now.missing = 0
      BY <3>1 DEF Fits
    <3>3. now.entry \in DOMAIN entries /\ entries[now.entry].kind # "document"
      BY <3>1, <3>2 DEF Fits
    <3>4. entries[now.entry].kind = "collection" /\ now.entry # 0
      BY <1>2, <3>3, EntryIs DEF FileSystemInv
    <3> QED  BY <1>2, <1>6, <3>1, <3>4 DEF Fits
  <2>3. Clear(entries, a, p)
    BY <1>4, <2>2 DEF Clear
  <2>4. SeenAlike(Now, done.fs, p)
    BY <1>2, <1>3, <1>4, <2>0, <2>1, <2>3, ExecuteElsewhere
  <2> QED  BY <1>1, <2>4, BecomesElsewhere DEF done
<1> QED  BY <1>5, <1>6

LEMMA StartCollectionElsewhere ==
  ASSUME TransfersInv, NEW c \in Client, StartCollection(c), NEW p, LeavesAlone(c, p)
  PROVE  ~ Changes(p)
<1> DEFINE found == work[c].found
           a == work[c].destination
<1>1. /\ task[c].pc = "start" /\ UNCHANGED props
      /\ \/ UNCHANGED entries
         \/ /\ IsMissing(found) /\ CanCreate(entries, a, found.collection)
            /\ entries' = Create(entries, "collection", a, found.collection, "empty")
  BY DEF StartCollection, Starts
<1>2. /\ FileSystemInv(entries) /\ a \in Path
      /\ Fits(entries, found, a) /\ found.missing \in {0, 1}
  BY <1>1, AtStart
<1>3. p \in Path /\ p # a /\ "empty" \in Data
  BY DEF LeavesAlone, Data
<1> HIDE DEF found, a
<1>4. CASE UNCHANGED entries
  BY <1>1, <1>4, SameIsLocal
<1>5. CASE /\ IsMissing(found) /\ CanCreate(entries, a, found.collection)
           /\ entries' = Create(entries, "collection", a, found.collection, "empty")
  <2>1. IsPlace(entries, a, found.collection)
    BY <1>2, <1>5 DEF Fits, IsPlace, IsEntry, IsMissing
  <2>2. LooksAlike(entries, props, entries', props', p)
    BY <1>1, <1>2, <1>3, <1>5, <2>1, CreateElsewhere
  <2> QED  BY <2>2 DEF Changes, LooksAlike
<1> QED  BY <1>1, <1>4, <1>5

\* The members of a collection are taken along only below the top.
LEMMA DownFromTheTop ==
  ASSUME TransfersInv, NEW c \in Client, AtWork(c), FlatListing(task[c], work[c]),
         NEW p, LeavesAlone(c, p), NEW e \in Top(c).documents \cup Top(c).collections
  PROVE  /\ ~ Within(work[c].destination, p)
         /\ Within(work[c].destination, PathIn(Top(c).target, e))
<1> DEFINE top == Top(c)
           from == task[c].path
           to == work[c].destination
<1>1. /\ FrameInv(entries, top, work[c].listing, from, to)
      /\ from \in Path /\ to \in Path /\ FileSystemInv(entries)
      /\ \A q \in Path : Within(from, q) => Moved(q, from, to) \in Path
  BY AtEngine
<1>2. /\ e \in DOMAIN entries /\ Within(from, entries[e].path)
      /\ PathIn(top.target, e) = Moved(entries[e].path, from, to)
  BY MemberIs
<1>3. entries[e].path \in Path
  BY <1>1, <1>2, EntryIs
<1>4. Within(to, PathIn(top.target, e))
  BY <1>1, <1>2, <1>3, MovedWithin
<1>5. ASSUME Within(to, p)  PROVE FALSE
  <2>1. work[c].depth = 0
    BY <1>5 DEF LeavesAlone
  <2>2. \A d \in DOMAIN work[c].listing : work[c].listing[d] = {}
    BY <2>1 DEF FlatListing
  <2> HIDE DEF top, from, to
  <2>3. e \in work[c].listing[top.source] /\ top.source \in DOMAIN work[c].listing
    BY <1>1 DEF FrameInv, top
  <2> QED  BY <2>2, <2>3
<1> QED  BY <1>4, <1>5

LEMMA EngineDocumentElsewhere ==
  ASSUME TransfersInv, NEW c \in Client, FlatListing(task[c], work[c]),
         NEW p, LeavesAlone(c, p), NEW e, EngineDocument(c, e)
  PROVE  ~ Changes(p)
<1> DEFINE top    == Top(c)
           target == TargetOf(top, e)
           a      == PathIn(top.target, e)
           done   == IF target # 0 /\ entries[target].kind = "collection"
                     THEN [fs |-> Now, status |-> "OverwriteFailed"]
                     ELSE Execute(c, e, a, top.target, target)
<1>1. AtWork(c) /\ e \in Top(c).documents /\ Becomes(done.fs)
  BY DEF EngineDocument
<1>2. Sound(Now) /\ task[c].path \in Path /\ work[c].destination \in Path
  BY <1>1, AtEngine
<1>3. ~ Within(work[c].destination, p) /\ Within(work[c].destination, a)
  BY <1>1, DownFromTheTop
<1>4. /\ e \in DOMAIN entries /\ e # 1 /\ IsPlace(entries, a, top.target)
      /\ target \in DOMAIN entries \cup {0} /\ (target # 0 => entries[target].path = a)
      /\ Within(task[c].path, entries[e].path)
  BY <1>1, MemberIs
<1>5. p \in Path /\ (Moves(c) => ~ Within(task[c].path, p))
  BY DEF LeavesAlone
<1>6. a \in Path /\ entries[e].path \in Path
  <2>1. FileSystemInv(entries)
    BY <1>1, AtEngine
  <2> QED  BY <1>4, <2>1, EntryIs DEF IsPlace
<1>7. done.fs = Now \/ done = Execute(c, e, a, top.target, target)
  OBVIOUS
<1> HIDE DEF done, a, top, target
<1>8. Clear(entries, a, p)
  BY <1>2, <1>3, <1>5, <1>6, WithinTwice DEF Clear, Within
<1>9. Moves(c) => ~ Within(entries[e].path, p)
  BY <1>2, <1>4, <1>5, <1>6, WithinTwice
<1>10. SeenAlike(Now, Execute(c, e, a, top.target, target).fs, p)
  BY <1>2, <1>4, <1>5, <1>8, <1>9, ExecuteElsewhere
<1>11. SeenAlike(Now, Now, p)
  BY DEF SeenAlike, LooksAlike
<1> QED  BY <1>1, <1>7, <1>10, <1>11, BecomesElsewhere DEF done

LEMMA EngineCollectionElsewhere ==
  ASSUME TransfersInv, NEW c \in Client, FlatListing(task[c], work[c]),
         NEW p, LeavesAlone(c, p), NEW e, EngineCollection(c, e)
  PROVE  ~ Changes(p)
<1> DEFINE top == Top(c)
           a   == PathIn(top.target, e)
<1>1. /\ AtWork(c) /\ e \in Top(c).collections
      /\ \/ UNCHANGED <<entries, props>>
         \/ /\ CanCreate(entries, a, top.target) /\ UNCHANGED props
            /\ entries' = Create(entries, "collection", a, top.target, "empty")
  BY DEF EngineCollection, Throw
<1>2. IsPlace(entries, a, top.target) /\ FileSystemInv(entries)
  BY <1>1, MemberIs, AtEngine
<1>3. ~ Within(work[c].destination, p) /\ Within(work[c].destination, a)
  BY <1>1, DownFromTheTop
<1>4. p \in Path /\ p # a /\ "empty" \in Data
  BY <1>3 DEF LeavesAlone, Data
<1>5. CASE UNCHANGED <<entries, props>>
  BY <1>5, SameIsLocal
<1> HIDE DEF a, top
<1>6. CASE /\ CanCreate(entries, a, top.target) /\ UNCHANGED props
           /\ entries' = Create(entries, "collection", a, top.target, "empty")
  <2>1. LooksAlike(entries, props, entries', props', p)
    BY <1>2, <1>4, <1>6, CreateElsewhere
  <2> QED  BY <2>1 DEF Changes, LooksAlike
<1> QED  BY <1>1, <1>5, <1>6

LEMMA EngineFinishElsewhere ==
  ASSUME TransfersInv, NEW c \in Client, FlatListing(task[c], work[c]),
         NEW p, LeavesAlone(c, p), EngineFinish(c)
  PROVE  ~ Changes(p)
<1> DEFINE top  == Top(c)
           from == task[c].path
           to   == work[c].destination
           q    == entries[top.source].path
           a    == entries[top.target].path
           kept == ReadOf(Now, q, top.properties)
           fs   == SetProperties(Now, a, kept)
           gs   == IF Moves(c) /\ top.source # 1 THEN TakeAway(fs, top.source) ELSE fs
<1>1. AtWork(c) /\ Becomes(gs)
  BY DEF EngineFinish
<1>2. /\ Sound(Now) /\ FileSystemInv(entries) /\ from \in Path /\ to \in Path
      /\ \A r \in Path : Within(from, r) => Moved(r, from, to) \in Path
      /\ FrameInv(entries, top, work[c].listing, from, to)
      /\ top.source \in DOMAIN entries /\ top.target \in DOMAIN entries
  BY <1>1, AtEngine
<1>3. /\ Within(from, q) /\ a = Moved(q, from, to)
      /\ top.source \in DOMAIN work[c].listing
  BY <1>2 DEF FrameInv
<1>4. q \in Path /\ a \in Path /\ Now.entries = entries
  BY <1>2, EntryIs DEF Now
<1>5. /\ p \in Path /\ p # to /\ (Moves(c) => ~ Within(from, p))
      /\ Within(to, p) => work[c].depth = 0
  BY DEF LeavesAlone
<1>6. p # a
  <2>1. CASE Within(to, p)
    <3>1. work[c].depth = 0
      BY <1>5, <2>1
    <3>2. top.source = task[c].found.entry
      BY <1>3, <3>1 DEF FlatListing
    <3>3. entries[task[c].found.entry].path = from
      <4>1. task[c].pc \in TransferStage
        BY <1>1 DEF AtWork, TransferStage
      <4>2. TransferInv(entries, task[c], work[c])
        BY <4>1, AtTransfer
      <4> QED  BY <4>2 DEF TransferInv, Fits
    <3>4. a = to
      BY <1>2, <1>3, <3>2, <3>3, MovedTop
    <3> QED  BY <1>5, <3>4
  <2>2. CASE ~ Within(to, p)
    <3> HIDE DEF a, q, top, from, to
    <3>1. Within(to, a)
      BY <1>2, <1>3, <1>4, MovedWithin
    <3> QED  BY <2>2, <3>1
  <2> QED  BY <2>1, <2>2
<1>7. /\ fs = SetProperties(Now, a, kept)
      /\ gs = IF Moves(c) /\ top.source # 1 THEN TakeAway(fs, top.source) ELSE fs
      /\ q = entries[top.source].path
  OBVIOUS
<1> HIDE DEF fs, kept, gs, a, q, top, from, to
<1>8. SeenAlike(Now, fs, p) /\ Leads(Now, fs) /\ fs.entries = entries
  BY <1>2, <1>4, <1>5, <1>6, <1>7, SetPropertiesElsewhere, SetPropertiesLeads
<1>9. ASSUME Moves(c), top.source # 1  PROVE SeenAlike(fs, TakeAway(fs, top.source), p)
  <2>1. ~ Within(q, p)
    BY <1>2, <1>3, <1>4, <1>5, <1>9, WithinTwice
  <2> QED  BY <1>2, <1>5, <1>7, <1>8, <1>9, <2>1, TakeAwayElsewhere DEF Leads
<1>10. SeenAlike(Now, gs, p)
  BY <1>7, <1>8, <1>9 DEF SeenAlike, LooksAlike
<1> QED  BY <1>1, <1>10, BecomesElsewhere

\* Elsewhere nobody sees what the engine does.
LEMMA EngineElsewhere ==
  ASSUME TransfersInv, NEW c \in Client, FlatListing(task[c], work[c]),
         NEW p, LeavesAlone(c, p), Engine(c)
  PROVE  ~ Changes(p)
<1>1. CASE StartOnRoot(c)
  BY <1>1, SameIsLocal DEF StartOnRoot, Throw
<1> QED  BY <1>1, StartDocumentElsewhere, StartCollectionElsewhere, EngineDocumentElsewhere,
            EngineCollectionElsewhere, EngineFinishElsewhere DEF Engine

-----------------------------------------------------------------------------
(* Whom the locks keep out.                                                 *)

\* What another client has locked for itself is not what c has a lock on, nor,
\* but for a lock of the resource alone, below that.
LEMMA GoesByKeepsOut ==
  ASSUME RequestsInv, LocksAreApart, FALSE \notin Depths, NEW c \in Client,
         NEW t, NEW p, Guards(t, c, p),
         NEW u \in Held \cup {NoToken}, task[c].submitted \in Held \cup {NoToken},
         NEW lock, lock.owner = c, lock.path \in Path,
         GoesBy(locks, task[c].submitted, u, lock)
  PROVE  /\ p # lock.path
         /\ <<lock.path, p>> \in Ancestor =>
              ~ lock.recursive /\ u \in Held /\ locks[u] = lock
<1>1. /\ t \in Held /\ p \in Scope(locks[t]) /\ locks[t].owner # c
      /\ locks[t].share = "exclusive" /\ p \in Path
  BY DEF Guards, Explicit, Scope
<1>2. ASSUME NEW v \in Held, locks[v].owner = c  PROVE p \notin Scope(locks[v])
  BY <1>1, <1>2 DEF LocksAreApart, Compatible
<1>3. CASE u # NoToken
  <2>1. u \in Held /\ locks[u] = lock
    BY <1>3 DEF GoesBy, Held
  <2>2. p \notin Scope(lock)
    BY <1>2, <2>1
  <2> QED  BY <1>1, <2>1, <2>2 DEF Scope
<1>4. CASE u = NoToken
  <2> DEFINE v == task[c].submitted
  <2>1. v \in Held /\ lock.path \in Scope(locks[v])
    BY <1>4 DEF GoesBy, Held
  <2>2. locks[v].owner = c /\ ~ locks[v].temporary
    BY <2>1 DEF RequestsInv, OwnInv
  <2>3. locks[v].recursive
    <3>1. locks[v].recursive \in Depths /\ Depths \subseteq BOOLEAN
      BY <2>1, <2>2, RequestsAssumption DEF RequestsInv, ExplicitInv, Explicit
    <3> QED  BY <3>1
  <2> HIDE DEF v
  <2>4. p \notin Scope(locks[v])
    BY <1>2, <2>1, <2>2
  <2>5. ~ Within(lock.path, p)
    BY <1>1, <2>1, <2>3, <2>4, AncestorIsForest DEF Scope, Within
  <2> QED  BY <2>5 DEF Within
<1> QED  BY <1>3, <1>4

\* A transfer that has its locks and knows its destination leaves alone what
\* another client has locked for itself.
LEMMA TransferKeptOut ==
  ASSUME TransfersInv, MayWorkInv, LocksAreApart, FALSE \notin Depths, NEW c \in Client,
         task[c].pc \in {"start", "engine"}, Protected(c),
         work[c].sourceLock \in Held \cup {NoToken}, ~ Stale(c),
         NEW t, NEW p, Guards(t, c, p)
  PROVE  LeavesAlone(c, p)
<1> DEFINE r == task[c]
           w == work[c]
           lock == DestinationLock(c, r, w)
           source == SourceLock(c, r)
<1>1. task[c].pc \in TransferStage /\ task[c].pc \in AfterSource
  BY DEF TransferStage, AfterSource
<1>2. /\ RequestsInv /\ r.path \in Path /\ w.destination \in Path
      /\ r.submitted \in Held \cup {NoToken} /\ r.lock \in Held \cup {NoToken}
  BY <1>1, AtTransfer DEF TransfersInv, Protected
<1>3. /\ GoesBy(locks, r.submitted, r.lock, lock)
      /\ r.method = "MOVE" => GoesBy(locks, r.submitted, w.sourceLock, source)
  BY <1>1 DEF MayWorkInv, MayWork
<1>4. /\ lock.owner = c /\ lock.path = w.destination
      /\ ~ lock.recursive => r.method # "MOVE" /\ w.depth = 0
      /\ source.owner = c /\ source.path = r.path /\ source.recursive
  BY DEF DestinationLock, SourceLock, Lock
<1>5. p \in Path
  BY DEF Guards, Scope
<1>6. p # w.destination /\ (<<w.destination, p>> \in Ancestor =>
                              ~ lock.recursive /\ r.lock \in Held /\ locks[r.lock] = lock)
  <2> HIDE DEF lock, w
  <2> QED  BY <1>2, <1>3, <1>4, GoesByKeepsOut
<1>7. Moves(c) => ~ Within(r.path, p)
  <2> HIDE DEF source, w
  <2>1. ASSUME Moves(c)  PROVE p # r.path /\ <<r.path, p>> \notin Ancestor
    <3>1. GoesBy(locks, r.submitted, w.sourceLock, source)
      BY <1>3, <2>1 DEF Moves
    <3>2. w.sourceLock \in Held \cup {NoToken}
      BY DEF w
    <3> QED  BY <1>2, <1>4, <3>1, <3>2, GoesByKeepsOut
  <2> QED  BY <2>1 DEF Within
<1>8. ASSUME Within(w.destination, p)
      PROVE  w.depth = 0 /\ Select(entries, w.destination).entry = w.found.entry
  BY <1>4, <1>6, <1>8 DEF Within, Stale
<1> QED  BY <1>5, <1>6, <1>7, <1>8 DEF LeavesAlone

\* What lies under the exclusive lock of a client is changed neither by the
\* other requests nor by the transfers of another client: as long as they have
\* their locks, and know what became of a destination they locked alone.  The
\* lock has to be recursive, as for the other requests.
THEOREM TransferRespectsLocksHolds ==
  ASSUME FALSE \notin Depths
  PROVE  TransferSpec => TransferRespectsLocks
<1> DEFINE Acts(c) == By(c) \/ work'[c] # work[c]
           Excused(t, c) == \/ c = locks[t].owner
                            \/ ~ Protected(c)
                            \/ work[c].sourceLock \notin Held \cup {NoToken}
                            \/ Stale(c)
<1>1. ASSUME TransfersInv, LocksAreApart, MayWorkInv, [TransferNext]_transferVars,
             NEW t \in Explicit, NEW p \in Path, locks[t].share = "exclusive",
             p \in Scope(locks[t]), Changes(p)
      PROVE  \E c \in Client : Acts(c) /\ Excused(t, c)
  <2>0. RequestsInv
    BY <1>1 DEF TransfersInv
  <2>1. ~ UNCHANGED <<entries, props>>
    BY <1>1 DEF Changes, View
  <2>2. ASSUME Next, UNCHANGED work
        PROVE  \E c \in Client : Acts(c) /\ Excused(t, c)
    <3>1. PICK c \in Client : Alters(c)
      BY <1>1, <2>2, ChangesOnlyBy
    <3>2. StageInv(c, {"DELETE", "MOVE"})
      BY <1>1 DEF MayWorkInv
    <3>3. By(c)
      BY <2>0, <3>1, <3>2, AltersIs
    <3>4. c = locks[t].owner \/ ~ Protected(c)
      <4> SUFFICES ASSUME c # locks[t].owner, Protected(c)  PROVE FALSE
        OBVIOUS
      <4>1. Guards(t, c, p)
        BY <1>1 DEF Guards
      <4> QED  BY <1>1, <2>0, <3>1, <3>2, <4>1, AltersRespects
    <3> QED  BY <3>3, <3>4
  <2>3. ASSUME NEW c \in Client, Engine(c)
        PROVE  \E d \in Client : Acts(d) /\ Excused(t, d)
    <3>1. Acts(c)
      <4>1. EngineStep(c)
        BY <1>1, <2>3, EngineIs
      <4> QED  BY <4>1 DEF EngineStep, By
    <3>2. task[c].pc \in {"start", "engine"}
      BY <2>3 DEF Engine, StartOnRoot, StartDocument, StartCollection, Starts, EngineDocument,
         EngineCollection, EngineFinish, AtWork
    <3>3. FlatListing(task[c], work[c])
      BY <1>1 DEF MayWorkInv, MayWork
    <3>4. Excused(t, c)
      <4> SUFFICES ASSUME ~ Excused(t, c)  PROVE FALSE
        OBVIOUS
      <4>1. Guards(t, c, p)
        BY <1>1 DEF Guards
      <4>2. LeavesAlone(c, p)
        BY <1>1, <3>2, <4>1, TransferKeptOut
      <4> QED  BY <1>1, <2>3, <3>3, <4>2, EngineElsewhere
    <3> QED  BY <3>1, <3>4
  <2>4. \A c \in Client : ~ TransferSent(c) /\ ~ Handler(c)
    <3>1. ASSUME NEW c, NEW method, NEW pair, NEW depth, NEW overwrite, NEW inside,
                 NEW submitted, NEW resource,
                 TransferRequest(c, method, pair, depth, overwrite, inside, submitted, resource)
          PROVE  FALSE
      BY <2>1, <3>1 DEF TransferRequest
    <3>2. \A c \in Client : ~ TransferSent(c)
      BY <3>1, Zenon DEF TransferSent
    <3>3. \A c \in Client : ~ Handler(c)
      BY <2>1 DEF Handler, LockSource, SelectDestination, LockDestination,
         DisposeDestination, DisposeSource
    <3> QED  BY <3>2, <3>3
  <2>5. ~ UNCHANGED transferVars
    BY <2>1 DEF transferVars, vars
  <2> HIDE DEF Acts, Excused
  <2> QED  BY <1>1, <2>2, <2>3, <2>4, <2>5 DEF TransferNext
<1>2. TransfersInv /\ LocksAreApart /\ MayWorkInv /\ [TransferNext]_transferVars
        => [\A t \in Explicit, p \in Path :
              /\ locks[t].share = "exclusive"
              /\ p \in Scope(locks[t])
              /\ Changes(p)
              => \E c \in Client :
                   /\ By(c) \/ work'[c] # work[c]
                   /\ \/ c = locks[t].owner
                      \/ ~ Protected(c)
                      \/ work[c].sourceLock \notin Held \cup {NoToken}
                      \/ Stale(c)]_transferVars
  BY <1>1
<1> QED  BY <1>2, TransfersInvHolds, TransferLocksAreApartHolds, MayWorkHolds, PTL
         DEF TransferSpec, TransferRespectsLocks
=============================================================================
