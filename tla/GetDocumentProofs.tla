------------------------- MODULE GetDocumentProofs -------------------------
(***************************************************************************)
(* A client that knows the entity tag of a document nobody is writing has  *)
(* its body, for every number of readers, of PUT requests and of bytes;    *)
(* and ranges of a document nobody writes are answered with what was asked *)
(* for, for every list of ranges.  What sorting and merging the ranges     *)
(* returns is shown by a least counterexample: CHOOSE picks an order and a *)
(* fold only once it is known that there is one.                           *)
(***************************************************************************)
EXTENDS GetDocument, WellFoundedInduction, TLAPS

\* A PUT that has to change the entity tag yet because of what it wrote.
Owing == {"writing", "dispose", "abort", "tag", "tag aborted"}

PutType ==
  /\ etag \in Nat
  /\ put \in [Writer -> Owing \cup {"idle", "update", "done"}]
  /\ DOMAIN cache = Reader /\ DOMAIN get = Reader

\* No reader has a tag that is yet to come: neither in his cache nor in a GET
\* that has read the tag but not the data.
TagsArePast ==
  \A r \in Reader :
    /\ cache[r] # Nothing => cache[r].tag \in 0 .. etag
    /\ get[r] # Idle => {"pc", "tag"} \subseteq DOMAIN get[r]
    /\ get[r].pc = "open" => get[r].tag \in 0 .. etag

\* The current tag goes with the current body unless some PUT owes a new one.
TagTellsBody ==
  (\A w \in Writer : put[w] \notin Owing) =>
     \A r \in Reader :
       cache[r] # Nothing /\ cache[r].tag = etag
         => cache[r].body = data /\ cache[r].length = Length

GetInv == PutType /\ TagsArePast /\ TagTellsBody

LEMMA GetInvInit == Init => GetInv
BY DEF Init, GetInv, PutType, TagsArePast, TagTellsBody, Owing, Idle

\* A step of a PUT leaves the readers alone; it changes data only if the PUT
\* owes a new tag afterwards, and what it owed it has paid with a new tag.
LEMMA WriterKeepsGetInv ==
  ASSUME GetInv, NEW w \in Writer,
         \/ Create(w) \/ Write(w) \/ EndOfBody(w)
         \/ Dispose(w) \/ DisposeTag(w) \/ UpdateETag(w)
  PROVE  GetInv'
<1>1. cache' = cache /\ get' = get
  BY DEF Create, Write, EndOfBody, Dispose, DisposeTag, UpdateETag, Wrote
<1>2. /\ etag \in Nat
      /\ etag' \in {etag, etag + 1}
  BY DEF Create, Write, EndOfBody, Dispose, DisposeTag, UpdateETag, GetInv, PutType
<1>3. \E pc \in Owing \cup {"idle", "update", "done"} : put' = [put EXCEPT ![w] = pc]
  <2>1. put \in [Writer -> Owing \cup {"idle", "update", "done"}]
    BY DEF GetInv, PutType
  <2>2. CASE Write(w)
    <3>1. put' = [put EXCEPT ![w] = put[w]]
      BY <2>1, <2>2 DEF Write
    <3> QED
      BY <2>1, <3>1
  <2>3. CASE Create(w) \/ EndOfBody(w) \/ Dispose(w)
    BY <2>3 DEF Create, EndOfBody, Dispose, Wrote, Owing
  <2>4. CASE DisposeTag(w) \/ UpdateETag(w)
    BY <2>4 DEF DisposeTag, UpdateETag, Wrote, Owing
  <2> QED
    BY <2>2, <2>3, <2>4
<1>4. PutType'
  BY <1>1, <1>2, <1>3 DEF GetInv, PutType
<1>5. TagsArePast'
  <2>1. 0 .. etag \subseteq 0 .. etag'
    BY <1>2
  <2>2. TagsArePast
    BY DEF GetInv
  <2> QED
    BY <1>1, <2>1, <2>2 DEF TagsArePast
<1>6. TagTellsBody'
  <2>1. CASE Create(w) \/ Write(w) \/ EndOfBody(w) \/ Dispose(w)
    <3>1. put'[w] \in Owing
      BY <2>1 DEF Create, Write, EndOfBody, Dispose, Wrote, Owing, GetInv, PutType
    <3> QED
      BY <3>1 DEF TagTellsBody
  <2>2. CASE DisposeTag(w) \/ UpdateETag(w)
    <3>1. etag' = etag + 1
      BY <2>2 DEF DisposeTag, UpdateETag
    <3>2. etag' \notin 0 .. etag
      BY <1>2, <3>1
    <3>3. \A r \in Reader : cache[r] # Nothing => cache'[r].tag # etag'
      BY <1>1, <3>2 DEF GetInv, TagsArePast
    <3> QED
      BY <1>1, <3>3 DEF TagTellsBody
  <2> QED
    BY <2>1, <2>2
<1> QED
  BY <1>4, <1>5, <1>6 DEF GetInv

\* A step of a reader leaves the document alone.
LEMMA ReaderKeepsGetInv ==
  ASSUME GetInv, NEW r \in Reader, Read(r)
  PROVE  GetInv'
<1> USE DEF GetInv
<1>1. UNCHANGED <<data, written, etag, put>>
  BY DEF Read, Begin, ValidateAsync, Normalize, CheckRanges, TellETag, OpenDocument,
         OpenRange, SendRanges, Answer, Answered, Step
<1>2. \E g : get' = [get EXCEPT ![r] = g]
  BY DEF Read, Begin, ValidateAsync, Normalize, CheckRanges, TellETag, OpenDocument,
         OpenRange, SendRanges, Answer, Answered, Step
<1>3. \/ UNCHANGED cache
      \/ /\ get[r].pc = "open"
         /\ cache' = [cache EXCEPT ![r] = [tag |-> get[r].tag, body |-> data, length |-> Length]]
  BY DEF Read, Begin, ValidateAsync, Normalize, CheckRanges, TellETag, OpenDocument,
         OpenRange, SendRanges, Answer, Answered, Step
<1>4. PutType'
  BY <1>1, <1>2, <1>3 DEF PutType
<1>5. ASSUME get[r] # Idle
      PROVE  {"pc", "tag"} \subseteq DOMAIN get[r]
  BY <1>5 DEF TagsArePast
<1>6. /\ get'[r] # Idle => {"pc", "tag"} \subseteq DOMAIN get'[r]
      /\ get'[r].pc = "open" => get'[r].tag \in 0 .. etag
  <2> USE DEF PutType, Idle, Step, Answer, Answered
  <2>1. CASE \E method, asked, condition : Begin(r, method, asked, condition)
    BY <2>1 DEF Begin
  <2>2. CASE ValidateAsync(r)
    BY <2>2, <1>5 DEF ValidateAsync
  <2>3. CASE Normalize(r)
    BY <2>3, <1>5 DEF Normalize
  <2>4. CASE CheckRanges(r)
    BY <2>4, <1>5 DEF CheckRanges
  <2>5. CASE TellETag(r)
    <3>1. CASE get' = [get EXCEPT ![r] = Idle]
      BY <3>1
    <3>2. CASE get' = [get EXCEPT ![r] = [get[r] EXCEPT !.pc = "open", !.tag = etag]]
      <4>1. {"pc", "tag"} \subseteq DOMAIN get[r]
        BY <2>5, <1>5 DEF TellETag
      <4> QED
        BY <3>2, <4>1
    <3> QED
      BY <2>5, <3>1, <3>2 DEF TellETag
  <2>6. CASE OpenDocument(r)
    BY <2>6 DEF OpenDocument
  <2>7. CASE OpenRange(r)
    <3>1. \/ get' = [get EXCEPT ![r] = Idle]
          \/ /\ get[r].pc = "open"
             /\ \E items, parts :
                  get' = [get EXCEPT ![r] = [get[r] EXCEPT !.items = items, !.parts = parts]]
      BY <2>7 DEF OpenRange
    <3>2. get[r].pc = "open" => get[r].tag \in 0 .. etag
      BY DEF TagsArePast
    <3>3. CASE get' = [get EXCEPT ![r] = Idle]
      BY <3>3
    <3>4. ASSUME get[r].pc = "open", NEW items, NEW parts,
                 get' = [get EXCEPT ![r] = [get[r] EXCEPT !.items = items, !.parts = parts]]
          PROVE  {"pc", "tag"} \subseteq DOMAIN get'[r] /\ get'[r].tag = get[r].tag
      <4> DEFINE g == get[r]
      <4>1. {"pc", "tag"} \subseteq DOMAIN g
        BY <3>4, <1>5
      <4>2. get'[r] = [g EXCEPT !.items = items, !.parts = parts]
        BY <3>4
      <4> QED
        BY <4>1, <4>2
    <3> QED
      BY <3>1, <3>2, <3>3, <3>4
  <2>8. CASE SendRanges(r)
    BY <2>8 DEF SendRanges
  <2> QED
    BY <2>1, <2>2, <2>3, <2>4, <2>5, <2>6, <2>7, <2>8 DEF Read
<1>7. \A s \in Reader \ {r} : get'[s] = get[s] /\ cache'[s] = cache[s]
  BY <1>2, <1>3 DEF PutType
<1>8. \/ cache'[r] = cache[r]
      \/ /\ cache'[r] = [tag |-> get[r].tag, body |-> data, length |-> Length]
         /\ get[r].tag \in 0 .. etag
  BY <1>3 DEF PutType, TagsArePast
<1>9. TagsArePast'
  BY <1>1, <1>6, <1>7, <1>8 DEF TagsArePast
<1>10. TagTellsBody'
  BY <1>1, <1>7, <1>8 DEF TagTellsBody, Length
<1> QED
  BY <1>4, <1>9, <1>10

LEMMA GetInvNext == GetInv /\ [Next]_vars => GetInv'
<1> SUFFICES ASSUME GetInv, [Next]_vars PROVE GetInv'
  OBVIOUS
<1>1. CASE Next
  BY <1>1, WriterKeepsGetInv, ReaderKeepsGetInv DEF Next
<1>2. CASE UNCHANGED vars
  BY <1>2 DEF vars, GetInv, PutType, TagsArePast, TagTellsBody, Length
<1> QED
  BY <1>1, <1>2

\* A PUT that is not under way owes nothing.
LEMMA QuietOwesNothing == GetInv => CacheIsCoherent
BY DEF GetInv, TagTellsBody, CacheIsCoherent, Quiet, Owing

\* The entity tag of a document at rest identifies its body.
THEOREM CacheIsCoherentHolds == Spec => []CacheIsCoherent
<1>1. Spec => []GetInv
  BY GetInvInit, GetInvNext, PTL DEF Spec
<1> QED
  BY <1>1, QuietOwesNothing, PTL

-----------------------------------------------------------------------------
(* Sorting ranges *)

Ranges == [from : Int, to : Int]

LEMMA Least ==
  ASSUME NEW ns, ns \subseteq Nat, ns # {}
  PROVE  \E n \in ns : \A k \in ns : n <= k
<1>1. PICK n \in ns : \A k \in ns : ~ (<<k, n>> \in OpToRel(<, Nat))
  BY WFMin, NatLessThanWellFounded, Zenon
<1>2. \A k \in ns : ~ (k < n)
  BY <1>1 DEF OpToRel
<1> QED  BY <1>2

LEMMA OrderIsTotal ==
  ASSUME NEW x \in Ranges, NEW y \in Ranges
  PROVE  InOrder(x, y) \/ InOrder(y, x)
BY DEF InOrder, Ranges

LEMMA OrderIsTransitive ==
  ASSUME NEW x \in Ranges, NEW y \in Ranges, NEW z \in Ranges, InOrder(x, y), InOrder(y, z)
  PROVE  InOrder(x, z)
BY DEF InOrder, Ranges

\* p puts the first n of the ranges s in order.
Sorts(p, s, n) ==
  /\ p \in [1..n -> 1..n]
  /\ \A i, j \in 1..n : p[i] = p[j] => i = j
  /\ \A k \in 1..n : \E i \in 1..n : p[i] = k
  /\ \A i, j \in 1..n : i < j => InOrder(s[p[i]], s[p[j]])

\* If so, the next range can be inserted.
LEMMA SortsOneMore ==
  ASSUME NEW n \in Nat, NEW s \in [1..(n + 1) -> Ranges], NEW p, Sorts(p, s, n)
  PROVE  \E q : Sorts(q, s, n + 1)
<1> DEFINE x == s[n + 1]
           later == {i \in 1..(n + 1) : i <= n => ~ InOrder(s[p[i]], x)}
<1>0. p \in [1..n -> 1..n] /\ x \in Ranges
  <2>1. n + 1 \in 1..(n + 1)
    OBVIOUS
  <2> QED  BY <2>1 DEF Sorts
<1>1. PICK k \in later : \A i \in later : k <= i
  <2>1. later \subseteq Nat /\ n + 1 \in later
    OBVIOUS
  <2> QED  BY <2>1, Least
<1>2. k \in 1..(n + 1) /\ \A i \in 1..n : i < k => InOrder(s[p[i]], x)
  BY <1>1
<1>3. \A i \in 1..n : s[p[i]] \in Ranges
  BY <1>0
<1>4. \A j \in 1..n : k <= j => InOrder(x, s[p[j]])
  <2> SUFFICES ASSUME NEW j \in 1..n, k <= j  PROVE InOrder(x, s[p[j]])
    OBVIOUS
  <2>1. k \in 1..n /\ ~ InOrder(s[p[k]], x)
    BY <1>1
  <2>2. InOrder(x, s[p[k]])
    BY <2>1, <1>0, <1>3, OrderIsTotal
  <2>3. k = j \/ InOrder(s[p[k]], s[p[j]])
    <3>1. \A a, b \in 1..n : a < b => InOrder(s[p[a]], s[p[b]])
      BY DEF Sorts
    <3>2. k = j \/ k < j
      BY <2>1
    <3> HIDE DEF later, x
    <3> QED  BY <2>1, <3>1, <3>2
  <2> QED
    BY <2>1, <2>2, <2>3, <1>0, <1>3, OrderIsTransitive
<1> DEFINE q == [i \in 1..(n + 1) |-> IF i < k THEN p[i] ELSE IF i = k THEN n + 1 ELSE p[i - 1]]
<1> HIDE DEF later, x
<1>5. \A i \in 1..(n + 1) : /\ i < k => i \in 1..n /\ q[i] = p[i]
                            /\ i = k => q[i] = n + 1
                            /\ k < i => i - 1 \in 1..n /\ q[i] = p[i - 1]
  BY <1>2
<1>6. q \in [1..(n + 1) -> 1..(n + 1)]
  <2> SUFFICES ASSUME NEW i \in 1..(n + 1)  PROVE q[i] \in 1..(n + 1)
    OBVIOUS
  <2> HIDE DEF q
  <2>1. \A a \in 1..n : p[a] \in 1..(n + 1)
    BY <1>0
  <2>2. n + 1 \in 1..(n + 1) /\ (i < k \/ i = k \/ k < i)
    BY <1>2
  <2> QED  BY <1>5, <2>1, <2>2
<1> HIDE DEF q
<1>7. \A i, j \in 1..(n + 1) : q[i] = q[j] => i = j
  <2> SUFFICES ASSUME NEW i \in 1..(n + 1), NEW j \in 1..(n + 1), q[i] = q[j]  PROVE i = j
    OBVIOUS
  <2>1. \A a, b \in 1..n : p[a] = p[b] => a = b
    BY DEF Sorts
  <2>2. \A a \in 1..n : p[a] # n + 1
    BY <1>0
  <2> QED  BY <1>2, <1>5, <2>1, <2>2
<1>8. \A m \in 1..(n + 1) : \E i \in 1..(n + 1) : q[i] = m
  <2> SUFFICES ASSUME NEW m \in 1..(n + 1)  PROVE \E i \in 1..(n + 1) : q[i] = m
    OBVIOUS
  <2>1. CASE m = n + 1
    BY <2>1, <1>2, <1>5
  <2>2. CASE m # n + 1
    <3>1. PICK i \in 1..n : p[i] = m
      BY <2>2 DEF Sorts
    <3>2. CASE i < k
      BY <3>1, <3>2, <1>5
    <3>3. CASE k <= i
      <4>1. i + 1 \in 1..(n + 1) /\ k < i + 1 /\ (i + 1) - 1 = i
        BY <3>3, <1>2
      <4> QED  BY <4>1, <3>1, <1>5
    <3> QED  BY <3>2, <3>3, <1>2
  <2> QED  BY <2>1, <2>2
<1>9. \A i, j \in 1..(n + 1) : i < j => InOrder(s[q[i]], s[q[j]])
  <2> SUFFICES ASSUME NEW i \in 1..(n + 1), NEW j \in 1..(n + 1), i < j
               PROVE  InOrder(s[q[i]], s[q[j]])
    OBVIOUS
  <2>1. \A a, b \in 1..n : a < b => InOrder(s[p[a]], s[p[b]])
    BY DEF Sorts
  <2>2. CASE j < k
    BY <2>1, <2>2, <1>2, <1>5
  <2>3. CASE j = k
    BY <2>3, <1>2, <1>5 DEF x
  <2>4. CASE k < j /\ i = k
    <3>1. j - 1 \in 1..n /\ k <= j - 1
      BY <2>4, <1>2
    <3> QED  BY <3>1, <2>4, <1>4, <1>5 DEF x
  <2>5. CASE k < j /\ i < k
    <3>1. j - 1 \in 1..n /\ i \in 1..n /\ i < j - 1
      BY <2>5, <1>2
    <3> QED  BY <3>1, <2>5, <2>1, <1>5
  <2>6. CASE k < i
    <3>1. j - 1 \in 1..n /\ i - 1 \in 1..n /\ i - 1 < j - 1 /\ k < j
      BY <2>6, <1>2
    <3> QED  BY <3>1, <2>6, <2>1, <1>5
  <2> QED  BY <2>2, <2>3, <2>4, <2>5, <2>6, <1>2
<1> QED  BY <1>6, <1>7, <1>8, <1>9 DEF Sorts

LEMMA SortsExist ==
  ASSUME NEW n \in Nat, NEW s \in [1..n -> Ranges]
  PROVE  \E p : Sorts(p, s, n)
<1> DEFINE bad == {m \in 0..n : ~ \E p : Sorts(p, s, m)}
<1>0. n \in 0..n /\ bad \subseteq Nat
  OBVIOUS
<1> SUFFICES ASSUME bad # {}  PROVE FALSE
  BY <1>0
<1>1. PICK m \in bad : \A k \in bad : m <= k
  BY <1>0, Least
<1>2. CASE m = 0
  <2>1. Sorts([i \in 1..0 |-> 1], s, 0)
    BY DEF Sorts
  <2> QED  BY <1>1, <1>2, <2>1
<1>3. CASE m # 0
  <2>1. m - 1 \in 0..n /\ m - 1 \notin bad /\ m - 1 \in Nat
    BY <1>1, <1>3
  <2>2. PICK p : Sorts(p, s, m - 1)
    BY <2>1
  <2> DEFINE first == [i \in 1..m |-> s[i]]
  <2>3. first \in [1..((m - 1) + 1) -> Ranges] /\ (m - 1) + 1 = m
    BY <2>1
  <2>4. Sorts(p, first, m - 1)
    <3>1. \A i \in 1..(m - 1) : p[i] \in 1..(m - 1)
      BY <2>2 DEF Sorts
    <3>2. \A i \in 1..(m - 1) : first[i] = s[i]
      BY <2>1
    <3> HIDE DEF first
    <3> QED  BY <2>2, <3>1, <3>2 DEF Sorts
  <2> HIDE DEF first
  <2>5. PICK q : Sorts(q, first, m)
    BY <2>1, <2>3, <2>4, SortsOneMore
  <2>6. Sorts(q, s, m)
    <3>1. \A i \in 1..m : q[i] \in 1..m
      BY <2>5 DEF Sorts
    <3>2. \A i \in 1..m : first[i] = s[i]
      BY DEF first
    <3> QED  BY <2>5, <3>1, <3>2 DEF Sorts
  <2> QED  BY <1>1, <2>6
<1> QED  BY <1>2, <1>3

\* What Sorted chooses exists.
LEMMA SortedSorts ==
  ASSUME NEW n \in Nat, NEW s \in [1..n -> Ranges]
  PROVE  \E p : Sorts(p, s, n) /\ Sorted(s) = [i \in 1..n |-> s[p[i]]]
<1> DEFINE orders(p) == \A i, j \in DOMAIN s : i < j => InOrder(s[p[i]], s[p[j]])
           order == CHOOSE p \in Bijection(DOMAIN s, DOMAIN s) : orders(p)
<1>1. DOMAIN s = 1..n
  OBVIOUS
<1>2. \A p : Sorts(p, s, n) <=> p \in Bijection(DOMAIN s, DOMAIN s) /\ orders(p)
  BY <1>1 DEF Sorts, Bijection, Injection, Surjection, IsInjective
<1>3. \E p \in Bijection(DOMAIN s, DOMAIN s) : orders(p)
  BY <1>2, SortsExist
<1>4. order \in Bijection(DOMAIN s, DOMAIN s) /\ orders(order)
  BY <1>3
<1>5. Sorted(s) = [i \in 1..n |-> s[order[i]]]
  BY <1>1 DEF Sorted
<1> HIDE DEF order
<1> QED  BY <1>2, <1>4, <1>5

-----------------------------------------------------------------------------
(* Merging ranges *)

\* What FoldLeft goes through, for each set of positions that are done.
Folded(s, b, w, t) == IF t = {} THEN b ELSE Merge(w[t \ {Max(t)}], s[Max(t)])

Folding(s, b) == CHOOSE w : w = [t \in SUBSET DOMAIN s |-> Folded(s, b, w, t)]

LEMMA FoldIs ==
  ASSUME NEW s, NEW b
  PROVE  FoldLeft(Merge, b, s) = Folding(s, b)[DOMAIN s]
BY DEF FoldLeft, MapThenFoldSet, Folding, Folded

LEMMA MaxIs ==
  ASSUME NEW n \in Nat, NEW t \in SUBSET (1..n), n \in t
  PROVE  Max(t) = n
<1>1. \A k \in t : n >= k /\ k \in Int
  OBVIOUS
<1>2. \A x \in t : (\A k \in t : x >= k) => x = n
  BY <1>1
<1> QED  BY <1>1, <1>2 DEF Max

LEMMA FoldingExists ==
  ASSUME NEW s, NEW b, NEW n \in Nat
  PROVE  \E w : w = [t \in SUBSET (1..n) |-> Folded(s, b, w, t)]
<1> DEFINE Is(w, m) == w = [t \in SUBSET (1..m) |-> Folded(s, b, w, t)]
           bad == {m \in Nat : ~ \E w : Is(w, m)}
<1> SUFFICES ASSUME bad # {}  PROVE FALSE
  OBVIOUS
<1>1. PICK m \in bad : \A k \in bad : m <= k
  BY Least
<1>2. CASE m = 0
  <2> DEFINE w == [t \in SUBSET (1..0) |-> b]
  <2>1. \A t \in SUBSET (1..0) : t = {}
    OBVIOUS
  <2>2. Is(w, 0)
    BY <2>1 DEF Folded
  <2> QED  BY <1>1, <1>2, <2>2
<1>3. CASE m # 0
  <2>1. m - 1 \in Nat /\ m - 1 \notin bad
    <3>1. m \in Nat
      BY <1>1
    <3>2. m - 1 \in Nat /\ ~ (m <= m - 1)
      BY <3>1, <1>3
    <3> HIDE DEF bad
    <3> QED  BY <3>2, <1>1
  <2>2. PICK w : Is(w, m - 1)
    BY <2>1
  <2> DEFINE more == [t \in SUBSET (1..m) |->
                        IF m \in t THEN Merge(w[t \ {m}], s[m]) ELSE w[t]]
  <2>3. \A t \in SUBSET (1..m) : more[t] = Folded(s, b, more, t)
    <3> SUFFICES ASSUME NEW t \in SUBSET (1..m)  PROVE more[t] = Folded(s, b, more, t)
      OBVIOUS
    <3>1. CASE m \in t
      <4>1. Max(t) = m /\ t # {}
        BY <3>1, MaxIs
      <4>2. t \ {m} \in SUBSET (1..m) /\ m \notin t \ {m}
        OBVIOUS
      <4>3. more[t \ {m}] = w[t \ {m}]
        BY <4>2
      <4>4. more[t] = Merge(w[t \ {m}], s[m])
        BY <3>1
      <4> HIDE DEF more
      <4> QED  BY <4>1, <4>3, <4>4 DEF Folded
    <3>2. CASE m \notin t
      <4>1. t \in SUBSET (1..(m - 1))
        BY <3>2, <2>1
      <4>2. t \ {Max(t)} \in SUBSET (1..m) /\ m \notin t \ {Max(t)}
        BY <3>2
      <4>3. more[t] = w[t] /\ more[t \ {Max(t)}] = w[t \ {Max(t)}]
        BY <3>2, <4>2
      <4>4. w[t] = Folded(s, b, w, t)
        BY <2>2, <4>1
      <4> HIDE DEF more
      <4> QED  BY <4>3, <4>4 DEF Folded
    <3> QED  BY <3>1, <3>2
  <2>4. more = [t \in SUBSET (1..m) |-> Folded(s, b, more, t)]
    BY <2>3
  <2>5. Is(more, m)
    BY <2>4
  <2> HIDE DEF more, Is
  <2> QED  BY <1>1, <2>5
<1> QED  BY <1>2, <1>3

LEMMA FoldingSteps ==
  ASSUME NEW n \in Nat, NEW s, DOMAIN s = 1..n, NEW b
  PROVE  /\ Folding(s, b)[1..0] = b
         /\ \A k \in 1..n : Folding(s, b)[1..k] = Merge(Folding(s, b)[1..(k - 1)], s[k])
<1> DEFINE w == Folding(s, b)
<1>1. w = [t \in SUBSET (1..n) |-> Folded(s, b, w, t)]
  BY FoldingExists DEF Folding
<1> HIDE DEF w
<1>2. w[1..0] = b
  BY <1>1 DEF Folded
<1>3. ASSUME NEW k \in 1..n
      PROVE  w[1..k] = Merge(w[1..(k - 1)], s[k])
  <2>1. 1..k \in SUBSET (1..n) /\ 1..k # {} /\ (1..k) \ {k} = 1..(k - 1)
    OBVIOUS
  <2>2. Max(1..k) = k
    BY MaxIs
  <2> QED  BY <1>1, <2>1, <2>2 DEF Folded
<1> QED  BY <1>2, <1>3 DEF w

Ascends(s, n) == \A i, j \in 1..n : i < j => InOrder(s[i], s[j])

\* g is what the a-th to the b-th range were merged into.
Joins(g, s, a, b) ==
  /\ a <= b /\ g = [from |-> s[a].from, to |-> s[b].to]
  /\ a # b => s[b].from <= s[a].to + 1

\* h begins behind g, unless g is none.
Behind(h, g) == g.from < h.from \/ g.to < g.from - 1

\* The range that is being merged began with the a-th one.
Began(acc, s, a, k) == Joins(acc.current, s, a, k) /\ acc.end = s[a].to

\* Each of the first k ranges is in one of the merged ones, and these are in order.
MergedInv(s, k, acc) ==
  /\ acc \in [done : Seq(Ranges), current : Ranges, end : Int]
  /\ \A i \in DOMAIN acc.done : \E a, b \in 1..k : Joins(acc.done[i], s, a, b)
  /\ \E a \in 1..k : Began(acc, s, a, k)
  /\ \A i, j \in DOMAIN acc.done : i < j => Behind(acc.done[j], acc.done[i])
  /\ \A i \in DOMAIN acc.done : Behind(acc.current, acc.done[i])
  /\ \A m \in 1..k : \/ \E i \in DOMAIN acc.done, a, b \in 1..k :
                          Joins(acc.done[i], s, a, b) /\ m \in a..b
                     \/ \E a \in 1..k : Began(acc, s, a, k) /\ m \in a..k

LEMMA MergeBegins ==
  ASSUME NEW n \in Nat \ {0}, NEW s \in [1..n -> Ranges]
  PROVE  MergedInv(s, 1, Merge([done |-> <<>>, current |-> Nothing, end |-> 0], s[1]))
<1>1. s[1] \in Ranges
  OBVIOUS
<1>2. Merge([done |-> <<>>, current |-> Nothing, end |-> 0], s[1])
        = [done |-> <<>>, current |-> s[1], end |-> s[1].to]
  BY DEF Merge
<1>3. s[1] = [from |-> s[1].from, to |-> s[1].to] /\ s[1].to \in Int
  BY <1>1 DEF Ranges
<1> DEFINE acc == [done |-> <<>>, current |-> s[1], end |-> s[1].to]
<1>4. /\ acc \in [done : Seq(Ranges), current : Ranges, end : Int]
      /\ DOMAIN acc.done = {} /\ acc.current = s[1] /\ acc.end = s[1].to
  BY <1>1, <1>3
<1> HIDE DEF acc
<1>5. Began(acc, s, 1, 1)
  BY <1>3, <1>4 DEF Began, Joins
<1>6. MergedInv(s, 1, acc)
  BY <1>4, <1>5 DEF MergedInv
<1> QED  BY <1>2, <1>6 DEF acc

\* The next range is merged into the current one.
LEMMA MergeJoins ==
  ASSUME NEW n \in Nat, NEW s \in [1..n -> Ranges], Ascends(s, n),
         NEW k \in 1..n, k + 1 \in 1..n, NEW acc, MergedInv(s, k, acc),
         s[k + 1].from <= acc.end + 1
  PROVE  MergedInv(s, k + 1, [acc EXCEPT !.current.to = s[k + 1].to])
<1> DEFINE new == [acc EXCEPT !.current.to = s[k + 1].to]
<1>1. /\ acc \in [done : Seq(Ranges), current : Ranges, end : Int]
      /\ s[k + 1] \in Ranges /\ s[k + 1].to \in Int
  BY DEF MergedInv, Ranges
<1>2. /\ new \in [done : Seq(Ranges), current : Ranges, end : Int]
      /\ new.done = acc.done /\ new.end = acc.end
      /\ new.current = [from |-> acc.current.from, to |-> s[k + 1].to]
  BY <1>1 DEF Ranges
<1> HIDE DEF new
<1>3. \A a \in 1..k : Began(acc, s, a, k) => a \in 1..(k + 1) /\ Began(new, s, a, k + 1)
  BY <1>2 DEF Began, Joins
<1>4. 1..k \subseteq 1..(k + 1)
  OBVIOUS
<1>5. \A m \in 1..(k + 1) : \/ \E i \in DOMAIN new.done, a, b \in 1..(k + 1) :
                                 Joins(new.done[i], s, a, b) /\ m \in a..b
                            \/ \E a \in 1..(k + 1) : Began(new, s, a, k + 1) /\ m \in a..(k + 1)
  <2> SUFFICES ASSUME NEW m \in 1..(k + 1)
               PROVE  \/ \E i \in DOMAIN new.done, a, b \in 1..(k + 1) :
                           Joins(new.done[i], s, a, b) /\ m \in a..b
                      \/ \E a \in 1..(k + 1) : Began(new, s, a, k + 1) /\ m \in a..(k + 1)
    OBVIOUS
  <2>1. CASE m = k + 1
    <3>1. PICK a \in 1..k : Began(acc, s, a, k)
      BY DEF MergedInv
    <3>2. m \in a..(k + 1)
      BY <2>1
    <3> QED  BY <1>3, <3>1, <3>2
  <2>2. CASE m \in 1..k
    <3>1. CASE \E i \in DOMAIN acc.done, a, b \in 1..k :
                 Joins(acc.done[i], s, a, b) /\ m \in a..b
      BY <3>1, <1>2, <1>4
    <3>2. CASE \E a \in 1..k : Began(acc, s, a, k) /\ m \in a..k
      <4>1. PICK a \in 1..k : Began(acc, s, a, k) /\ m \in a..k
        BY <3>2
      <4>2. m \in a..(k + 1)
        BY <4>1
      <4> QED  BY <1>3, <4>1, <4>2
    <3> QED  BY <2>2, <3>1, <3>2 DEF MergedInv
  <2> QED  BY <2>1, <2>2
<1>6. /\ \A i \in DOMAIN new.done : \E a, b \in 1..(k + 1) : Joins(new.done[i], s, a, b)
      /\ \E a \in 1..(k + 1) : Began(new, s, a, k + 1)
      /\ \A i, j \in DOMAIN new.done : i < j => Behind(new.done[j], new.done[i])
      /\ \A i \in DOMAIN new.done : Behind(new.current, new.done[i])
  <2>1. \A i \in DOMAIN acc.done : \E a, b \in 1..k : Joins(acc.done[i], s, a, b)
    BY DEF MergedInv
  <2>2. \E a \in 1..k : Began(acc, s, a, k)
    BY DEF MergedInv
  <2>3. \A i, j \in DOMAIN acc.done : i < j => Behind(acc.done[j], acc.done[i])
    BY DEF MergedInv
  <2>4. \A i \in DOMAIN acc.done : Behind(acc.current, acc.done[i])
    BY DEF MergedInv
  <2> QED  BY <1>2, <1>3, <1>4, <2>1, <2>2, <2>3, <2>4 DEF Behind
<1> QED  BY <1>2, <1>5, <1>6 DEF MergedInv, new

\* The next range begins behind it.
LEMMA MergeParts ==
  ASSUME NEW n \in Nat, NEW s \in [1..n -> Ranges], Ascends(s, n),
         NEW k \in 1..n, k + 1 \in 1..n, NEW acc, MergedInv(s, k, acc),
         ~ s[k + 1].from <= acc.end + 1
  PROVE  MergedInv(s, k + 1, [done |-> Append(acc.done, acc.current),
                              current |-> s[k + 1], end |-> s[k + 1].to])
<1> DEFINE x == s[k + 1]
           new == [done |-> Append(acc.done, acc.current), current |-> x, end |-> x.to]
           l == Len(acc.done)
<1>1. /\ acc.done \in Seq(Ranges) /\ acc.current \in Ranges /\ acc.end \in Int
      /\ x \in Ranges /\ x.to \in Int /\ x.from \in Int
      /\ x = [from |-> x.from, to |-> x.to]
  BY DEF MergedInv, Ranges
<1>2. /\ l \in Nat /\ DOMAIN acc.done = 1..l
      /\ DOMAIN new.done = 1..(l + 1)
      /\ \A i \in 1..l : new.done[i] = acc.done[i]
      /\ new.done[l + 1] = acc.current
      /\ new \in [done : Seq(Ranges), current : Ranges, end : Int]
      /\ new.current = x /\ new.end = x.to
  BY <1>1
<1> HIDE DEF new, l
<1>3. PICK a \in 1..k : Began(acc, s, a, k)
  BY DEF MergedInv
<1>4. Began(new, s, k + 1, k + 1) /\ k + 1 \in 1..(k + 1) /\ 1..k \subseteq 1..(k + 1)
  BY <1>1, <1>2 DEF Began, Joins, x
<1>5. Behind(x, acc.current)
  <2>1. /\ acc.current.from = s[a].from /\ acc.current.to = s[k].to /\ acc.end = s[a].to
        /\ a # k => s[k].from <= s[a].to + 1
    BY <1>3 DEF Began, Joins
  <2>2. s[a] \in Ranges /\ s[k] \in Ranges
    OBVIOUS
  <2>3. a < k => InOrder(s[a], s[k])
    BY DEF Ascends
  <2>4. x.from > s[a].to + 1
    BY <1>1, <2>1, <2>2 DEF x, Ranges
  <2>5. CASE a = k
    BY <2>1, <2>2, <2>4, <2>5, <1>1 DEF Behind, Ranges
  <2>6. CASE a # k
    <3>1. s[a].from <= s[k].from
      BY <2>2, <2>3, <2>6 DEF InOrder, Ranges
    <3>2. s[a].from < x.from
      BY <1>1, <2>1, <2>2, <2>4, <2>6, <3>1 DEF Ranges
    <3> QED  BY <2>1, <3>2 DEF Behind
  <2> QED  BY <2>5, <2>6
<1>6. \A i \in 1..l : Behind(x, acc.done[i])
  <2> SUFFICES ASSUME NEW i \in 1..l  PROVE Behind(x, acc.done[i])
    OBVIOUS
  <2>1. Behind(acc.current, acc.done[i]) /\ acc.done[i] \in Ranges
    BY <1>1, <1>2 DEF MergedInv
  <2>2. acc.current.from <= x.from
    <3>1. InOrder(s[a], x)
      BY DEF Ascends, x
    <3>2. s[a].from <= x.from
      <4>1. s[a] \in Ranges
        OBVIOUS
      <4>2. s[a].from \in Int
        BY <4>1 DEF Ranges
      <4> HIDE DEF x
      <4> QED  BY <3>1, <4>2, <1>1 DEF InOrder
    <3> QED  BY <3>2, <1>3 DEF Began, Joins
  <2>3. acc.done[i].from \in Int /\ acc.current.from \in Int
    BY <1>1, <2>1 DEF Ranges
  <2> HIDE DEF x
  <2> QED  BY <1>1, <2>1, <2>2, <2>3 DEF Behind
<1>7. \A i \in DOMAIN new.done : \E c, d \in 1..(k + 1) : Joins(new.done[i], s, c, d)
  <2>1. \A i \in 1..l : \E c, d \in 1..k : Joins(acc.done[i], s, c, d)
    BY <1>2 DEF MergedInv
  <2>2. Joins(acc.current, s, a, k) /\ k \in 1..(k + 1)
    BY <1>3 DEF Began
  <2> SUFFICES ASSUME NEW i \in 1..(l + 1)
               PROVE  \E c, d \in 1..(k + 1) : Joins(new.done[i], s, c, d)
    BY <1>2
  <2>3. CASE i \in 1..l
    BY <1>2, <1>4, <2>1, <2>3
  <2>4. CASE i = l + 1
    BY <1>2, <1>4, <2>2, <2>4
  <2> QED  BY <1>2, <2>3, <2>4
<1>8. \A i, j \in DOMAIN new.done : i < j => Behind(new.done[j], new.done[i])
  <2>1. \A i, j \in 1..l : i < j => Behind(acc.done[j], acc.done[i])
    BY <1>2 DEF MergedInv
  <2>2. \A i \in 1..l : Behind(acc.current, acc.done[i])
    BY <1>2 DEF MergedInv
  <2> SUFFICES ASSUME NEW i \in 1..(l + 1), NEW j \in 1..(l + 1), i < j
               PROVE  Behind(new.done[j], new.done[i])
    BY <1>2
  <2>3. i \in 1..l /\ (j \in 1..l \/ j = l + 1)
    BY <1>2
  <2> QED  BY <1>2, <2>1, <2>2, <2>3
<1>9. \A i \in DOMAIN new.done : Behind(new.current, new.done[i])
  <2> SUFFICES ASSUME NEW i \in 1..(l + 1)  PROVE Behind(x, new.done[i])
    BY <1>2
  <2>1. i \in 1..l \/ i = l + 1
    BY <1>2
  <2> QED  BY <1>2, <1>5, <1>6, <2>1
<1>10. \A m \in 1..(k + 1) : \/ \E i \in DOMAIN new.done, c, d \in 1..(k + 1) :
                                  Joins(new.done[i], s, c, d) /\ m \in c..d
                             \/ \E c \in 1..(k + 1) : Began(new, s, c, k + 1) /\ m \in c..(k + 1)
  <2> SUFFICES ASSUME NEW m \in 1..(k + 1)
               PROVE  \/ \E i \in DOMAIN new.done, c, d \in 1..(k + 1) :
                           Joins(new.done[i], s, c, d) /\ m \in c..d
                      \/ \E c \in 1..(k + 1) : Began(new, s, c, k + 1) /\ m \in c..(k + 1)
    OBVIOUS
  <2>1. CASE m = k + 1
    BY <2>1, <1>4
  <2>2. CASE m \in 1..k
    <3>1. CASE \E i \in DOMAIN acc.done, c, d \in 1..k :
                 Joins(acc.done[i], s, c, d) /\ m \in c..d
      <4>1. PICK i \in 1..l, c \in 1..k, d \in 1..k : Joins(acc.done[i], s, c, d) /\ m \in c..d
        BY <3>1, <1>2
      <4>2. i \in 1..(l + 1) /\ new.done[i] = acc.done[i]
        BY <1>2
      <4> QED  BY <4>1, <4>2, <1>2, <1>4
    <3>2. CASE \E c \in 1..k : Began(acc, s, c, k) /\ m \in c..k
      <4>1. PICK c \in 1..k : Joins(acc.current, s, c, k) /\ m \in c..k
        BY <3>2 DEF Began
      <4>2. l + 1 \in DOMAIN new.done /\ k \in 1..(k + 1)
        BY <1>2
      <4> QED  BY <4>1, <4>2, <1>2, <1>4
    <3> QED  BY <2>2, <3>1, <3>2 DEF MergedInv
  <2> QED  BY <2>1, <2>2
<1>11. \E c \in 1..(k + 1) : Began(new, s, c, k + 1)
  BY <1>4
<1> QED
  <2>1. MergedInv(s, k + 1, new)
    BY <1>2, <1>7, <1>8, <1>9, <1>10, <1>11 DEF MergedInv
  <2> QED  BY <2>1 DEF new, x

LEMMA FoldKeepsMergedInv ==
  ASSUME NEW n \in Nat \ {0}, NEW s \in [1..n -> Ranges], Ascends(s, n)
  PROVE  MergedInv(s, n, FoldLeft(Merge, [done |-> <<>>, current |-> Nothing, end |-> 0], s))
<1> DEFINE b == [done |-> <<>>, current |-> Nothing, end |-> 0]
           acc(k) == Folding(s, b)[1..k]
           bad == {k \in 1..n : ~ MergedInv(s, k, acc(k))}
<1>1. DOMAIN s = 1..n /\ n \in Nat
  OBVIOUS
<1>2. acc(0) = b /\ \A k \in 1..n : acc(k) = Merge(acc(k - 1), s[k])
  BY <1>1, FoldingSteps
<1>3. FoldLeft(Merge, b, s) = acc(n)
  BY <1>1, FoldIs
<1> HIDE DEF acc
<1>4. ASSUME bad # {}  PROVE FALSE
  <2>1. bad \subseteq Nat
    OBVIOUS
  <2>2. PICK k \in bad : \A m \in bad : k <= m
    BY <1>4, <2>1, Least
  <2>3. k \in 1..n /\ ~ MergedInv(s, k, acc(k))
    BY <2>2
  <2>4. CASE k = 1
    <3>1. acc(1) = Merge(b, s[1])
      BY <1>2, <2>3, <2>4
    <3> QED  BY <2>3, <2>4, <3>1, MergeBegins
  <2>5. CASE k # 1
    <3>1. k - 1 \in 1..n /\ (k - 1) + 1 = k /\ ~ (k <= k - 1)
      BY <2>3, <2>5
    <3>2. MergedInv(s, k - 1, acc(k - 1))
      BY <2>2, <3>1
    <3>3. acc(k) = Merge(acc(k - 1), s[k])
      BY <1>2, <2>3
    <3>4. acc(k - 1).current # Nothing
      BY <3>2, RangesAssumption DEF MergedInv, Ranges
    <3>5. CASE s[k].from <= acc(k - 1).end + 1
      <4>1. acc(k) = [acc(k - 1) EXCEPT !.current.to = s[k].to]
        BY <3>3, <3>4, <3>5 DEF Merge
      <4>2. MergedInv(s, (k - 1) + 1, [acc(k - 1) EXCEPT !.current.to = s[(k - 1) + 1].to])
        <5> HIDE DEF bad
        <5> QED  BY <1>1, <2>3, <3>1, <3>2, <3>5, MergeJoins
      <4> QED  BY <2>3, <3>1, <4>1, <4>2
    <3>6. CASE ~ s[k].from <= acc(k - 1).end + 1
      <4>1. acc(k) = [done |-> Append(acc(k - 1).done, acc(k - 1).current),
                      current |-> s[k], end |-> s[k].to]
        BY <3>3, <3>4, <3>6 DEF Merge
      <4> QED  BY <1>1, <2>3, <3>1, <3>2, <3>6, <4>1, MergeParts
    <3> QED  BY <3>5, <3>6
  <2> QED  BY <2>4, <2>5
<1>5. n \in 1..n
  OBVIOUS
<1> QED  BY <1>3, <1>4, <1>5

-----------------------------------------------------------------------------
(* What NormalizeRanges returns *)

RangeItems == [from : Nat \cup {Open}, to : Nat \cup {Open}]

LEMMA ItemIsNormalized ==
  ASSUME NEW item \in RangeItems, NEW length \in Nat
  PROVE  NormalizeItem(item, length) \in Ranges
BY DEF RangeItems, Ranges, NormalizeItem

\* What the ranges asked for are merged into: each of these reaches from where one of
\* them begins to where another ends that overlaps it or touches it; they are in
\* order; none asked for is lost as long as no range lies within another.
MergedOf(items, asked, length) ==
  LET Normal(a) == NormalizeItem(asked[a], length)
  IN  /\ items \in Seq(Ranges)
      /\ \A i \in DOMAIN items : \E a, b \in DOMAIN asked :
           /\ items[i] = [from |-> Normal(a).from, to |-> Normal(b).to]
           /\ Normal(a) = Normal(b) \/ Normal(b).from <= Normal(a).to + 1
           /\ Normal(a).from <= Normal(b).from
      /\ \A i, j \in DOMAIN items : i < j => Behind(items[j], items[i])
      /\ (\A a, b \in DOMAIN asked : Normal(a).from < Normal(b).from => Normal(a).to <= Normal(b).to)
           => \A a \in DOMAIN asked : \E i \in DOMAIN items :
                items[i].from <= Normal(a).from /\ Normal(a).to <= items[i].to

LEMMA NormalizeRangesMerges ==
  ASSUME NEW asked \in Seq(RangeItems), asked # <<>>, NEW length \in Nat
  PROVE  MergedOf(NormalizeRanges(asked, length), asked, length)
<1> DEFINE n == Len(asked)
           normal == [i \in DOMAIN asked |-> NormalizeItem(asked[i], length)]
           s == Sorted(normal)
           acc == FoldLeft(Merge, [done |-> <<>>, current |-> Nothing, end |-> 0], s)
           items == NormalizeRanges(asked, length)
<1>1. n \in Nat \ {0} /\ DOMAIN asked = 1..n
  OBVIOUS
<1>2. normal \in [1..n -> Ranges]
  BY <1>1, ItemIsNormalized
<1>3. items = Append(acc.done, acc.current)
  BY DEF NormalizeRanges
<1> HIDE DEF n, normal, items
<1>4. PICK p : Sorts(p, normal, n) /\ s = [i \in 1..n |-> normal[p[i]]]
  BY <1>1, <1>2, SortedSorts
<1> HIDE DEF s
<1>5. /\ s \in [1..n -> Ranges] /\ Ascends(s, n)
      /\ \A i \in 1..n : \E a \in 1..n : s[i] = normal[a]
      /\ \A a \in 1..n : \E i \in 1..n : s[i] = normal[a]
  BY <1>2, <1>4 DEF Sorts, Ascends
<1>6. MergedInv(s, n, acc)
  BY <1>1, <1>5, FoldKeepsMergedInv
<1> HIDE DEF acc
<1> DEFINE l == Len(acc.done)
<1>7. /\ l \in Nat /\ DOMAIN acc.done = 1..l /\ items \in Seq(Ranges)
      /\ DOMAIN items = 1..(l + 1) /\ items[l + 1] = acc.current
      /\ \A i \in 1..l : items[i] = acc.done[i]
  <2>1. acc.done \in Seq(Ranges) /\ acc.current \in Ranges
    BY <1>6 DEF MergedInv
  <2> QED  BY <1>3, <2>1
<1> HIDE DEF l
<1>8. \A i \in DOMAIN items : \E a, b \in 1..n : Joins(items[i], s, a, b)
  <2>1. \A i \in 1..l : \E a, b \in 1..n : Joins(acc.done[i], s, a, b)
    BY <1>6, <1>7 DEF MergedInv
  <2>2. \E a \in 1..n : Joins(acc.current, s, a, n)
    BY <1>6 DEF MergedInv, Began
  <2>3. n \in 1..n
    BY <1>1
  <2> SUFFICES ASSUME NEW i \in 1..(l + 1)
               PROVE  \E a, b \in 1..n : Joins(items[i], s, a, b)
    BY <1>7
  <2>4. i \in 1..l \/ i = l + 1
    BY <1>7
  <2> QED  BY <1>7, <2>1, <2>2, <2>3, <2>4
<1>9. \A i, j \in DOMAIN items : i < j => Behind(items[j], items[i])
  <2> SUFFICES ASSUME NEW i \in 1..(l + 1), NEW j \in 1..(l + 1), i < j
               PROVE  Behind(items[j], items[i])
    BY <1>7
  <2>1. i \in 1..l /\ (j \in 1..l \/ j = l + 1)
    BY <1>7
  <2>2. /\ \A g, h \in 1..l : g < h => Behind(acc.done[h], acc.done[g])
        /\ \A g \in 1..l : Behind(acc.current, acc.done[g])
    BY <1>6, <1>7 DEF MergedInv
  <2> QED  BY <1>7, <2>1, <2>2
<1>10. \A m \in 1..n : \E i \in DOMAIN items, a, b \in 1..n : Joins(items[i], s, a, b) /\ m \in a..b
  <2> SUFFICES ASSUME NEW m \in 1..n
               PROVE  \E i \in DOMAIN items, a, b \in 1..n : Joins(items[i], s, a, b) /\ m \in a..b
    OBVIOUS
  <2>1. \/ \E i \in DOMAIN acc.done, a, b \in 1..n : Joins(acc.done[i], s, a, b) /\ m \in a..b
        \/ \E a \in 1..n : Began(acc, s, a, n) /\ m \in a..n
    BY <1>6 DEF MergedInv
  <2>2. n \in 1..n /\ l + 1 \in 1..(l + 1) /\ \A i \in 1..l : i \in 1..(l + 1)
    BY <1>1, <1>7
  <2> QED  BY <1>7, <2>1, <2>2 DEF Began
<1>11. \A a \in 1..n : NormalizeItem(asked[a], length) = normal[a]
  BY <1>1 DEF normal
<1>12. \A i, j \in 1..n : i <= j => s[i].from <= s[j].from
  <2> SUFFICES ASSUME NEW i \in 1..n, NEW j \in 1..n, i <= j  PROVE s[i].from <= s[j].from
    OBVIOUS
  <2>1. s[i].from \in Int /\ s[j].from \in Int
    BY <1>5 DEF Ranges
  <2>2. i = j \/ InOrder(s[i], s[j])
    BY <1>1, <1>5 DEF Ascends
  <2> QED  BY <2>1, <2>2 DEF InOrder
<1>13. \A i \in DOMAIN items : \E a, b \in 1..n :
          /\ items[i] = [from |-> normal[a].from, to |-> normal[b].to]
          /\ normal[a] = normal[b] \/ normal[b].from <= normal[a].to + 1
          /\ normal[a].from <= normal[b].from
  <2> SUFFICES ASSUME NEW i \in DOMAIN items
               PROVE  \E a, b \in 1..n :
                        /\ items[i] = [from |-> normal[a].from, to |-> normal[b].to]
                        /\ normal[a] = normal[b] \/ normal[b].from <= normal[a].to + 1
                        /\ normal[a].from <= normal[b].from
    OBVIOUS
  <2>1. PICK c \in 1..n, d \in 1..n : Joins(items[i], s, c, d)
    BY <1>8
  <2>2. PICK a \in 1..n, b \in 1..n : s[c] = normal[a] /\ s[d] = normal[b]
    BY <1>5
  <2>3. s[c].from <= s[d].from
    BY <1>12, <2>1 DEF Joins
  <2> QED  BY <2>1, <2>2, <2>3 DEF Joins
<1>14. ASSUME \A a, b \in 1..n : normal[a].from < normal[b].from => normal[a].to <= normal[b].to,
              NEW a \in 1..n
       PROVE  \E i \in DOMAIN items : items[i].from <= normal[a].from /\ normal[a].to <= items[i].to
  <2>1. PICK m \in 1..n : s[m] = normal[a]
    BY <1>5
  <2>2. PICK i \in DOMAIN items, c \in 1..n, d \in 1..n : Joins(items[i], s, c, d) /\ m \in c..d
    BY <1>10
  <2>3. items[i].from <= normal[a].from
    BY <1>12, <2>1, <2>2 DEF Joins
  <2>4. s[m].to <= s[d].to
    <3>1. s[m] \in Ranges /\ s[d] \in Ranges
      BY <1>5
    <3>2. s[m].from < s[d].from => s[m].to <= s[d].to
      BY <1>5, <1>14
    <3>3. m = d \/ m < d
      BY <1>1, <2>2
    <3>4. m = d \/ InOrder(s[m], s[d])
      BY <1>5, <3>3 DEF Ascends
    <3>5. s[m].to \in Int
      BY <3>1 DEF Ranges
    <3> QED  BY <3>2, <3>4, <3>5 DEF InOrder
  <2> QED  BY <2>1, <2>2, <2>3, <2>4 DEF Joins
<1> QED
  <2> DEFINE Normal(a) == NormalizeItem(asked[a], length)
  <2>1. \A a \in 1..n : Normal(a) = normal[a]
    BY <1>11
  <2> HIDE DEF Normal
  <2>2. \A i \in DOMAIN items : \E a, b \in DOMAIN asked :
           /\ items[i] = [from |-> Normal(a).from, to |-> Normal(b).to]
           /\ Normal(a) = Normal(b) \/ Normal(b).from <= Normal(a).to + 1
           /\ Normal(a).from <= Normal(b).from
    BY <1>1, <1>13, <2>1
  <2>3. ASSUME \A a, b \in DOMAIN asked : Normal(a).from < Normal(b).from => Normal(a).to <= Normal(b).to
        PROVE  \A a \in DOMAIN asked : \E i \in DOMAIN items :
                 items[i].from <= Normal(a).from /\ Normal(a).to <= items[i].to
    <3>1. \A a, b \in 1..n : normal[a].from < normal[b].from => normal[a].to <= normal[b].to
      BY <1>1, <2>1, <2>3
    <3> QED  BY <1>1, <1>14, <2>1, <3>1
  <2>4. MergedOf(items, asked, length)
    BY <1>7, <1>9, <2>2, <2>3 DEF MergedOf, Normal
  <2> QED  BY <2>4 DEF items

-----------------------------------------------------------------------------
(* What is answered *)

LEMMA PositionsAre ==
  ASSUME NEW item \in RangeItems, Length \in Nat, NEW p \in Int
  PROVE  p \in Positions(item) <=>
           /\ 0 <= p /\ p < Length
           /\ NormalizeItem(item, Length).from <= p /\ p <= NormalizeItem(item, Length).to
BY RangesAssumption DEF RangeItems, Positions, NormalizeItem

\* Of ranges within the document none is refused.
LEMMA WithinIsServed ==
  ASSUME NEW asked \in Seq(RangeItems), Length \in Nat, NEW items,
         MergedOf(items, asked, Length), NEW i \in DOMAIN items,
         ~ (0 <= items[i].from /\ items[i].from <= items[i].to /\ items[i].to < Length)
  PROVE  \E a \in DOMAIN asked : ~ Within(asked[a])
<1> DEFINE Normal(a) == NormalizeItem(asked[a], Length)
<1>1. PICK a \in DOMAIN asked, b \in DOMAIN asked :
        /\ items[i] = [from |-> Normal(a).from, to |-> Normal(b).to]
        /\ Normal(a).from <= Normal(b).from
  BY DEF MergedOf
<1>2. Normal(a) \in Ranges /\ Normal(b) \in Ranges
  BY ItemIsNormalized
<1>3. Normal(a).from \in Int /\ Normal(b).from \in Int /\ Normal(b).to \in Int
  BY <1>2 DEF Ranges
<1>4. \A c \in DOMAIN asked :
         Within(asked[c]) => 0 <= Normal(c).from /\ Normal(c).from <= Normal(c).to /\ Normal(c).to < Length
  BY DEF Within
<1> HIDE DEF Normal
<1> QED  BY <1>1, <1>3, <1>4

\* Which positions were asked for, and which are in the answer.
Wanted(asked) == UNION {Positions(asked[i]) : i \in DOMAIN asked}
Served(parts) == UNION {parts[i].from .. parts[i].to : i \in DOMAIN parts}

\* The parts of an answer are those that were asked for, when none is refused.
LEMMA PartsAreServed ==
  ASSUME NEW asked \in Seq(RangeItems), Length \in Nat, NEW items,
         MergedOf(items, asked, Length), NEW parts,
         DOMAIN parts = DOMAIN items,
         \A i \in DOMAIN items : /\ parts[i].from = items[i].from /\ parts[i].to = items[i].to
                                 /\ 0 <= items[i].from /\ items[i].from <= items[i].to
                                 /\ items[i].to < Length
  PROVE  /\ \A i, j \in DOMAIN parts : i < j => parts[i].from < parts[j].from
         /\ Served(parts) \subseteq Wanted(asked)
         /\ EndsInOrder(asked) => Served(parts) = Wanted(asked)
<1> DEFINE Normal(a) == NormalizeItem(asked[a], Length)
<1>1. \A i \in DOMAIN items : items[i].from \in Int /\ items[i].to \in Int
  BY DEF MergedOf, Ranges
<1>2. \A i, j \in DOMAIN parts : i < j => parts[i].from < parts[j].from
  <2>1. \A i, j \in DOMAIN items : i < j => Behind(items[j], items[i])
    BY DEF MergedOf
  <2> QED  BY <1>1, <2>1 DEF Behind
<1>3. \A a \in DOMAIN asked : Normal(a).from \in Int /\ Normal(a).to \in Int
  <2>1. \A a \in DOMAIN asked : asked[a] \in RangeItems
    OBVIOUS
  <2>2. \A a \in DOMAIN asked : Normal(a) \in Ranges
    BY <2>1, ItemIsNormalized
  <2> QED  BY <2>2 DEF Ranges
<1>4. \A a \in DOMAIN asked, p \in Int :
        p \in Positions(asked[a]) <=> 0 <= p /\ p < Length /\ Normal(a).from <= p /\ p <= Normal(a).to
  BY PositionsAre
<1>5. ASSUME NEW p \in Served(parts)  PROVE p \in Wanted(asked)
  <2>1. PICK i \in DOMAIN items : p \in items[i].from .. items[i].to
    BY DEF Served
  <2>2. PICK a \in DOMAIN asked, b \in DOMAIN asked :
          /\ items[i] = [from |-> Normal(a).from, to |-> Normal(b).to]
          /\ Normal(a) = Normal(b) \/ Normal(b).from <= Normal(a).to + 1
    BY DEF MergedOf
  <2>3. p \in Int /\ 0 <= p /\ p < Length /\ Normal(a).from <= p /\ p <= Normal(b).to
    BY <1>1, <2>1, <2>2
  <2> HIDE DEF Normal
  <2>4. \/ Normal(a).from <= p /\ p <= Normal(a).to
        \/ Normal(b).from <= p /\ p <= Normal(b).to
    BY <1>3, <2>2, <2>3
  <2>5. p \in Positions(asked[a]) \/ p \in Positions(asked[b])
    BY <1>4, <2>3, <2>4
  <2> QED  BY <2>5 DEF Wanted
<1>6. ASSUME EndsInOrder(asked), NEW p \in Wanted(asked)  PROVE p \in Served(parts)
  <2>1. PICK a \in DOMAIN asked : p \in Positions(asked[a])
    BY DEF Wanted
  <2>2. p \in Int
    BY <2>1 DEF Positions
  <2>3. Normal(a).from <= p /\ p <= Normal(a).to
    BY <1>4, <2>1, <2>2
  <2>4. \A c, d \in DOMAIN asked : Normal(c).from < Normal(d).from => Normal(c).to <= Normal(d).to
    BY <1>6 DEF EndsInOrder
  <2>5. PICK i \in DOMAIN items : items[i].from <= Normal(a).from /\ Normal(a).to <= items[i].to
    BY <2>4 DEF MergedOf
  <2> HIDE DEF Normal
  <2>6. p \in parts[i].from .. parts[i].to
    BY <1>1, <1>3, <2>2, <2>3, <2>5
  <2> QED  BY <2>6 DEF Served
<1> QED  BY <1>2, <1>5, <1>6

-----------------------------------------------------------------------------
(* A reader's request *)

PutStages == {"idle", "writing", "dispose", "abort", "tag", "tag aborted", "update", "done"}

Statuses == {"OK", "NotModified", "PreconditionFailed", "PartialContent",
             "RequestedRangeNotSatisfiable", "exception"}

GetRecords ==
  [pc : {"validate", "normalize", "check", "headers", "open"}, method : {"GET", "HEAD"},
   asked : Seq(RangeItems), condition : {"none", "If-Match", "If-None-Match"},
   began : Nat \cup {Nothing}, items : Seq(Ranges), tag : Nat \cup {Nothing},
   parts : Seq([from : Int, to : Int, body : Bodies, length : Nat])]

\* What a request is at, and that it began before now; nothing is sent before the
\* document is open, and only who asked for ranges normalizes them.
GetInvType ==
  /\ data \in Bodies /\ written \in [Bodies -> Nat] /\ etag \in Nat
  /\ put \in [Writer -> PutStages]
  /\ get \in [Reader -> GetRecords \cup {Idle}]
  /\ cache \in [Reader -> [tag : Nat, body : Bodies, length : Nat] \cup {Nothing}]
  /\ DOMAIN answer = Reader
  /\ \A r \in Reader :
       /\ get[r] # Idle =>
            /\ get[r].began # Nothing => get[r].began <= etag
            /\ get[r].pc \in {"normalize", "check"} => get[r].asked # <<>>
            /\ get[r].pc # "open" => get[r].parts = <<>>
       /\ answer[r] # Nothing =>
            /\ answer[r].status \in Statuses
            /\ answer[r].began \in 0 .. etag /\ answer[r].asked \in Seq(RangeItems)

\* Nobody wrote since the entity tag was this one.
Undisturbed(tag) == tag = etag /\ \A w \in Writer : put[w] \notin Owing

\* The ranges g has yet to open, and the parts it has, are of the document as it is.
UpToDate(g) ==
  LET all == NormalizeRanges(g.asked, Length)
  IN  /\ g.pc = "check" => g.items = all
      /\ g.pc \in {"headers", "open"} =>
           /\ \A i \in DOMAIN all : Satisfiable(all[i], Length)
           /\ Len(all) = Len(g.parts) + Len(g.items)
           /\ \A i \in DOMAIN g.parts :
                /\ g.parts[i] = [from |-> all[i].from, to |-> all[i].to,
                                 body |-> data, length |-> Length]
                /\ 0 <= all[i].from
           /\ \A i \in DOMAIN g.items : g.items[i] = all[Len(g.parts) + i]

\* An answer is one to what was asked, about the document as it is.
IsRight(a) ==
  /\ a.status \in {"RequestedRangeNotSatisfiable", "exception"}
       => \E i \in DOMAIN a.asked : ~ Within(a.asked[i])
  /\ a.status = "PartialContent" /\ a.method = "GET" =>
       /\ \A i \in DOMAIN a.parts : a.parts[i].body = data /\ a.parts[i].length = Length
       /\ \A i, j \in DOMAIN a.parts : i < j => a.parts[i].from < a.parts[j].from
       /\ Served(a.parts) \subseteq Wanted(a.asked)
       /\ EndsInOrder(a.asked) => Served(a.parts) = Wanted(a.asked)

RangesInv ==
  /\ GetInvType
  /\ \A r \in Reader :
       /\ get[r] # Idle /\ get[r].asked # <<>> /\ Undisturbed(get[r].began) => UpToDate(get[r])
       /\ answer[r] # Nothing /\ answer[r].asked # <<>> /\ Undisturbed(answer[r].began)
            => IsRight(answer[r])

LEMMA RangesInvInit == Init => RangesInv
<1> SUFFICES ASSUME Init  PROVE RangesInv
  OBVIOUS
<1>1. data \in Bodies /\ written \in [Bodies -> Nat]
  BY SizeAssumption DEF Init, Bodies
<1>2. GetInvType
  BY <1>1 DEF Init, GetInvType, PutStages
<1> QED  BY <1>2 DEF RangesInv, Init

LEMMA LengthIsNat == GetInvType => Length \in Nat
BY DEF GetInvType, Length

\* A PUT leaves readers alone; whoever began before it, is disturbed.
LEMMA WriterKeepsRangesInv ==
  ASSUME RangesInv, NEW w \in Writer,
         \/ Create(w) \/ Write(w) \/ EndOfBody(w)
         \/ Dispose(w) \/ DisposeTag(w) \/ UpdateETag(w)
  PROVE  RangesInv'
<1>1. cache' = cache /\ get' = get /\ answer' = answer
  BY DEF Create, Write, EndOfBody, Dispose, DisposeTag, UpdateETag, Wrote
<1>2. GetInvType /\ etag \in Nat /\ w \in Bodies /\ put \in [Writer -> PutStages]
  BY DEF RangesInv, GetInvType, Bodies
<1>3. etag' \in {etag, etag + 1}
  BY <1>2 DEF Create, Write, EndOfBody, Dispose, DisposeTag, UpdateETag
<1>4. put' \in [Writer -> PutStages]
  <2>1. CASE Write(w)
    BY <1>2, <2>1 DEF Write
  <2>2. CASE ~ Write(w)
    <3>1. \E pc \in PutStages : put' = [put EXCEPT ![w] = pc]
      BY <2>2 DEF Create, EndOfBody, Dispose, DisposeTag, UpdateETag, Wrote, PutStages
    <3> QED  BY <1>2, <3>1
  <2> QED  BY <2>1, <2>2
<1>5. data' \in Bodies /\ written' \in [Bodies -> Nat]
  <2>1. CASE Write(w)
    <3>1. written \in [Bodies -> Nat] /\ written[w] + 1 \in Nat
      BY <1>2 DEF GetInvType
    <3> QED  BY <1>2, <2>1, <3>1 DEF Write, GetInvType
  <2>2. CASE ~ Write(w)
    BY <1>2, <2>2 DEF GetInvType, Create, EndOfBody, Dispose, DisposeTag, UpdateETag
  <2> QED  BY <2>1, <2>2
<1>6. GetInvType'
  <2>1. \A t \in Int : t <= etag => t <= etag'
    BY <1>2, <1>3
  <2>2. 0 .. etag \subseteq 0 .. etag' /\ etag' \in Nat
    BY <1>2, <1>3
  <2>3. \A r \in Reader : get[r] # Idle /\ get[r].began # Nothing => get[r].began \in Int
    BY <1>2 DEF GetInvType, GetRecords
  <2> QED  BY <1>1, <1>2, <1>4, <1>5, <2>1, <2>2, <2>3 DEF GetInvType
<1>7. \A t \in Nat : t <= etag => t # etag' \/ \E v \in Writer : put'[v] \in Owing
  <2>1. CASE Create(w) \/ Write(w) \/ EndOfBody(w) \/ Dispose(w)
    <3>1. put'[w] \in Owing
      BY <1>2, <2>1 DEF Create, Write, EndOfBody, Dispose, Wrote, Owing
    <3> QED  BY <3>1
  <2>2. CASE DisposeTag(w) \/ UpdateETag(w)
    <3>1. etag' = etag + 1
      BY <2>2 DEF DisposeTag, UpdateETag
    <3> QED  BY <1>2, <3>1
  <2> QED  BY <2>1, <2>2
<1>8. \A r \in Reader :
         get[r] # Idle => get[r].began = Nothing \/ (get[r].began \in Nat /\ get[r].began <= etag)
  BY <1>2 DEF GetInvType, GetRecords
<1>9. \A r \in Reader : answer[r] # Nothing => answer[r].began \in Nat /\ answer[r].began <= etag
  BY <1>2 DEF GetInvType
<1>10. Nothing # etag'
  BY <1>2, <1>3, RangesAssumption
<1>11. \A r \in Reader : get'[r] # Idle => ~ Undisturbed(get[r].began)'
  BY <1>1, <1>7, <1>8, <1>10 DEF Undisturbed
<1>12. \A r \in Reader : answer'[r] # Nothing => ~ Undisturbed(answer[r].began)'
  BY <1>1, <1>7, <1>9 DEF Undisturbed
<1> QED  BY <1>6, <1>11, <1>12 DEF RangesInv

LEMMA UpToDateStays ==
  ASSUME NEW r \in Reader, NEW g, get'[r] = g, UNCHANGED <<data, written>>, UpToDate(g)
  PROVE  UpToDate(get[r])'
<1>1. NormalizeRanges(get[r].asked, Length)' = NormalizeRanges(g.asked, Length)
  BY DEF Length
<1>2. UpToDate(g)
  OBVIOUS
<1> QED  BY <1>1, <1>2 DEF UpToDate, Length

LEMMA RightStays ==
  ASSUME NEW r \in Reader, NEW a, answer'[r] = a, UNCHANGED <<data, written>>, IsRight(a)
  PROVE  IsRight(answer[r])'
BY DEF IsRight, Wanted, Served, Positions, Within, EndsInOrder, Length

\* A reader leaves the document alone, so that it is enough to look at his request ...
LEMMA ReaderGoesOn ==
  ASSUME RangesInv, NEW r \in Reader, NEW g, Step(r, g), UNCHANGED answer,
         cache' = cache, g \in GetRecords,
         g.began # Nothing => g.began <= etag,
         g.pc \in {"normalize", "check"} => g.asked # <<>>,
         g.pc # "open" => g.parts = <<>>,
         g.asked # <<>> /\ Undisturbed(g.began) => UpToDate(g)
  PROVE  RangesInv'
<1>1. UNCHANGED <<data, written, etag, put, cache, answer>> /\ get' = [get EXCEPT ![r] = g]
  BY DEF Step
<1>2. GetInvType'
  BY <1>1 DEF RangesInv, GetInvType
<1>3. get'[r] = g /\ \A s \in Reader \ {r} : get'[s] = get[s]
  BY <1>1 DEF RangesInv, GetInvType
<1>4. ASSUME NEW s \in Reader
      PROVE  /\ get'[s] # Idle /\ get'[s].asked # <<>> /\ Undisturbed(get[s].began)' => UpToDate(get[s])'
             /\ answer'[s] # Nothing /\ answer'[s].asked # <<>> /\ Undisturbed(answer[s].began)'
                  => IsRight(answer[s])'
  <2>1. answer[s] # Nothing /\ answer[s].asked # <<>> /\ Undisturbed(answer[s].began)
          => IsRight(answer[s])
    BY DEF RangesInv
  <2>2. answer'[s] # Nothing /\ answer'[s].asked # <<>> /\ Undisturbed(answer[s].began)'
          => IsRight(answer[s])'
    BY <1>1, <2>1, RightStays DEF Undisturbed
  <2>3. get[s] # Idle /\ get[s].asked # <<>> /\ Undisturbed(get[s].began) => UpToDate(get[s])
    BY DEF RangesInv
  <2>4. CASE s # r
    BY <1>1, <1>3, <2>2, <2>3, <2>4, UpToDateStays DEF Undisturbed
  <2>5. CASE s = r
    BY <1>1, <1>3, <2>2, <2>5, UpToDateStays DEF Undisturbed
  <2> QED  BY <2>4, <2>5
<1> QED  BY <1>2, <1>4 DEF RangesInv

\* ... or at the answer that ends it.
LEMMA ReaderIsAnswered ==
  ASSUME RangesInv, NEW r \in Reader, get[r] # Idle, NEW status \in Statuses,
         Answered(r, status),
         cache' \in [Reader -> [tag : Nat, body : Bodies, length : Nat] \cup {Nothing}],
         get[r].asked # <<>> /\ Undisturbed(get[r].began)
           => IsRight([status |-> status, method |-> get[r].method, began |-> get[r].began,
                       asked |-> get[r].asked, parts |-> get[r].parts])
  PROVE  RangesInv'
<1> DEFINE a == IF get[r].began = Nothing THEN Nothing
                ELSE [status |-> status, method |-> get[r].method, began |-> get[r].began,
                      asked |-> get[r].asked, parts |-> get[r].parts]
<1>1. /\ UNCHANGED <<data, written, etag, put>> /\ get' = [get EXCEPT ![r] = Idle]
      /\ answer' = [answer EXCEPT ![r] = a]
  BY DEF Step, Answered
<1>2. /\ get[r].asked \in Seq(RangeItems) /\ get[r].began \in Nat \cup {Nothing}
      /\ get[r].began # Nothing => get[r].began <= etag
      /\ etag \in Nat
  BY DEF RangesInv, GetInvType, GetRecords
<1>3. a # Nothing => /\ a.status \in Statuses /\ a.began \in 0 .. etag /\ a.asked \in Seq(RangeItems)
                     /\ a.asked # <<>> /\ Undisturbed(a.began) => IsRight(a)
  <2>1. CASE get[r].began = Nothing
    BY <2>1
  <2>2. CASE get[r].began # Nothing
    <3>1. a = [status |-> status, method |-> get[r].method, began |-> get[r].began,
               asked |-> get[r].asked, parts |-> get[r].parts]
      BY <2>2
    <3>2. a.status = status /\ a.began = get[r].began /\ a.asked = get[r].asked
      BY <3>1
    <3>3. a.began \in 0 .. etag
      BY <1>2, <2>2, <3>2
    <3>4. a.asked # <<>> /\ Undisturbed(a.began) => IsRight(a)
      BY <3>1, <3>2
    <3> QED  BY <1>2, <3>2, <3>3, <3>4
  <2> QED  BY <2>1, <2>2
<1> HIDE DEF a
<1>4. /\ get'[r] = Idle /\ \A s \in Reader \ {r} : get'[s] = get[s]
      /\ answer'[r] = a /\ \A s \in Reader \ {r} : answer'[s] = answer[s]
  BY <1>1 DEF RangesInv, GetInvType
<1>5. GetInvType'
  BY <1>1, <1>3, <1>4 DEF RangesInv, GetInvType
<1>6. ASSUME NEW s \in Reader
      PROVE  /\ get'[s] # Idle /\ get'[s].asked # <<>> /\ Undisturbed(get[s].began)' => UpToDate(get[s])'
             /\ answer'[s] # Nothing /\ answer'[s].asked # <<>> /\ Undisturbed(answer[s].began)'
                  => IsRight(answer[s])'
  <2>1. CASE s # r
    <3>1. /\ get[s] # Idle /\ get[s].asked # <<>> /\ Undisturbed(get[s].began) => UpToDate(get[s])
          /\ answer[s] # Nothing /\ answer[s].asked # <<>> /\ Undisturbed(answer[s].began)
               => IsRight(answer[s])
      BY DEF RangesInv
    <3>2. get'[s] # Idle /\ get'[s].asked # <<>> /\ Undisturbed(get[s].began)' => UpToDate(get[s])'
      BY <1>1, <1>4, <2>1, <3>1, UpToDateStays DEF Undisturbed
    <3>3. answer'[s] # Nothing /\ answer'[s].asked # <<>> /\ Undisturbed(answer[s].began)'
            => IsRight(answer[s])'
      BY <1>1, <1>4, <2>1, <3>1, RightStays DEF Undisturbed
    <3> QED  BY <3>2, <3>3
  <2>2. CASE s = r
    BY <1>1, <1>3, <1>4, <2>2, RightStays DEF Undisturbed
  <2> QED  BY <2>1, <2>2
<1> QED  BY <1>5, <1>6 DEF RangesInv

LEMMA BeginKeepsRangesInv ==
  ASSUME RangesInv, NEW r \in Reader, NEW method \in {"GET", "HEAD"},
         NEW asked \in RangeLists \cup LoneRangeLists,
         NEW condition \in {"none", "If-Match", "If-None-Match"},
         Begin(r, method, asked, condition)
  PROVE  RangesInv'
<1> DEFINE g == [pc |-> "validate", method |-> method, asked |-> asked, condition |-> condition,
                 began |-> IF Quiet THEN etag ELSE Nothing,
                 items |-> <<>>, tag |-> Nothing, parts |-> <<>>]
<1>1. /\ UNCHANGED <<data, written, etag, put, cache>>
      /\ get' = [get EXCEPT ![r] = g] /\ answer' = [answer EXCEPT ![r] = Nothing]
  BY DEF Begin, Step
<1>2. GetInvType /\ etag \in Nat
  BY DEF RangesInv, GetInvType
<1>3. asked \in Seq(RangeItems)
  BY RangesAssumption DEF RangeItems
<1>4. /\ g \in GetRecords /\ g.pc = "validate" /\ g.parts = <<>>
      /\ g.began # Nothing => g.began <= etag
  BY <1>2, <1>3 DEF GetRecords
<1> HIDE DEF g
<1>5. /\ get'[r] = g /\ \A s \in Reader \ {r} : get'[s] = get[s]
      /\ answer'[r] = Nothing /\ \A s \in Reader \ {r} : answer'[s] = answer[s]
  BY <1>1, <1>2 DEF GetInvType
<1>6. GetInvType'
  BY <1>1, <1>2, <1>4, <1>5 DEF GetInvType
<1>7. ASSUME NEW s \in Reader
      PROVE  /\ get'[s] # Idle /\ get'[s].asked # <<>> /\ Undisturbed(get[s].began)' => UpToDate(get[s])'
             /\ answer'[s] # Nothing /\ answer'[s].asked # <<>> /\ Undisturbed(answer[s].began)'
                  => IsRight(answer[s])'
  <2>1. CASE s # r
    <3>1. /\ get[s] # Idle /\ get[s].asked # <<>> /\ Undisturbed(get[s].began) => UpToDate(get[s])
          /\ answer[s] # Nothing /\ answer[s].asked # <<>> /\ Undisturbed(answer[s].began)
               => IsRight(answer[s])
      BY DEF RangesInv
    <3> QED  BY <1>1, <1>5, <2>1, <3>1, UpToDateStays, RightStays DEF Undisturbed
  <2>2. CASE s = r
    <3>1. UpToDate(g)
      BY <1>4 DEF UpToDate
    <3> QED  BY <1>1, <1>5, <2>2, <3>1, UpToDateStays
  <2> QED  BY <2>1, <2>2
<1> QED  BY <1>6, <1>7 DEF RangesInv

LEMMA ValidateKeepsRangesInv ==
  ASSUME RangesInv, NEW r \in Reader, ValidateAsync(r)
  PROVE  RangesInv'
<1>1. get[r] \in GetRecords /\ get[r] # Idle /\ get[r].pc = "validate"
  BY DEF RangesInv, GetInvType, ValidateAsync, Idle
<1>2. CASE Fails(r)
  <2>1. PICK status \in {"PreconditionFailed", "NotModified"} : Answer(r, status)
    BY <1>2 DEF ValidateAsync
  <2> DEFINE a == [status |-> status, method |-> get[r].method, began |-> get[r].began,
                   asked |-> get[r].asked, parts |-> get[r].parts]
  <2>2. IsRight(a)
    BY DEF IsRight
  <2> HIDE DEF a
  <2>3. Answered(r, status) /\ cache' = cache /\ status \in Statuses
    BY <2>1 DEF Answer, Statuses
  <2> QED  BY <1>1, <2>2, <2>3, ReaderIsAnswered DEF a, RangesInv, GetInvType
<1>3. CASE ~ Fails(r)
  <2> DEFINE g == [get[r] EXCEPT !.pc = IF get[r].asked = <<>> THEN "headers" ELSE "normalize"]
  <2>1. Step(r, g) /\ UNCHANGED <<answer, cache>>
    BY <1>3 DEF ValidateAsync
  <2>2. /\ get[r].parts = <<>>
        /\ get[r].began # Nothing => get[r].began <= etag
    BY <1>1 DEF RangesInv, GetInvType
  <2>3. /\ g \in GetRecords /\ g.began = get[r].began /\ g.parts = get[r].parts
        /\ g.asked = get[r].asked
        /\ g.pc = IF get[r].asked = <<>> THEN "headers" ELSE "normalize"
    BY <1>1 DEF GetRecords
  <2> HIDE DEF g
  <2>4. g.asked # <<>> => UpToDate(g)
    BY <2>3 DEF UpToDate
  <2> QED  BY <2>1, <2>2, <2>3, <2>4, ReaderGoesOn
<1> QED  BY <1>2, <1>3

LEMMA NormalizeKeepsRangesInv ==
  ASSUME RangesInv, NEW r \in Reader, Normalize(r)
  PROVE  RangesInv'
<1> DEFINE all == NormalizeRanges(get[r].asked, Length)
           g == [get[r] EXCEPT !.pc = "check", !.items = all]
<1>1. get[r] \in GetRecords /\ get[r] # Idle /\ get[r].pc = "normalize"
  BY DEF RangesInv, GetInvType, Normalize, Idle
<1>2. /\ get[r].parts = <<>> /\ get[r].asked # <<>>
      /\ get[r].began # Nothing => get[r].began <= etag
  BY <1>1 DEF RangesInv, GetInvType
<1>3. Step(r, g) /\ UNCHANGED <<answer, cache>>
  BY DEF Normalize
<1>4. get[r].asked \in Seq(RangeItems) /\ Length \in Nat
  BY <1>1, LengthIsNat DEF GetRecords, RangesInv
<1>5. all \in Seq(Ranges)
  BY <1>2, <1>4, NormalizeRangesMerges DEF MergedOf
<1> HIDE DEF all
<1>6. /\ g \in GetRecords /\ g.began = get[r].began /\ g.parts = get[r].parts
      /\ g.asked = get[r].asked /\ g.pc = "check" /\ g.items = all
  BY <1>1, <1>5 DEF GetRecords
<1> HIDE DEF g
<1>7. UpToDate(g)
  BY <1>6 DEF UpToDate, all
<1> QED  BY <1>2, <1>3, <1>6, <1>7, ReaderGoesOn

LEMMA CheckKeepsRangesInv ==
  ASSUME RangesInv, NEW r \in Reader, CheckRanges(r)
  PROVE  RangesInv'
<1>1. get[r] \in GetRecords /\ get[r] # Idle /\ get[r].pc = "check"
  BY DEF RangesInv, GetInvType, CheckRanges, Idle
<1>2. /\ get[r].parts = <<>> /\ get[r].asked # <<>>
      /\ get[r].began # Nothing => get[r].began <= etag
  BY <1>1 DEF RangesInv, GetInvType
<1>3. get[r].asked \in Seq(RangeItems) /\ Length \in Nat
  BY <1>1, LengthIsNat DEF GetRecords, RangesInv
<1> DEFINE all == NormalizeRanges(get[r].asked, Length)
<1>4. Undisturbed(get[r].began) => get[r].items = all
  BY <1>1, <1>2 DEF RangesInv, UpToDate
<1>5. MergedOf(all, get[r].asked, Length)
  BY <1>2, <1>3, NormalizeRangesMerges
<1>6. all \in Seq(Ranges)
  BY <1>5 DEF MergedOf
<1> HIDE DEF all
<1>7. CASE \E i \in DOMAIN get[r].items : ~ Satisfiable(get[r].items[i], Length)
  <2> DEFINE status == "RequestedRangeNotSatisfiable"
             a == [status |-> status, method |-> get[r].method, began |-> get[r].began,
                   asked |-> get[r].asked, parts |-> get[r].parts]
  <2>1. Answered(r, status) /\ cache' = cache /\ status \in Statuses
    BY <1>7 DEF CheckRanges, Answer, Statuses
  <2>2. ASSUME Undisturbed(get[r].began)
        PROVE  \E i \in DOMAIN get[r].asked : ~ Within(get[r].asked[i])
    <3>1. PICK i \in DOMAIN all : ~ Satisfiable(all[i], Length)
      BY <1>4, <1>7, <2>2
    <3>2. all[i].from \in Int /\ all[i].to \in Int
      <4>1. all[i] \in Ranges
        BY <1>6
      <4> QED  BY <4>1 DEF Ranges
    <3>3. ~ (0 <= all[i].from /\ all[i].from <= all[i].to /\ all[i].to < Length)
      BY <1>3, <3>1, <3>2 DEF Satisfiable
    <3> QED  BY <1>3, <1>5, <3>3, WithinIsServed
  <2>3. Undisturbed(get[r].began) => IsRight(a)
    BY <2>2 DEF IsRight
  <2> HIDE DEF a
  <2> QED  BY <1>1, <2>1, <2>3, ReaderIsAnswered DEF a, RangesInv, GetInvType
<1>8. CASE \A i \in DOMAIN get[r].items : Satisfiable(get[r].items[i], Length)
  <2> DEFINE g == [get[r] EXCEPT !.pc = "headers"]
  <2>1. Step(r, g) /\ UNCHANGED <<answer, cache>>
    BY <1>8 DEF CheckRanges
  <2>2. /\ g \in GetRecords /\ g.began = get[r].began /\ g.parts = get[r].parts
        /\ g.asked = get[r].asked /\ g.pc = "headers" /\ g.items = get[r].items
    BY <1>1 DEF GetRecords
  <2> HIDE DEF g
  <2>3. ASSUME Undisturbed(g.began)  PROVE UpToDate(g)
    <3>1. /\ g.items = all /\ g.parts = <<>>
          /\ \A i \in DOMAIN all : Satisfiable(all[i], Length)
      BY <1>2, <1>4, <1>8, <2>2, <2>3
    <3>2. Len(all) = Len(g.parts) + Len(g.items) /\ \A i \in DOMAIN g.items : Len(g.parts) + i = i
      BY <1>6, <3>1
    <3>3. NormalizeRanges(g.asked, Length) = all
      BY <2>2 DEF all
    <3> QED  BY <2>2, <3>1, <3>2, <3>3 DEF UpToDate
  <2> QED  BY <1>2, <2>1, <2>2, <2>3, ReaderGoesOn
<1> QED  BY <1>7, <1>8

LEMMA TellKeepsRangesInv ==
  ASSUME RangesInv, NEW r \in Reader, TellETag(r)
  PROVE  RangesInv'
<1>1. get[r] \in GetRecords /\ get[r] # Idle /\ get[r].pc = "headers"
  BY DEF RangesInv, GetInvType, TellETag, Idle
<1>2. /\ get[r].parts = <<>> /\ etag \in Nat
      /\ get[r].began # Nothing => get[r].began <= etag
  BY <1>1 DEF RangesInv, GetInvType
<1>3. CASE get[r].method = "HEAD"
  <2> DEFINE status == IF get[r].asked = <<>> THEN "OK" ELSE "PartialContent"
             a == [status |-> status, method |-> get[r].method, began |-> get[r].began,
                   asked |-> get[r].asked, parts |-> get[r].parts]
  <2>1. Answered(r, status) /\ cache' = cache /\ status \in Statuses
    BY <1>3 DEF TellETag, Answer, Statuses
  <2>2. IsRight(a)
    BY <1>3 DEF IsRight
  <2> HIDE DEF a, status
  <2> QED  BY <1>1, <2>1, <2>2, ReaderIsAnswered DEF a, RangesInv, GetInvType
<1>4. CASE get[r].method # "HEAD"
  <2> DEFINE g == [get[r] EXCEPT !.pc = "open", !.tag = etag]
  <2>1. Step(r, g) /\ UNCHANGED <<answer, cache>>
    BY <1>4 DEF TellETag
  <2>2. /\ g \in GetRecords /\ g.began = get[r].began /\ g.parts = get[r].parts
        /\ g.asked = get[r].asked /\ g.pc = "open" /\ g.items = get[r].items
    BY <1>1, <1>2 DEF GetRecords
  <2> HIDE DEF g
  <2>3. ASSUME g.asked # <<>>, Undisturbed(g.began)  PROVE UpToDate(g)
    <3>1. UpToDate(get[r])
      BY <1>1, <2>2, <2>3 DEF RangesInv
    <3> QED  BY <1>1, <2>2, <3>1 DEF UpToDate
  <2> QED  BY <1>2, <2>1, <2>2, <2>3, ReaderGoesOn
<1> QED  BY <1>3, <1>4

LEMMA OpenDocumentKeepsRangesInv ==
  ASSUME RangesInv, GetInv, NEW r \in Reader, OpenDocument(r)
  PROVE  RangesInv'
<1>1. get[r] \in GetRecords /\ get[r] # Idle /\ get[r].pc = "open" /\ get[r].asked = <<>>
  BY DEF RangesInv, GetInvType, OpenDocument, Idle
<1>2. get[r].tag \in Nat /\ data \in Bodies /\ Length \in Nat
  BY <1>1, LengthIsNat DEF GetInv, TagsArePast, PutType, RangesInv, GetInvType
<1>3. cache \in [Reader -> [tag : Nat, body : Bodies, length : Nat] \cup {Nothing}]
  BY DEF RangesInv, GetInvType
<1>4. /\ cache' \in [Reader -> [tag : Nat, body : Bodies, length : Nat] \cup {Nothing}]
      /\ Answered(r, "OK") /\ "OK" \in Statuses
  BY <1>2, <1>3 DEF OpenDocument, Statuses
<1> QED  BY <1>1, <1>4, ReaderIsAnswered

LEMMA OpenRangeKeepsRangesInv ==
  ASSUME RangesInv, NEW r \in Reader, OpenRange(r)
  PROVE  RangesInv'
<1> DEFINE item == Head(get[r].items)
           part == [from |-> item.from, to |-> item.to, body |-> data, length |-> Length]
           all == NormalizeRanges(get[r].asked, Length)
<1>1. get[r] \in GetRecords /\ get[r] # Idle /\ get[r].pc = "open" /\ get[r].items # <<>>
  BY DEF RangesInv, GetInvType, OpenRange, Idle
<1>2. /\ data \in Bodies /\ Length \in Nat
      /\ get[r].began # Nothing => get[r].began <= etag
  BY <1>1, LengthIsNat DEF RangesInv, GetInvType
<1>3. /\ get[r].asked \in Seq(RangeItems) /\ get[r].items \in Seq(Ranges)
      /\ get[r].parts \in Seq([from : Int, to : Int, body : Bodies, length : Nat])
  BY <1>1 DEF GetRecords
<1>4. ASSUME get[r].asked # <<>>, Undisturbed(get[r].began)
      PROVE  /\ all \in Seq(Ranges) /\ MergedOf(all, get[r].asked, Length)
             /\ \A i \in DOMAIN all : Satisfiable(all[i], Length)
             /\ Len(all) = Len(get[r].parts) + Len(get[r].items)
             /\ \A i \in DOMAIN get[r].parts :
                  /\ get[r].parts[i] = [from |-> all[i].from, to |-> all[i].to,
                                        body |-> data, length |-> Length]
                  /\ 0 <= all[i].from
             /\ \A i \in DOMAIN get[r].items : get[r].items[i] = all[Len(get[r].parts) + i]
  <2>1. UpToDate(get[r])
    BY <1>1, <1>4 DEF RangesInv
  <2>2. MergedOf(all, get[r].asked, Length)
    BY <1>2, <1>3, <1>4, NormalizeRangesMerges
  <2> QED  BY <1>1, <2>1, <2>2 DEF UpToDate, MergedOf
<1>5. item = get[r].items[1] /\ item \in Ranges /\ 1 \in DOMAIN get[r].items
  BY <1>1, <1>3
<1>6. item.from \in Int /\ item.to \in Int
  BY <1>5 DEF Ranges
<1> HIDE DEF item, all
<1>7. CASE item.from < 0
  <2> DEFINE status == "exception"
             a == [status |-> status, method |-> get[r].method, began |-> get[r].began,
                   asked |-> get[r].asked, parts |-> get[r].parts]
  <2>1. Answered(r, status) /\ cache' = cache /\ status \in Statuses
    BY <1>7 DEF OpenRange, Answer, Statuses, item
  <2>2. ASSUME get[r].asked # <<>>, Undisturbed(get[r].began)
        PROVE  \E i \in DOMAIN get[r].asked : ~ Within(get[r].asked[i])
    <3> DEFINE i == Len(get[r].parts) + 1
    <3>1. all[i] = item
      BY <1>4, <1>5, <2>2
    <3>2. i \in DOMAIN all
      <4>1. Len(get[r].parts) \in Nat /\ Len(get[r].items) \in Nat \ {0}
        BY <1>1, <1>3
      <4>2. DOMAIN all = 1..Len(all)
        BY <1>4, <2>2
      <4>3. Len(all) = Len(get[r].parts) + Len(get[r].items)
        BY <1>4, <2>2
      <4>4. \A m \in Nat, n \in Nat \ {0} : m + 1 \in 1..(m + n)
        OBVIOUS
      <4> QED  BY <4>1, <4>2, <4>3, <4>4
    <3>3. ~ (0 <= all[i].from /\ all[i].from <= all[i].to /\ all[i].to < Length)
      BY <1>6, <1>7, <3>1
    <3> QED  BY <1>2, <1>3, <1>4, <2>2, <3>2, <3>3, WithinIsServed
  <2>3. get[r].asked # <<>> /\ Undisturbed(get[r].began) => IsRight(a)
    BY <2>2 DEF IsRight
  <2> HIDE DEF a
  <2> QED  BY <1>1, <2>1, <2>3, ReaderIsAnswered DEF a, RangesInv, GetInvType
<1>8. CASE ~ item.from < 0
  <2> DEFINE g == [get[r] EXCEPT !.items = Tail(get[r].items), !.parts = Append(get[r].parts, part)]
             old == get[r]
  <2>1. Step(r, g) /\ UNCHANGED <<answer, cache>>
    BY <1>8 DEF OpenRange, item
  <2>2. /\ Tail(old.items) \in Seq(Ranges)
        /\ Append(old.parts, part) \in Seq([from : Int, to : Int, body : Bodies, length : Nat])
    BY <1>1, <1>2, <1>3, <1>6
  <2>3. /\ Len(Tail(old.items)) = Len(old.items) - 1
        /\ DOMAIN Tail(old.items) = 1..(Len(old.items) - 1)
        /\ \A i \in 1..(Len(old.items) - 1) : Tail(old.items)[i] = old.items[i + 1]
        /\ Len(Append(old.parts, part)) = Len(old.parts) + 1
        /\ DOMAIN Append(old.parts, part) = 1..(Len(old.parts) + 1)
        /\ \A i \in 1..Len(old.parts) : Append(old.parts, part)[i] = old.parts[i]
        /\ Append(old.parts, part)[Len(old.parts) + 1] = part
    BY <1>1, <1>3
  <2>4. /\ g \in GetRecords /\ g.began = old.began /\ g.asked = old.asked /\ g.pc = "open"
        /\ g.items = Tail(old.items) /\ g.parts = Append(old.parts, part)
    BY <1>1, <2>2 DEF GetRecords
  <2> HIDE DEF g
  <2> DEFINE k == Len(old.parts)
             l == Len(old.items)
  <2>6. k \in Nat /\ l \in Nat /\ DOMAIN old.parts = 1..k /\ DOMAIN old.items = 1..l
    BY <1>3
  <2>7. /\ Len(g.items) = l - 1 /\ DOMAIN g.items = 1..(l - 1)
        /\ \A i \in 1..(l - 1) : g.items[i] = old.items[i + 1]
        /\ Len(g.parts) = k + 1 /\ DOMAIN g.parts = 1..(k + 1)
        /\ \A i \in 1..k : g.parts[i] = old.parts[i]
        /\ g.parts[k + 1] = part
    BY <2>3, <2>4
  <2>5. ASSUME g.asked # <<>>, Undisturbed(g.began)  PROVE UpToDate(g)
    <3>1. /\ all \in Seq(Ranges)
          /\ \A i \in DOMAIN all : Satisfiable(all[i], Length)
          /\ Len(all) = Len(old.parts) + Len(old.items)
          /\ \A i \in DOMAIN old.parts :
               /\ old.parts[i] = [from |-> all[i].from, to |-> all[i].to,
                                  body |-> data, length |-> Length]
               /\ 0 <= all[i].from
          /\ \A i \in DOMAIN old.items : old.items[i] = all[Len(old.parts) + i]
      BY <1>4, <2>4, <2>5
    <3>2. NormalizeRanges(g.asked, Length) = all
      BY <2>4 DEF all
    <3>3. all[k + 1] = item
      BY <1>5, <3>1
    <3>4. Len(all) = k + l /\ \A i \in 1..l : old.items[i] = all[k + i]
      BY <2>6, <3>1
    <3>5. \A i \in 1..k :
             /\ old.parts[i] = [from |-> all[i].from, to |-> all[i].to,
                                body |-> data, length |-> Length]
             /\ 0 <= all[i].from
      BY <2>6, <3>1
    <3> HIDE DEF k, l, part
    <3>6. Len(all) = Len(g.parts) + Len(g.items)
      BY <2>6, <2>7, <3>4
    <3>7. \A i \in DOMAIN g.parts :
             /\ g.parts[i] = [from |-> all[i].from, to |-> all[i].to, body |-> data, length |-> Length]
             /\ 0 <= all[i].from
      <4> SUFFICES ASSUME NEW i \in 1..(k + 1)
                   PROVE  /\ g.parts[i] = [from |-> all[i].from, to |-> all[i].to,
                                           body |-> data, length |-> Length]
                          /\ 0 <= all[i].from
        BY <2>7
      <4>1. CASE i \in 1..k
        BY <2>7, <3>5, <4>1
      <4>2. CASE i = k + 1
        BY <1>6, <1>8, <2>7, <3>3, <4>2 DEF part
      <4> QED  BY <2>6, <4>1, <4>2
    <3>8. \A i \in DOMAIN g.items : g.items[i] = all[Len(g.parts) + i]
      <4> SUFFICES ASSUME NEW i \in 1..(l - 1)
                   PROVE  g.items[i] = all[Len(g.parts) + i]
        BY <2>7
      <4>1. i + 1 \in 1..l /\ (k + 1) + i = k + (i + 1)
        BY <2>6
      <4> QED  BY <2>7, <3>4, <4>1
    <3> QED  BY <2>4, <3>1, <3>2, <3>6, <3>7, <3>8 DEF UpToDate
  <2> QED  BY <1>2, <2>1, <2>4, <2>5, ReaderGoesOn
<1> QED  BY <1>7, <1>8

LEMMA SendKeepsRangesInv ==
  ASSUME RangesInv, NEW r \in Reader, SendRanges(r)
  PROVE  RangesInv'
<1> DEFINE all == NormalizeRanges(get[r].asked, Length)
           fine == \A i \in DOMAIN get[r].parts : HasContentRange(get[r].parts[i])
           status == IF fine THEN "PartialContent" ELSE "exception"
           a == [status |-> status, method |-> get[r].method, began |-> get[r].began,
                 asked |-> get[r].asked, parts |-> get[r].parts]
<1>1. /\ get[r] \in GetRecords /\ get[r] # Idle /\ get[r].pc = "open"
      /\ get[r].asked # <<>> /\ get[r].items = <<>>
  BY DEF RangesInv, GetInvType, SendRanges, Idle
<1>2. /\ get[r].asked \in Seq(RangeItems) /\ Length \in Nat
      /\ get[r].parts \in Seq([from : Int, to : Int, body : Bodies, length : Nat])
  BY <1>1, LengthIsNat DEF GetRecords, RangesInv
<1>3. Answered(r, status) /\ cache' = cache /\ status \in Statuses
  BY DEF SendRanges, Answer, Statuses
<1>4. MergedOf(all, get[r].asked, Length)
  BY <1>1, <1>2, NormalizeRangesMerges
<1>5. all \in Seq(Ranges) /\ \A i \in DOMAIN all : all[i].from \in Int /\ all[i].to \in Int
  <2>1. all \in Seq(Ranges)
    BY <1>4 DEF MergedOf
  <2>2. \A i \in DOMAIN all : all[i] \in Ranges
    BY <2>1
  <2> QED  BY <2>1, <2>2 DEF Ranges
<1>6. ASSUME Undisturbed(get[r].began)  PROVE IsRight(a)
  <2> DEFINE parts == get[r].parts
             asked == get[r].asked
  <2>1. UpToDate(get[r])
    BY <1>1, <1>6 DEF RangesInv
  <2>2. Len(get[r].items) = 0 /\ Len(parts) \in Nat /\ DOMAIN parts = 1..Len(parts)
    BY <1>1, <1>2
  <2>3. /\ \A i \in DOMAIN all : Satisfiable(all[i], Length)
        /\ Len(all) = Len(parts) + Len(get[r].items)
        /\ \A i \in DOMAIN parts :
             /\ parts[i] = [from |-> all[i].from, to |-> all[i].to, body |-> data, length |-> Length]
             /\ 0 <= all[i].from
    BY <1>1, <2>1 DEF UpToDate
  <2>4. DOMAIN all = DOMAIN parts
    BY <1>5, <2>2, <2>3
  <2>5. /\ a.asked = asked /\ a.parts = parts /\ a.status = status
        /\ fine <=> \A i \in DOMAIN parts : HasContentRange(parts[i])
        /\ asked \in Seq(RangeItems) /\ MergedOf(all, asked, Length)
    BY <1>2, <1>4
  <2> HIDE DEF all, parts, asked, a, fine
  <2>6. \A i \in DOMAIN all : /\ parts[i].from = all[i].from /\ parts[i].to = all[i].to
                              /\ parts[i].body = data /\ parts[i].length = Length
                              /\ 0 <= all[i].from /\ all[i].to < Length
    BY <2>3, <2>4 DEF Satisfiable
  <2>7. ASSUME ~ fine
        PROVE  \E i \in DOMAIN asked : ~ Within(asked[i])
    <3>1. PICK i \in DOMAIN all : ~ HasContentRange(parts[i])
      BY <2>4, <2>5, <2>7
    <3>2. ~ all[i].from <= all[i].to
      BY <1>2, <1>5, <2>6, <3>1 DEF HasContentRange
    <3> QED  BY <1>2, <2>5, <3>2, WithinIsServed
  <2>8. CASE ~ fine
    BY <2>5, <2>7, <2>8 DEF IsRight
  <2>9. CASE fine
    <3>1. \A i \in DOMAIN all : all[i].from <= all[i].to
      BY <2>4, <2>5, <2>6, <2>9 DEF HasContentRange
    <3>2. /\ \A i, j \in DOMAIN parts : i < j => parts[i].from < parts[j].from
          /\ Served(parts) \subseteq Wanted(asked)
          /\ EndsInOrder(asked) => Served(parts) = Wanted(asked)
      BY <1>2, <2>4, <2>5, <2>6, <3>1, PartsAreServed
    <3> QED  BY <2>4, <2>5, <2>6, <2>9, <3>2 DEF IsRight
  <2> QED  BY <2>8, <2>9
<1> HIDE DEF a, status
<1> QED  BY <1>1, <1>3, <1>6, ReaderIsAnswered DEF a, RangesInv, GetInvType

LEMMA ReaderKeepsRangesInv ==
  ASSUME RangesInv, GetInv, NEW r \in Reader, Read(r)
  PROVE  RangesInv'
BY BeginKeepsRangesInv, ValidateKeepsRangesInv, NormalizeKeepsRangesInv, CheckKeepsRangesInv,
   TellKeepsRangesInv, OpenDocumentKeepsRangesInv, OpenRangeKeepsRangesInv, SendKeepsRangesInv
   DEF Read

LEMMA RangesInvNext == RangesInv /\ GetInv /\ [Next]_vars => RangesInv'
<1> SUFFICES ASSUME RangesInv, GetInv, [Next]_vars  PROVE RangesInv'
  OBVIOUS
<1>1. CASE Next
  BY <1>1, WriterKeepsRangesInv, ReaderKeepsRangesInv DEF Next
<1>2. CASE UNCHANGED vars
  <2>1. UNCHANGED <<data, written, etag, put, get, answer, cache>>
    BY <1>2 DEF vars
  <2>2. GetInvType'
    BY <2>1 DEF RangesInv, GetInvType
  <2>3. ASSUME NEW r \in Reader
        PROVE  /\ get'[r] # Idle /\ get'[r].asked # <<>> /\ Undisturbed(get[r].began)' => UpToDate(get[r])'
               /\ answer'[r] # Nothing /\ answer'[r].asked # <<>> /\ Undisturbed(answer[r].began)'
                    => IsRight(answer[r])'
    <3>1. /\ get[r] # Idle /\ get[r].asked # <<>> /\ Undisturbed(get[r].began) => UpToDate(get[r])
          /\ answer[r] # Nothing /\ answer[r].asked # <<>> /\ Undisturbed(answer[r].began)
               => IsRight(answer[r])
      BY DEF RangesInv
    <3> QED  BY <2>1, <3>1, UpToDateStays, RightStays DEF Undisturbed
  <2> QED  BY <2>2, <2>3 DEF RangesInv
<1> QED  BY <1>1, <1>2

LEMMA InvServesRanges == RangesInv /\ GetInv => RangesAreServed
<1> SUFFICES ASSUME RangesInv, GetInv  PROVE RangesAreServed
  OBVIOUS
<1>1. GetTypeOK
  <2>1. \A r \in Reader : get[r].pc \in {"idle", "validate", "normalize", "check", "headers", "open"}
    BY DEF RangesInv, GetInvType, GetRecords, Idle
  <2>2. \A r \in Reader : cache[r] \in [tag : 0 .. etag, body : Bodies, length : Nat] \cup {Nothing}
    BY DEF RangesInv, GetInvType, GetInv, TagsArePast
  <2>3. \A r \in Reader : answer[r] # Nothing => answer[r].status \in Statuses
    BY DEF RangesInv, GetInvType
  <2>4. /\ data \in Bodies /\ written \in [Bodies -> Nat] /\ etag \in Nat
        /\ put \in [Writer -> PutStages]
    BY DEF RangesInv, GetInvType
  <2> QED  BY <2>1, <2>2, <2>3, <2>4 DEF GetTypeOK, Statuses, PutStages
<1>2. \A r \in Reader :
         answer[r] # Nothing /\ answer[r].asked # <<>> /\ Quiet /\ answer[r].began = etag
           => IsRight(answer[r])
  BY DEF RangesInv, Undisturbed, Quiet, Owing
<1> QED  BY <1>1, <1>2 DEF RangesAreServed, IsRight, Wanted, Served

\* Types; and a GET of ranges of a document that nobody wrote meanwhile is answered with
\* what was asked for, in order, and refused only if a range leaves the document.
THEOREM RangesAreServedHolds == Spec => []RangesAreServed
<1>1. Spec => []GetInv
  BY GetInvInit, GetInvNext, PTL DEF Spec
<1>2. Spec => []RangesInv
  BY <1>1, RangesInvInit, RangesInvNext, PTL DEF Spec
<1> QED
  BY <1>1, <1>2, InvServesRanges, PTL
=============================================================================
