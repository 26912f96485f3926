------------------------- MODULE LockHeadersProofs --------------------------
(***************************************************************************)
(* What the If and the Timeout header of a request come to: the locks a    *)
(* request works under, for every forest of resources, every lock table    *)
(* LockTable can reach and every header; and the bounds of rounding, for   *)
(* every instant and every timeout.                                        *)
(***************************************************************************)
EXTENDS IfHeader, LockTimes, LockTableProofs, WellFoundedInduction

\* What the type invariant says of one lock.
LEMMA HeldLockType ==
  ASSUME TypeOK, NEW t \in Held
  PROVE  /\ t \in Token
         /\ locks[t].path \in Path
         /\ locks[t].recursive \in BOOLEAN
  BY DEF TypeOK, Held, ActiveLock

\* affectingLocks are the locks that cover the resource.
LEMMA AffectingIsCovering ==
  ASSUME TypeOK, NEW p \in Path
  PROVE  AffectingLocks(p) = CoveringLocks(p)
<1>1. ASSUME NEW t \in Held
      PROVE  t \in AffectingLocks(p) <=> p \in Scope(locks[t])
  <2> DEFINE q == locks[t].path
             deep == locks[t].recursive
  <2>1. q \in Path /\ deep \in BOOLEAN
    BY <1>1, HeldLockType
  <2>2. t \in AffectingLocks(p)
          <=> Compare(p, FALSE, q, deep) \in {"Reference", "RightIsParent"}
    BY <1>1 DEF AffectingLocks, Find
  <2>3. Compare(p, FALSE, q, deep) \in {"Reference", "RightIsParent"}
          <=> p = q \/ (deep /\ <<q, p>> \in Ancestor)
    BY <2>1 DEF Compare, IsBaseOf
  <2> QED
    BY <2>2, <2>3 DEF Scope
<1>2. AffectingLocks(p) \subseteq Held
  BY DEF AffectingLocks, Find
<1> QED
  BY <1>1, <1>2 DEF CoveringLocks

\* What a list is judged by is among the locks that cover the resource.
LEMMA FoundIsCovering ==
  ASSUME TypeOK, NEW p \in Path, NEW list
  PROVE  FoundLocks(list, p) \subseteq CoveringLocks(p)
<1>1. FoundLocks(list, p) \subseteq AffectingLocks(p)
  BY DEF FoundLocks, GetLocks, Find
<1> QED
  BY <1>1, AffectingIsCovering

\* A list about the resource itself is judged by all locks that cover it.
LEMMA FoundOnResource ==
  ASSUME TypeOK, NEW p \in Path, NEW list, list.path = p, RequiresStateToken(list)
  PROVE  FoundLocks(list, p) = CoveringLocks(p)
<1>1. ASSUME NEW t \in CoveringLocks(p)
      PROVE  t \in FoundLocks(list, p)
  <2>1. t \in Held /\ p \in Scope(locks[t])
    BY <1>1 DEF CoveringLocks
  <2>2. locks[t].path \in Path /\ locks[t].recursive \in BOOLEAN
    BY <2>1, HeldLockType
  <2>3. Compare(p, FALSE, locks[t].path, locks[t].recursive)
          \in {"Reference", "RightIsParent"}
    BY <2>1, <2>2 DEF Scope, Compare, IsBaseOf
  <2>4. t \in AffectingLocks(p)
    BY <1>1, AffectingIsCovering
  <2> QED
    BY <2>3, <2>4 DEF FoundLocks, GetLocks, Find
<1> QED
  BY <1>1, FoundIsCovering

\* A set of positions of a header that is not empty has a first one.
LEMMA HasFirst ==
  ASSUME NEW positions, positions \subseteq Nat, positions # {}
  PROVE  \E i \in positions : \A k \in positions : i <= k
<1>1. PICK i \in positions : \A k \in positions : <<k, i>> \notin OpToRel(<, Nat)
  BY WFMin, NatLessThanWellFounded, Zenon
<1>2. \A k \in positions : ~ (k < i)
  BY <1>1, Zenon DEF OpToRel
<1>3. \A k \in positions : i <= k
  BY <1>2
<1> QED
  BY <1>3

\* FirstOn finds a list about the same path.
LEMMA FirstOnIsThere ==
  ASSUME NEW header \in Headers, NEW i \in DOMAIN header
  PROVE  /\ FirstOn(header, i) \in DOMAIN header
         /\ header[FirstOn(header, i)].path = header[i].path
<1> DEFINE same == {j \in DOMAIN header : header[j].path = header[i].path}
<1>1. same \subseteq Nat /\ same # {}
  BY HeadersAssumption
<1>2. \E j \in same : \A k \in same : j <= k
  BY <1>1, HasFirst
<1>3. \E j \in DOMAIN header :
        /\ header[j].path = header[i].path
        /\ \A k \in DOMAIN header : header[k].path = header[i].path => j <= k
  BY <1>2
<1> QED
  BY <1>3 DEF FirstOn

-----------------------------------------------------------------------------

\* A request let in without a lock of its own works under locks that cover it.
LEMMA UsedLocksCoverInState ==
  TypeOK => UsedLocksCover
<1> SUFFICES ASSUME TypeOK, NEW header \in Headers, NEW p \in Requested,
                    LockImplicit(header, p) = "use"
             PROVE  /\ UsedLocks(header, p) # {}
                    /\ UsedLocks(header, p) \subseteq CoveringLocks(p)
  BY DEF UsedLocksCover
<1> DEFINE matched == ListsWithToken(header, p)
           first == {i \in matched : \A k \in matched : i <= k}
<1>1. p \in Path
  BY HeadersAssumption
<1>2. matched # {}
  BY DEF LockImplicit, ListsWithToken
<1>3. matched \subseteq DOMAIN header /\ matched \subseteq Nat
  BY HeadersAssumption DEF ListsWithToken, SuccessfulLists, RelevantLists
<1>4. PICK i \in first : TRUE
  BY <1>2, <1>3, HasFirst
<1>5. ASSUME NEW j \in matched, NEW c \in header[j].conditions,
             c.kind = "token", ~ c.not
      PROVE  c.value \in CoveringLocks(p)
  <2>1. IsMatch(header[j], KnownTag(header, j), LockTokens(header, j, p))
    BY <1>5 DEF ListsWithToken, SuccessfulLists
  <2>2. Matches(c, KnownTag(header, j), LockTokens(header, j, p))
    BY <1>5, <2>1 DEF IsMatch
  <2>3. c.not = FALSE
    BY <1>3, <1>5, HeadersAssumption
  <2>4. c.value \in LockTokens(header, j, p)
    BY <1>5, <2>2, <2>3 DEF Matches
  <2> QED
    BY <1>1, <2>4, FoundIsCovering DEF LockTokens
<1>6. UsedLocks(header, p) \subseteq CoveringLocks(p)
  <2> SUFFICES ASSUME NEW t \in UsedLocks(header, p)
               PROVE  t \in CoveringLocks(p)
    OBVIOUS
  <2>1. PICK j \in first : Condition("token", t, FALSE) \in header[j].conditions
    BY DEF UsedLocks
  <2> QED
    BY <1>5, <2>1 DEF Condition
<1>7. UsedLocks(header, p) # {}
  <2>1. PICK c \in header[i].conditions : c.kind = "token" /\ ~ c.not
    BY <1>4 DEF ListsWithToken, RequiresStateToken
  <2>2. c = Condition("token", c.value, FALSE)
    BY <1>3, <1>4, <2>1, HeadersAssumption DEF Condition
  <2>3. c.value \in Token
    BY <1>4, <1>5, <2>1, HeldLockType DEF CoveringLocks
  <2> QED
    BY <1>4, <2>1, <2>2, <2>3 DEF UsedLocks
<1> QED
  BY <1>6, <1>7

\* The token of a lock is found from every list about p or a collection above.
LEMMA OwnTokenIsFound ==
  ASSUME TypeOK, NEW t \in Held, NEW p \in Path, NEW q \in Path,
         p \in Scope(locks[t]), IsBaseOf(q, p),
         NEW list, list.path = q, RequiresStateToken(list)
  PROVE  t \in FoundLocks(list, p)
<1> DEFINE r == locks[t].path
           deep == locks[t].recursive
<1>1. r \in Path /\ deep \in BOOLEAN
  BY HeldLockType
<1>2. t \in AffectingLocks(p)
  BY AffectingIsCovering DEF CoveringLocks
<1>3. /\ p = r \/ (deep /\ <<r, p>> \in Ancestor)
      /\ q = p \/ <<q, p>> \in Ancestor
  BY DEF Scope, IsBaseOf
<1>4. q = r \/ <<q, r>> \in Ancestor \/ <<r, q>> \in Ancestor
  BY <1>1, <1>3, AncestorIsForest
<1>5. Compare(q, q # p, r, deep) \in {"Reference", "LeftIsParent", "RightIsParent"}
  <2>1. CASE q = r
    BY <2>1 DEF Compare
  <2>2. CASE q # r /\ <<q, r>> \in Ancestor
    <3>1. q # p
      BY <1>1, <1>3, <2>2, AncestorIsForest
    <3> QED
      BY <2>2, <3>1 DEF Compare, IsBaseOf
  <2>3. CASE q # r /\ <<r, q>> \in Ancestor
    <3>1. p # r
      BY <1>1, <1>3, <2>3, AncestorIsForest
    <3>2. deep
      BY <1>3, <3>1
    <3> QED
      BY <2>3, <3>2 DEF Compare, IsBaseOf
  <2> QED
    BY <1>4, <2>1, <2>2, <2>3
<1> QED
  BY <1>2, <1>5 DEF FoundLocks, GetLocks, Find

\* Who submits the token of a lock gets in wherever the lock reaches.
LEMMA OwnTokenAdmitsInState ==
  TypeOK => OwnTokenAdmits
<1> SUFFICES ASSUME TypeOK, NEW t \in Held, NEW p \in Requested, NEW q \in Path,
                    p \in Scope(locks[t]), IsBaseOf(q, p)
             PROVE  LET header == <<List(q, {Condition("token", t, FALSE)})>>
                    IN  /\ LockImplicit(header, p) = "use"
                        /\ UsedLocks(header, p) = {t}
  BY DEF OwnTokenAdmits
<1> DEFINE only == Condition("token", t, FALSE)
           list == List(q, {only})
           header == <<list>>
<1>1. p \in Path
  BY HeadersAssumption
<1>2. /\ list.path = q /\ list.conditions = {only}
      /\ only.kind = "token" /\ only.value = t /\ only.not = FALSE
      /\ DOMAIN header = {1} /\ header[1] = list
  BY DEF List, Condition
<1>3. RequiresStateToken(list)
  BY <1>2 DEF RequiresStateToken
<1> HIDE DEF list, only
<1> HIDE DEF header
<1>4. IsRelevant(header[1], p)
  BY <1>2 DEF IsRelevant, Compare
<1>5. FirstOn(header, 1) = 1
  BY <1>2 DEF FirstOn
<1>6. t \in LockTokens(header, 1, p)
  BY <1>1, <1>2, <1>3, <1>5, OwnTokenIsFound DEF LockTokens
<1>7. IsMatch(header[1], KnownTag(header, 1), LockTokens(header, 1, p))
  BY <1>2, <1>6 DEF IsMatch, Matches
<1>8. /\ RelevantLists(header, p) = {1}
      /\ SuccessfulLists(header, p) = {1}
      /\ ListsWithToken(header, p) = {1}
  BY <1>2, <1>3, <1>4, <1>7 DEF RelevantLists, SuccessfulLists, ListsWithToken
<1>9. LockImplicit(header, p) = "use"
  BY <1>2, <1>3, <1>8 DEF LockImplicit
<1>10. UsedLocks(header, p) = {t}
  <2>1. \A u : Condition("token", u, FALSE) = only <=> u = t
    BY DEF only, Condition
  <2>2. t \in Token
    BY HeldLockType
  <2>3. {i \in {1} : \A k \in {1} : i <= k} = {1}
    OBVIOUS
  <2>4. UsedLocks(header, p) =
          {u \in Token : Condition("token", u, FALSE) \in header[1].conditions}
    BY <1>8, <2>3 DEF UsedLocks
  <2> QED
    BY <1>2, <2>1, <2>2, <2>4
<1> QED
  BY <1>9, <1>10 DEF header, list, only

\* A list about the requested resource is successful exactly when it holds.
LEMMA ListsAreJudgedRightInState ==
  TypeOK => ListsAreJudgedRight
<1> SUFFICES ASSUME TypeOK, NEW header \in Headers, NEW p \in Requested,
                    NEW i \in DOMAIN header,
                    header[i].path = p,
                    RequiresStateToken(header[FirstOn(header, i)]),
                    (\E c \in header[i].conditions : c.kind = "tag")
                      => KnownTag(header, i) # Missing
             PROVE  i \in SuccessfulLists(header, p) <=> Holds(header[i])
  BY DEF ListsAreJudgedRight
<1> DEFINE etag == KnownTag(header, i)
           tokens == LockTokens(header, i, p)
<1>1. p \in Path
  BY HeadersAssumption
<1>2. tokens = CoveringLocks(p)
  BY <1>1, FirstOnIsThere, FoundOnResource DEF LockTokens
<1>3. ASSUME NEW c \in header[i].conditions
      PROVE  Matches(c, etag, tokens)
               <=> ((IF c.kind = "tag" THEN EntityTagOf[header[i].path] = c.value
                     ELSE c.value \in CoveringLocks(header[i].path)) <=> ~ c.not)
  <2>1. CASE c.kind = "tag"
    <3>1. etag # Missing /\ etag = EntityTagOf[header[i].path]
      BY <1>3, <2>1 DEF KnownTag
    <3> QED
      BY <2>1, <3>1 DEF Matches
  <2>2. CASE c.kind # "tag"
    BY <1>2, <2>2 DEF Matches
  <2> QED
    BY <2>1, <2>2
<1>4. IsMatch(header[i], etag, tokens) <=> Holds(header[i])
  BY <1>3 DEF IsMatch, Holds
<1>5. i \in RelevantLists(header, p)
  BY DEF RelevantLists, IsRelevant, Compare
<1> QED
  BY <1>4, <1>5 DEF SuccessfulLists

-----------------------------------------------------------------------------

\* Whatever locks are granted, refreshed and released: the locks a request
\* works under because of its If header are held and cover the resource.
THEOREM UsedLocksCoverHolds == Spec => []UsedLocksCover
<1>1. TypeOK => UsedLocksCover
  BY UsedLocksCoverInState
<1> QED
  BY <1>1, TypeCorrect, PTL

\* The holder of a lock gets in wherever it reaches.
THEOREM OwnTokenAdmitsHolds == Spec => []OwnTokenAdmits
<1>1. TypeOK => OwnTokenAdmits
  BY OwnTokenAdmitsInState
<1> QED
  BY <1>1, TypeCorrect, PTL

\* Lists about the requested resource are judged as RFC 4918 says.
THEOREM ListsAreJudgedRightHolds == Spec => []ListsAreJudgedRight
<1>1. TypeOK => ListsAreJudgedRight
  BY ListsAreJudgedRightInState
<1> QED
  BY <1>1, TypeCorrect, PTL

\* All three at once.
THEOREM IfHeaderIsHonouredHolds == Spec => []IfHeaderIsHonoured
<1>1. UsedLocksCover /\ OwnTokenAdmits /\ ListsAreJudgedRight => IfHeaderIsHonoured
  BY DEF IfHeaderIsHonoured
<1> QED
  BY <1>1, UsedLocksCoverHolds, OwnTokenAdmitsHolds, ListsAreJudgedRightHolds, PTL

-----------------------------------------------------------------------------
(* Lock times. *)

\* The parts of a value: full seconds, milliseconds and a rest.
LEMMA PartsOfTime ==
  ASSUME NEW t \in Nat
  PROVE  /\ WholeSeconds(t) \in Nat
         /\ WholeSeconds(t) % Second = 0
         /\ Millis(t) \in 0..999
         /\ WholeSeconds(t) + Millis(t) * Millisecond <= t
         /\ t < WholeSeconds(t) + (Millis(t) + 1) * Millisecond
<1>1. /\ t \div Second \in Nat
      /\ WholeSeconds(t) <= t
      /\ t < WholeSeconds(t) + Second
      /\ WholeSeconds(t) % Second = 0
  BY DEF WholeSeconds, Second, Millisecond
<1>2. /\ Millis(t) \in 0..999
      /\ WholeSeconds(t) + Millis(t) * Millisecond <= t
      /\ t < WholeSeconds(t) + (Millis(t) + 1) * Millisecond
  BY DEF WholeSeconds, Millis, Second, Millisecond
<1> QED
  BY <1>1, <1>2 DEF WholeSeconds, Second, Millisecond

\* UpToHundred is the least multiple of 100 that is not smaller.
LEMMA UpToHundredIsLeast ==
  ASSUME NEW millis \in Nat
  PROVE  /\ UpToHundred(millis) \in Nat
         /\ UpToHundred(millis) % 100 = 0
         /\ millis <= UpToHundred(millis)
         /\ UpToHundred(millis) < millis + 100
  BY DEF UpToHundred

\* What rounding an instant may do, whatever the instant is.
THEOREM InstantIsRoundedUpHolds == InstantIsRoundedUp
<1> SUFFICES ASSUME NEW mode \in Modes, NEW t \in Instants
             PROVE  /\ RoundInstant(mode, t) % Unit(mode) = 0
                    /\ t - Millisecond < RoundInstant(mode, t)
                    /\ RoundInstant(mode, t) < t + Unit(mode)
  BY DEF InstantIsRoundedUp
<1> t \in Nat
  BY TimesAssumption
<1> DEFINE whole == WholeSeconds(t)
           ms == Millis(t)
<1>1. /\ whole \in Nat /\ whole % Second = 0
      /\ ms \in 0..999
      /\ whole + ms * Millisecond <= t
      /\ t < whole + (ms + 1) * Millisecond
  BY PartsOfTime
<1>2. CASE mode = "OneSecond"
  <2>1. RoundInstant(mode, t) = whole + (IF ms # 0 THEN 1000 ELSE 0) * Millisecond
    BY <1>2 DEF RoundInstant
  <2>2. Unit(mode) = Second
    BY <1>2 DEF Unit
  <2> HIDE DEF whole, ms
  <2>3. CASE ms = 0
    BY <1>1, <2>1, <2>2, <2>3 DEF Second, Millisecond
  <2>4. CASE ms # 0
    BY <1>1, <2>1, <2>2, <2>4 DEF Second, Millisecond
  <2> QED
    BY <2>3, <2>4
<1>3. CASE mode = "OneHundredMilliseconds"
  <2> DEFINE up == UpToHundred(ms)
  <2>1. RoundInstant(mode, t) = whole + up * Millisecond
    BY <1>3 DEF RoundInstant
  <2>2. Unit(mode) = 100 * Millisecond
    BY <1>3 DEF Unit
  <2> HIDE DEF whole, ms
  <2>3. up \in Nat /\ up % 100 = 0 /\ ms <= up /\ up < ms + 100
    BY <1>1, UpToHundredIsLeast
  <2> HIDE DEF up
  <2>4. (whole + up * Millisecond) % (100 * Millisecond) = 0
    BY <1>1, <2>3 DEF Second, Millisecond
  <2>5. /\ t - Millisecond < whole + up * Millisecond
        /\ whole + up * Millisecond < t + 100 * Millisecond
    BY <1>1, <2>3 DEF Millisecond
  <2> QED
    BY <2>1, <2>2, <2>4, <2>5
<1> QED
  BY <1>2, <1>3 DEF Modes

\* No timeout is shortened by a millisecond or lengthened by more than a unit.
THEOREM TimeoutIsRoundedUpHolds == TimeoutIsRoundedUp
<1> SUFFICES ASSUME NEW mode \in Modes, NEW t \in Timeouts
             PROVE  /\ t - Millisecond < RoundTimeout(mode, t)
                    /\ RoundTimeout(mode, t) <= t + Unit(mode)
  BY DEF TimeoutIsRoundedUp
<1> t \in Nat /\ t # Infinite
  BY TimesAssumption
<1> DEFINE whole == WholeSeconds(t)
           ms == Millis(t)
<1>1. /\ whole \in Nat /\ ms \in 0..999
      /\ whole + ms * Millisecond <= t
      /\ t < whole + (ms + 1) * Millisecond
  BY PartsOfTime
<1>2. CASE mode = "OneSecond"
  <2>1. RoundTimeout(mode, t) =
          whole + ((IF ms # 0 THEN Second ELSE 0) + ms * Millisecond)
    BY <1>2 DEF RoundTimeout
  <2>2. Unit(mode) = Second
    BY <1>2 DEF Unit
  <2> HIDE DEF whole, ms
  <2>3. CASE ms = 0
    BY <1>1, <2>1, <2>2, <2>3 DEF Second, Millisecond
  <2>4. CASE ms # 0
    BY <1>1, <2>1, <2>2, <2>4 DEF Second, Millisecond
  <2> QED
    BY <2>3, <2>4
<1>3. CASE mode = "OneHundredMilliseconds"
  <2> DEFINE up == UpToHundred(ms)
  <2>1. RoundTimeout(mode, t) = whole + up * Millisecond
    BY <1>3 DEF RoundTimeout
  <2>2. Unit(mode) = 100 * Millisecond
    BY <1>3 DEF Unit
  <2> HIDE DEF whole, ms
  <2>3. up \in Nat /\ ms <= up /\ up < ms + 100
    BY <1>1, UpToHundredIsLeast
  <2> HIDE DEF up
  <2> QED
    BY <1>1, <2>1, <2>2, <2>3 DEF Millisecond
<1> QED
  BY <1>2, <1>3 DEF Modes

\* A timeout of full seconds is left as it is.
LEMMA FullSecondsStay ==
  ASSUME NEW mode \in Modes, NEW t \in Nat, t # Infinite, t % Second = 0
  PROVE  RoundTimeout(mode, t) = t
<1>1. WholeSeconds(t) = t /\ Millis(t) = 0
  BY DEF WholeSeconds, Millis, Second, Millisecond
<1>2. UpToHundred(0) = 0
  BY DEF UpToHundred
<1> QED
  BY <1>1, <1>2 DEF RoundTimeout, Millisecond

\* What the client is told is kept, for every clock and every timeout.
THEOREM ToldIsKeptHolds == ToldIsKept
<1> SUFFICES ASSUME NEW mode \in Modes, NEW now \in Instants, NEW timeout \in Timeouts,
                    timeout % Second = 0
             PROVE  LET promised == now + ReportedSeconds(RoundTimeout(mode, timeout)) * Second
                    IN  /\ promised - Millisecond < ExpirationOf(mode, now, timeout)
                        /\ ExpirationOf(mode, now, timeout) < promised + Unit(mode)
  BY DEF ToldIsKept
<1> now \in Nat /\ timeout \in Nat /\ timeout # Infinite
  BY TimesAssumption
<1>1. RoundTimeout(mode, timeout) = timeout
  BY FullSecondsStay
<1>2. ReportedSeconds(timeout) * Second = timeout
  BY DEF ReportedSeconds, Second, Millisecond
<1>3. ExpirationOf(mode, now, timeout) = RoundInstant(mode, now) + timeout
  BY <1>1 DEF ExpirationOf
<1>4. /\ now - Millisecond < RoundInstant(mode, now)
      /\ RoundInstant(mode, now) < now + Unit(mode)
  BY InstantIsRoundedUpHolds DEF InstantIsRoundedUp
<1>5. RoundInstant(mode, now) \in Int /\ Unit(mode) \in Int /\ Millisecond \in Int
  <2>1. WholeSeconds(now) \in Int /\ Millis(now) \in Nat
    <3>1. WholeSeconds(now) \in Nat /\ Millis(now) \in 0..999
      BY PartsOfTime
    <3> QED
      BY <3>1
  <2>2. UpToHundred(Millis(now)) \in Nat
    BY <2>1, UpToHundredIsLeast
  <2> QED
    BY <2>1, <2>2 DEF RoundInstant, Unit, Second, Millisecond
<1> QED
  BY <1>1, <1>2, <1>3, <1>4, <1>5

\* Timeouts are bounded by TimeSpan.MaxValue, so among any there is a longest.
LEMMA LongestIsLongest ==
  ASSUME NEW timeouts, timeouts \subseteq 0..Infinite, timeouts # {}
  PROVE  /\ Longest(timeouts) \in timeouts
         /\ \A t \in timeouts : t <= Longest(timeouts)
<1> DEFINE short == {Infinite - t : t \in timeouts}
<1>0. /\ Infinite \in Nat
      /\ \A t \in timeouts : t \in Nat /\ t <= Infinite
  <2>1. Infinite \in Nat
    BY TimesAssumption
  <2> QED
    BY <2>1
<1>1. short \subseteq Nat /\ short # {}
  <2>1. \A t \in timeouts : Infinite - t \in Nat
    BY <1>0
  <2>2. short \subseteq Nat
    BY <2>1
  <2>3. PICK t \in timeouts : TRUE
    OBVIOUS
  <2>4. Infinite - t \in short
    BY <2>3
  <2> QED
    BY <2>2, <2>4
<1>2. PICK m \in short : \A k \in short : <<k, m>> \notin OpToRel(<, Nat)
  <2> HIDE DEF short
  <2> QED
    BY <1>1, WFMin, NatLessThanWellFounded, Zenon
<1>3. \A k \in short : ~ (k < m)
  <2> HIDE DEF short
  <2> QED
    BY <1>1, <1>2, Zenon DEF OpToRel
<1>4. PICK t \in timeouts : m = Infinite - t
  OBVIOUS
<1>5. ASSUME NEW u \in timeouts
      PROVE  u <= t
  <2>1. Infinite - u \in short
    OBVIOUS
  <2>2. ~ (Infinite - u < Infinite - t)
    BY <1>3, <1>4, <2>1
  <2> QED
    BY <1>0, <2>2
<1> QED
  BY <1>5 DEF Longest

\* The choice of a timeout, whatever the options and offers are.
THEOREM SelectionKeepsMaximumHolds == SelectionKeepsMaximum
<1> SUFFICES ASSUME NEW options \in Options,
                    NEW offered \in SUBSET (Timeouts \cup {Infinite}), offered # {}
             PROVE  LET selected == SelectTimeout(options, offered)
                    IN  /\ options.maxTimeout # NoMaximum => selected <= options.maxTimeout
                        /\ \A t \in offered \ {Infinite} :
                             options.maxTimeout = NoMaximum \/ t <= options.maxTimeout
                               => t <= selected
                        /\ selected # options.maxTimeout => selected \in offered
  BY DEF SelectionKeepsMaximum
<1> DEFINE max == options.maxTimeout
           offers == IF options.allowInfinite THEN offered \ {Infinite} ELSE offered
           candidates == {x \in offers : x <= max}
           selected == SelectTimeout(options, offered)
<1>1. /\ offers \subseteq 0..Infinite /\ candidates \subseteq 0..Infinite
      /\ offers \subseteq offered
      /\ offered \ {Infinite} \subseteq offers
      /\ max = NoMaximum \/ (max \in Nat /\ max < Infinite)
      /\ Infinite \in Nat
  <2>1. /\ Infinite \in Nat
        /\ \A t \in Timeouts : t \in Nat /\ t < Infinite
    BY TimesAssumption
  <2>2. offered \subseteq 0..Infinite
    BY <2>1
  <2>3. max = NoMaximum \/ max \in Timeouts
    BY DEF Options
  <2> QED
    BY <2>1, <2>2, <2>3
<1>2. CASE max # NoMaximum /\ candidates # {}
  <2>1. selected = Longest(candidates)
    BY <1>2 DEF SelectTimeout
  <2> HIDE DEF selected
  <2>2. selected \in candidates /\ \A t \in candidates : t <= selected
    BY <1>1, <1>2, <2>1, LongestIsLongest
  <2> QED
    BY <1>1, <1>2, <2>2 DEF selected
<1>3. CASE max # NoMaximum /\ candidates = {}
  <2>1. selected = max
    BY <1>3 DEF SelectTimeout
  <2> QED
    BY <1>1, <1>3, <2>1
<1>4. CASE max = NoMaximum /\ offers # {}
  <2>1. selected = Longest(offers)
    BY <1>4 DEF SelectTimeout
  <2> HIDE DEF selected
  <2>2. selected \in offers /\ \A t \in offers : t <= selected
    BY <1>1, <1>4, <2>1, LongestIsLongest
  <2> QED
    BY <1>1, <1>4, <2>2 DEF selected
<1>5. CASE max = NoMaximum /\ offers = {}
  <2>1. selected = Infinite
    BY <1>5 DEF SelectTimeout
  <2>2. offered = {Infinite}
    BY <1>5
  <2> QED
    BY <1>5, <2>1, <2>2
<1> QED
  BY <1>2, <1>3, <1>4, <1>5

\* The times of locks in every state of the table, for every clock and every
\* timeout.
THEOREM TimesAreKeptHolds == Spec => []TimesAreKept
<1>1. TimesAreKept
  BY InstantIsRoundedUpHolds, TimeoutIsRoundedUpHolds, ToldIsKeptHolds,
     SelectionKeepsMaximumHolds
  DEF TimesAreKept
<1> QED
  BY <1>1, PTL
=============================================================================
