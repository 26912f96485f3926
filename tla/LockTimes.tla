----------------------------- MODULE LockTimes -----------------------------
(***************************************************************************)
(* How long a lock lasts: the choice among the timeouts a client offers    *)
(* (DefaultTimeoutPolicy.SelectTimeout), the rounding of instants and      *)
(* timeouts (DefaultLockTimeRounding), the expiration made of them         *)
(* (ActiveLock) and the timeout the client is told (ActiveLockExtensions). *)
(* Instants and timeouts are counted in the ticks of DateTime and TimeSpan.*)
(* The lock table keeps an expiration as a value of a set; here is what    *)
(* those values are, for every instant at which a lock may be granted.     *)
(***************************************************************************)
EXTENDS LockTable, Integers

CONSTANTS
  Instants,   \* the instants at which a lock may be granted or refreshed
  Timeouts,   \* the timeouts a client may offer, and the server's maxima
  Infinite    \* TimeoutHeader.Infinite, which is TimeSpan.MaxValue

ASSUME TimesAssumption ==
  /\ Instants \subseteq Nat
  /\ Timeouts \subseteq Nat
  /\ Infinite \in Nat
  /\ \A t \in Timeouts : t < Infinite

Modes == {"OneSecond", "OneHundredMilliseconds"}

Millisecond == 10000
Second == 1000 * Millisecond
Unit(mode) == IF mode = "OneSecond" THEN Second ELSE 100 * Millisecond

\* DateTime.Millisecond and TimeSpan.Milliseconds, and what is left of the
\* value when it is built again from its parts down to the second.
Millis(t) == (t \div Millisecond) % 1000
WholeSeconds(t) == (t \div Second) * Second

UpToHundred(millis) == (millis + 99) - ((millis + 99) % 100)

\* Seeded bug: rounding down, as long as nobody looks at the carry.
RoundInstantDown(mode, t) ==
  WholeSeconds(t) + (IF mode = "OneSecond" THEN 0
                     ELSE (Millis(t) - (Millis(t) % 100)) * Millisecond)

\* Round(DateTime).  Parts of a millisecond are dropped before anything else.
RoundInstant(mode, t) ==
  WholeSeconds(t)
    + (IF mode = "OneSecond" THEN (IF Millis(t) # 0 THEN 1000 ELSE 0)
       ELSE UpToHundred(Millis(t))) * Millisecond

\* Round(TimeSpan).  To a second: one is added, the milliseconds stay.
RoundTimeout(mode, t) ==
  IF t = Infinite THEN t
  ELSE WholeSeconds(t)
         + (IF mode = "OneSecond"
            THEN (IF Millis(t) # 0 THEN Second ELSE 0) + Millis(t) * Millisecond
            ELSE UpToHundred(Millis(t)) * Millisecond)

-----------------------------------------------------------------------------

Longest(timeouts) == CHOOSE t \in timeouts : \A u \in timeouts : u <= t

\* DefaultTimeoutPolicyOptions: MaxTimeout may be missing.
NoMaximum == -1
Options == [allowInfinite : BOOLEAN, maxTimeout : Timeouts \cup {NoMaximum}]

\* SelectTimeout.  When infinite timeouts are allowed they are left out.
SelectTimeout(options, offered) ==
  LET t == IF options.allowInfinite THEN offered \ {Infinite} ELSE offered
      candidates == {x \in t : x <= options.maxTimeout}
  IN  IF options.maxTimeout # NoMaximum
      THEN IF candidates # {} THEN Longest(candidates) ELSE options.maxTimeout
      ELSE IF t # {} THEN Longest(t) ELSE Infinite

\* LockAsync: the timeout a lock gets, and when it expires.  An infinite lock
\* expires at DateTime.MaxValue.
GrantedTimeout(mode, options, offered) ==
  RoundTimeout(mode, SelectTimeout(options, offered))
ExpirationOf(mode, now, timeout) ==
  IF timeout = Infinite THEN Infinite
  ELSE RoundInstant(mode, now) + RoundTimeout(mode, timeout)

\* The seconds of lockdiscovery: format F0 rounds halves away from zero.
ReportedSeconds(timeout) == (timeout + Second \div 2) \div Second

-----------------------------------------------------------------------------
(* Properties *)

\* A rounded instant is a full unit, at most one millisecond before the
\* instant and less than one unit after it; the carry into the next second,
\* which the code leaves to Add, is what a unit test would have to hit.
InstantIsRoundedUp ==
  \A mode \in Modes, t \in Instants :
    LET rounded == RoundInstant(mode, t)
    IN  /\ rounded % Unit(mode) = 0
        /\ t - Millisecond < rounded
        /\ rounded < t + Unit(mode)

\* No lock gets less time than was chosen for it (to the millisecond), nor
\* more than one unit longer.
TimeoutIsRoundedUp ==
  \A mode \in Modes, t \in Timeouts :
    LET rounded == RoundTimeout(mode, t)
    IN  /\ t - Millisecond < rounded
        /\ rounded <= t + Unit(mode)

\* The client is told a timeout in seconds.  When the timeouts of the server
\* are full seconds the lock it was granted lives at least until then, but for
\* one millisecond, and no more than the unit of rounding longer, whatever
\* part of a second the clock shows and whatever was offered.
ToldIsKept ==
  \A mode \in Modes, now \in Instants, timeout \in Timeouts :
    timeout % Second = 0 =>
      LET promised == now + ReportedSeconds(RoundTimeout(mode, timeout)) * Second
      IN  /\ promised - Millisecond < ExpirationOf(mode, now, timeout)
          /\ ExpirationOf(mode, now, timeout) < promised + Unit(mode)

\* The server's maximum is the longest timeout there is, so that with one no
\* lock is infinite, and a client gets at least the longest of its finite offers
\* that is within it.  What AllowInfiniteTimeout does is left open: SelectTimeout
\* takes it for the opposite of what it is documented to be.
SelectionKeepsMaximum ==
  \A options \in Options, offered \in SUBSET (Timeouts \cup {Infinite}) :
    offered # {} =>
      LET selected == SelectTimeout(options, offered)
      IN  /\ options.maxTimeout # NoMaximum => selected <= options.maxTimeout
          /\ \A t \in offered \ {Infinite} :
               options.maxTimeout = NoMaximum \/ t <= options.maxTimeout
                 => t <= selected
          /\ selected # options.maxTimeout => selected \in offered

\* Whatever the clock showed and the client offered when the locks of the table
\* were granted: none ends before its client was told it would, nor later than
\* one unit of rounding, and none outlives the server's maximum.
TimesAreKept ==
  Held # {} =>
    InstantIsRoundedUp /\ TimeoutIsRoundedUp /\ ToldIsKept /\ SelectionKeepsMaximum
=============================================================================
