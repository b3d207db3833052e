--------------------------- MODULE WhatsAppProofs ---------------------------
(***************************************************************************)
(* Proofs about the WhatsApp side, one component after the other: the hold   *)
(* of the quiet hours is exact, reconnecting never forks and giving up is    *)
(* final, and the rate limiter's counts are kept and its caps soft by at     *)
(* most one message for each other sender.                                   *)
(***************************************************************************)
EXTENDS QuietHours, WaConnection, RateLimiter, FiniteSetTheorems, TLAPS

-----------------------------------------------------------------------------
(* Quiet hours. *)

(* The double remainder is the mathematical modulus, for negative and for
   large settings too. *)
LEMMA NormalIsMod == ASSUME NEW h \in Int PROVE Normal(h) = h % 24
<1>1. CASE h >= 0
  BY <1>1 DEF Normal, Rem
<1>2. CASE h < 0
  <2>1. Rem(h, 24) + 24 >= 0 /\ Rem(h, 24) = -((-h) % 24)
    BY <1>2 DEF Rem
  <2>2. Normal(h) = (24 - ((-h) % 24)) % 24
    BY <2>1 DEF Normal, Rem
  <2> QED BY <2>2
<1> QED BY <1>1, <1>2

(* Division with remainder, and its uniqueness for the units of the clock. *)
LEMMA Division ==
  ASSUME NEW x \in Int, NEW n \in Int, n > 0
  PROVE  /\ x % n \in Int /\ 0 <= x % n /\ x % n < n
         /\ x \div n \in Int /\ x = n * (x \div n) + (x % n)
OBVIOUS

LEMMA MinuteDivision ==
  ASSUME NEW k \in Int, NEW r \in Int, 0 <= r, r < 60000
  PROVE  (k * 60000 + r) % 60000 = r
BY SMT

LEMMA HourDivision ==
  ASSUME NEW k \in Int, NEW r \in Int, 0 <= r, r < 3600000
  PROVE  (k * 3600000 + r) \div 3600000 = k
BY SMT

LEMMA Units == Day \in Int /\ Day = 86400000 /\ Hour = 3600000
BY SMT DEF Day, Hour

LEMMA Interval ==
  ASSUME NEW d \in Int, NEW t \in 0..d - 1 PROVE t \in Int /\ 0 <= t /\ t < d
OBVIOUS

LEMMA IntervalMember ==
  ASSUME NEW d \in Int, NEW t \in Int, 0 <= t, t < d PROVE t \in 0..d - 1
OBVIOUS

LEMMA ClockIsInt ==
  ASSUME NEW t \in DayClock PROVE t \in Int /\ 0 <= t /\ t < Day
<1>1. t \in 0..Day - 1 BY DEF DayClock
<1>2. Day \in Int BY Units, SMT
<1> QED BY <1>1, <1>2, Interval

(* A time of day splits into hour, minute, second and a rest. *)
LEMMA ClockParts ==
  ASSUME NEW t \in DayClock
  PROVE  \E h, m, s, ms \in Int :
           /\ h = HourOf(t) /\ 0 <= h /\ h < 24
           /\ m = MinuteOf(t) /\ 0 <= m /\ m < 60
           /\ s = SecondOf(t) /\ 0 <= s /\ s < 60
           /\ 0 <= ms /\ ms < Second
           /\ t = h * Hour + m * Minute + s * Second + ms
<1>0. t \in Int /\ 0 <= t /\ t < 86400000
  BY ClockIsInt, Units, SMT
<1>1. PICK h, r \in Int : /\ h = HourOf(t) /\ r = t % 3600000
                          /\ 0 <= r /\ r < 3600000 /\ t = h * 3600000 + r
  BY <1>0, Division, SMT DEF HourOf, Hour
<1>2. 0 <= h /\ h < 24
  BY <1>0, <1>1, SMT
<1>3. PICK m, a \in Int : /\ m = MinuteOf(t)
                          /\ 0 <= a /\ a < 60000 /\ r = m * 60000 + a
  <2>1. MinuteOf(t) = r \div 60000
    BY <1>1, SMT DEF MinuteOf, Hour, Minute
  <2>2. /\ r % 60000 \in Int /\ 0 <= r % 60000 /\ r % 60000 < 60000
        /\ r \div 60000 \in Int /\ r = (r \div 60000) * 60000 + (r % 60000)
    BY SMT
  <2> QED BY <2>1, <2>2
<1>4. 0 <= m /\ m < 60
  BY <1>1, <1>3, SMT
<1>5. t % 60000 = a
  <2>1. h * 60 + m \in Int /\ t = (h * 60 + m) * 60000 + a
    BY <1>1, <1>3, SMT
  <2> QED BY <2>1, <1>3, MinuteDivision, SMT
<1>6. PICK s, ms \in Int : /\ s = SecondOf(t)
                           /\ 0 <= ms /\ ms < 1000 /\ a = s * 1000 + ms
  BY <1>3, <1>5, Division, SMT DEF SecondOf, Minute, Second
<1>7. 0 <= s /\ s < 60
  BY <1>3, <1>6, SMT
<1>8. ms < Second /\ t = h * Hour + m * Minute + s * Second + ms
  BY <1>1, <1>3, <1>6, SMT DEF Hour, Minute, Second
<1> QED BY <1>1, <1>2, <1>3, <1>4, <1>6, <1>7, <1>8

(* The three cases of isQuietHours are one circular interval. *)
LEMMA WindowIsInterval ==
  ASSUME NEW t \in DayClock, NEW s \in Int, NEW e \in Int, (s - e) % 24 # 0
  PROVE  IsQuiet(t, s, e) <=> InWindow(HourOf(t), s, e)
<1> DEFINE a == s % 24
           b == e % 24
           h == HourOf(t)
<1>1. a \in 0..23 /\ b \in 0..23 /\ h \in 0..23
  BY ClockParts
<1>2. Normal(s) = a /\ Normal(e) = b
  BY NormalIsMod
<1>3. a # b
  OBVIOUS
<1>4. (h - s) % 24 = (h - a) % 24 /\ (e - s) % 24 = (b - a) % 24
  <2>1. \A x, y \in Int : /\ (x - y) % 24 = ((x % 24) - (y % 24)) % 24
                          /\ (x - y) % 24 = (x - (y % 24)) % 24
    OBVIOUS
  <2>2. h \in Int /\ (h - s) % 24 = (h - (s % 24)) % 24
    BY <1>1, <2>1
  <2> QED BY <2>1, <2>2
<1>5. IsQuiet(t, s, e) <=> \/ a < b /\ h >= a /\ h < b
                           \/ a > b /\ (h >= a \/ h < b)
  BY <1>1, <1>2, <1>3 DEF IsQuiet
<1> HIDE DEF a, b, h
<1>6. (\/ a < b /\ h >= a /\ h < b
       \/ a > b /\ (h >= a \/ h < b)) <=> (h - a) % 24 < (b - a) % 24
  BY <1>1, <1>3
<1> QED BY <1>4, <1>5, <1>6 DEF InWindow, h

(* A job that is parked at t is due in the first second of the end hour:
   later than t, and at most a day later. *)
LEMMA DelayLeadsToEnd ==
  ASSUME NEW t \in DayClock, NEW s \in Int, NEW e \in Int, IsQuiet(t, s, e)
  PROVE  /\ MsUntilQuietEnd(t, s, e) \in Int
         /\ 0 < MsUntilQuietEnd(t, s, e) /\ MsUntilQuietEnd(t, s, e) <= Day
         /\ \E ms \in Int :
              /\ 0 <= ms /\ ms < Second
              /\ (t + MsUntilQuietEnd(t, s, e)) % Day = (e % 24) * Hour + ms
<1>1. PICK h, m, x, ms \in Int :
        /\ h = HourOf(t) /\ 0 <= h /\ h < 24
        /\ m = MinuteOf(t) /\ 0 <= m /\ m < 60
        /\ x = SecondOf(t) /\ 0 <= x /\ x < 60
        /\ 0 <= ms /\ ms < Second
        /\ t = h * Hour + m * Minute + x * Second + ms
  BY ClockParts
<1>0. /\ t \in Int /\ t = h * 3600000 + m * 60000 + x * 1000 + ms
      /\ 0 <= h /\ h < 24 /\ 0 <= m /\ m < 60 /\ 0 <= x /\ x < 60
      /\ 0 <= ms /\ ms < 1000
  BY <1>1, ClockIsInt, SMT DEF Hour, Minute, Second
<1>2. PICK b \in Int : b = e % 24 /\ b = Normal(e) /\ 0 <= b /\ b < 24
  BY NormalIsMod, Division, SMT
<1>3. PICK d \in Int : /\ d = HoursAhead(t, e) /\ 1 <= d /\ d <= 24
                       /\ (h + d = b \/ h + d = b + 24)
  <2>1. HoursAhead(t, e) = IF b - h <= 0 THEN b - h + 24 ELSE b - h
    BY <1>1, <1>2, SMT DEF HoursAhead
  <2>2. CASE b - h <= 0
    <3>1. /\ b - h + 24 = HoursAhead(t, e) /\ 1 <= b - h + 24 /\ b - h + 24 <= 24
          /\ h + (b - h + 24) = b + 24 /\ b - h + 24 \in Int
      BY <2>1, <2>2, <1>1, <1>2, SMT
    <3> QED BY <3>1, SMT
  <2>3. CASE b - h > 0
    <3>1. /\ b - h = HoursAhead(t, e) /\ 1 <= b - h /\ b - h <= 24
          /\ h + (b - h) = b /\ b - h \in Int
      BY <2>1, <2>3, <1>1, <1>2, SMT
    <3> QED BY <3>1, SMT
  <2> QED BY <2>2, <2>3, <1>1, <1>2, SMT
<1>4. PICK w \in Int : /\ w = MsUntilQuietEnd(t, s, e)
                       /\ w = d * 3600000 - m * 60000 - x * 1000
  BY <1>1, <1>3, SMT DEF MsUntilQuietEnd, Hour, Minute, Second
<1>5. 0 < w /\ w <= 86400000
  BY <1>0, <1>3, <1>4, SMT
<1>6. t + w = (h + d) * 3600000 + ms
  BY <1>0, <1>3, <1>4, SMT
<1>7. (t + w) % 86400000 = b * 3600000 + ms
  <2>1. b * 3600000 + ms >= 0 /\ b * 3600000 + ms < 86400000
    BY <1>0, <1>2, SMT
  <2>2. CASE h + d = b
    <3>1. t + w = b * 3600000 + ms
      BY <2>2, <1>6, SMT
    <3> QED BY <2>1, <3>1, <1>0, <1>2, SMT
  <2>3. CASE h + d = b + 24
    <3>1. t + w = 86400000 + (b * 3600000 + ms)
      BY <2>3, <1>0, <1>2, <1>6, SMT
    <3> QED BY <2>1, <3>1, <1>0, <1>2, SMT
  <2> QED BY <1>3, <2>2, <2>3, SMT
<1>8. /\ w <= Day /\ (t + w) % Day = b * Hour + ms
  BY <1>5, <1>7, Units, SMT
<1> QED BY <1>1, <1>2, <1>4, <1>5, <1>8

(* A job parked in a window that does not last all day is due before the
   window's length is over. *)
LEMMA DelayWithinWindow ==
  ASSUME NEW t \in DayClock, NEW s \in Int, NEW e \in Int,
         (s - e) % 24 # 0, IsQuiet(t, s, e)
  PROVE  HourOf(MsUntilQuietEnd(t, s, e)) <= (e - s) % 24
<1>1. PICK h, m, x \in Int :
        /\ h = HourOf(t) /\ 0 <= h /\ h < 24
        /\ m = MinuteOf(t) /\ 0 <= m /\ m < 60
        /\ x = SecondOf(t) /\ 0 <= x /\ x < 60
  BY ClockParts
<1>2. PICK b \in Int : b = e % 24 /\ b = Normal(e) /\ 0 <= b /\ b < 24
  BY NormalIsMod, Division
<1>3. PICK n \in Int : n = (e - s) % 24 /\ 0 <= n /\ n < 24
  BY Division
<1>4. (h - s) % 24 < n
  BY <1>1, <1>3, WindowIsInterval DEF InWindow
<1>5. PICK d \in Int : d = HoursAhead(t, e) /\ 1 <= d /\ d <= n
  <2>1. HoursAhead(t, e) = IF b - h <= 0 THEN b - h + 24 ELSE b - h
    BY <1>1, <1>2, SMT DEF HoursAhead
  <2>2. \E d \in Int : d = HoursAhead(t, e) /\ 1 <= d /\ d <= 24 /\ (e - h - d) % 24 = 0
    BY <2>1, <1>1, <1>2, SMT
  <2>3. PICK d \in Int : d = HoursAhead(t, e) /\ 1 <= d /\ d <= 24 /\ (e - h - d) % 24 = 0
    BY <2>2
  <2>4. PICK u \in Int : u = (h - s) % 24 /\ 0 <= u /\ u < n
    BY <1>1, <1>4, Division
  <2>5. (n - u - d) % 24 = 0
    BY <2>3, <2>4, <1>1, <1>3, SMT
  <2>6. d <= n
    BY <2>3, <2>4, <2>5, <1>3, SMT
  <2> QED BY <2>3, <2>6
<1>6. PICK w \in Int : /\ w = MsUntilQuietEnd(t, s, e) /\ 0 < w
                       /\ w = d * 3600000 - m * 60000 - x * 1000
  <2>1. MsUntilQuietEnd(t, s, e) = d * 3600000 - m * 60000 - x * 1000
    BY <1>1, <1>5, SMT DEF MsUntilQuietEnd, Hour, Minute, Second
  <2>2. MsUntilQuietEnd(t, s, e) \in Int /\ 0 < MsUntilQuietEnd(t, s, e)
    BY DelayLeadsToEnd
  <2> QED BY <2>1, <2>2, SMT
<1>7. w <= n * 3600000
  BY <1>1, <1>3, <1>5, <1>6, SMT
<1>8. HourOf(w) <= n
  BY <1>7, <1>6, <1>3, SMT DEF HourOf, Hour
<1> QED BY <1>3, <1>6, <1>8

(* The first second of the end hour is outside the window, the second before
   it is inside. *)
LEMMA EndOfWindow ==
  ASSUME NEW s \in Int, NEW e \in Int, (s - e) % 24 # 0,
         NEW ms \in Int, 0 <= ms, ms < Second,
         NEW c \in Int, c = (e % 24) * Hour + ms
  PROVE  /\ c \in DayClock
         /\ ~InWindow(HourOf(c), s, e)
         /\ InWindow(HourOf((c - Second) % Day), s, e)
<1>1. PICK b \in Int : b = e % 24 /\ 0 <= b /\ b < 24
  BY Division
<1>2. ms < 1000 /\ c = b * 3600000 + ms
  BY <1>1, Units, SMT DEF Second
<1>3. HourOf(c) = b
  BY <1>1, <1>2, HourDivision, SMT DEF HourOf, Hour
<1>4. PICK p \in Int : /\ p = HourOf((c - Second) % Day)
                       /\ (p = b - 1 \/ (b = 0 /\ p = 23))
  <2>1. CASE b = 0
    <3>1. c - 1000 = 23 * 3600000 + (3599000 + ms) - 86400000
      BY <2>1, <1>2, SMT
    <3>2. (c - 1000) % 86400000 = 23 * 3600000 + (3599000 + ms)
      BY <3>1, <1>2, SMTT(30)
    <3>3. HourOf((c - Second) % Day) = 23
      BY <3>2, <1>2, HourDivision, Units, SMT DEF HourOf, Hour, Second
    <3> QED BY <3>3, <2>1, SMT
  <2>2. CASE b # 0
    <3>1. c - 1000 = (b - 1) * 3600000 + (3599000 + ms)
      BY <1>2, SMT
    <3>2. (c - 1000) % 86400000 = (b - 1) * 3600000 + (3599000 + ms)
      BY <3>1, <2>2, <1>1, <1>2, SMT
    <3>3. HourOf((c - Second) % Day) = b - 1
      BY <3>2, <1>1, <1>2, HourDivision, Units, SMT DEF HourOf, Hour, Second
    <3> QED BY <3>3, <2>2, <1>1, SMT
  <2> QED BY <2>1, <2>2, SMT
<1>5. ~((b - s) % 24 < (e - s) % 24)
  BY <1>1, SMT
<1>6. (p - s) % 24 < (e - s) % 24
  BY <1>1, <1>4, SMT
<1>7. c \in DayClock
  <2>1. 0 <= c /\ c < Day
    BY <1>1, <1>2, Units, SMT
  <2>2. Day \in Int BY Units, SMT
  <2> QED BY <2>1, <2>2, IntervalMember DEF DayClock
<1> QED BY <1>1, <1>3, <1>4, <1>5, <1>6, <1>7 DEF InWindow

-----------------------------------------------------------------------------
(* What the two invariants rest on: the delay is the one computed when the
   job was parked, and the clock is where that delay leads. *)
HoldInv ==
  /\ job \in {"parked", "back"} =>
       /\ IsQuiet(since.at, start, end)
       /\ since.delay = MsUntilQuietEnd(since.at, start, end)
  /\ job = "back" => clock = (since.at + since.delay) % Day
  /\ job = "sent" => ~IsQuiet(clock, start, end)

(* The inductive invariant. *)
HoldIInv == HoldTypeOK /\ HoldInv

LEMMA WaitIsNotNegative ==
  ASSUME NEW t \in DayClock, NEW s \in Int, NEW e \in Int
  PROVE  /\ IsQuiet(t, s, e) => MsUntilQuietEnd(t, s, e) > 0
         /\ ~IsQuiet(t, s, e) => MsUntilQuietEnd(t, s, e) = 0
<1>1. ASSUME IsQuiet(t, s, e) PROVE MsUntilQuietEnd(t, s, e) > 0
  <2>1. MsUntilQuietEnd(t, s, e) \in Int /\ 0 < MsUntilQuietEnd(t, s, e)
    BY <1>1, DelayLeadsToEnd
  <2> QED BY <2>1, SMT
<1>2. ASSUME ~IsQuiet(t, s, e) PROVE MsUntilQuietEnd(t, s, e) = 0
  BY <1>2 DEF MsUntilQuietEnd
<1> QED BY <1>1, <1>2

LEMMA InitHolds == HoldInit => HoldIInv
<1> SUFFICES ASSUME HoldInit PROVE HoldIInv
  OBVIOUS
<1>1. since.at \in DayClock /\ since.delay \in 0..Day /\ since \in [at : DayClock, delay : 0..Day]
  <2>1. since = [at |-> 0, delay |-> 0] BY DEF HoldInit
  <2>2. 0 \in DayClock
    <3>1. 0 \in Int /\ 0 <= 0 /\ 0 < Day /\ Day \in Int BY Units, SMT
    <3> QED BY <3>1, IntervalMember DEF DayClock
  <2>3. 0 \in 0..Day
    <3>1. Day \in Int /\ 0 <= Day BY Units, SMT
    <3> QED BY <3>1
  <2> QED BY <2>1, <2>2, <2>3
<1> QED BY <1>1, InputsAssumption DEF HoldInit, HoldIInv, HoldTypeOK, HoldInv

LEMMA StepHolds == HoldIInv /\ [HoldNext]_holdVars => HoldIInv'
<1> SUFFICES ASSUME HoldIInv, [HoldNext]_holdVars PROVE HoldIInv'
  OBVIOUS
<1>0. start \in Int /\ end \in Int /\ clock \in DayClock
  BY InputsAssumption DEF HoldIInv, HoldTypeOK
<1>1. CASE Park
  <2>1. IsQuiet(clock, start, end)
    <3>1. MsUntilQuietEnd(clock, start, end) > 0 BY <1>1 DEF Park
    <3> QED BY <3>1, <1>0, WaitIsNotNegative, SMT
  <2>2. MsUntilQuietEnd(clock, start, end) \in 0..Day
    <3>1. Day \in Int BY Units, SMT
    <3>2. /\ MsUntilQuietEnd(clock, start, end) \in Int
          /\ 0 < MsUntilQuietEnd(clock, start, end)
          /\ MsUntilQuietEnd(clock, start, end) <= Day
      BY <1>0, <2>1, DelayLeadsToEnd
    <3> HIDE DEF MsUntilQuietEnd
    <3> QED BY <3>1, <3>2, SMT
  <2> QED BY <1>1, <2>1, <2>2 DEF Park, HoldIInv, HoldTypeOK, HoldInv
<1>2. CASE Return
  <2>1. IsQuiet(since.at, start, end) /\ since.at \in DayClock
        /\ since.delay = MsUntilQuietEnd(since.at, start, end)
    BY <1>2 DEF Return, HoldIInv, HoldTypeOK, HoldInv
  <2>2. (since.at + since.delay) % Day \in DayClock
    <3>1. since.at + since.delay \in Int /\ Day \in Int /\ Day > 0
      <4>1. since.delay \in Int
        BY <1>0, <2>1, DelayLeadsToEnd
      <4>2. since.at \in Int BY <2>1, ClockIsInt
      <4> QED BY <4>1, <4>2, Units, SMT
    <3>2. /\ (since.at + since.delay) % Day \in Int
          /\ 0 <= (since.at + since.delay) % Day
          /\ (since.at + since.delay) % Day < Day
      BY <3>1, Division
    <3> QED BY <3>1, <3>2, IntervalMember DEF DayClock
  <2> QED BY <1>2, <2>1, <2>2 DEF Return, HoldIInv, HoldTypeOK, HoldInv
<1>3. CASE SendNow
  <2>1. ~IsQuiet(clock, start, end)
    <3>1. MsUntilQuietEnd(clock, start, end) <= 0 BY <1>3 DEF SendNow
    <3>2. SUFFICES ASSUME IsQuiet(clock, start, end) PROVE FALSE
      OBVIOUS
    <3>3. /\ MsUntilQuietEnd(clock, start, end) \in Int
          /\ 0 < MsUntilQuietEnd(clock, start, end)
      BY <1>0, <3>2, DelayLeadsToEnd
    <3> QED BY <3>1, <3>3, SMT
  <2> QED BY <1>3, <2>1 DEF SendNow, HoldIInv, HoldTypeOK, HoldInv
<1>4. CASE UNCHANGED holdVars
  BY <1>4 DEF holdVars, HoldIInv, HoldTypeOK, HoldInv
<1> QED BY <1>1, <1>2, <1>3, <1>4 DEF HoldNext

LEMMA InvariantSuffices == HoldIInv => SentOutsideWindow /\ ReturnsAtWindowEnd
<1> SUFFICES ASSUME HoldIInv, (start - end) % 24 # 0
             PROVE  /\ job = "sent" => ~InWindow(HourOf(clock), start, end)
                    /\ job = "back" =>
                         /\ ~InWindow(HourOf(clock), start, end)
                         /\ InWindow(HourOf((clock - Second) % Day), start, end)
                         /\ HourOf(since.delay) <= (end - start) % 24
  BY DEF SentOutsideWindow, ReturnsAtWindowEnd
<1>0. start \in Int /\ end \in Int /\ clock \in DayClock
  BY InputsAssumption DEF HoldIInv, HoldTypeOK
<1>1. ASSUME job = "sent" PROVE ~InWindow(HourOf(clock), start, end)
  BY <1>0, <1>1, WindowIsInterval DEF HoldIInv, HoldInv
<1>2. ASSUME job = "back"
      PROVE  /\ ~InWindow(HourOf(clock), start, end)
             /\ InWindow(HourOf((clock - Second) % Day), start, end)
             /\ HourOf(since.delay) <= (end - start) % 24
  <2>1. /\ IsQuiet(since.at, start, end) /\ since.at \in DayClock
        /\ since.delay = MsUntilQuietEnd(since.at, start, end)
        /\ clock = (since.at + since.delay) % Day
    BY <1>2 DEF HoldIInv, HoldTypeOK, HoldInv
  <2>2. PICK ms \in Int : /\ 0 <= ms /\ ms < Second
                          /\ clock = (end % 24) * Hour + ms
    <3>1. \E ms \in Int :
            /\ 0 <= ms /\ ms < Second
            /\ (since.at + MsUntilQuietEnd(since.at, start, end)) % Day
                 = (end % 24) * Hour + ms
      BY <1>0, <2>1, DelayLeadsToEnd
    <3> QED BY <3>1, <2>1
  <2>3. clock \in Int BY <1>0, ClockIsInt
  <2>4. /\ ~InWindow(HourOf(clock), start, end)
        /\ InWindow(HourOf((clock - Second) % Day), start, end)
    BY <1>0, <2>2, <2>3, EndOfWindow
  <2>5. HourOf(since.delay) <= (end - start) % 24
    BY <1>0, <2>1, DelayWithinWindow
  <2> QED BY <2>4, <2>5
<1> QED BY <1>1, <1>2

(* For every configured window and every instant: nothing is sent inside the
   window, and a parked job is due in its first second outside it, after no
   more than the window's length. *)
THEOREM HoldIsExact == HoldSpec => [](HoldTypeOK /\ SentOutsideWindow /\ ReturnsAtWindowEnd)
<1>1. HoldIInv => HoldTypeOK /\ SentOutsideWindow /\ ReturnsAtWindowEnd
  BY InvariantSuffices DEF HoldIInv
<1> QED BY <1>1, InitHolds, StepHolds, PTL DEF HoldSpec

(* For every configured window and every instant the hold is exact. *)
THEOREM HoldSoundness == HoldSpec => []HoldIsSound
  BY HoldIsExact, PTL DEF HoldIsSound

-----------------------------------------------------------------------------
(* The connection: for any limit on attempts and any number of sockets. *)

(* A new process has one connect under way and nothing else. *)
LEMMA Initially == ConnInit => ConnIInv
  <1>. SUFFICES ASSUME ConnInit PROVE ConnIInv
    OBVIOUS
  <1>1. Counts
    BY LimitsAssumption DEF ConnInit, Booted, Counts
  <1>2. Flags
    BY Zenon DEF ConnInit, Booted, Flags
  <1>3. Wires
    BY DEF ConnInit, Wires
  <1>4. Living = {}
    BY DEF ConnInit, Living
  <1>5. OneConnection
    BY <1>4 DEF ConnInit, Booted, OneConnection
  <1>6. GivenUpIsFinal /\ AttemptLeft
    BY LimitsAssumption DEF ConnInit, Booted, GivenUpIsFinal, AttemptLeft
  <1>7. QED
    BY <1>1, <1>2, <1>3, <1>5, <1>6 DEF ConnIInv, ConnTypeOK

(* With a connect under way or a timer armed no socket lives. *)
LEMMA Alone ==
  ASSUME ConnIInv, connecting > 0 \/ timers > 0
  PROVE  /\ Living = {} /\ ~ready /\ attempts < MaxReconnects
         /\ ~exhausted /\ ~loggedOut
         /\ connecting + timers = 1
  <1>1. connecting + timers = 1
    BY DEF ConnIInv, ConnTypeOK, Counts, OneConnection
  <1>2. Living = {}
    BY <1>1 DEF ConnIInv, OneConnection
  <1>3. ~ready
    BY <1>2 DEF ConnIInv, OneConnection
  <1>4. attempts < MaxReconnects
    BY <1>1 DEF ConnIInv, AttemptLeft
  <1>5. ~exhausted /\ ~loggedOut
    BY <1>1 DEF ConnIInv, GivenUpIsFinal
  <1>6. QED
    BY <1>1, <1>2, <1>3, <1>4, <1>5

(* A living socket is the one the service has, and nothing else is under way. *)
LEMMA Lone ==
  ASSUME ConnIInv, NEW n \in Sockets, line[n] \in {"opening", "open"}
  PROVE  /\ n = sock /\ connecting = 0 /\ timers = 0
         /\ Living = {n} /\ attempts < MaxReconnects
         /\ ~exhausted /\ ~loggedOut
  <1>1. n \in Living
    BY DEF Living
  <1>2. connecting + timers = 0 /\ Living = {n} /\ n = sock
    BY <1>1 DEF ConnIInv, OneConnection
  <1>3. connecting = 0 /\ timers = 0
    BY <1>2 DEF ConnIInv, ConnTypeOK, Counts
  <1>4. attempts < MaxReconnects
    BY <1>1 DEF ConnIInv, AttemptLeft
  <1>5. ~exhausted /\ ~loggedOut
    BY <1>1 DEF ConnIInv, GivenUpIsFinal
  <1>6. QED
    BY <1>2, <1>3, <1>4, <1>5

LEMMA MakeSocketKeeps == ASSUME ConnIInv, MakeSocket PROVE ConnIInv'
  <1>1. /\ Living = {} /\ ~ready /\ attempts < MaxReconnects
        /\ ~exhausted /\ ~loggedOut /\ connecting + timers = 1
    BY Alone DEF MakeSocket
  <1>2. connecting = 1 /\ timers = 0 /\ connecting' = 0 /\ timers' = 0
    BY <1>1 DEF MakeSocket, ConnIInv, ConnTypeOK, Counts
  <1>3. PICK n \in Sockets : /\ line[n] = "none" /\ sock' = n
                             /\ line' = [line EXCEPT ![n] = "opening"]
    BY DEF MakeSocket
  <1>4. Living' = {n} /\ line'[n] = "opening"
    BY <1>1, <1>3 DEF ConnIInv, ConnTypeOK, Wires, Living
  <1>5. Counts' /\ attempts' < MaxReconnects
    BY <1>1, <1>2 DEF MakeSocket, ConnIInv, ConnTypeOK, Counts
  <1>6. Flags' /\ ~ready' /\ ~exhausted' /\ ~loggedOut'
    BY <1>1, Zenon DEF MakeSocket, ConnIInv, ConnTypeOK, Flags
  <1>7. Wires'
    BY <1>3 DEF ConnIInv, ConnTypeOK, Wires
  <1>8. OneConnection'
    BY <1>2, <1>3, <1>4, <1>6 DEF OneConnection
  <1>9. GivenUpIsFinal' /\ AttemptLeft'
    BY <1>5, <1>6 DEF GivenUpIsFinal, AttemptLeft
  <1>10. QED
    BY <1>5, <1>6, <1>7, <1>8, <1>9 DEF ConnIInv, ConnTypeOK

LEMMA ConnectRejectsKeeps == ASSUME ConnIInv, ConnectRejects PROVE ConnIInv'
  <1>1. /\ Living = {} /\ ~ready /\ attempts < MaxReconnects
        /\ ~exhausted /\ ~loggedOut /\ connecting + timers = 1
    BY Alone DEF ConnectRejects
  <1>2. connecting = 1 /\ timers = 0
    BY <1>1 DEF ConnectRejects, ConnIInv, ConnTypeOK, Counts
  <1>3. CASE dsn
    <2>1. /\ connecting' = 0 /\ UNCHANGED timers /\ UNCHANGED attempts
          /\ rejects' = rejects - 1 /\ rejects > 0
      BY <1>2, <1>3 DEF ConnectRejects
    <2>2. Living' = {} /\ Wires' /\ UNCHANGED <<sock, line>>
      BY <1>1, <1>3 DEF ConnectRejects, Living, ConnIInv, ConnTypeOK, Wires
    <2>3. Flags' /\ ~ready' /\ ~exhausted' /\ ~loggedOut'
      <3>1. /\ UNCHANGED ready /\ UNCHANGED exhausted
            /\ UNCHANGED loggedOut /\ UNCHANGED dsn
        BY <1>3 DEF ConnectRejects
      <3>2. QED
        BY <1>1, <3>1, Zenon DEF ConnIInv, ConnTypeOK, Flags
    <2>4. Counts'
      BY <2>1 DEF ConnIInv, ConnTypeOK, Counts
    <2>5. OneConnection' /\ GivenUpIsFinal' /\ AttemptLeft'
      BY <1>2, <2>1, <2>2, <2>3 DEF OneConnection, GivenUpIsFinal, AttemptLeft
    <2>6. QED
      BY <2>2, <2>3, <2>4, <2>5 DEF ConnIInv, ConnTypeOK
  <1>4. CASE ~dsn
    <2>1. /\ connecting' = 1 /\ timers' = 0 /\ attempts' = 0
          /\ rejects' = rejects - 1 /\ rejects > 0
      BY <1>4 DEF ConnectRejects, Restarted
    <2>2. Living' = {} /\ Wires'
      BY <1>4 DEF ConnectRejects, Restarted, Living, Wires
    <2>3. Flags' /\ ~ready' /\ ~exhausted' /\ ~loggedOut'
      BY <1>4, Zenon DEF ConnectRejects, Restarted, ConnIInv, ConnTypeOK, Flags
    <2>4. Counts' /\ attempts' < MaxReconnects
      BY <2>1, LimitsAssumption DEF ConnIInv, ConnTypeOK, Counts
    <2>5. OneConnection' /\ GivenUpIsFinal' /\ AttemptLeft'
      BY <2>1, <2>2, <2>3, <2>4 DEF OneConnection, GivenUpIsFinal, AttemptLeft
    <2>6. QED
      BY <2>2, <2>3, <2>4, <2>5 DEF ConnIInv, ConnTypeOK
  <1>5. QED
    BY <1>3, <1>4

LEMMA OpenKeeps == ASSUME ConnIInv, NEW n \in Sockets, Open(n) PROVE ConnIInv'
  <1>1. /\ n = sock /\ connecting = 0 /\ timers = 0 /\ Living = {n}
        /\ ~exhausted /\ ~loggedOut
    BY Lone DEF Open
  <1>2. /\ sock' = n /\ connecting' = 0 /\ timers' = 0 /\ attempts' = 0
        /\ UNCHANGED rejects
    BY <1>1 DEF Open
  <1>3. Living' = {n} /\ line'[n] = "open" /\ Wires'
    BY <1>1 DEF Open, ConnIInv, ConnTypeOK, Wires, Living
  <1>4. Flags' /\ ready' /\ ~exhausted' /\ ~loggedOut'
    BY <1>1, Zenon DEF Open, ConnIInv, ConnTypeOK, Flags
  <1>5. Counts' /\ attempts' < MaxReconnects
    BY <1>2, LimitsAssumption DEF ConnIInv, ConnTypeOK, Counts
  <1>6. OneConnection' /\ GivenUpIsFinal' /\ AttemptLeft'
    BY <1>2, <1>3, <1>4, <1>5 DEF OneConnection, GivenUpIsFinal, AttemptLeft
  <1>7. QED
    BY <1>3, <1>4, <1>5, <1>6 DEF ConnIInv, ConnTypeOK

LEMMA CloseKeeps == ASSUME ConnIInv, NEW n \in Sockets, Close(n) PROVE ConnIInv'
  <1>1. /\ n = sock /\ connecting = 0 /\ timers = 0 /\ Living = {n}
        /\ attempts < MaxReconnects /\ ~exhausted /\ ~loggedOut
    BY Lone DEF Close
  <1>2. Living' = {} /\ line'[n] = "closed" /\ Wires'
    BY <1>1 DEF Close, ConnIInv, ConnTypeOK, Wires, Living
  <1>3. connecting' = 0 /\ UNCHANGED rejects /\ ~ready'
    BY <1>1, Zenon DEF Close
  <1>4. Flags'
    <2>1. exhausted' \in BOOLEAN
      BY Zenon DEF Close, ConnIInv, ConnTypeOK, Flags
    <2>2. ready' \in BOOLEAN /\ loggedOut' \in BOOLEAN /\ dsn' \in BOOLEAN
      BY Zenon DEF Close, ConnIInv, ConnTypeOK, Flags
    <2>3. QED
      BY <2>1, <2>2, Zenon DEF Flags
  <1>5. CASE UNCHANGED <<attempts, exhausted, timers>>
    <2>1. Counts' /\ timers' = 0 /\ attempts' < MaxReconnects
      BY <1>1, <1>3, <1>5 DEF ConnIInv, ConnTypeOK, Counts
    <2>2. OneConnection' /\ GivenUpIsFinal' /\ AttemptLeft'
      BY <1>2, <1>3, <2>1 DEF OneConnection, GivenUpIsFinal, AttemptLeft
    <2>3. QED
      BY <1>2, <1>4, <2>1, <2>2 DEF ConnIInv, ConnTypeOK
  <1>6. CASE /\ attempts' = attempts + 1
             /\ exhausted' = (exhausted \/ attempts' >= MaxReconnects)
             /\ timers' = IF attempts' >= MaxReconnects THEN timers ELSE timers + 1
             /\ UNCHANGED loggedOut
    <2>1. Counts' /\ (timers' = 0 \/ (timers' = 1 /\ attempts' < MaxReconnects))
      BY <1>1, <1>3, <1>6, LimitsAssumption DEF ConnIInv, ConnTypeOK, Counts
    <2>2. timers' # 0 => ~(attempts' >= MaxReconnects)
      BY <1>1, <1>6
    <2>3. timers' # 0 => ~exhausted' /\ ~loggedOut'
      BY <1>1, <1>6, <2>2, Zenon
    <2>4. OneConnection'
      BY <1>2, <1>3, <2>1 DEF OneConnection
    <2>5. GivenUpIsFinal' /\ AttemptLeft'
      BY <1>2, <1>3, <2>1, <2>3 DEF GivenUpIsFinal, AttemptLeft
    <2>6. QED
      BY <1>2, <1>4, <2>1, <2>4, <2>5 DEF ConnIInv, ConnTypeOK
  <1>7. QED
    BY <1>5, <1>6, Zenon DEF Close

LEMMA TimerFiresKeeps == ASSUME ConnIInv, TimerFires PROVE ConnIInv'
  <1>1. /\ Living = {} /\ ~ready /\ attempts < MaxReconnects
        /\ ~exhausted /\ ~loggedOut /\ connecting + timers = 1
    BY Alone DEF TimerFires
  <1>2. connecting' = 1 /\ timers' = 0 /\ UNCHANGED attempts /\ UNCHANGED rejects
    BY <1>1 DEF TimerFires, ConnIInv, ConnTypeOK, Counts
  <1>3. Living' = {} /\ Wires'
    BY <1>1 DEF TimerFires, Living, ConnIInv, ConnTypeOK, Wires
  <1>4. Flags' /\ ~ready' /\ ~exhausted' /\ ~loggedOut'
    BY <1>1, Zenon DEF TimerFires, ConnIInv, ConnTypeOK, Flags
  <1>5. Counts' /\ attempts' < MaxReconnects
    BY <1>1, <1>2 DEF ConnIInv, ConnTypeOK, Counts
  <1>6. OneConnection' /\ GivenUpIsFinal' /\ AttemptLeft'
    BY <1>2, <1>3, <1>4, <1>5 DEF OneConnection, GivenUpIsFinal, AttemptLeft
  <1>7. QED
    BY <1>3, <1>4, <1>5, <1>6 DEF ConnIInv, ConnTypeOK

LEMMA Stuttering == ASSUME ConnIInv, UNCHANGED connVars PROVE ConnIInv'
  BY DEF connVars, ConnIInv, ConnTypeOK, Counts, Flags, Wires, OneConnection, GivenUpIsFinal, AttemptLeft, Living

LEMMA Inductive == ConnIInv /\ [ConnNext]_connVars => ConnIInv'
  BY MakeSocketKeeps, ConnectRejectsKeeps, OpenKeeps, CloseKeeps,
     TimerFiresKeeps, Stuttering
  DEF ConnNext, ConnEvent

(* The inductive invariant holds in every reachable state. *)
THEOREM Invariance == ConnSpec => []ConnIInv
  BY Initially, Inductive, PTL DEF ConnSpec

(* The fields of the service are well typed, and no more closes in a row are
   counted than WA_MAX_RECONNECTS. *)
THEOREM TypeCorrect == ConnSpec => []ConnTypeOK
  BY Invariance, PTL DEF ConnIInv

(* There is at most one connect under way, timer armed or socket alive, and
   `ready` tells whether that socket is open. *)
THEOREM ReconnectingNeverForks == ConnSpec => []OneConnection
  BY Invariance, PTL DEF ConnIInv

(* After giving up or a logout, a process connects no more. *)
THEOREM GivingUpIsFinal == ConnSpec => []GivenUpIsFinal
  BY Invariance, PTL DEF ConnIInv

(* Reconnecting neither forks nor outlives giving up. *)
THEOREM ReconnectingIsSound == ConnSpec => []ReconnectIsSound
  BY ReconnectingNeverForks, GivingUpIsFinal, PTL DEF ReconnectIsSound
-----------------------------------------------------------------------------
(* The rate limiter. *)

Waiting == {p \in Senders : sender[p].pc = "send"}
Leaving(b) == {p \in Senders : sender[p].pc = "record" /\ b \in Both(sender[p].at)}

(* Buckets whose time is still to come. *)
Ahead(b) == \A t \in Hours : t <= now => b \notin Both(t)

(* What left in the current hour and day is counted, about to be, or lost. *)
NothingUncounted ==
  \A b \in Current : delivered[b] <= mem[b] + lost[b] + Cardinality(Leaving(b))

(* The cap holds with the messages still to leave counted as if they had. *)
RoomForWaiting ==
  \A b \in Current :
    delivered[b] + Cardinality(Waiting) <= Cap(b) + Cardinality(Senders) - 1 + lost[b]

(* A value on its way to the table is memory's, or another sender still has
   the bucket to save. *)
SavesAreCurrent ==
  \A b \in Buckets \ torn : \A p \in Saving(b) :
    sender[p].val = mem[b] \/ Pending(b) \ Saving(b) # {}

TableFollows == \A b \in Buckets : db[b] # mem[b] => b \in torn \/ Pending(b) # {}

RateIInv == /\ TypeOK
            /\ \A b \in Buckets : Ahead(b) => delivered[b] = 0
            /\ NothingUncounted
            /\ RoomForWaiting
            /\ OvershootBounded
            /\ SavesAreCurrent
            /\ TableFollows

LEMMA Quotients ==
  ASSUME NEW n \in Nat \ {0}, NEW a \in Nat, NEW b \in Nat, a <= b
  PROVE  a \div n \in Nat /\ a \div n <= b \div n
<1> DEFINE p == a \div n
           q == b \div n
<1>1. /\ p \in Nat /\ p * n <= a
      /\ q \in Nat /\ b < q * n + n
  OBVIOUS
<1> HIDE DEF p, q
<1>2. ASSUME p >= q + 1 PROVE FALSE
  <2>1. p * n >= (q + 1) * n
    BY <1>1, <1>2
  <2>2. (q + 1) * n = q * n + n
    BY <1>1
  <2> QED BY <1>1, <2>1, <2>2
<1>3. p \in Nat /\ p <= q
  BY <1>1, <1>2
<1> QED BY <1>3 DEF p, q

(* The buckets of an hour, and what their caps are. *)
LEMMA BucketFacts ==
  ASSUME NEW t \in Hours
  PROVE  /\ t \in Nat /\ DayOf(t) \in Nat /\ DayOf(t) \in Days
         /\ Both(t) \subseteq Buckets
         /\ HourBucket(t) # DayBucket(t)
<1>1. t \in Nat /\ DayOf(t) \in Nat
  BY ClockAssumption, Quotients DEF Hours, DayOf
<1> QED BY <1>1 DEF Days, Buckets, Both, HourBucket, DayBucket

LEMMA Caps == ASSUME NEW b \in Buckets PROVE Cap(b) \in Nat \ {0}
<1>1. PICK t \in Hours : b \in Both(t)
  BY DEF Buckets
<1>2. CASE b = HourBucket(t)
  BY <1>2, BucketFacts, CapsAssumption DEF Cap, HourBucket
<1>3. CASE b = DayBucket(t)
  BY <1>3, BucketFacts, CapsAssumption DEF Cap, DayBucket
<1> QED BY <1>1, <1>2, <1>3 DEF Both

(* A bucket that was current in two hours was so in between. *)
LEMMA NoComeback ==
  ASSUME NEW t \in Hours, NEW u \in Hours, NEW v \in Hours, t <= u, u <= v,
         NEW b, b \in Both(t), b \in Both(v)
  PROVE  b \in Both(u)
<1>1. /\ t \in Nat /\ u \in Nat /\ v \in Nat
      /\ DayOf(t) \in Nat /\ DayOf(u) \in Nat /\ DayOf(v) \in Nat
  BY BucketFacts
<1>2. DayOf(t) <= DayOf(u) /\ DayOf(u) <= DayOf(v)
  BY <1>1, Quotients, ClockAssumption DEF DayOf
<1> QED BY <1>1, <1>2 DEF Both, HourBucket, DayBucket

(* Sets of senders are finite, and the parts of a partition do not exceed it. *)
LEMMA Counting ==
  ASSUME NEW S, NEW T, S \subseteq Senders, T \subseteq Senders, S \cap T = {}
  PROVE  /\ Cardinality(S) \in Nat /\ Cardinality(T) \in Nat
         /\ Cardinality(Senders) \in Nat \ {0}
         /\ Cardinality(S) + Cardinality(T) <= Cardinality(Senders)
         /\ S # Senders => Cardinality(S) <= Cardinality(Senders) - 1
<1>1. IsFiniteSet(S) /\ IsFiniteSet(T)
  BY SendersAssumption, FS_Subset
<1>2. /\ Cardinality(S) \in Nat /\ Cardinality(T) \in Nat /\ Cardinality(Senders) \in Nat
  BY <1>1, SendersAssumption, FS_CardinalityType
<1>3. Cardinality(S \union T) = Cardinality(S) + Cardinality(T) - Cardinality({})
  BY <1>1, FS_Union
<1>4. Cardinality(S \union T) <= Cardinality(Senders)
  BY SendersAssumption, FS_Subset
<1>5. Cardinality({}) = 0 /\ Cardinality(Senders) # 0
  BY FS_EmptySet, SendersAssumption
<1>6. S # Senders => Cardinality(S) # Cardinality(Senders)
  BY SendersAssumption, FS_Subset
<1>7. Cardinality(S) <= Cardinality(Senders)
  BY SendersAssumption, FS_Subset
<1>8. Cardinality(S) + Cardinality(T) <= Cardinality(Senders)
  BY <1>2, <1>3, <1>4, <1>5
<1>9. S # Senders => Cardinality(S) <= Cardinality(Senders) - 1
  BY <1>2, <1>6, <1>7
<1> QED BY <1>2, <1>5, <1>8, <1>9

(* One sender joins or leaves a set of them. *)
LEMMA OneMore ==
  ASSUME NEW S, S \subseteq Senders, NEW p \in Senders
  PROVE  /\ p \notin S => Cardinality(S \union {p}) = Cardinality(S) + 1
         /\ p \in S => Cardinality(S \ {p}) = Cardinality(S) - 1
         /\ Cardinality(S) \in Nat
<1>1. IsFiniteSet(S)
  BY SendersAssumption, FS_Subset
<1> QED BY <1>1, FS_AddElement, FS_RemoveElement, FS_CardinalityType

LEMMA RateTypes == TypeOK /\ Next => TypeOK'
<1> SUFFICES ASSUME TypeOK, Next PROVE TypeOK'
  OBVIOUS
<1>1. now \in Hours /\ Current \subseteq Buckets
  BY BucketFacts DEF TypeOK, Current
<1>2. ASSUME NEW f \in [Buckets -> Nat], NEW B PROVE Bump(f, B) \in [Buckets -> Nat]
  BY DEF Bump
<1>3. ASSUME NEW p \in Senders, Step(p) PROVE TypeOK'
  <2>0. now \in Nat /\ 0 \in Hours
    BY <1>1, ClockAssumption DEF Hours
  <2>1. CASE Check(p) \/ Send(p) \/ SendFails(p) \/ SendDoubtful(p)
    BY <1>1, <1>2, <2>0, <2>1 DEF TypeOK, Check, Send, SendFails, SendDoubtful, SpendFail, Idle
  <2>2. CASE Record(p)
    <3>1. HourBucket(now) \in Buckets
      BY <1>1 DEF Current, Both
    <3>2. mem[HourBucket(now)] + 1 \in Nat
      BY <3>1 DEF TypeOK
    <3> QED BY <1>1, <1>2, <2>2, <3>1, <3>2 DEF TypeOK, Record
  <2>3. CASE SaveHour(p) \/ SaveDay(p) \/ SaveFails(p)
    <3>1. sender[p].at \in Hours /\ sender[p].val \in Nat
      BY DEF TypeOK
    <3>2. HourBucket(sender[p].at) \in Buckets /\ DayBucket(sender[p].at) \in Buckets
      BY <3>1, BucketFacts DEF Both
    <3>3. mem[DayBucket(sender[p].at)] \in Nat
      BY <3>2 DEF TypeOK
    <3> QED BY <2>0, <2>3, <3>1, <3>2, <3>3
            DEF TypeOK, SaveHour, SaveDay, SaveFails, SpendFail, Idle
  <2> QED BY <1>3, <2>1, <2>2, <2>3 DEF Step
<1>4. CASE HourPasses
  BY <1>4 DEF HourPasses, TypeOK
<1>5. ASSUME NEW loads \in BOOLEAN, NEW deletes \in BOOLEAN, Restart(loads, deletes) PROVE TypeOK'
  <2>1. Loaded \in [Buckets -> Nat] /\ Zero \in [Buckets -> Nat]
    BY DEF TypeOK, Loaded, Zero
  <2>2. mem' \in [Buckets -> Nat] /\ db' \in [Buckets -> Nat]
    BY <1>5, <2>1 DEF TypeOK, Restart
  <2>3. \A b \in Buckets : Uncounted(b) \in Nat
    <3>1. \A b : {p \in Senders : sender[p].pc = "record" /\ b \in Both(sender[p].at)} \subseteq Senders
      OBVIOUS
    <3> QED BY <3>1, SendersAssumption, FS_Subset, FS_CardinalityType DEF Uncounted
  <2>4. \A b \in Buckets : mem[b] \in Nat /\ mem'[b] \in Nat /\ lost[b] \in Nat
    BY <2>2 DEF TypeOK
  <2>5. lost' \in [Buckets -> Nat]
    BY <1>5, <2>3, <2>4 DEF Restart
  <2>6. sender' \in [Senders -> [pc : {"idle", "send", "record", "hour", "day"},
                                 at : Hours, val : Nat]]
    BY <1>5, ClockAssumption DEF Restart, Idle, Hours
  <2> QED BY <1>5, <2>2, <2>5, <2>6 DEF Restart, TypeOK, SpendFail
<1> QED BY <1>3, <1>4, <1>5 DEF Next

(* What the invariant says of cardinalities and buckets, as numbers. *)
LEMMA Numbers ==
  ASSUME TypeOK
  PROVE  /\ now \in Hours /\ now \in Nat /\ Current \subseteq Buckets
         /\ Cardinality(Waiting) \in Nat /\ Cardinality(Senders) \in Nat \ {0}
         /\ \A b \in Buckets :
              /\ Cardinality(Leaving(b)) \in Nat
              /\ Cardinality(Leaving(b)) + Cardinality(Waiting) <= Cardinality(Senders)
              /\ Cap(b) \in Nat \ {0}
              /\ mem[b] \in Nat /\ lost[b] \in Nat /\ delivered[b] \in Nat
<1>1. /\ Waiting \subseteq Senders
      /\ \A b \in Buckets : Leaving(b) \subseteq Senders /\ Leaving(b) \cap Waiting = {}
  BY DEF Waiting, Leaving
<1>2. /\ Cardinality(Waiting) \in Nat /\ Cardinality(Senders) \in Nat \ {0}
      /\ \A b \in Buckets :
           /\ Cardinality(Leaving(b)) \in Nat
           /\ Cardinality(Leaving(b)) + Cardinality(Waiting) <= Cardinality(Senders)
  BY <1>1, Counting
<1> QED BY <1>2, Caps, BucketFacts DEF TypeOK, Current

(* A save under way is still to be finished; an hour's is on its way. *)
LEMMA SavingIsPending ==
  /\ \A b : Saving(b) \subseteq Pending(b)
  /\ \A t : Pending(HourBucket(t)) = Saving(HourBucket(t))
BY DEF Saving, Pending, Both, HourBucket, DayBucket


(* While a message is checked and sent nothing changes for the saves. *)
LEMMA SavesStay ==
  ASSUME RateIInv, NEW p \in Senders, Check(p) \/ Send(p) \/ SendFails(p) \/ SendDoubtful(p)
  PROVE  SavesAreCurrent' /\ TableFollows'
<1>1. UNCHANGED <<mem, db, torn>>
  BY DEF Check, Send, SendFails, SendDoubtful
<1>2. /\ sender[p].pc \notin {"hour", "day"} /\ sender'[p].pc \notin {"hour", "day"}
      /\ \A q \in Senders : q # p => sender'[q] = sender[q]
  BY DEF Check, Send, SendFails, SendDoubtful, RateIInv, TypeOK, Idle
<1>3. \A b : Saving(b)' = Saving(b) /\ Pending(b)' = Pending(b)
  BY <1>2 DEF Saving, Pending
<1>4. \A b : \A q \in Saving(b) : sender'[q] = sender[q]
  BY <1>2 DEF Saving
<1> QED BY <1>1, <1>3, <1>4 DEF RateIInv, SavesAreCurrent, TableFollows

LEMMA CheckKeeps ==
  ASSUME RateIInv, NEW p \in Senders, Check(p)
  PROVE  RateIInv'
<1>1. TypeOK' /\ TypeOK
  BY RateTypes DEF Next, Step, RateIInv
<1>2. SavesAreCurrent' /\ TableFollows'
  BY SavesStay
<1>3. UNCHANGED <<now, mem, delivered, lost>> /\ Current' = Current
  BY DEF Check, Current
<1>4. /\ Waiting' = Waiting \union {p}
      /\ \A b : Leaving(b)' = Leaving(b)
  BY <1>1 DEF Check, Waiting, Leaving, TypeOK
<1>5. NothingUncounted'
  BY <1>3, <1>4 DEF RateIInv, NothingUncounted
<1>6. ASSUME NEW b \in Current
      PROVE  delivered[b] + Cardinality(Waiting') <= Cap(b) + Cardinality(Senders) - 1 + lost[b]
  <2>1. b \in Buckets /\ mem[b] < Cap(b)
    BY <1>1, Numbers DEF Check
  <2>2. delivered[b] <= mem[b] + lost[b] + Cardinality(Leaving(b))
    BY DEF RateIInv, NothingUncounted
  <2>3. /\ Cardinality(Leaving(b)) + Cardinality(Waiting') <= Cardinality(Senders)
        /\ Cardinality(Waiting') \in Nat
    <3>1. /\ Leaving(b) \subseteq Senders /\ Waiting' \subseteq Senders
          /\ Leaving(b) \cap Waiting' = {}
      BY <1>4 DEF Leaving, Waiting, Check
    <3> QED BY <3>1, Counting
  <2> QED BY <1>1, <2>1, <2>2, <2>3, Numbers
<1>7. RoomForWaiting'
  BY <1>3, <1>6 DEF RoomForWaiting, Cap
<1>8. OvershootBounded' /\ \A b \in Buckets : Ahead(b)' => delivered'[b] = 0
  BY <1>3 DEF RateIInv, OvershootBounded, Ahead, Cap
<1> QED BY <1>1, <1>2, <1>5, <1>7, <1>8 DEF RateIInv

(* A message that leaves was waiting, and leaves into current buckets. *)
LEMMA LeavingKeeps ==
  ASSUME RateIInv, NEW p \in Senders, Send(p) \/ SendFails(p) \/ SendDoubtful(p)
  PROVE  RateIInv'
<1>1. TypeOK' /\ TypeOK
  BY RateTypes DEF Next, Step, RateIInv
<1>2. SavesAreCurrent' /\ TableFollows'
  BY SavesStay
<1>3. UNCHANGED <<now, mem>> /\ Current' = Current
  BY DEF Send, SendFails, SendDoubtful, Current
<1>4. /\ p \in Waiting /\ Waiting' = Waiting \ {p}
      /\ Cardinality(Waiting') = Cardinality(Waiting) - 1
  <2>1. p \in Waiting /\ Waiting' = Waiting \ {p}
    BY <1>1 DEF Send, SendFails, SendDoubtful, Waiting, TypeOK, Idle
  <2>2. Waiting \subseteq Senders
    BY DEF Waiting
  <2> QED BY <2>1, <2>2, OneMore
<1>5. \A b \in Buckets :
        /\ delivered'[b] \in Nat /\ lost'[b] \in Nat /\ delivered[b] <= delivered'[b]
        /\ delivered'[b] - lost'[b] <= delivered[b] - lost[b] + 1
        /\ delivered'[b] # delivered[b] => b \in Current
        /\ b \notin Current => lost'[b] = lost[b]
  BY <1>1, Numbers DEF Send, SendFails, SendDoubtful, Bump
<1>6. ASSUME NEW b \in Current
      PROVE  delivered'[b] <= mem[b] + lost'[b] + Cardinality(Leaving(b)')
  <2>0. b \in Buckets
    BY <1>1, Numbers
  <2>1. delivered[b] <= mem[b] + lost[b] + Cardinality(Leaving(b))
    BY DEF RateIInv, NothingUncounted
  <2>2. CASE Send(p)
    <3>1. Leaving(b)' = Leaving(b) \union {p} /\ p \notin Leaving(b) /\ Leaving(b) \subseteq Senders
      BY <1>1, <1>3, <2>2 DEF Send, Leaving, TypeOK, Current
    <3>2. Cardinality(Leaving(b)') = Cardinality(Leaving(b)) + 1
      BY <3>1, OneMore
    <3>3. delivered'[b] = delivered[b] + 1 /\ lost'[b] = lost[b]
      BY <2>0, <2>2 DEF Send, Bump
    <3> QED BY <1>1, <2>0, <2>1, <3>2, <3>3, Numbers
  <2>3. CASE SendFails(p) \/ SendDoubtful(p)
    <3>1. Leaving(b)' = Leaving(b)
      BY <1>1, <2>3, SMTT(30) DEF SendFails, SendDoubtful, Leaving, TypeOK, Idle
    <3>2. \/ delivered'[b] = delivered[b] /\ lost'[b] = lost[b]
          \/ delivered'[b] = delivered[b] + 1 /\ lost'[b] = lost[b] + 1
      BY <2>0, <2>3 DEF SendFails, SendDoubtful, Bump
    <3> QED BY <1>1, <2>0, <2>1, <3>1, <3>2, Numbers
  <2> QED BY <2>2, <2>3
<1>7. NothingUncounted'
  BY <1>3, <1>6 DEF NothingUncounted
<1>8. ASSUME NEW b \in Current
      PROVE  delivered'[b] + Cardinality(Waiting') <= Cap(b) + Cardinality(Senders) - 1 + lost'[b]
  <2>1. delivered[b] + Cardinality(Waiting) <= Cap(b) + Cardinality(Senders) - 1 + lost[b]
    BY DEF RateIInv, RoomForWaiting
  <2>2. b \in Buckets
    BY <1>1, Numbers
  <2> QED BY <1>1, <1>4, <1>5, <2>1, <2>2, Numbers
<1>9. RoomForWaiting'
  BY <1>3, <1>8 DEF RoomForWaiting, Cap
<1>10. ASSUME NEW b \in Buckets
       PROVE  delivered'[b] <= Cap(b) + Cardinality(Senders) - 1 + lost'[b]
  <2>1. CASE b \in Current
    <3>1. Cardinality(Waiting') \in Nat
      <4>1. Waiting' \subseteq Senders
        BY DEF Waiting
      <4> QED BY <4>1, SendersAssumption, FS_Subset, FS_CardinalityType
    <3> QED BY <1>1, <1>5, <1>8, <2>1, <3>1, Numbers
  <2>2. CASE b \notin Current
    BY <1>5, <2>2 DEF RateIInv, OvershootBounded
  <2> QED BY <2>1, <2>2
<1>11. OvershootBounded'
  BY <1>10 DEF OvershootBounded, Cap
<1>12. ASSUME NEW b \in Buckets, Ahead(b)' PROVE delivered'[b] = 0
  <2>1. now \in Hours /\ now <= now
    BY <1>1, Numbers
  <2>2. Ahead(b) /\ b \notin Current
    BY <1>3, <1>12, <2>1 DEF Ahead, Current
  <2> QED BY <1>5, <2>2 DEF RateIInv
<1> QED BY <1>1, <1>2, <1>7, <1>9, <1>11, <1>12 DEF RateIInv

LEMMA RecordKeeps ==
  ASSUME RateIInv, NEW p \in Senders, Record(p)
  PROVE  RateIInv'
<1>1. TypeOK' /\ TypeOK
  BY RateTypes DEF Next, Step, RateIInv
<1>2. UNCHANGED <<now, db, delivered, lost>> /\ Current' = Current /\ Waiting' = Waiting
  BY <1>1 DEF Record, Current, Waiting, TypeOK
<1>3. ASSUME NEW b \in Current
      PROVE  delivered[b] <= mem'[b] + lost[b] + Cardinality(Leaving(b)')
  <2>1. b \in Buckets /\ mem'[b] = mem[b] + 1
    BY <1>1, Numbers DEF Record, Bump
  <2>2. delivered[b] <= mem[b] + lost[b] + Cardinality(Leaving(b))
    BY DEF RateIInv, NothingUncounted
  <2>3. Leaving(b)' = Leaving(b) \ {p} /\ Leaving(b) \subseteq Senders
    BY <1>1 DEF Record, Leaving, TypeOK
  <2>4. Cardinality(Leaving(b)') >= Cardinality(Leaving(b)) - 1 /\ Cardinality(Leaving(b)') \in Nat
    <3>1. CASE p \in Leaving(b)
      <4>1. Cardinality(Leaving(b)') \in Nat
        BY <2>3, OneMore
      <4> QED BY <2>3, <3>1, <4>1, OneMore
    <3>2. CASE p \notin Leaving(b)
      <4>1. Leaving(b)' = Leaving(b)
        BY <2>3, <3>2
      <4> QED BY <1>1, <2>1, <4>1, Numbers
    <3> QED BY <3>1, <3>2
  <2> QED BY <1>1, <2>1, <2>2, <2>4, Numbers
<1>4. NothingUncounted'
  BY <1>2, <1>3 DEF NothingUncounted
<1>5. RoomForWaiting' /\ OvershootBounded'
  BY <1>2 DEF RateIInv, RoomForWaiting, OvershootBounded, Cap
<1>6. \A b \in Buckets : Ahead(b)' => delivered'[b] = 0
  BY <1>2 DEF RateIInv, Ahead
<1>7. /\ \A q \in Senders : q # p => sender'[q] = sender[q]
      /\ sender[p].pc = "record"
      /\ sender'[p] = [pc |-> "hour", at |-> now, val |-> mem[HourBucket(now)] + 1]
  BY <1>1 DEF Record, TypeOK
<1>8. HourBucket(now) # DayBucket(now) /\ Current = {HourBucket(now), DayBucket(now)}
  BY <1>1, Numbers, BucketFacts DEF Current, Both
<1>9. \A b : /\ Pending(b)' = IF b \in Current THEN Pending(b) \union {p} ELSE Pending(b)
             /\ Saving(b)' = IF b = HourBucket(now) THEN Saving(b) \union {p} ELSE Saving(b)
             /\ p \notin Saving(b) /\ p \notin Pending(b)
  BY <1>7, <1>8 DEF Pending, Saving, Current, Both
<1>10. \A b \in Buckets \ Current : mem'[b] = mem[b]
  BY DEF Record, Bump
<1>11. TableFollows'
  BY <1>2, <1>9, <1>10, <1>8 DEF RateIInv, TableFollows, Record
<1>12. ASSUME NEW b \in Buckets \ torn', NEW q \in Saving(b)'
       PROVE  sender'[q].val = mem'[b] \/ Pending(b)' \ Saving(b)' # {}
  <2>1. b \notin torn
    BY DEF Record
  <2>2. CASE b = HourBucket(now)
    <3>1. Saving(b) = {}
      BY <1>12, <2>2 DEF Record
    <3>2. q = p /\ mem'[b] = mem[b] + 1
      BY <1>8, <1>9, <2>2, <3>1 DEF Record, Bump
    <3> QED BY <1>7, <2>2, <3>2
  <2>3. CASE b = DayBucket(now)
    BY <1>8, <1>9, <2>3
  <2>4. CASE b \notin Current
    <3>1. q \in Saving(b) /\ q # p /\ q \in Senders
      BY <1>8, <1>9, <2>4 DEF Saving
    <3>2. sender[q].val = mem[b] \/ Pending(b) \ Saving(b) # {}
      BY <2>1, <3>1 DEF RateIInv, SavesAreCurrent
    <3> QED BY <1>7, <1>8, <1>9, <1>10, <2>4, <3>1, <3>2
  <2> QED BY <1>8, <2>2, <2>3, <2>4
<1>13. SavesAreCurrent'
  BY <1>12 DEF SavesAreCurrent
<1> QED BY <1>1, <1>4, <1>5, <1>6, <1>11, <1>13 DEF RateIInv

(* Steps that write counts to the table leave the counts themselves alone. *)
LEMMA CountsStay ==
  ASSUME RateIInv, NEW p \in Senders, SaveHour(p) \/ SaveDay(p) \/ SaveFails(p)
  PROVE  /\ NothingUncounted' /\ RoomForWaiting' /\ OvershootBounded'
         /\ \A b \in Buckets : Ahead(b)' => delivered'[b] = 0
         /\ UNCHANGED mem
         /\ p \in Senders /\ sender[p].pc \in {"hour", "day"}
         /\ \A q \in Senders : q # p => sender'[q] = sender[q]
<1>1. UNCHANGED <<now, mem, delivered, lost>> /\ Current' = Current
  BY DEF SaveHour, SaveDay, SaveFails, Current
<1>2. /\ sender[p].pc \in {"hour", "day"} /\ sender'[p].pc \notin {"send", "record"}
      /\ \A q \in Senders : q # p => sender'[q] = sender[q]
  BY DEF SaveHour, SaveDay, SaveFails, Idle, RateIInv, TypeOK
<1>3. Waiting' = Waiting /\ \A b : Leaving(b)' = Leaving(b)
  BY <1>2 DEF Waiting, Leaving
<1> QED BY <1>1, <1>2, <1>3 DEF RateIInv, NothingUncounted, RoomForWaiting, OvershootBounded, Ahead, Cap

LEMMA SaveHourKeeps ==
  ASSUME RateIInv, NEW p \in Senders, SaveHour(p)
  PROVE  RateIInv'
<1> DEFINE hour == HourBucket(sender[p].at)
           day == DayBucket(sender[p].at)
<1>1. TypeOK' /\ TypeOK
  BY RateTypes DEF Next, Step, RateIInv
<1>2. hour \in Buckets /\ day \in Buckets /\ hour # day
  BY <1>1, BucketFacts DEF TypeOK, Both
<1>3. /\ sender[p].pc = "hour" /\ UNCHANGED mem
      /\ \A q \in Senders : q # p => sender'[q] = sender[q]
  BY CountsStay DEF SaveHour
<1>4. /\ sender'[p].pc = "day" /\ sender'[p].at = sender[p].at /\ sender'[p].val = mem[day]
      /\ db' = [db EXCEPT ![hour] = sender[p].val]
      /\ torn' = IF Saving(day) = {} THEN torn ELSE torn \union {day}
  BY <1>1 DEF SaveHour, TypeOK
<1>5. \A b : /\ Pending(b)' = IF b = hour THEN Pending(b) \ {p} ELSE Pending(b)
             /\ Saving(b)' = IF b = day THEN Saving(b) \union {p} ELSE Saving(b) \ {p}
             /\ p \in Saving(b) <=> b = hour
             /\ p \in Pending(b) <=> b \in {hour, day}
  BY <1>2, <1>3, <1>4 DEF Pending, Saving, Both
<1> HIDE DEF hour, day
<1>6. ASSUME NEW b \in Buckets \ torn', NEW q \in Saving(b)'
      PROVE  sender'[q].val = mem'[b] \/ Pending(b)' \ Saving(b)' # {}
  <2>1. b \notin torn /\ q \in Senders
    BY <1>4 DEF Saving
  <2>2. CASE q = p
    BY <1>3, <1>4, <1>5, <2>2
  <2>3. CASE q # p
    <3>1. q \in Saving(b) /\ sender'[q].val = sender[q].val
      BY <1>3, <1>5, <2>1, <2>3
    <3>2. sender[q].val = mem[b] \/ Pending(b) \ Saving(b) # {}
      BY <2>1, <3>1 DEF RateIInv, SavesAreCurrent
    <3>3. b # day
      BY <1>4, <3>1
    <3> QED BY <1>3, <1>5, <3>1, <3>2, <3>3
  <2> QED BY <2>2, <2>3
<1>7. SavesAreCurrent'
  BY <1>6 DEF SavesAreCurrent
<1>8. ASSUME NEW b \in Buckets, b \notin torn', db'[b] # mem'[b] PROVE Pending(b)' # {}
  <2>1. CASE b = hour
    <3>1. sender[p].val = mem[b] \/ Pending(b) \ Saving(b) # {}
      BY <1>4, <1>5, <1>8, <2>1 DEF RateIInv, SavesAreCurrent
    <3>2. Pending(b) \ Saving(b) = {}
      BY <2>1, SavingIsPending DEF hour
    <3> QED BY <1>1, <1>2, <1>3, <1>4, <1>8, <2>1, <3>1, <3>2 DEF TypeOK
  <2>2. CASE b # hour
    <3>1. db'[b] = db[b] /\ b \notin torn
      BY <1>1, <1>4, <1>8, <2>2 DEF TypeOK
    <3>2. Pending(b) # {}
      BY <1>3, <1>8, <3>1 DEF RateIInv, TableFollows
    <3> QED BY <1>5, <2>2, <3>2
  <2> QED BY <2>1, <2>2
<1>9. TableFollows'
  BY <1>8 DEF TableFollows
<1> QED BY <1>1, <1>7, <1>9, CountsStay DEF RateIInv

LEMMA SaveDayKeeps ==
  ASSUME RateIInv, NEW p \in Senders, SaveDay(p)
  PROVE  RateIInv'
<1> DEFINE day == DayBucket(sender[p].at)
<1>1. TypeOK' /\ TypeOK
  BY RateTypes DEF Next, Step, RateIInv
<1>2. /\ sender[p].pc = "day" /\ UNCHANGED <<mem, torn>>
      /\ \A q \in Senders : q # p => sender'[q] = sender[q]
      /\ day \in Buckets
  BY <1>1, CountsStay, BucketFacts DEF SaveDay, TypeOK, Both
<1>3. sender'[p].pc = "idle" /\ db' = [db EXCEPT ![day] = sender[p].val]
  BY <1>1 DEF SaveDay, TypeOK, Idle
<1>4. \A b : /\ Pending(b)' = Pending(b) \ {p} /\ Saving(b)' = Saving(b) \ {p}
             /\ p \in Saving(b) <=> b = day
             /\ p \in Pending(b) <=> b = day
  BY <1>2, <1>3 DEF Pending, Saving
<1> HIDE DEF day
<1>5. \A b : Pending(b)' \ Saving(b)' = Pending(b) \ Saving(b)
  BY <1>4
<1>6. SavesAreCurrent'
  BY <1>2, <1>4, <1>5 DEF RateIInv, SavesAreCurrent, Saving
<1>7. ASSUME NEW b \in Buckets, b \notin torn', db'[b] # mem'[b] PROVE Pending(b)' # {}
  <2>1. CASE b = day
    <3>1. sender[p].val = mem[b] \/ Pending(b) \ Saving(b) # {}
      BY <1>2, <1>4, <1>7, <2>1 DEF RateIInv, SavesAreCurrent
    <3> QED BY <1>1, <1>2, <1>3, <1>5, <1>7, <2>1, <3>1 DEF TypeOK
  <2>2. CASE b # day
    <3>1. db'[b] = db[b] /\ b \notin torn
      BY <1>1, <1>2, <1>3, <1>7, <2>2 DEF TypeOK
    <3>2. Pending(b) # {}
      BY <1>2, <1>7, <3>1 DEF RateIInv, TableFollows
    <3> QED BY <1>4, <2>2, <3>2
  <2> QED BY <2>1, <2>2
<1>8. TableFollows'
  BY <1>7 DEF TableFollows
<1> QED BY <1>1, <1>6, <1>8, CountsStay DEF RateIInv

LEMMA SaveFailsKeeps ==
  ASSUME RateIInv, NEW p \in Senders, SaveFails(p)
  PROVE  RateIInv'
<1>1. TypeOK' /\ TypeOK
  BY RateTypes DEF Next, Step, RateIInv
<1>2. /\ UNCHANGED <<mem, db>> /\ sender'[p].pc = "idle"
      /\ \A q \in Senders : q # p => sender'[q] = sender[q]
  BY <1>1, CountsStay DEF SaveFails, TypeOK, Idle
<1>3. \A b : Pending(b)' = Pending(b) \ {p} /\ Saving(b)' = Saving(b) \ {p}
  BY <1>2 DEF Pending, Saving
<1>4. \A b \in Buckets : b \notin torn' => b \notin torn /\ p \notin Pending(b)
  BY DEF SaveFails
<1>5. \A b \in Buckets : b \notin torn' => Pending(b)' = Pending(b) /\ Saving(b)' = Saving(b)
  BY <1>3, <1>4, SavingIsPending
<1>6. TableFollows'
  BY <1>2, <1>4, <1>5 DEF RateIInv, TableFollows
<1>7. ASSUME NEW b \in Buckets \ torn', NEW q \in Saving(b)'
      PROVE  sender'[q].val = mem'[b] \/ Pending(b)' \ Saving(b)' # {}
  <2>1. q \in Saving(b) /\ q # p /\ q \in Senders
    BY <1>3, <1>5 DEF Saving
  <2> QED BY <1>2, <1>4, <1>5, <2>1 DEF RateIInv, SavesAreCurrent
<1>8. SavesAreCurrent'
  BY <1>7 DEF SavesAreCurrent
<1> QED BY <1>1, <1>6, <1>8, CountsStay DEF RateIInv

(* In a new hour the buckets that were not current yet are empty. *)
LEMMA HourKeeps ==
  ASSUME RateIInv, HourPasses
  PROVE  RateIInv'
<1>1. TypeOK' /\ TypeOK
  BY RateTypes DEF Next, RateIInv
<1>2. now' = now + 1 /\ now \in Hours /\ now' \in Hours /\ now \in Nat
  BY <1>1 DEF HourPasses, TypeOK, Hours
<1>3. /\ UNCHANGED <<mem, db, sender, delivered, lost, torn>>
      /\ Waiting' = Waiting /\ \A b : Leaving(b)' = Leaving(b)
  BY DEF HourPasses, Waiting, Leaving
<1>4. \A b \in Buckets : Ahead(b)' => Ahead(b)
  BY <1>2 DEF Ahead, Hours
<1>5. ASSUME NEW b \in Current', b \notin Current PROVE b \in Buckets /\ Ahead(b)
  <2>1. b \in Buckets /\ b \in Both(now')
    BY <1>2, BucketFacts DEF Current
  <2>2. ASSUME NEW t \in Hours, t <= now, b \in Both(t) PROVE FALSE
    <3>1. b \in Both(now)
      BY <1>2, <2>1, <2>2, NoComeback
    <3> QED BY <1>5, <3>1 DEF Current
  <2> QED BY <2>1, <2>2 DEF Ahead
<1>6. ASSUME NEW b \in Current'
      PROVE  /\ delivered[b] <= mem[b] + lost[b] + Cardinality(Leaving(b))
             /\ delivered[b] + Cardinality(Waiting) <= Cap(b) + Cardinality(Senders) - 1 + lost[b]
  <2>1. CASE b \in Current
    BY <2>1 DEF RateIInv, NothingUncounted, RoomForWaiting
  <2>2. CASE b \notin Current
    <3>1. b \in Buckets /\ delivered[b] = 0
      BY <1>5, <2>2 DEF RateIInv
    <3> QED BY <1>1, <3>1, Numbers
  <2> QED BY <2>1, <2>2
<1>7. NothingUncounted' /\ RoomForWaiting'
  BY <1>3, <1>6 DEF NothingUncounted, RoomForWaiting, Cap
<1>8. OvershootBounded' /\ SavesAreCurrent' /\ TableFollows'
  BY <1>3 DEF RateIInv, OvershootBounded, SavesAreCurrent, TableFollows, Saving, Pending, Cap
<1> QED BY <1>1, <1>3, <1>4, <1>7, <1>8 DEF RateIInv

LEMMA RestartKeeps ==
  ASSUME RateIInv, NEW loads \in BOOLEAN, NEW deletes \in BOOLEAN, Restart(loads, deletes)
  PROVE  RateIInv'
<1>1. TypeOK' /\ TypeOK
  BY RateTypes DEF Next, RateIInv
<1>2. UNCHANGED <<now, delivered>> /\ Current' = Current
  BY DEF Restart, Current
<1>3. \A p \in Senders : sender'[p].pc = "idle"
  BY DEF Restart, Idle
<1>4. /\ Waiting' = {} /\ \A b : Leaving(b)' = {}
      /\ \A b : Saving(b)' = {} /\ Pending(b)' = {}
      /\ Cardinality({}) = 0
  BY <1>3, FS_EmptySet DEF Waiting, Leaving, Saving, Pending
<1>5. ASSUME NEW b \in Buckets
      PROVE  /\ lost'[b] \in Nat /\ mem'[b] \in Nat /\ lost'[b] >= lost[b]
             /\ mem'[b] + lost'[b] >= mem[b] + lost[b] + Cardinality(Leaving(b))
  <2>1. mem'[b] \in Nat
    BY <1>1 DEF TypeOK
  <2>2. lost'[b] = lost[b] + Cardinality(Leaving(b))
                     + (IF mem[b] > mem'[b] THEN mem[b] - mem'[b] ELSE 0)
    BY DEF Restart, Uncounted, Leaving
  <2> QED BY <1>1, <2>1, <2>2, Numbers
<1>6. ASSUME NEW b \in Current
      PROVE  /\ b \in Buckets
             /\ delivered[b] <= mem'[b] + lost'[b] + 0
             /\ delivered[b] + 0 <= Cap(b) + Cardinality(Senders) - 1 + lost'[b]
  <2>1. b \in Buckets
    BY <1>1, Numbers
  <2>2. /\ delivered[b] <= mem[b] + lost[b] + Cardinality(Leaving(b))
        /\ delivered[b] + Cardinality(Waiting) <= Cap(b) + Cardinality(Senders) - 1 + lost[b]
    BY DEF RateIInv, NothingUncounted, RoomForWaiting
  <2> QED BY <1>1, <1>5, <2>1, <2>2, Numbers
<1>7. NothingUncounted' /\ RoomForWaiting'
  BY <1>2, <1>4, <1>6 DEF NothingUncounted, RoomForWaiting, Cap
<1>8. ASSUME NEW b \in Buckets
      PROVE  delivered[b] <= Cap(b) + Cardinality(Senders) - 1 + lost'[b]
  <2>1. delivered[b] <= Cap(b) + Cardinality(Senders) - 1 + lost[b]
    BY DEF RateIInv, OvershootBounded
  <2> QED BY <1>1, <1>5, <2>1, Numbers
<1>9. OvershootBounded'
  BY <1>2, <1>8 DEF OvershootBounded, Cap
<1>10. SavesAreCurrent' /\ TableFollows'
  BY <1>4 DEF SavesAreCurrent, TableFollows, Restart
<1>11. \A b \in Buckets : Ahead(b)' => delivered'[b] = 0
  BY <1>2 DEF RateIInv, Ahead
<1> QED BY <1>1, <1>7, <1>9, <1>10, <1>11 DEF RateIInv

LEMMA RateStarts == Init => RateIInv
<1> SUFFICES ASSUME Init PROVE RateIInv
  OBVIOUS
<1>1. TypeOK
  BY ClockAssumption, BoundsAssumption DEF Init, TypeOK, Hours, Zero, Idle
<1>2. Waiting = {} /\ \A b : Saving(b) = {} /\ Leaving(b) = {}
  BY DEF Init, Idle, Waiting, Saving, Leaving
<1>3. /\ \A b \in Buckets : delivered[b] = 0 /\ db[b] = mem[b]
      /\ Cardinality({}) = 0
  BY FS_EmptySet DEF Init, Zero
<1>4. NothingUncounted /\ RoomForWaiting /\ OvershootBounded
  BY <1>1, <1>2, <1>3, Numbers DEF NothingUncounted, RoomForWaiting, OvershootBounded
<1> QED BY <1>1, <1>2, <1>3, <1>4 DEF RateIInv, SavesAreCurrent, TableFollows

LEMMA RateInductive == RateIInv /\ [Next]_vars => RateIInv'
<1> SUFFICES ASSUME RateIInv, [Next]_vars PROVE RateIInv'
  OBVIOUS
<1>1. ASSUME NEW p \in Senders, Step(p) PROVE RateIInv'
  BY <1>1, CheckKeeps, LeavingKeeps, RecordKeeps, SaveHourKeeps, SaveDayKeeps, SaveFailsKeeps DEF Step
<1>2. CASE UNCHANGED vars
  <2>1. UNCHANGED <<now, mem, db, sender, delivered, lost, torn, fails>>
    BY <1>2 DEF vars
  <2>2. TypeOK' /\ \A b \in Buckets : Ahead(b)' => delivered'[b] = 0
    BY <2>1 DEF RateIInv, TypeOK, Ahead
  <2>3. NothingUncounted'
    BY <2>1 DEF RateIInv, NothingUncounted, Current, Leaving
  <2>4. RoomForWaiting' /\ OvershootBounded'
    BY <2>1 DEF RateIInv, RoomForWaiting, OvershootBounded, Current, Waiting
  <2>5. SavesAreCurrent' /\ TableFollows'
    BY <2>1 DEF RateIInv, SavesAreCurrent, TableFollows, Saving, Pending
  <2> QED BY <2>2, <2>3, <2>4, <2>5 DEF RateIInv
<1> QED BY <1>1, <1>2, HourKeeps, RestartKeeps DEF Next

LEMMA RateInvariance == Spec => []RateIInv
  BY RateStarts, RateInductive, PTL DEF Spec

(* What canSend lets through exceeds a cap by one message for each other
   sender at most (rate-limiter.service.ts), for any number of senders, any
   warm-up table, and through every restart and failing save. *)
THEOREM CapsAreSoft == Spec => []OvershootBounded
<1>1. RateIInv => OvershootBounded
  BY DEF RateIInv
<1> QED BY <1>1, RateInvariance, PTL

(* Only a restart takes from a count, and the table has what it took, or the
   saves were not orderly. *)
LEMMA RestartRemembers ==
  ASSUME RateIInv, [Next]_vars, NEW b \in Current, mem'[b] < mem[b]
  PROVE  \/ b \in torn \/ Pending(b) # {}
         \/ db'[b] > mem'[b]
<1>1. /\ now \in Hours /\ b \in Buckets
      /\ mem \in [Buckets -> Nat] /\ db \in [Buckets -> Nat]
  BY BucketFacts DEF RateIInv, TypeOK, Current
<1>2. PICK loads, deletes \in BOOLEAN : Restart(loads, deletes)
  <2>1. ASSUME NEW p \in Senders, Step(p) PROVE FALSE
    <3>1. mem' = mem \/ mem' = Bump(mem, Current)
      BY <2>1 DEF Step, Check, Send, SendFails, SendDoubtful, Record, SaveHour, SaveDay, SaveFails
    <3> QED BY <1>1, <3>1 DEF Bump
  <2>2. mem' # mem
    BY <1>1
  <2> QED BY <2>1, <2>2 DEF Next, HourPasses, vars
<1>3. SUFFICES ASSUME b \notin torn, Pending(b) = {} PROVE db'[b] > mem'[b]
  OBVIOUS
<1>4. db[b] = mem[b]
  BY <1>1, <1>3 DEF RateIInv, TableFollows
<1>5. ~ Expired(b)
  <2>1. now \in Nat /\ DayOf(now) \in Nat /\ KeepHours \in Nat /\ KeepDays \in Nat
    BY <1>1, BucketFacts, BoundsAssumption
  <2>2. CASE b = HourBucket(now)
    BY <2>1, <2>2 DEF Expired, HourBucket
  <2>3. CASE b = DayBucket(now)
    BY <2>1, <2>3 DEF Expired, DayBucket
  <2> QED BY <2>2, <2>3 DEF Current, Both
<1>6. CASE loads
  BY <1>1, <1>2, <1>4, <1>5, <1>6 DEF Restart, Loaded
<1>7. CASE ~ loads
  BY <1>1, <1>2, <1>4, <1>7 DEF Restart, Zero
<1> QED BY <1>6, <1>7

(* The table has what memory has, but for a save that goes on, failed or
   overlapped; and no restart drops a current count whose saves were orderly
   and done, unless the table still has it (recordSend, hydrate and gc). *)
THEOREM CountsAreRemembered == Spec => CountsAreKept
<1> DEFINE Kept == \A b \in Buckets : db[b] # mem[b] => b \in torn \/ Pending(b) # {}
           Remembers == \A b \in Current : mem'[b] < mem[b] =>
                          \/ b \in torn \/ Pending(b) # {}
                          \/ db'[b] > mem'[b]
<1>1. RateIInv => Kept
  BY DEF RateIInv, TableFollows
<1>2. RateIInv /\ [Next]_vars => [Remembers]_vars
  BY RestartRemembers
<1>3. Spec => []Kept /\ [][Remembers]_vars
  <2> HIDE DEF Kept, Remembers
  <2> QED BY <1>1, <1>2, RateInvariance, PTL DEF Spec
<1> QED BY <1>3 DEF CountsAreKept

=============================================================================
