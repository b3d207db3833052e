------------------------------ MODULE QuietHours ------------------------------
(***************************************************************************)
(* The quiet window [start, end) of the local day and how long a job that   *)
(* reaches the worker inside it is parked.  The configured hours are any    *)
(* integers; the clock is the number of milliseconds since local midnight   *)
(* (the time zone has no daylight saving time).                            *)
(***************************************************************************)
EXTENDS Integers

CONSTANTS Settings,  \* values of QUIET_START and QUIET_END
          Arrivals   \* instants of the day at which the job arrives

Hour == 3600000
Minute == 60000
Second == 1000
Day == 24 * Hour
DayClock == 0..Day - 1

ASSUME InputsAssumption == Settings \subseteq Int /\ Arrivals \subseteq DayClock

HourOf(t) == t \div Hour
MinuteOf(t) == (t % Hour) \div Minute
SecondOf(t) == (t % Minute) \div Second

(* JavaScript's remainder takes the sign of the dividend. *)
Rem(a, n) == IF a >= 0 THEN a % n ELSE -((-a) % n)
Normal(h) == Rem(Rem(h, 24) + 24, 24)

(* Mutants of IsQuiet: the window does not wrap around midnight; it keeps
   the end hour. *)
IsQuietNoWrap(t, start, end) ==
  LET s == Normal(start)
      e == Normal(end)
      hour == HourOf(t)
  IN s = e \/ (hour >= s /\ hour < e)

IsQuietInclusive(t, start, end) ==
  LET s == Normal(start)
      e == Normal(end)
      hour == HourOf(t)
  IN \/ s = e
     \/ s < e /\ hour >= s /\ hour <= e
     \/ s > e /\ (hour >= s \/ hour <= e)

(* isQuietHours. *)
IsQuiet(t, start, end) ==
  LET s == Normal(start)
      e == Normal(end)
      hour == HourOf(t)
  IN \/ s = e
     \/ s < e /\ hour >= s /\ hour < e
     \/ s > e /\ (hour >= s \/ hour < e)

(* Hours to the next occurrence of the end hour. *)
HoursAhead(t, end) ==
  LET d == Normal(end) - HourOf(t) IN IF d <= 0 THEN d + 24 ELSE d

(* Mutant of MsUntilQuietEnd: the seconds of the clock are left out. *)
MsByTheMinute(t, start, end) ==
  IF ~IsQuiet(t, start, end) THEN 0
  ELSE HoursAhead(t, end) * Hour - MinuteOf(t) * Minute

MsUntilQuietEnd(t, start, end) ==
  IF ~IsQuiet(t, start, end) THEN 0
  ELSE HoursAhead(t, end) * Hour - MinuteOf(t) * Minute - SecondOf(t) * Second

-----------------------------------------------------------------------------
(* A job that reaches the worker at any time of day, is parked, and comes   *)
(* back when its delay is over.                                            *)

VARIABLES
  clock,   \* the time of day
  start,   \* QUIET_START
  end,     \* QUIET_END
  since,   \* when the job was parked, with the delay
  job      \* "arrived", "parked", "back" or "sent"

holdVars == <<clock, start, end, since, job>>

HoldInit == /\ clock \in Arrivals
        /\ start \in Settings
        /\ end \in Settings
        /\ since = [at |-> 0, delay |-> 0]
        /\ job = "arrived"

(* holdDuringQuietHours parks the job. *)
Park == /\ job \in {"arrived", "back"}
        /\ MsUntilQuietEnd(clock, start, end) > 0
        /\ since' = [at |-> clock,
                     delay |-> MsUntilQuietEnd(clock, start, end)]
        /\ job' = "parked"
        /\ UNCHANGED <<clock, start, end>>

Return == /\ job = "parked"
          /\ clock' = (since.at + since.delay) % Day
          /\ job' = "back"
          /\ UNCHANGED <<start, end, since>>

SendNow == /\ job \in {"arrived", "back"}
           /\ MsUntilQuietEnd(clock, start, end) <= 0
           /\ job' = "sent"
           /\ UNCHANGED <<clock, start, end, since>>

HoldNext == Park \/ Return \/ SendNow

HoldSpec == HoldInit /\ [][HoldNext]_holdVars

HoldFairSpec == HoldSpec /\ WF_holdVars(HoldNext)

-----------------------------------------------------------------------------
(* Type correctness; a delay is at most a day. *)
HoldTypeOK == /\ clock \in DayClock
          /\ start \in Settings
          /\ end \in Settings
          /\ since \in [at : DayClock, delay : 0..Day]
          /\ job \in {"arrived", "parked", "back", "sent"}

(* The window as the comment defines it, hour by hour from its start. *)
InWindow(hour, s, e) == (hour - s) % 24 < (e - s) % 24

(* Nothing is sent inside the window, and everything is parked in it: the
   code's three cases are the circular interval. *)
SentOutsideWindow ==
  (start - end) % 24 # 0 /\ job = "sent" => ~InWindow(HourOf(clock), start, end)

(* A job parked in the window comes back in its first second outside it: it
   is sent then and never parked again, and was not kept a whole day. *)
ReturnsAtWindowEnd ==
  (start - end) % 24 # 0 /\ job = "back" =>
    /\ ~InWindow(HourOf(clock), start, end)
    /\ InWindow(HourOf((clock - Second) % Day), start, end)
    /\ HourOf(since.delay) <= (end - start) % 24

(* Every job is sent, unless the two hours are equal ("always quiet"). *)
SentUnlessAlwaysQuiet == (start - end) % 24 # 0 ~> job = "sent"

(* The hold is exact: nothing leaves inside the window, and what waited
   leaves in the first second after it. *)
HoldIsSound == SentOutsideWindow /\ ReturnsAtWindowEnd
=============================================================================
