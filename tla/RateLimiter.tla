----------------------------- MODULE RateLimiter -----------------------------
(***************************************************************************)
(* The warm-up rate limiter of the WhatsApp account.  The senders (the send *)
(* worker, the operator's DM alert) each pass canSend, send, and count the  *)
(* message with recordSend; the counts live in memory and are written       *)
(* through to the WaCounter table, which a restart loads.  Every await is a *)
(* point where the other senders, the clock or a crash may come in.         *)
(*                                                                         *)
(* An hour bucket and a day bucket count each message.  Time is the number  *)
(* of the current hour.  Whether the socket is ready is left out: a send    *)
(* that is refused for it changes nothing here.                            *)
(***************************************************************************)
EXTENDS Integers, FiniteSets

CONSTANTS Senders,
          HoursPerDay,
          MaxHours,    \* bound: hours in a behaviour
          HourCap,     \* caps of the warm-up table, by day
          DayCap,
          KeepHours,   \* gc drops hour buckets older than this
          KeepDays,    \* gc drops day buckets older than this
          MaxFails     \* bound: crashes, failing saves and doubtful sends

Hours == 0..MaxHours - 1
DayOf(t) == t \div HoursPerDay
Days == {DayOf(t) : t \in Hours}

ASSUME SendersAssumption == IsFiniteSet(Senders) /\ Senders # {}
ASSUME ClockAssumption == {HoursPerDay, MaxHours} \subseteq Nat \ {0}
ASSUME CapsAssumption == /\ HourCap \in [Days -> Nat \ {0}]
                         /\ DayCap \in [Days -> Nat \ {0}]
ASSUME BoundsAssumption == {KeepHours, KeepDays, MaxFails} \subseteq Nat

(* `wa:hour:<hour>` and `wa:day:<day>`. *)
HourBucket(t) == <<"hour", t>>
DayBucket(t) == <<"day", DayOf(t)>>
Both(t) == {HourBucket(t), DayBucket(t)}
Buckets == UNION {Both(t) : t \in Hours}

(* getCaps: the chip's age sets the caps of a day. *)
Cap(b) == IF b[1] = "hour" THEN HourCap[DayOf(b[2])] ELSE DayCap[b[2]]

VARIABLES
  now,        \* the current hour
  mem,        \* the counters in memory
  db,         \* the WaCounter table
  sender,     \* each sender and how far its message is
  delivered,  \* ghost: messages that left, by bucket
  lost,       \* ghost: messages that left and are counted no more
  torn,       \* ghost: buckets with overlapping or failed saves
  fails       \* what is left of the bound

vars == <<now, mem, db, sender, delivered, lost, torn, fails>>

Current == Both(now)
Zero == [b \in Buckets |-> 0]
Bump(f, B) == [b \in Buckets |-> IF b \in B THEN f[b] + 1 ELSE f[b]]

(* `at` is the hour of the message: when it left, then when it was counted. *)
Idle == [pc |-> "idle", at |-> 0, val |-> 0]

Init == /\ now = 0
        /\ mem = Zero
        /\ db = Zero
        /\ sender = [p \in Senders |-> Idle]
        /\ delivered = Zero
        /\ lost = Zero
        /\ torn = {}
        /\ fails = MaxFails

SpendFail == fails > 0 /\ fails' = fails - 1

(* Senders whose counter value for bucket b is on its way to the table. *)
Saving(b) == {p \in Senders : \/ sender[p].pc = "hour" /\ b = HourBucket(sender[p].at)
                              \/ sender[p].pc = "day" /\ b = DayBucket(sender[p].at)}

(* Senders that have not finished with bucket b. *)
Pending(b) == {p \in Senders : \/ sender[p].pc = "hour" /\ b \in Both(sender[p].at)
                               \/ sender[p].pc = "day" /\ b = DayBucket(sender[p].at)}

-----------------------------------------------------------------------------
(* One message. *)

(* Mutant of Check: `>` for `>=`. *)
CheckOffByOne(p) ==
  /\ sender[p].pc = "idle"
  /\ \A b \in Current : mem[b] <= Cap(b)
  /\ sender' = [sender EXCEPT ![p].pc = "send"]
  /\ UNCHANGED <<now, mem, db, delivered, lost, torn, fails>>

(* canSend: both counters of this moment are below their caps. *)
Check(p) ==
  /\ sender[p].pc = "idle"
  /\ \A b \in Current : mem[b] < Cap(b)
  /\ sender' = [sender EXCEPT ![p].pc = "send"]
  /\ UNCHANGED <<now, mem, db, delivered, lost, torn, fails>>

(* The message leaves, after the thumbnail of a card was fetched. *)
Send(p) ==
  /\ sender[p].pc = "send"
  /\ delivered' = Bump(delivered, Current)
  /\ sender' = [sender EXCEPT ![p].pc = "record", ![p].at = now]
  /\ UNCHANGED <<now, mem, db, lost, torn, fails>>

SendFails(p) ==
  /\ sender[p].pc = "send"
  /\ sender' = [sender EXCEPT ![p] = Idle]
  /\ UNCHANGED <<now, mem, db, delivered, lost, torn, fails>>

(* sendMessage throws for a message that left: nothing is counted. *)
SendDoubtful(p) ==
  /\ sender[p].pc = "send"
  /\ SpendFail
  /\ delivered' = Bump(delivered, Current)
  /\ lost' = Bump(lost, Current)
  /\ sender' = [sender EXCEPT ![p] = Idle]
  /\ UNCHANGED <<now, mem, db, torn>>

(* recordSend counts under the hour it runs in, and starts to save. *)
Record(p) ==
  /\ sender[p].pc = "record"
  /\ mem' = Bump(mem, Current)
  /\ sender' = [sender EXCEPT ![p] = [pc |-> "hour", at |-> now,
                                      val |-> mem[HourBucket(now)] + 1]]
  /\ torn' = IF Saving(HourBucket(now)) = {} THEN torn
             ELSE torn \union {HourBucket(now)}
  /\ UNCHANGED <<now, db, delivered, lost, fails>>

(* Mutant of SaveHour: one write for the hour, none for the day. *)
SaveHourOnly(p) ==
  /\ sender[p].pc = "hour"
  /\ db' = [db EXCEPT ![HourBucket(sender[p].at)] = sender[p].val]
  /\ sender' = [sender EXCEPT ![p] = Idle]
  /\ UNCHANGED <<now, mem, delivered, lost, torn, fails>>

(* The hour's row is written; the day's value is read only now. *)
SaveHour(p) ==
  LET day == DayBucket(sender[p].at) IN
  /\ sender[p].pc = "hour"
  /\ db' = [db EXCEPT ![HourBucket(sender[p].at)] = sender[p].val]
  /\ sender' = [sender EXCEPT ![p].pc = "day", ![p].val = mem[day]]
  /\ torn' = IF Saving(day) = {} THEN torn ELSE torn \union {day}
  /\ UNCHANGED <<now, mem, delivered, lost, fails>>

SaveDay(p) ==
  /\ sender[p].pc = "day"
  /\ db' = [db EXCEPT ![DayBucket(sender[p].at)] = sender[p].val]
  /\ sender' = [sender EXCEPT ![p] = Idle]
  /\ UNCHANGED <<now, mem, delivered, lost, torn, fails>>

(* An upsert throws: logged, and what is left of the save is skipped. *)
SaveFails(p) ==
  /\ sender[p].pc \in {"hour", "day"}
  /\ SpendFail
  /\ torn' = torn \union {b \in Buckets : p \in Pending(b)}
  /\ sender' = [sender EXCEPT ![p] = Idle]
  /\ UNCHANGED <<now, mem, db, delivered, lost>>

-----------------------------------------------------------------------------
(* The clock and restarts. *)

HourPasses ==
  /\ now + 1 \in Hours
  /\ now' = now + 1
  /\ UNCHANGED <<mem, db, sender, delivered, lost, torn, fails>>

(* gc: what is too old to keep. *)
Expired(b) == IF b[1] = "hour" THEN now - b[2] > KeepHours
              ELSE DayOf(now) - b[2] > KeepDays

(* Mutant of Loaded: everything that is not of this hour is dropped. *)
LoadedThisHour == [b \in Buckets |-> IF b = HourBucket(now) THEN db[b] ELSE 0]

(* hydrate and gc. *)
Loaded == [b \in Buckets |-> IF Expired(b) THEN 0 ELSE db[b]]

Uncounted(b) == Cardinality({p \in Senders : sender[p].pc = "record" /\ b \in Both(sender[p].at)})

(* The process dies and boots again: it loads the table and drops what is
   old from both, or cannot read the table and starts from nothing. *)
Restart(loads, deletes) ==
  /\ SpendFail
  /\ mem' = IF loads THEN Loaded ELSE Zero
  /\ db' = IF loads /\ deletes THEN Loaded ELSE db
  /\ sender' = [p \in Senders |-> Idle]
  /\ lost' = [b \in Buckets |->
                lost[b] + Uncounted(b)
                  + (IF mem[b] > mem'[b] THEN mem[b] - mem'[b] ELSE 0)]
  /\ torn' = {b \in Buckets : mem'[b] # db'[b]}
  /\ UNCHANGED <<now, delivered>>

-----------------------------------------------------------------------------
Step(p) == \/ Check(p) \/ Send(p) \/ SendFails(p) \/ SendDoubtful(p)
           \/ Record(p) \/ SaveHour(p) \/ SaveDay(p) \/ SaveFails(p)

Next == \/ \E p \in Senders : Step(p)
        \/ HourPasses
        \/ \E loads, deletes \in BOOLEAN : Restart(loads, deletes)

Spec == Init /\ [][Next]_vars

-----------------------------------------------------------------------------
(* Type correctness of the counters and the senders. *)
TypeOK ==
  /\ now \in Hours
  /\ mem \in [Buckets -> Nat]
  /\ db \in [Buckets -> Nat]
  /\ sender \in [Senders -> [pc : {"idle", "send", "record", "hour", "day"},
                        at : Hours, val : Nat]]
  /\ delivered \in [Buckets -> Nat]
  /\ lost \in [Buckets -> Nat]
  /\ torn \subseteq Buckets
  /\ fails \in Nat

(* The cap is soft: between canSend and recordSend other senders pass the
   same check.  What leaves in an hour or a day exceeds its cap by at most
   one message for each other sender, and by the messages a crash or a
   doubtful send took out of the count. *)
OvershootBounded ==
  \A b \in Buckets : delivered[b] <= Cap(b) + Cardinality(Senders) - 1 + lost[b]

(* What was sent is remembered.  Write-through: the table has what memory has,
   unless the save is still going on, failed, or overlapped another one.  And a
   restart takes no message out of a current count whose saves were orderly and
   done, unless the table could not be read and still has it. *)
CountsAreKept ==
  /\ [](\A b \in Buckets : db[b] # mem[b] => b \in torn \/ Pending(b) # {})
  /\ [][\A b \in Current : mem'[b] < mem[b] =>
           \/ b \in torn \/ Pending(b) # {}
           \/ db'[b] > mem'[b]]_vars
=============================================================================
