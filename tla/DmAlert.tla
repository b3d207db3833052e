------------------------------ MODULE DmAlert ------------------------------
(***************************************************************************)
(* The operator's alert (curation/dm-alert.service.ts): each minute the cron *)
(* looks whether deals wait and tells him by WhatsApp, not more often than   *)
(* an interval, not in the quiet hours and not twice about the same deals.   *)
(* Whether a row is news is decided by comparing its createdAt with the      *)
(* time of the last alert, kept in memory.  A row gets its createdAt when    *)
(* its insert starts and can be listed when the insert is committed.         *)
(*                                                                         *)
(* Nothing keeps two ticks of the cron from overlapping: each is an          *)
(* activation with an await between every two of its reads.                  *)
(***************************************************************************)
EXTENDS Integers, FiniteSets

CONSTANTS Deals,      \* rows of the approval queue
          Ticks,      \* activations of the cron that may overlap
          Intervals,  \* values of DM_BATCH_INTERVAL_MIN
          MaxTime,    \* bound: the clock stops
          MaxBreaks   \* bound: failed deliveries and restarts

ASSUME AlertAssumption == /\ IsFiniteSet(Deals)
                          /\ Intervals \subseteq Nat /\ MaxTime \in Nat \ {0}
                          /\ MaxBreaks \in Nat

VARIABLES
  time,      \* Date.now(), from 1
  row,       \* what each deal is to the table
  created,   \* createdAt
  act,       \* each activation: where it awaits, its `now`, its `pendings`
  last,      \* lastAlertSentAt
  told,      \* ghost: the deals that were pending in some delivered alert
  excused,   \* ghost: deals committed behind the back of an alert, and those
             \* an alert may tell again
  news,      \* ghost: the last delivered alert had something to say
  crossed,   \* ghost: two activations have overlapped
  breaks     \* what is left of the bound

alertVars == <<time, row, created, act, last, told, excused, news, crossed, breaks>>

Idle == [pc |-> "idle", now |-> 0, seen |-> {}]

AlertInit == /\ time = 1
             /\ row = [d \in Deals |-> "none"]
             /\ created = [d \in Deals |-> 0]
             /\ act = [t \in Ticks |-> Idle]
             /\ last = 0
             /\ told = {}
             /\ excused = [missed |-> {}, again |-> {}]
             /\ news = TRUE
             /\ crossed = FALSE
             /\ breaks = MaxBreaks

(* checkAndSendAlert up to the list: an operator is configured, `now` is
   taken after the last alert's interval (the first alert of a process has
   none to wait for) and outside the quiet hours.  A tick that goes no
   further changes nothing. *)
Fires(t) ==
  /\ act[t].pc = "idle"
  /\ last = 0 \/ \E interval \in Intervals : time - last >= interval
  /\ act' = [act EXCEPT ![t] = [pc |-> "list", now |-> time, seen |-> {}]]
  /\ crossed' = (crossed \/ \E u \in Ticks : act[u].pc # "idle")
  /\ UNCHANGED <<time, row, created, last, told, excused, news, breaks>>

PendingDeals == {d \in Deals : row[d] = "pending"}

(* Mutant of HasNew: whatever waits is news. *)
HasAny(seen) == seen # {}

(* hasNew, and the first alert of a process. *)
HasNew(seen) == /\ seen # {}
                /\ last = 0 \/ \E d \in seen : created[d] > last

(* listPending answers. *)
Lists(t) ==
  /\ act[t].pc = "list"
  /\ act' = [act EXCEPT ![t] = IF HasNew(PendingDeals)
                               THEN [@ EXCEPT !.pc = "send", !.seen = PendingDeals]
                               ELSE Idle]
  /\ UNCHANGED <<time, row, created, last, told, excused, news, crossed, breaks>>

(* An alert reaches the operator.  It has something to say if a deal in it
   is new to him, may be told again, or a new process says it first. *)
Reaches(t) ==
  /\ told' = told \union act[t].seen
  /\ news' = (last = 0 \/ ~act[t].seen \subseteq told \ excused.again)

(* Mutant of Sends: the time of the alert is taken when it has been sent. *)
SendsLate(t) ==
  /\ act[t].pc = "send"
  /\ Reaches(t)
  /\ last' = time
  /\ act' = [act EXCEPT ![t] = Idle]
  /\ UNCHANGED <<time, row, created, excused, crossed, breaks>>

(* publish resolves.  What was created since `now` is told again. *)
Sends(t) ==
  /\ act[t].pc = "send"
  /\ Reaches(t)
  /\ last' = act[t].now
  /\ excused' = [excused EXCEPT
       !.again = @ \union {d \in act[t].seen : created[d] > act[t].now}]
  /\ act' = [act EXCEPT ![t] = Idle]
  /\ UNCHANGED <<time, row, created, crossed, breaks>>

(* publish throws: not ready, throttled, or after the message went out. *)
SendFails(t) ==
  /\ act[t].pc = "send"
  /\ breaks > 0
  /\ breaks' = breaks - 1
  /\ \/ UNCHANGED <<told, excused, news>>
     \/ /\ Reaches(t)
        /\ excused' = [excused EXCEPT !.again = @ \union act[t].seen]
  /\ act' = [act EXCEPT ![t] = Idle]
  /\ UNCHANGED <<time, row, created, last, crossed>>

-----------------------------------------------------------------------------
(* The approval queue: a row is created, is there, and is decided. *)
InsertStarts(d) ==
  /\ row[d] = "none"
  /\ row' = [row EXCEPT ![d] = "inserting"]
  /\ created' = [created EXCEPT ![d] = time]
  /\ UNCHANGED <<time, act, last, told, excused, news, crossed, breaks>>

(* An alert that took its `now` at or after createdAt and does not see the
   row will have it pass for old. *)
Commits(d) ==
  /\ row[d] = "inserting"
  /\ row' = [row EXCEPT ![d] = "pending"]
  /\ excused' = [excused EXCEPT !.missed =
       IF \/ last >= created[d]
          \/ \E t \in Ticks : act[t].pc = "send" /\ act[t].now >= created[d]
       THEN @ \union {d} ELSE @]
  /\ UNCHANGED <<time, created, act, last, told, news, crossed, breaks>>

Decided(d) ==
  /\ row[d] = "pending"
  /\ row' = [row EXCEPT ![d] = "decided"]
  /\ UNCHANGED <<time, created, act, last, told, excused, news, crossed, breaks>>

TimePasses ==
  /\ time < MaxTime
  /\ time' = time + 1
  /\ UNCHANGED <<row, created, act, last, told, excused, news, crossed, breaks>>

(* A new process has sent no alert. *)
AlertRestarts ==
  /\ breaks > 0
  /\ breaks' = breaks - 1
  /\ act' = [t \in Ticks |-> Idle]
  /\ last' = 0
  /\ UNCHANGED <<time, row, created, told, excused, news, crossed>>

AlertNext ==
  \/ \E t \in Ticks : Fires(t) \/ Lists(t) \/ Sends(t) \/ SendFails(t)
  \/ \E d \in Deals : InsertStarts(d) \/ Commits(d) \/ Decided(d)
  \/ TimePasses \/ AlertRestarts

AlertSpec == AlertInit /\ [][AlertNext]_alertVars

-----------------------------------------------------------------------------
(* Type correctness of the alert. *)
AlertTypeOK ==
  /\ time \in 1..MaxTime /\ last \in 0..MaxTime
  /\ row \in [Deals -> {"none", "inserting", "pending", "decided"}]
  /\ created \in [Deals -> 0..MaxTime]
  /\ act \in [Ticks -> [pc : {"idle", "list", "send"},
                        now : 0..MaxTime, seen : SUBSET Deals]]
  /\ told \subseteq Deals
  /\ excused \in [missed : SUBSET Deals, again : SUBSET Deals]
  /\ news \in BOOLEAN /\ crossed \in BOOLEAN
  /\ breaks \in 0..MaxBreaks

(* No deal is overlooked: one that waits and would pass for old has been
   told, unless its insert was under way while an alert was.  It is why the
   time of an alert is the one from before its list, and why an alert that
   fails leaves it alone. *)
NothingOverlooked ==
  \A d \in PendingDeals : created[d] <= last => d \in told \union excused.missed

(* The comment's "Sem novidade na fila = sem DM": unless ticks overlapped,
   every alert has a deal the operator was not told of, one that an alert told
   while it was created or by a delivery that then failed, or is the first
   of its process. *)
NoSpam == crossed \/ news
=============================================================================
