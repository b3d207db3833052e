---------------------------- MODULE ApprovalQueue ----------------------------
(***************************************************************************)
(* The approval queue of the curation panel: borderline deals are held as   *)
(* PENDING rows, a curator approves or rejects them, and a sweep expires    *)
(* them.  Scheduler tick, cron sweep and HTTP requests interleave at every  *)
(* await of ApprovalQueueService; each repository call is one step.         *)
(*                                                                         *)
(* The clock is abstracted to whether a row is past its expiresAt, the      *)
(* snapshot and the score to nothing, the dedup table to whether the lookup *)
(* reports a recent post, and the send path to whether it drops the deal    *)
(* and whether any of its adds to the queue succeeds.                       *)
(***************************************************************************)
EXTENDS Integers, FiniteSets

CONSTANTS Keys,      \* catalog ids of deals
          Rows,      \* ids of PendingDeal rows
          Requests,  \* concurrent HTTP requests of the panel
          Tick,      \* the scheduler's tick (single flight)
          Cron,      \* the expiry sweep
          NoKey, NoRow,
          MaxOps,    \* bound: ticks, requests
          MaxFails   \* bound: failing repository calls and crashes

Handlers == Requests \union {Tick, Cron}
Outcomes == {"APPROVED", "REJECTED", "EXPIRED"}

ASSUME NamesAssumption == /\ NoKey \notin Keys /\ NoRow \notin Rows
                          /\ Tick # Cron /\ {Tick, Cron} \cap Requests = {}
ASSUME BoundsAssumption == {MaxOps, MaxFails} \subseteq Nat

VARIABLES
  row,        \* the PendingDeal table
  h,          \* each handler and how far it is
  ledger,     \* CurationDecision, stage 'approval', of one day
  handed,     \* ghost: approvals that put a row's deal on the send queue, counted
  told,       \* ghost: rows whose approval was answered with enqueued 0
  cut,        \* ghost: rows approved with nothing on the queue, no answer given
  audited,    \* ghost: the <<row, outcome>> pairs that were audited
  troubled,   \* ghost: rows on which two handlers met, or one broke off
  met,        \* ghost: keys two holds of which overlapped
  budget      \* what is left of the bounds

queueVars == <<row, h, ledger, handed, told, cut, audited, troubled, met,
               budget>>

NoDeal == [key |-> NoKey, st |-> "none", overdue |-> FALSE]
Idle == [pc |-> "idle", op |-> "none", deals |-> {}, key |-> NoKey,
         cur |-> NoRow, todo |-> {}, out |-> "PENDING", put |-> FALSE]

QueueInit == /\ row = [r \in Rows |-> NoDeal]
             /\ h = [p \in Handlers |-> Idle]
             /\ ledger = [k \in Keys |-> [out |-> "none", n |-> 0]]
             /\ handed = [r \in Rows |-> 0]
             /\ told = {} /\ cut = {}
             /\ audited = {}
             /\ troubled = {}
             /\ met = {}
             /\ budget = [ops |-> MaxOps, fails |-> MaxFails]

PendingOf(k) == {r \in Rows : row[r].key = k /\ row[r].st = "PENDING"}
Overdue == {r \in Rows : row[r].st = "PENDING" /\ row[r].overdue}

(* The rows a handler has read as PENDING and not decided yet. *)
Held(p) == IF h[p].pc \in {"lookup", "enqueue", "adding", "mark", "audit"}
           THEN h[p].todo ELSE {}

(* Of the rows in S, those another handler holds too. *)
Contested(p, S) == {r \in S : \E q \in Handlers \ {p} : r \in Held(q)}

SpendOp == /\ budget.ops > 0
           /\ budget' = [budget EXCEPT !.ops = @ - 1]

-----------------------------------------------------------------------------
(* Holding borderline deals. *)

(* dispatchScored: the tick holds the deals below the threshold. *)
TickStarts ==
  /\ h[Tick].pc = "idle"
  /\ SpendOp
  /\ \E S \in SUBSET Keys :
       /\ S # {}
       /\ h' = [h EXCEPT ![Tick] = [Idle EXCEPT !.pc = "find", !.op = "hold",
                                                !.deals = S]]
  /\ UNCHANGED <<row, ledger, handed, told, cut, audited, troubled, met>>

(* ManualDealService.submit: hold one deal, and approve it at once when the
   composer dispatches. *)
ManualStarts(p) ==
  /\ h[p].pc = "idle"
  /\ SpendOp
  /\ \E k \in Keys, op \in {"card", "dispatch"} :
       h' = [h EXCEPT ![p] = [Idle EXCEPT !.pc = "find", !.op = op,
                                          !.deals = {k}]]
  /\ UNCHANGED <<row, ledger, handed, told, cut, audited, troubled, met>>

(* Mutant of Find: the lookup misses rows that are past their expiry. *)
FindFresh(p) ==
  /\ h[p].pc = "find"
  /\ \E k \in h[p].deals :
       LET found == {r \in PendingOf(k) : ~row[r].overdue} IN
       \E r \in IF found = {} THEN {NoRow} ELSE found :
         /\ h' = [h EXCEPT ![p].pc = "store", ![p].deals = @ \ {k},
                           ![p].cur = r, ![p].key = k]
         /\ met' = IF \E q \in Handlers \ {p} : h[q].pc = "store" /\ h[q].key = k
                   THEN met \union {k} ELSE met
  /\ UNCHANGED <<row, ledger, handed, told, cut, audited, troubled, budget>>

(* holdPending reads whether the deal is already on the queue. *)
Find(p) ==
  /\ h[p].pc = "find"
  /\ \E k \in h[p].deals :
       \E r \in IF PendingOf(k) = {} THEN {NoRow} ELSE PendingOf(k) :
         /\ h' = [h EXCEPT ![p].pc = "store", ![p].deals = @ \ {k},
                           ![p].cur = r, ![p].key = k]
         /\ met' = IF \E q \in Handlers \ {p} : h[q].pc = "store" /\ h[q].key = k
                   THEN met \union {k} ELSE met
  /\ UNCHANGED <<row, ledger, handed, told, cut, audited, troubled, budget>>

(* After a hold: the next deal of the tick, or the manual card's lookup. *)
AfterHold(p) == h' = [h EXCEPT ![p] =
  IF h[p].op # "hold" THEN [@ EXCEPT !.pc = "confirm", !.cur = NoRow]
  ELSE IF h[p].deals # {} THEN [@ EXCEPT !.pc = "find"] ELSE Idle]

(* A row found is refreshed, whatever became of it meanwhile. *)
Refresh(p) ==
  /\ h[p].pc = "store"
  /\ h[p].cur # NoRow
  /\ row' = [row EXCEPT ![h[p].cur].overdue = FALSE]
  /\ AfterHold(p)
  /\ UNCHANGED <<ledger, handed, told, cut, audited, troubled, met, budget>>

Create(p) ==
  /\ h[p].pc = "store"
  /\ h[p].cur = NoRow
  /\ \E r \in Rows :
       /\ row[r].st = "none"
       /\ row' = [row EXCEPT ![r] = [key |-> h[p].key, st |-> "PENDING",
                                     overdue |-> FALSE]]
  /\ AfterHold(p)
  /\ UNCHANGED <<ledger, handed, told, cut, audited, troubled, met, budget>>

(* createManual looks its card up again; none is an error. *)
Confirm(p) ==
  /\ h[p].pc = "confirm"
  /\ \E r \in IF PendingOf(h[p].key) = {} THEN {NoRow} ELSE PendingOf(h[p].key) :
       h' = [h EXCEPT ![p] =
               IF r = NoRow \/ h[p].op = "card" THEN Idle
               ELSE [Idle EXCEPT !.pc = "read", !.op = "approve", !.cur = r]]
  /\ UNCHANGED <<row, ledger, handed, told, cut, audited, troubled, met, budget>>

-----------------------------------------------------------------------------
(* Deciding. *)

(* POST :id/approve, :id/reject and :id/preview. *)
RequestStarts(p) ==
  /\ h[p].pc = "idle"
  /\ SpendOp
  /\ \E r \in Rows, op \in {"approve", "reject", "preview"} :
       /\ row[r].st # "none"
       /\ h' = [h EXCEPT ![p] = [Idle EXCEPT !.pc = "read", !.op = op,
                                             !.cur = r]]
  /\ UNCHANGED <<row, ledger, handed, told, cut, audited, troubled, met>>

(* Mutants of Ruling: the status is not checked; an expired row is only
   audited. *)
RulingAnyStatus(p) ==
  LET r == h[p].cur
      On(pc, out) == [h[p] EXCEPT !.pc = pc, !.todo = {r}, !.out = out]
  IN IF row[r].overdue THEN On("mark", "EXPIRED")
     ELSE IF h[p].op = "approve" THEN On("lookup", "APPROVED")
     ELSE IF h[p].op = "reject" THEN On("mark", "REJECTED")
     ELSE Idle

RulingUnmarked(p) ==
  LET r == h[p].cur
      On(pc, todo, out) == [h[p] EXCEPT !.pc = pc, !.todo = todo, !.out = out]
  IN IF row[r].st # "PENDING" THEN Idle
     ELSE IF row[r].overdue THEN On("audit", {}, "EXPIRED")
     ELSE IF h[p].op = "approve" THEN On("lookup", {r}, "APPROVED")
     ELSE IF h[p].op = "reject" THEN On("mark", {r}, "REJECTED")
     ELSE Idle

(* What mustBePending makes of the row, and where the handler goes on. *)
Ruling(p) ==
  LET r == h[p].cur
      On(pc, out) == [h[p] EXCEPT !.pc = pc, !.todo = {r}, !.out = out]
  IN IF row[r].st # "PENDING" THEN Idle
     ELSE IF row[r].overdue THEN On("mark", "EXPIRED")
     ELSE IF h[p].op = "approve" THEN On("lookup", "APPROVED")
     ELSE IF h[p].op = "reject" THEN On("mark", "REJECTED")
     ELSE Idle

Read(p) ==
  /\ h[p].pc = "read"
  /\ h' = [h EXCEPT ![p] = Ruling(p)]
  /\ troubled' = troubled \union Contested(p, Ruling(p).todo)
  /\ UNCHANGED <<row, ledger, handed, told, cut, audited, met, budget>>

(* The dedup lookup: a recent post needs the curator's override; a lookup
   that fails reports none. *)
Lookup(p) ==
  /\ h[p].pc = "lookup"
  /\ \E recent, override \in BOOLEAN :
       h' = [h EXCEPT ![p] = IF recent /\ ~override THEN Idle
                             ELSE [@ EXCEPT !.pc = "enqueue"]]
  /\ UNCHANGED <<row, ledger, handed, told, cut, audited, troubled, met, budget>>

(* enqueueScored: the gate drops the deal and nothing is enqueued, or the
   adds begin.  What throws before them throws as Fail at "enqueue". *)
Select(p) ==
  /\ h[p].pc = "enqueue"
  /\ \E kept \in BOOLEAN :
       h' = [h EXCEPT ![p].pc = IF kept THEN "adding" ELSE "mark"]
  /\ UNCHANGED <<row, ledger, handed, told, cut, audited, troubled, met, budget>>

(* Mutant of AddJob: an add is counted before it is known to have worked. *)
AddCountedFirst(p) ==
  /\ h[p].pc = "adding" /\ ~h[p].put
  /\ \E works \in BOOLEAN : handed' = [handed EXCEPT ![h[p].cur] = IF works THEN @ + 1 ELSE @]
  /\ h' = [h EXCEPT ![p].put = TRUE]
  /\ UNCHANGED <<row, ledger, told, cut, audited, troubled, met, budget>>

(* The first add that works; those to further targets change nothing here,
   and one that fails is swallowed. *)
AddJob(p) ==
  /\ h[p].pc = "adding" /\ ~h[p].put
  /\ handed' = [handed EXCEPT ![h[p].cur] = @ + 1]
  /\ h' = [h EXCEPT ![p].put = TRUE]
  /\ UNCHANGED <<row, ledger, told, cut, audited, troubled, met, budget>>

(* The adds are over, whether any worked or not. *)
AddsDone(p) ==
  /\ h[p].pc = "adding"
  /\ h' = [h EXCEPT ![p].pc = "mark"]
  /\ UNCHANGED <<row, ledger, handed, told, cut, audited, troubled, met, budget>>

(* expireOverdue, from its cron or from listPending: the rows are read once
   and then decided one by one. *)
SweepStarts(p) ==
  /\ h[p].pc = "idle"
  /\ Overdue # {}
  /\ IF p = Cron THEN UNCHANGED budget ELSE SpendOp
  /\ h' = [h EXCEPT ![p] = [Idle EXCEPT !.pc = "mark", !.op = "sweep",
                                        !.todo = Overdue, !.out = "EXPIRED"]]
  /\ troubled' = troubled \union Contested(p, Overdue)
  /\ UNCHANGED <<row, ledger, handed, told, cut, audited, met>>

(* markDecided: an update by id, whatever the row's status is by now. *)
Mark(p) ==
  /\ h[p].pc = "mark"
  /\ \E r \in h[p].todo :
       /\ row' = [row EXCEPT ![r].st = h[p].out]
       /\ h' = [h EXCEPT ![p].pc = "audit", ![p].cur = r, ![p].todo = @ \ {r}]
  /\ UNCHANGED <<ledger, handed, told, cut, audited, troubled, met, budget>>

(* The row p approved with nothing on the queue and has not answered for. *)
Unanswered(p) == IF h[p].pc = "audit" /\ h[p].out = "APPROVED" /\ ~h[p].put
                 THEN {h[p].cur} ELSE {}

(* audit: an upsert by deal, stage and day that counts the decision under
   the latest outcome.  Its failure is swallowed.  Then approve answers with
   what it enqueued. *)
Audit(p) ==
  /\ h[p].pc = "audit"
  /\ \/ UNCHANGED <<ledger, audited>>
     \/ LET r == h[p].cur IN
          /\ audited' = audited \union {<<r, h[p].out>>}
          /\ ledger' = [ledger EXCEPT ![row[r].key] =
                          [out |-> h[p].out, n |-> @.n + 1]]
  /\ h' = [h EXCEPT ![p] = IF @.todo = {} THEN Idle ELSE [@ EXCEPT !.pc = "mark"]]
  /\ told' = told \union Unanswered(p)
  /\ UNCHANGED <<row, handed, cut, troubled, met, budget>>

-----------------------------------------------------------------------------
(* Failures and the clock. *)

(* The rows p has put on the queue and leaves undecided when it breaks off. *)
Dangling(p) == IF h[p].pc \in {"adding", "mark"} /\ h[p].put THEN h[p].todo ELSE {}

(* A repository call or enqueueScored throws: the request ends with an
   error, the tick or the sweep gives up the rest of its work.  The adds and
   the audit swallow their failures. *)
Fail(p) ==
  /\ h[p].pc \notin {"idle", "adding", "audit"}
  /\ budget.fails > 0
  /\ budget' = [budget EXCEPT !.fails = @ - 1]
  /\ h' = [h EXCEPT ![p] = Idle]
  /\ troubled' = troubled \union Dangling(p)
  /\ UNCHANGED <<row, ledger, handed, told, cut, audited, met>>

Crash ==
  /\ budget.fails > 0
  /\ budget' = [budget EXCEPT !.fails = @ - 1]
  /\ h' = [p \in Handlers |-> Idle]
  /\ troubled' = troubled \union UNION {Dangling(p) : p \in Handlers}
  /\ cut' = cut \union UNION {Unanswered(p) : p \in Handlers}
  /\ UNCHANGED <<row, ledger, handed, told, audited, met>>

(* A row's expiresAt passes. *)
Ages(r) ==
  /\ row[r].st = "PENDING"
  /\ ~row[r].overdue
  /\ row' = [row EXCEPT ![r].overdue = TRUE]
  /\ UNCHANGED <<h, ledger, handed, told, cut, audited, troubled, met, budget>>

-----------------------------------------------------------------------------
Progress(p) == \/ Find(p) \/ Refresh(p) \/ Create(p) \/ Confirm(p)
               \/ Read(p) \/ Lookup(p)
               \/ Select(p) \/ AddJob(p) \/ AddsDone(p) \/ Mark(p) \/ Audit(p)

QueueNext == \/ TickStarts
             \/ \E p \in Requests : ManualStarts(p) \/ RequestStarts(p)
             \/ \E p \in Requests \union {Cron} : SweepStarts(p)
             \/ \E p \in Handlers : Progress(p) \/ Fail(p)
             \/ Crash
             \/ \E r \in Rows : Ages(r)

QueueSpec == QueueInit /\ [][QueueNext]_queueVars

-----------------------------------------------------------------------------
(* Type correctness of the table, the handlers and the audit. *)
QueueTypeOK ==
  /\ row \in [Rows -> [key : Keys \union {NoKey},
                       st : Outcomes \union {"none", "PENDING"},
                       overdue : BOOLEAN]]
  /\ \A r \in Rows : row[r].st = "none" <=> row[r].key = NoKey
  /\ h \in [Handlers ->
              [pc : {"idle", "find", "store", "confirm", "read", "lookup",
                     "enqueue", "adding", "mark", "audit"},
               op : {"none", "hold", "card", "dispatch", "approve", "reject",
                     "preview", "sweep"},
               deals : SUBSET Keys, key : Keys \union {NoKey},
               cur : Rows \union {NoRow}, todo : SUBSET Rows,
               out : Outcomes \union {"PENDING"}, put : BOOLEAN]]
  /\ ledger \in [Keys -> [out : Outcomes \union {"none"}, n : Nat]]
  /\ handed \in [Rows -> Nat]
  /\ told \subseteq Rows /\ cut \subseteq Rows
  /\ audited \subseteq Rows \X Outcomes
  /\ troubled \subseteq Rows
  /\ met \subseteq Keys
  /\ budget \in [ops : Nat, fails : Nat]

(* A deal that is APPROVED is on the send queue, or whoever approved it is
   told that nothing was enqueued, unless a crash takes that answer. *)
ApprovedIsQueuedOrTold ==
  \A r \in Rows : row[r].st = "APPROVED" /\ handed[r] = 0 =>
    r \in told \union cut \/ \E p \in Handlers : r \in Unanswered(p)

(* A rejected or expired row was never sent, unless two handlers met on it
   or one broke off between sending and marking. *)
DiscardedWasNotSent ==
  \A r \in Rows : row[r].st \in {"REJECTED", "EXPIRED"} /\ handed[r] > 0
                    => r \in troubled

(* The same for sending a row's deal twice. *)
SentOnce == \A r \in Rows : handed[r] <= 1 \/ r \in troubled

(* Without such a meeting the audit says what became of the row. *)
AuditAgrees == \A a \in audited : a[1] \in troubled \/ row[a[1]].st = a[2]

(* Two rows of one deal are pending together only after two holds of the
   deal overlapped. *)
DuplicateNeedsOverlap ==
  \A k \in Keys : Cardinality(PendingOf(k)) > 1 => k \in met

(* No approval is lost without a word, whatever fails: the row stays PENDING,
   the deal is on the queue, or its curator reads enqueued 0; and what was
   discarded was not put on the queue, unless handlers met on the row. *)
DecisionsHold == ApprovedIsQueuedOrTold /\ DiscardedWasNotSent

(* A held deal has one row and a row goes out once, unless two handlers
   overlapped on it. *)
OneOfEach == SentOnce /\ DuplicateNeedsOverlap
=============================================================================
