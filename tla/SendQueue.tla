----------------------------- MODULE SendQueue -----------------------------
(***************************************************************************)
(* The send path: callers of PipelineService.enqueueScored put jobs on the *)
(* BullMQ queue `send-deal`, and SendDealWorker (concurrency 1) publishes   *)
(* them and marks their deals in the dedup table.  Queue and dedup table    *)
(* survive a crash of the process; callers and worker do not.              *)
(*                                                                         *)
(* Time is abstracted to what the guards ask of it: whether the quiet      *)
(* window is on, whether a job is older than SEND_MAX_JOB_AGE_MIN, whether  *)
(* a delayed job is due.                                                   *)
(***************************************************************************)
EXTENDS Integers, Sequences, FiniteSets

CONSTANTS Keys,          \* catalog keys of deals
          WaTargets,     \* active WhatsApp targets, in registry order
          TgTargets,     \* active Telegram targets, in registry order
          Callers,       \* concurrent activations of enqueueScored
          Stamps,        \* values of Date.now() a unique job id may get
          NoJob,         \* the worker holds no job
          WaCap,         \* MAX_DEALS_PER_RUN_WA
          TgCap,         \* MAX_DEALS_PER_RUN_TELEGRAM
          DigestSize,    \* WA_DIGEST_SIZE
          MaxAttempts,   \* defaultJobOptions.attempts
          MaxStalls,     \* BullMQ maxStalledCount
          MaxCalls,      \* bound: activations of enqueueScored in a behaviour
          MaxCrashes,    \* bound: process crashes
          MaxNights      \* bound: quiet windows

Jids == {WaTargets[n] : n \in DOMAIN WaTargets} \union
        {TgTargets[n] : n \in DOMAIN TgTargets}

(* Non-empty lists of distinct deals, at most n of them. *)
Lists(n) == {s \in UNION {[1..m -> Keys] : m \in 1..n} :
               \A x, y \in DOMAIN s : s[x] = s[y] => x = y}

(* `<key>_<jid>`, `<key>_<jid>_<stamp>` or `digest_<jid>_<k1>+<k2>`: what a
   job id tells apart.  Stamp 0 stands for no stamp. *)
JobIds == [keys : Lists(DigestSize), jid : Jids, stamp : {0}] \union
          [keys : Lists(1), jid : Jids, stamp : Stamps]

ASSUME KeysAssumption == IsFiniteSet(Keys)

ASSUME TargetsAssumption ==
  /\ WaTargets \in Seq(Jids)
  /\ TgTargets \in Seq(Jids)
  /\ NoJob \notin JobIds
  /\ Stamps \subseteq Nat \ {0}

ASSUME LimitsAssumption ==
  /\ {WaCap, TgCap, DigestSize, MaxAttempts} \subseteq Nat \ {0}
  /\ {MaxStalls, MaxCalls, MaxCrashes, MaxNights} \subseteq Nat

VARIABLES
  job,        \* the jobs Redis holds, with ghost fields out, pubs, faults
  wait,       \* the wait list, head first
  posted,     \* keys with a DedupEntry
  recorded,   \* keys audited as posted by gate.recordPosted
  worker,     \* the one job being processed and how far it is
  call,       \* each activation of enqueueScored
  quiet,      \* quiet hours are enabled and the clock is inside the window
  budget      \* what is left of the bounds

vars == <<job, wait, posted, recorded, worker, call, quiet, budget>>

KeysOf(i) == {i.keys[n] : n \in DOMAIN i.keys}
Live == {"wait", "delayed", "active"}

JobRec == [st : Live \union {"absent", "completed", "failed"},
           att : 0..MaxAttempts,      \* attemptsMade
           stalls : 0..MaxStalls + 1, \* stalledCounter
           urgent : BOOLEAN,
           edited : BOOLEAN,          \* curatorEdits.priceCents is set
           stale : BOOLEAN,           \* older than SEND_MAX_JOB_AGE_MIN
           held : BOOLEAN,            \* parked until the quiet window ends
           out : SUBSET Keys,         \* ghost: deals this job delivered
           pubs : Nat,                \* ghost: messages this job delivered
           faults : Nat]              \* ghost: failures after a delivery

AbsentJob == [st |-> "absent", att |-> 0, stalls |-> 0, urgent |-> FALSE,
              edited |-> FALSE, stale |-> FALSE, held |-> FALSE,
              out |-> {}, pubs |-> 0, faults |-> 0]

(* What one add asks for; the stamp is only chosen when it is made. *)
AddRec == [keys : Lists(DigestSize), jid : Jids]

IdleWorker == [pc |-> "idle", id |-> NoJob, left |-> {}]
IdleCall == [pc |-> "idle", adds |-> <<>>, urgent |-> FALSE, unique |-> FALSE,
             edited |-> FALSE, sent |-> {}]

Init == /\ job = [i \in JobIds |-> AbsentJob]
        /\ wait = <<>>
        /\ posted = {}
        /\ recorded = {}
        /\ worker = IdleWorker
        /\ call = [c \in Callers |-> IdleCall]
        /\ quiet = FALSE
        /\ budget = [calls |-> MaxCalls, crashes |-> MaxCrashes,
                     nights |-> MaxNights]

-----------------------------------------------------------------------------
(* The producers. *)

Least(a, b) == IF a <= b THEN a ELSE b

(* One add for each chunk of `size` of the first `cap` deals, and target. *)
AddsFor(sel, cap, size, targets) ==
  LET n == Least(cap, Len(sel))
      chunks == (n + size - 1) \div size
      T == Len(targets)
      Chunk(c) == SubSeq(sel, c * size + 1, Least((c + 1) * size, n))
  IN [m \in 1..chunks * T |-> [keys |-> Chunk((m - 1) \div T),
                               jid |-> targets[((m - 1) % T) + 1]]]

(* The jobs of one activation: Telegram singles first, then WhatsApp
   digests; a chunk of one is a single. *)
Plan(sel) == AddsFor(sel, TgCap, 1, TgTargets) \o
             AddsFor(sel, WaCap, DigestSize, WaTargets)

Start(c, sel, urgent, unique, edited) ==
  /\ call[c].pc = "idle"
  /\ budget.calls > 0
  /\ call' = [call EXCEPT ![c] = [pc |-> "add", adds |-> Plan(sel),
                                  urgent |-> urgent, unique |-> unique,
                                  edited |-> edited, sent |-> {}]]
  /\ budget' = [budget EXCEPT !.calls = @ - 1]
  /\ UNCHANGED <<job, wait, posted, recorded, worker, quiet>>

(* A scheduler tick (or a manual pipeline run) dispatches deals that were
   not in the dedup window when they were collected. *)
Dispatch(c) ==
  \E sel \in Lists(Cardinality(Keys)) :
    /\ \A n \in DOMAIN sel : sel[n] \notin posted
    /\ Start(c, sel, FALSE, FALSE, FALSE)

(* ApprovalQueueService.approve: the dedup lookup is best effort (a failure
   reads as never posted), a recent post needs the override, and an urgent
   or overridden send gets a job id of its own. *)
Approve(c) ==
  \E k \in Keys, urgent, override, edited \in BOOLEAN :
    \E recent \in {FALSE, (k \in posted)} :
      /\ recent => override
      /\ Start(c, <<k>>, urgent, urgent \/ recent, edited)

(* Mutant of Add: urgent jobs are queued like any other (no LIFO). *)
AddFifoOnly(c) ==
  LET a == Head(call[c].adds)
      Push(i) ==
        IF job[i].st = "absent"
        THEN /\ job' = [job EXCEPT ![i] = [AbsentJob EXCEPT
                          !.st = "wait", !.urgent = call[c].urgent,
                          !.edited = call[c].edited]]
             /\ wait' = Append(wait, i)
        ELSE UNCHANGED <<job, wait>>
  IN /\ call[c].pc = "add"
     /\ call[c].adds # <<>>
     /\ \E s \in IF call[c].unique /\ Len(a.keys) = 1 THEN Stamps ELSE {0} :
          Push([keys |-> a.keys, jid |-> a.jid, stamp |-> s])
     /\ call' = [call EXCEPT ![c].adds = Tail(@),
                             ![c].sent = @ \union KeysOf(a)]
     /\ UNCHANGED <<posted, recorded, worker, quiet, budget>>

(* Queue.add with a job id: new ids go to the wait list (urgent ones at its
   head); an id that Redis still holds, in whatever state, is ignored
   without an error.  The caller counts both as enqueued. *)
Add(c) ==
  LET a == Head(call[c].adds)
      Push(i) ==
        IF job[i].st = "absent"
        THEN /\ job' = [job EXCEPT ![i] = [AbsentJob EXCEPT
                          !.st = "wait", !.urgent = call[c].urgent,
                          !.edited = call[c].edited]]
             /\ wait' = IF call[c].urgent THEN <<i>> \o wait
                                          ELSE Append(wait, i)
        ELSE UNCHANGED <<job, wait>>
  IN /\ call[c].pc = "add"
     /\ call[c].adds # <<>>
     /\ \E s \in IF call[c].unique /\ Len(a.keys) = 1 THEN Stamps ELSE {0} :
          Push([keys |-> a.keys, jid |-> a.jid, stamp |-> s])
     /\ call' = [call EXCEPT ![c].adds = Tail(@),
                             ![c].sent = @ \union KeysOf(a)]
     /\ UNCHANGED <<posted, recorded, worker, quiet, budget>>

(* Queue.add throws: logged, the next add goes on. *)
AddFails(c) ==
  /\ call[c].pc = "add"
  /\ call[c].adds # <<>>
  /\ call' = [call EXCEPT ![c].adds = Tail(@)]
  /\ UNCHANGED <<job, wait, posted, recorded, worker, quiet, budget>>

(* The posted decision of every deal that counted as enqueued. *)
RecordPosted(c) ==
  /\ call[c].pc = "add"
  /\ call[c].adds = <<>>
  /\ recorded' = recorded \union call[c].sent
  /\ call' = [call EXCEPT ![c] = IdleCall]
  /\ UNCHANGED <<job, wait, posted, worker, quiet, budget>>

-----------------------------------------------------------------------------
(* The worker. *)

Take ==
  /\ worker.pc = "idle"
  /\ wait # <<>>
  /\ LET i == Head(wait) IN
       /\ job' = [job EXCEPT ![i].st = "active"]
       /\ worker' = [pc |-> "start", id |-> i, left |-> {}]
  /\ wait' = Tail(wait)
  /\ UNCHANGED <<posted, recorded, call, quiet, budget>>

(* process(): the quiet-hours hold, then (with no await between) the
   staleness test of processSingle and processDigest. *)
Hold ==
  /\ worker.pc = "start"
  /\ quiet
  /\ ~job[worker.id].urgent
  /\ job' = [job EXCEPT ![worker.id].st = "delayed",
                        ![worker.id].held = TRUE]
  /\ worker' = IdleWorker
  /\ UNCHANGED <<wait, posted, recorded, call, quiet, budget>>

Check ==
  /\ worker.pc = "start"
  /\ ~quiet \/ job[worker.id].urgent
  /\ worker' = IF job[worker.id].stale /\ ~job[worker.id].edited
               THEN [worker EXCEPT !.pc = "scrape"]
               ELSE [worker EXCEPT !.pc = "send", !.left = KeysOf(worker.id)]
  /\ UNCHANGED <<job, wait, posted, recorded, call, quiet, budget>>

(* refreshPrice per deal: those whose price cannot be confirmed are dropped. *)
Rescrape ==
  /\ worker.pc = "scrape"
  /\ \E kept \in SUBSET KeysOf(worker.id) :
       /\ kept # {}
       /\ worker' = [worker EXCEPT !.pc = "send", !.left = kept]
  /\ UNCHANGED <<job, wait, posted, recorded, call, quiet, budget>>

(* Every re-scrape failed: the job completes and nothing is sent. *)
Discard ==
  /\ worker.pc = "scrape"
  /\ job' = [job EXCEPT ![worker.id].st = "completed"]
  /\ worker' = IdleWorker
  /\ UNCHANGED <<wait, posted, recorded, call, quiet, budget>>

(* The message leaves, after formatting and the jitter pause. *)
Publish ==
  /\ worker.pc = "send"
  /\ job' = [job EXCEPT ![worker.id].out = @ \union worker.left,
                        ![worker.id].pubs = @ + 1]
  /\ worker' = [worker EXCEPT !.pc = "mark"]
  /\ UNCHANGED <<wait, posted, recorded, call, quiet, budget>>

(* dedup.markPosted, deal by deal in the order of the digest (the audit row
   that follows it is best effort and kept nowhere here). *)
Mark ==
  /\ worker.pc = "mark"
  /\ \E n \in DOMAIN worker.id.keys :
       /\ worker.id.keys[n] \in worker.left
       /\ \A m \in 1..n - 1 : worker.id.keys[m] \notin worker.left
       /\ posted' = posted \union {worker.id.keys[n]}
       /\ worker' = [worker EXCEPT !.left = @ \ {worker.id.keys[n]}]
  /\ UNCHANGED <<job, wait, recorded, call, quiet, budget>>

(* Mutant of Complete: the job ends before every deal is marked. *)
CompleteEarly ==
  /\ worker.pc = "mark"
  /\ job' = [job EXCEPT ![worker.id].st = "completed"]
  /\ worker' = IdleWorker
  /\ UNCHANGED <<wait, posted, recorded, call, quiet, budget>>

Complete ==
  /\ worker.pc = "mark"
  /\ worker.left = {}
  /\ job' = [job EXCEPT ![worker.id].st = "completed"]
  /\ worker' = IdleWorker
  /\ UNCHANGED <<wait, posted, recorded, call, quiet, budget>>

(* The next state of a job whose attempt threw: back-off, or the
   dead-letter set after the last attempt. *)
Retried(j) == [j EXCEPT !.att = @ + 1,
                        !.st = IF j.att + 1 < MaxAttempts THEN "delayed"
                                                          ELSE "failed"]

(* The same for a job that had already delivered. *)
Faulted(j) == [Retried(j) EXCEPT !.faults = j.faults + 1]

(* process() throws before a message left: the toggle cannot be read, the
   job cannot be parked, formatting fails, the publisher is not ready or
   throttled. *)
FailBefore ==
  /\ worker.pc \in {"start", "send"}
  /\ job' = [job EXCEPT ![worker.id] = Retried(@)]
  /\ worker' = IdleWorker
  /\ UNCHANGED <<wait, posted, recorded, call, quiet, budget>>

(* process() throws after a message left: the publisher reports an error
   for a message that got through, or markPosted throws. *)
FailAfter ==
  /\ worker.pc = "mark"
  /\ worker.left # {}
  /\ job' = [job EXCEPT ![worker.id] = Faulted(@)]
  /\ worker' = IdleWorker
  /\ UNCHANGED <<wait, posted, recorded, call, quiet, budget>>

-----------------------------------------------------------------------------
(* Redis, the clock, and crashes. *)

(* A delayed job is due: it joins the tail of the wait list. *)
Promote(i) ==
  /\ job[i].st = "delayed"
  /\ ~job[i].held
  /\ job' = [job EXCEPT ![i].st = "wait"]
  /\ wait' = Append(wait, i)
  /\ UNCHANGED <<posted, recorded, worker, call, quiet, budget>>

(* The process dies: the job at hand stays active in Redis. *)
Crash ==
  /\ budget.crashes > 0
  /\ budget' = [budget EXCEPT !.crashes = @ - 1]
  /\ job' = IF worker.pc = "mark"
            THEN [job EXCEPT ![worker.id].faults = @ + 1] ELSE job
  /\ worker' = IdleWorker
  /\ call' = [c \in Callers |-> IdleCall]
  /\ UNCHANGED <<wait, posted, recorded, quiet>>

(* Mutant of RecoverStalled: a job still being processed counts as stalled. *)
RecoverAnyActive(i) ==
  /\ job[i].st = "active"
  /\ IF job[i].stalls + 1 > MaxStalls
     THEN /\ job' = [job EXCEPT ![i].st = "failed", ![i].stalls = @ + 1]
          /\ UNCHANGED wait
     ELSE /\ job' = [job EXCEPT ![i].st = "wait", ![i].stalls = @ + 1]
          /\ wait' = <<i>> \o wait
  /\ UNCHANGED <<posted, recorded, worker, call, quiet, budget>>

(* The stalled check: an active job nobody renews goes back to the head of
   the wait list, or fails when it stalled too often. *)
RecoverStalled(i) ==
  /\ job[i].st = "active"
  /\ worker.id # i
  /\ IF job[i].stalls + 1 > MaxStalls
     THEN /\ job' = [job EXCEPT ![i].st = "failed", ![i].stalls = @ + 1]
          /\ UNCHANGED wait
     ELSE /\ job' = [job EXCEPT ![i].st = "wait", ![i].stalls = @ + 1]
          /\ wait' = <<i>> \o wait
  /\ UNCHANGED <<posted, recorded, worker, call, quiet, budget>>

(* removeOnComplete / removeOnFail: the id becomes free again. *)
Prune(i) ==
  /\ job[i].st \in {"completed", "failed"}
  /\ job' = [job EXCEPT ![i] = AbsentJob]
  /\ UNCHANGED <<wait, posted, recorded, worker, call, quiet, budget>>

(* A job gets older than SEND_MAX_JOB_AGE_MIN. *)
Age(i) ==
  /\ job[i].st \in Live
  /\ ~job[i].stale
  /\ job' = [job EXCEPT ![i].stale = TRUE]
  /\ UNCHANGED <<wait, posted, recorded, worker, call, quiet, budget>>

QuietStart ==
  /\ ~quiet
  /\ budget.nights > 0
  /\ quiet' = TRUE
  /\ budget' = [budget EXCEPT !.nights = @ - 1]
  /\ UNCHANGED <<job, wait, posted, recorded, worker, call>>

(* Mutant of QuietEnd: parked jobs stay parked. *)
QuietEndKeepsHeld ==
  /\ quiet
  /\ quiet' = FALSE
  /\ UNCHANGED <<job, wait, posted, recorded, worker, call, budget>>

(* The window ends: every job parked until then is due. *)
QuietEnd ==
  /\ quiet
  /\ quiet' = FALSE
  /\ job' = [i \in JobIds |-> [job[i] EXCEPT !.held = FALSE]]
  /\ UNCHANGED <<wait, posted, recorded, worker, call, budget>>

-----------------------------------------------------------------------------
CallerStep == \E c \in Callers : \/ Dispatch(c) \/ Approve(c) \/ Add(c)
                                 \/ AddFails(c) \/ RecordPosted(c)

Process == \/ Hold \/ Check \/ Rescrape \/ Discard \/ Publish
           \/ Mark \/ Complete \/ FailBefore \/ FailAfter

RedisStep == \E i \in JobIds : Promote(i) \/ RecoverStalled(i) \/ Prune(i) \/ Age(i)

ClockStep == QuietStart \/ QuietEnd

Next == CallerStep \/ Take \/ Process \/ RedisStep \/ ClockStep \/ Crash

Spec == Init /\ [][Next]_vars

(* The event loop runs the worker, BullMQ promotes due jobs and checks for
   stalled ones on timers, and a quiet window ends. *)
Fairness == /\ WF_vars(Take)
            /\ WF_vars(Process)
            /\ \A i \in JobIds : WF_vars(Promote(i)) /\ WF_vars(RecoverStalled(i))
            /\ WF_vars(QuietEnd)

FairSpec == Spec /\ Fairness

-----------------------------------------------------------------------------
(* Type correctness of the queue, the worker and the callers. *)
TypeOK ==
  /\ job \in [JobIds -> JobRec]
  /\ wait \in Seq(JobIds)
  /\ posted \subseteq Keys
  /\ recorded \subseteq Keys
  /\ worker \in [pc : {"idle", "start", "scrape", "send", "mark"},
                 id : JobIds \union {NoJob}, left : SUBSET Keys]
  /\ call \in [Callers -> [pc : {"idle", "add"}, adds : Seq(AddRec),
                           urgent : BOOLEAN, unique : BOOLEAN,
                           edited : BOOLEAN, sent : SUBSET Keys]]
  /\ quiet \in BOOLEAN
  /\ budget \in [calls : Nat, crashes : Nat, nights : Nat]

(* The wait list and the jobs' states agree; the worker's job is active. *)
WaitListExact ==
  /\ \A n \in DOMAIN wait : job[wait[n]].st = "wait"
  /\ \A m, n \in DOMAIN wait : wait[m] = wait[n] => m = n
  /\ \A i \in JobIds : job[i].st = "wait" => \E n \in DOMAIN wait : wait[n] = i

WorkerHolds ==
  /\ (worker.pc = "idle") <=> (worker.id = NoJob)
  /\ worker.pc # "idle" => job[worker.id].st = "active"

(* The worker's job is active and is not waiting anywhere, the wait list
   holds each waiting job exactly once: retries, holds, promotions, LIFO
   adds and stalled-job recovery never hand one job to two attempts. *)
QueueConsistent == WaitListExact /\ WorkerHolds

(* A job delivers its message again only when an earlier attempt (or the
   process) failed after delivering: the hold, the stale re-check, back-off
   and stalled recovery alone never publish twice. *)
DuplicateNeedsFault == \A i \in JobIds : job[i].pubs <= 1 + job[i].faults

(* A job that completed, with no failure after a delivery, left every deal
   it delivered in the dedup table. *)
SettledIsMarked ==
  \A i \in JobIds : job[i].st = "completed" /\ job[i].faults = 0
                      => job[i].out \subseteq posted

(* A job whose price a curator edited is never dropped as stale: when it
   completes it was published, whatever happened to it on the way. *)
EditedIsPublished ==
  \A i \in JobIds : job[i].st = "completed" /\ job[i].edited => job[i].pubs > 0

(* A job reaches the dead-letter set only after all its attempts, or after
   stalling more often than BullMQ allows. *)
FailedIsExhausted ==
  \A i \in JobIds : job[i].st = "failed"
                      => job[i].att = MaxAttempts \/ job[i].stalls > MaxStalls

(***************************************************************************)
(* The four invariants above are not inductive: whether a job may deliver   *)
(* depends on how far the worker is with it.  A live job other than the one *)
(* being marked has paid for each delivery with a failure; the one being    *)
(* marked still has to mark exactly what it delivered; a job is re-scraped  *)
(* only if nobody edited its price.                                         *)
(***************************************************************************)
JobInv ==
  \A i \in JobIds :
    /\ job[i].st \in Live => /\ job[i].att < MaxAttempts
                             /\ job[i].stalls <= MaxStalls
    /\ job[i].st = "failed" => \/ job[i].att = MaxAttempts
                               \/ job[i].stalls > MaxStalls
    /\ job[i].st = "absent" => job[i].out = {} /\ job[i].faults = 0
    /\ job[i].pubs = 0 => job[i].out = {}
    /\ job[i].pubs <= 1 + job[i].faults
    /\ job[i].st \in Live /\ ~(worker.pc = "mark" /\ worker.id = i)
         => job[i].pubs <= job[i].faults
    /\ job[i].st = "completed" /\ job[i].edited => job[i].pubs > 0
    /\ job[i].st = "completed" /\ job[i].faults = 0 => job[i].out \subseteq posted

WorkerInv ==
  /\ worker.pc = "scrape" => ~job[worker.id].edited
  /\ worker.pc = "send" =>
       worker.left # {} /\ worker.left \subseteq KeysOf(worker.id)
  /\ worker.pc = "mark" =>
       /\ job[worker.id].pubs > 0
       /\ job[worker.id].out # {}
       /\ worker.left \subseteq job[worker.id].out
       /\ job[worker.id].faults = 0
            => job[worker.id].out \subseteq posted \union worker.left

Bookkeeping == JobInv /\ WorkerInv

IInv == TypeOK /\ QueueConsistent /\ Bookkeeping

(* An urgent job is taken ahead of everything already queued: the worker
   never takes a job that is not urgent while an urgent one that was never
   attempted waits, except one put back by the stalled check. *)
UrgentOvertakes ==
  [][\A i \in JobIds :
       worker.id # i /\ worker'.id = i /\ ~job[i].urgent /\ job[i].stalls = 0
         => \A n \in DOMAIN wait :
              job[wait[n]].urgent => job[wait[n]].att > 0]_vars

(* A deal is marked posted only while the job that delivered it is at hand. *)
MarkFollowsDelivery ==
  [][\A k \in posted' \ posted :
       worker.id # NoJob /\ k \in job[worker.id].out]_vars

(* Every job that enters the queue is completed, or lands in the
   dead-letter set. *)
EveryJobSettles ==
  \A i \in JobIds : job[i].st \in Live ~> job[i].st \notin Live

(* The send path implements the promise stated in Delivery. *)
Stage(i) == CASE job[i].st = "absent" -> "none"
              [] job[i].st \in Live -> "pending"
              [] job[i].st = "completed" -> "done"
              [] job[i].st = "failed" -> "dead"

Promise == INSTANCE Delivery
             WITH Job <- JobIds, Key <- Keys, KeysIn <- KeysOf,
                  stage <- [i \in JobIds |-> Stage(i)],
                  out <- [i \in JobIds |-> job[i].out],
                  trouble <- [i \in JobIds |-> job[i].faults > 0],
                  marked <- posted

ImplementsDelivery == Promise!DSpec

(* A job is in one place, repeats its message only after a fault, and leaves
   what it delivered marked. *)
JobsAreSound == QueueConsistent /\ DuplicateNeedsFault /\ SettledIsMarked
=============================================================================
