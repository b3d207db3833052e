------------------------------ MODULE Delivery ------------------------------
(***************************************************************************)
(* What the send path promises, without queue, worker, retries or clock:   *)
(* a submitted job stays pending until it is finished or given up; it is   *)
(* delivered at most once unless something went wrong after a delivery     *)
(* (trouble); a deal is marked posted only by a pending job that delivered *)
(* it; and a job without trouble finishes only when everything it          *)
(* delivered is marked.  SendQueue is shown to implement this module.      *)
(***************************************************************************)
CONSTANTS Job,          \* every job identity
          Key,          \* catalog keys of deals
          KeysIn(_)     \* the deals a job carries

VARIABLES stage,        \* [Job -> {"none", "pending", "done", "dead"}]
          out,          \* [Job -> SUBSET Key]: what the job has delivered
          trouble,      \* [Job -> BOOLEAN]: failed after a delivery
          marked        \* SUBSET Key: deals known to be posted

dvars == <<stage, out, trouble, marked>>

DInit == /\ stage = [i \in Job |-> "none"]
         /\ out = [i \in Job |-> {}]
         /\ trouble = [i \in Job |-> FALSE]
         /\ marked = {}

(* A caller hands over a new job. *)
Submit(i) == /\ stage[i] = "none"
             /\ stage' = [stage EXCEPT ![i] = "pending"]
             /\ UNCHANGED <<out, trouble, marked>>

(* One message with a non-empty part of the job's deals leaves. *)
Deliver(i) == /\ stage[i] = "pending"
              /\ out[i] = {} \/ trouble[i]
              /\ \E S \in SUBSET KeysIn(i) :
                   /\ S # {}
                   /\ out' = [out EXCEPT ![i] = @ \union S]
              /\ UNCHANGED <<stage, trouble, marked>>

(* A delivered deal is recorded in the dedup table. *)
MarkPosted(i) == /\ stage[i] = "pending"
                 /\ \E k \in out[i] : marked' = marked \union {k}
                 /\ UNCHANGED <<stage, out, trouble>>

(* Something fails between a delivery and the end of the job. *)
Stumble(i) == /\ stage[i] = "pending"
              /\ out[i] # {}
              /\ trouble' = [trouble EXCEPT ![i] = TRUE]
              /\ UNCHANGED <<out, marked>>
              /\ \/ UNCHANGED stage
                 \/ stage' = [stage EXCEPT ![i] = "dead"]

Finish(i) == /\ stage[i] = "pending"
             /\ trouble[i] \/ out[i] \subseteq marked
             /\ stage' = [stage EXCEPT ![i] = "done"]
             /\ UNCHANGED <<out, trouble, marked>>

GiveUp(i) == /\ stage[i] = "pending"
             /\ stage' = [stage EXCEPT ![i] = "dead"]
             /\ UNCHANGED <<out, trouble, marked>>

(* A finished job is forgotten; its identity may be submitted again. *)
Forget(i) == /\ stage[i] \in {"done", "dead"}
             /\ stage' = [stage EXCEPT ![i] = "none"]
             /\ out' = [out EXCEPT ![i] = {}]
             /\ trouble' = [trouble EXCEPT ![i] = FALSE]
             /\ UNCHANGED marked

DNext == \E i \in Job : \/ Submit(i) \/ Deliver(i) \/ MarkPosted(i)
                        \/ Stumble(i) \/ Finish(i) \/ GiveUp(i) \/ Forget(i)

DSpec == DInit /\ [][DNext]_dvars
=============================================================================
