------------------------------ MODULE Targets ------------------------------
(***************************************************************************)
(* The registry of publishing targets (whatsapp/targets.service.ts and its   *)
(* endpoints) and the group commands with the opt-out registry               *)
(* (command.handler.ts, optout.service.ts).                                 *)
(*                                                                         *)
(* Both are tables that a new process fills before it listens: from a legacy *)
(* file when the table is empty, and the targets of the environment when     *)
(* they have no row.  Names and channels of targets are left out, and so are *)
(* commands that only reply.                                                *)
(***************************************************************************)
EXTENDS Integers, FiniteSets

CONSTANTS Jids,        \* targets
          EnvJids,     \* WA_TARGET_JID and TELEGRAM_CHAT_ID
          LegacyJids,  \* targets of the legacy file, active in it
          Members,     \* people in the groups
          Requests,    \* concurrent requests of the operator
          MaxWishes,   \* bound: requests of the operator
          MaxTroubles  \* bound: restarts and errors of the database

ASSUME RegistryAssumption == /\ EnvJids \subseteq Jids /\ LegacyJids \subseteq Jids
                             /\ "none" \notin Jids
                             /\ MaxWishes \in Nat /\ MaxTroubles \in Nat

VARIABLES
  target,      \* the WaTarget table
  booting,     \* what onModuleInit does next, "up" when it listens
  request,     \* what each request is at
  asked,       \* ghost: what the operator last asked for, target by target
  disturbed,   \* ghost: targets with crossing or failed requests since
  optedOut,    \* the WaOptout table
  throttled,   \* lastCommandAt is less than a minute ago
  leaving,     \* members whose opt-out is being written
  thanked,     \* ghost: members who were told they are out
  wishes, troubles  \* what is left of the bounds

registryVars == <<target, booting, request, asked, disturbed, optedOut,
                  throttled, leaving, thanked, wishes, troubles>>

NoRequest == [at |-> "none", jid |-> "none"]

TargetsInit ==
  /\ target \in {[j \in Jids |-> "none"],
                 [j \in Jids |-> IF j \in LegacyJids THEN "active" ELSE "none"]}
  /\ asked = target
  /\ booting = "backfill"
  /\ request = [r \in Requests |-> NoRequest]
  /\ disturbed = {}
  /\ optedOut = {} /\ throttled = {} /\ leaving = {} /\ thanked = {}
  /\ wishes = MaxWishes
  /\ troubles = MaxTroubles

commandVars == <<optedOut, throttled, leaving, thanked>>

(* maybeBackfillFromJson; the count, the file or the import may fail, and
   the boot goes on. *)
Backfills ==
  /\ booting = "backfill"
  /\ booting' = "seed"
  /\ \/ /\ \A j \in Jids : target[j] = "none"
        /\ target' = [j \in Jids |-> IF j \in LegacyJids THEN "active" ELSE "none"]
        /\ UNCHANGED troubles
     \/ /\ \E j \in Jids : target[j] # "none"
        /\ UNCHANGED <<target, troubles>>
     \/ /\ troubles > 0
        /\ troubles' = troubles - 1
        /\ UNCHANGED target
  /\ UNCHANGED <<request, asked, disturbed, commandVars, wishes>>

(* Mutant of Seeded: the targets of the environment are written at each boot. *)
SeededAlways(j) == IF j \in EnvJids THEN "active" ELSE target[j]

(* seedFromEnv: findOne, then upsert. *)
Seeded(j) == IF j \in EnvJids /\ target[j] = "none" THEN "active" ELSE target[j]

Seeds ==
  /\ booting = "seed"
  /\ booting' = "up"
  /\ target' = [j \in Jids |-> Seeded(j)]
  /\ UNCHANGED <<request, asked, disturbed, commandVars, wishes, troubles>>

(* The process ends with its requests, wherever they are: a target whose
   request was cut short may be either. *)
TargetsRestart ==
  /\ troubles > 0
  /\ troubles' = troubles - 1
  /\ booting' = "backfill"
  /\ disturbed' = disturbed \union
                    {request[r].jid : r \in {q \in Requests : request[q].at # "none"}}
  /\ request' = [r \in Requests |-> NoRequest]
  /\ throttled' = {}
  /\ leaving' = {}
  /\ UNCHANGED <<target, asked, optedOut, thanked, wishes>>

-----------------------------------------------------------------------------
(* POST /wa/targets, with or without active = false, and DELETE. *)
Asks(r, j, want) ==
  /\ booting = "up" /\ wishes > 0
  /\ request[r].at = "none"
  /\ wishes' = wishes - 1
  /\ request' = [request EXCEPT ![r] =
                   [at |-> IF want = "none" THEN "delete"
                           ELSE IF want = "active" THEN "add" ELSE "addThenPause",
                    jid |-> j]]
  /\ asked' = [asked EXCEPT ![j] = want]
  /\ disturbed' = IF \E q \in Requests : request[q].jid = j
                  THEN disturbed \union {j} ELSE disturbed \ {j}
  /\ UNCHANGED <<target, booting, commandVars, troubles>>

(* The next query of request r answers.  Pausing is a read of the row and a
   write of what was read, after the target was added active. *)
Replies(r, at, to, value) ==
  /\ request[r].at = at
  /\ target' = [target EXCEPT ![request[r].jid] = value]
  /\ request' = [request EXCEPT ![r] = IF to = "none" THEN NoRequest
                                       ELSE [@ EXCEPT !.at = to]]
  /\ UNCHANGED <<booting, asked, disturbed, commandVars, wishes, troubles>>

(* findOne: a row that has gone meanwhile is not written back. *)
Finds(r, value) == /\ request[r].at = "find" /\ target[request[r].jid] = value
                   /\ Replies(r, "find", IF value = "none" THEN "none" ELSE "write",
                              value)

RequestStep(r) ==
  \/ Replies(r, "delete", "none", "none")
  \/ Replies(r, "add", "none", "active")
  \/ Replies(r, "addThenPause", "find", "active")
  \/ \E value \in {"none", "active", "paused"} : Finds(r, value)
  \/ Replies(r, "write", "none", "paused")

(* A query fails and the request with it. *)
RequestFails(r) ==
  /\ request[r].at # "none" /\ troubles > 0
  /\ troubles' = troubles - 1
  /\ disturbed' = disturbed \union {request[r].jid}
  /\ request' = [request EXCEPT ![r] = NoRequest]
  /\ UNCHANGED <<target, booting, asked, commandVars, wishes>>

-----------------------------------------------------------------------------
targetVars == <<target, booting, request, asked, disturbed, wishes>>

(* /sair in a group, by somebody who is allowed to and whose last command is
   a minute ago: the throttle is set before the write. *)
Leaves(m) ==
  /\ booting = "up"
  /\ m \notin throttled
  /\ throttled' = throttled \union {m}
  /\ leaving' = leaving \union {m}
  /\ UNCHANGED <<targetVars, optedOut, thanked, troubles>>

(* Another command by m that is allowed: it replies and sets the throttle. *)
OtherCommand(m) ==
  /\ booting = "up"
  /\ m \notin throttled
  /\ throttled' = throttled \union {m}
  /\ UNCHANGED <<targetVars, optedOut, leaving, thanked, troubles>>

LeftIsWritten(m) ==
  /\ m \in leaving
  /\ leaving' = leaving \ {m}
  /\ optedOut' = optedOut \union {m}
  /\ thanked' = thanked \union {m}
  /\ UNCHANGED <<targetVars, throttled, troubles>>

(* The write throws: the handler of messages.upsert logs it, no reply. *)
LeavingFails(m) ==
  /\ m \in leaving /\ troubles > 0
  /\ troubles' = troubles - 1
  /\ leaving' = leaving \ {m}
  /\ UNCHANGED <<targetVars, optedOut, throttled, thanked>>

MinutePasses(m) ==
  /\ m \in throttled
  /\ throttled' = throttled \ {m}
  /\ UNCHANGED <<targetVars, optedOut, leaving, thanked, troubles>>

TargetsNext ==
  \/ Backfills \/ Seeds \/ TargetsRestart
  \/ \E r \in Requests :
       \/ \E j \in Jids, want \in {"none", "active", "paused"} : Asks(r, j, want)
       \/ RequestStep(r) \/ RequestFails(r)
  \/ \E m \in Members : \/ Leaves(m) \/ OtherCommand(m) \/ LeftIsWritten(m)
                        \/ LeavingFails(m) \/ MinutePasses(m)

TargetsSpec == TargetsInit /\ [][TargetsNext]_registryVars

-----------------------------------------------------------------------------
(* Type correctness of the two registries. *)
TargetsTypeOK ==
  /\ target \in [Jids -> {"none", "active", "paused"}]
  /\ booting \in {"backfill", "seed", "up"}
  /\ request \in [Requests -> [at : {"none", "delete", "add", "addThenPause", "find", "write"},
                               jid : Jids \union {"none"}]]
  /\ asked \in [Jids -> {"none", "active", "paused"}]
  /\ disturbed \subseteq Jids
  /\ optedOut \subseteq Members /\ throttled \subseteq Members
  /\ leaving \subseteq Members /\ thanked \subseteq Members
  /\ wishes \in 0..MaxWishes /\ troubles \in 0..MaxTroubles

(* The registry is what the operator made of it, through every restart: a
   target with no request on it is as he last asked, unless requests on it
   crossed or one of them failed.  A boot may bring back what he deleted (the
   environment or the legacy file still name it), and never wakes a target he
   paused. *)
RegistryFollows ==
  \A j \in Jids \ disturbed :
    (\A r \in Requests : request[r].jid # j) =>
      \/ target[j] = asked[j]
      \/ asked[j] = "none" /\ target[j] = "active" /\ j \in EnvJids \union LegacyJids

(* Whoever was told that he left the list is in the registry for good. *)
ToldIsOut == thanked \subseteq optedOut

(* Both registries keep what they were told. *)
RegistriesKeep == RegistryFollows /\ ToldIsOut
=============================================================================
