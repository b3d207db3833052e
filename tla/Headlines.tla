----------------------------- MODULE Headlines -----------------------------
(***************************************************************************)
(* The line a caption opens with (headline/): from the cache, else from the  *)
(* model, whose answer has to pass a quality gate and gets one more chance,  *)
(* else from a static pool.  Renders are rendered at the same time, also of *)
(* the same product.  The cache is a map written to a file after each entry, *)
(* one write after the other but straight into the file.                    *)
(*                                                                         *)
(* The wording is left out: a line is what the gate makes of it, and the     *)
(* gate depends on the copy, read from editable files at boot.              *)
(***************************************************************************)
EXTENDS Integers, Sequences, FiniteSets

CONSTANTS Items,     \* catalog ids
          Raw,       \* what the model may answer
          Passes,    \* Passes[c]: the answers without an issue under copy c
          Renders,  \* captions rendered at a time
          MaxHooks,  \* bound: calls in a behaviour
          MaxUpsets  \* bound: expiries, write errors and restarts

Copies == {"own", "default"}

ASSUME HeadlineAssumption == /\ Passes \in [Copies -> SUBSET Raw]
                             /\ MaxHooks \in Nat /\ MaxUpsets \in Nat

VARIABLES
  copy,     \* HeadlineConfigService.config
  cache,    \* the entry of each item: its line and, ghost, the copy it passed
  saved,    \* the file: what is in it, and whether it can be parsed
  queue,    \* writeQueue: the calls whose persist waits or runs
  hook,     \* each call of generate
  served,   \* ghost: what the last caption got
  behind,   \* ghost: the last write failed or was cut short
  hooks, upsets  \* what is left of the bounds

headlineVars == <<copy, cache, saved, queue, hook, served, behind, hooks, upsets>>

None == [line |-> "none", copy |-> "none"]
Pool == [line |-> "pool", copy |-> "none"]
Empty == [i \in Items |-> None]
NoHook == [at |-> "idle", item |-> "none", entry |-> None, data |-> Empty]

(* loadCopyJson: a copy.json that is absent, malformed or without one usable
   word gives way to the built-in copy. *)
LoadedCopy(json) == IF json = "usable" THEN "own" ELSE "default"
Jsons == {"absent", "malformed", "empty", "usable"}

HeadlinesInit == /\ copy \in {LoadedCopy(j) : j \in Jsons}
                 /\ cache = Empty
                 /\ saved = [whole |-> TRUE, has |-> Empty]
                 /\ queue = <<>>
                 /\ hook = [c \in Renders |-> NoHook]
                 /\ served = Pool
                 /\ behind = FALSE
                 /\ hooks = MaxHooks
                 /\ upsets = MaxUpsets

storage == <<saved, queue, behind>>

(* sanitize and qualityIssue: no issue under the copy in force. *)
Clean(line) == line \in Passes[copy]

(* generate: a cached line is served as it is, without a key the pool. *)
Generates(c, i) ==
  /\ hook[c] = NoHook /\ hooks > 0
  /\ hooks' = hooks - 1
  /\ \/ /\ cache[i] # None
        /\ served' = cache[i]
        /\ UNCHANGED hook
     \/ /\ cache[i] = None
        /\ \/ /\ served' = Pool
              /\ UNCHANGED hook
           \/ /\ hook' = [hook EXCEPT ![c].at = "first", ![c].item = i]
              /\ UNCHANGED served
  /\ UNCHANGED <<copy, cache, storage, upsets>>

(* The model's answer passes: into the cache, and a write is queued. *)
Accepts(c, line) ==
  /\ cache' = [cache EXCEPT ![hook[c].item] = [line |-> line, copy |-> copy]]
  /\ hook' = [hook EXCEPT ![c].at = "queued", ![c].entry = [line |-> line, copy |-> copy]]
  /\ queue' = Append(queue, c)
  /\ UNCHANGED served

FallsBack(c) ==
  /\ hook' = [hook EXCEPT ![c] = NoHook]
  /\ served' = Pool
  /\ UNCHANGED <<cache, queue>>

(* Mutant of Answers: the second answer is not looked at. *)
AnswersUnchecked(c) ==
  /\ hook[c].at \in {"first", "second"}
  /\ \E line \in Raw :
       \/ Clean(line) /\ Accepts(c, line)
       \/ hook[c].at = "second" /\ Accepts(c, line)
       \/ /\ ~Clean(line) /\ hook[c].at = "first"
          /\ hook' = [hook EXCEPT ![c].at = "second"]
          /\ UNCHANGED <<cache, queue, served>>
  /\ UNCHANGED <<copy, saved, behind, hooks, upsets>>

(* The model answers: a line with an issue is asked for once more, and the
   second one gives way to the pool. *)
Answers(c) ==
  /\ hook[c].at \in {"first", "second"}
  /\ \E line \in Raw :
       \/ Clean(line) /\ Accepts(c, line)
       \/ /\ ~Clean(line) /\ hook[c].at = "first"
          /\ hook' = [hook EXCEPT ![c].at = "second"]
          /\ UNCHANGED <<cache, queue, served>>
       \/ /\ ~Clean(line) /\ hook[c].at = "second"
          /\ FallsBack(c)
  /\ UNCHANGED <<copy, saved, behind, hooks, upsets>>

(* A timeout, a status, an answer without content. *)
ModelFails(c) ==
  /\ hook[c].at \in {"first", "second"}
  /\ FallsBack(c)
  /\ UNCHANGED <<copy, saved, behind, hooks, upsets>>

(* Mutant of MayWrite: writes do not wait for each other. *)
MayWriteAtOnce(c) == \E i \in DOMAIN queue : queue[i] = c

MayWrite(c) == queue # <<>> /\ Head(queue) = c

(* persist: the map is turned into JSON and the file truncated. *)
SaveStarts(c) ==
  /\ hook[c].at = "queued" /\ MayWrite(c)
  /\ hook' = [hook EXCEPT ![c].at = "writing", ![c].data = cache]
  /\ saved' = [whole |-> FALSE, has |-> Empty]
  /\ UNCHANGED <<copy, cache, queue, served, behind, hooks, upsets>>

(* writeQueue resolves: the next write may start. *)
Saved == Tail(queue)

(* The write ends, or its error is logged; either way set() resolves. *)
SaveEnds(c) ==
  /\ hook[c].at = "writing"
  /\ \/ /\ saved' = [whole |-> TRUE, has |-> hook[c].data]
        /\ behind' = FALSE
        /\ UNCHANGED upsets
     \/ /\ upsets > 0
        /\ upsets' = upsets - 1
        /\ behind' = TRUE
        /\ UNCHANGED saved
  /\ served' = hook[c].entry
  /\ hook' = [hook EXCEPT ![c] = NoHook]
  /\ queue' = Saved
  /\ UNCHANGED <<copy, cache, hooks>>

(* A new process reads the copy, which may have been edited or lost, and the
   cache: a file that cannot be parsed, cut short in a write, is an empty
   one. *)
Reboots ==
  /\ upsets > 0
  /\ upsets' = upsets - 1
  /\ \E json \in Jsons : copy' = LoadedCopy(json)
  /\ cache' = saved.has
  /\ behind' = (behind \/ queue # <<>>)
  /\ queue' = <<>>
  /\ hook' = [c \in Renders |-> NoHook]
  /\ UNCHANGED <<saved, served, hooks>>

(* An entry expires: get() deletes it from the map, load() skips it. *)
EntryExpires(i) ==
  /\ upsets > 0 /\ queue = <<>>
  /\ cache[i] # None
  /\ upsets' = upsets - 1
  /\ cache' = [cache EXCEPT ![i] = None]
  /\ saved' = [saved EXCEPT !.has[i] = None]
  /\ UNCHANGED <<copy, queue, hook, served, behind, hooks>>

HeadlinesNext ==
  \/ \E c \in Renders :
       \/ \E i \in Items : Generates(c, i)
       \/ Answers(c) \/ ModelFails(c) \/ SaveStarts(c) \/ SaveEnds(c)
  \/ Reboots
  \/ \E i \in Items : EntryExpires(i)

HeadlinesSpec == HeadlinesInit /\ [][HeadlinesNext]_headlineVars

-----------------------------------------------------------------------------
Entries == [line : Raw \union {"none", "pool"}, copy : Copies \union {"none"}]

(* Type correctness of the generator and its cache. *)
HeadlinesTypeOK ==
  /\ copy \in Copies
  /\ cache \in [Items -> Entries]
  /\ saved.whole \in BOOLEAN /\ saved.has \in [Items -> Entries]
  /\ queue \in Seq(Renders)
  /\ \A c \in Renders :
       /\ hook[c].at \in {"idle", "first", "second", "queued", "writing"}
       /\ hook[c].entry \in Entries
  /\ served \in Entries
  /\ behind \in BOOLEAN
  /\ hooks \in 0..MaxHooks /\ upsets \in 0..MaxUpsets

(* No line goes out that the gate did not pass, whichever call made it and
   through whatever restart it came: the copy it passed may be an older one
   (README, divergences), never none. *)
EveryLinePassed ==
  served # Pool => served.copy \in Copies /\ served.line \in Passes[served.copy]

(* Between writes the file is what memory is, unless the last write failed or
   the process ended in it: two writes never mix, and an old one never
   overtakes a new one. *)
FileFollows ==
  queue = <<>> /\ ~behind => saved.whole /\ saved.has = cache

(* The cache serves and keeps only what the gate passed. *)
HeadlinesHold == EveryLinePassed /\ FileFollows
=============================================================================
