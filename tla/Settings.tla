------------------------------ MODULE Settings -------------------------------
(***************************************************************************)
(* The settings tab: fields with a draft each, saved one by one through     *)
(* PUT ops-config/:key, whose answer carries every effective value.  A PUT  *)
(* writes its row, then reads them all; answers carry how many reads came   *)
(* after theirs, so that an older one is told from a newer one.             *)
(***************************************************************************)
EXTENDS OpsConfig, FiniteSets, Naturals

CONSTANTS Keys,      \* ops-config keys
          Malformed, \* a value isValid refuses
          MaxClicks, \* bound: drafts typed and saves
          MaxFaults  \* bound: requests or answers lost, rows changed elsewhere,
                     \* renders of the app

ASSUME SettingsAssumption == /\ {MaxClicks, MaxFaults} \subseteq Nat
                             /\ Unset \notin Valid /\ Malformed \notin Valid

VARIABLES
  table,     \* OpsConfig rows
  env,       \* the process environment
  phase,     \* the panel's status; its fields are mounted when it is ready
  values,    \* configs: what the fields show as saved
  draft,     \* what is typed in each field that is mounted
  saving,    \* the key whose button waits, or Unset
  saves,     \* PUT requests and GETs, with their answer and its age in reads
  overtaken, \* ghost: an answer overtook an older one, what became of a save
             \* was not told, or another panel wrote
  clicks     \* what is left of the bounds

settingsVars == <<table, env, phase, values, draft, saving, saves, overtaken, clicks>>

Default == CHOOSE v \in Valid : TRUE
AllEffective(rows) == [k \in Keys |-> Effective(rows[k], env[k], Default)]
NoAnswer == [k \in Keys |-> Unset]
Request(k, v) == [pc |-> "sent", key |-> k, value |-> v, got |-> NoAnswer,
                  age |-> 0, n |-> clicks'.acts + clicks'.faults]

SettingsInit ==
  /\ table \in [Keys -> {Unset, Malformed}]
  /\ env \in [Keys -> {Unset} \union Valid]
  /\ phase = "loading" /\ values = NoAnswer /\ draft = NoAnswer
  /\ saving = Unset /\ overtaken = FALSE
  /\ saves = {[pc |-> "sent", key |-> Unset, value |-> Unset, got |-> NoAnswer,
               age |-> 0, n |-> MaxClicks + MaxFaults]}
  /\ clicks = [acts |-> MaxClicks, faults |-> MaxFaults]

SpendClick == /\ clicks.acts > 0
              /\ clicks' = [clicks EXCEPT !.acts = @ - 1]
SpendFault == /\ clicks.faults > 0
              /\ clicks' = [clicks EXCEPT !.faults = @ - 1]

Draft(k) ==
  /\ phase = "ready"
  /\ SpendClick
  /\ \E v \in (Valid \union {Malformed}) \ {draft[k]} : draft' = [draft EXCEPT ![k] = v]
  /\ UNCHANGED <<table, env, phase, values, saving, saves, overtaken>>

(* handleSave, from a field that differs; one key is shown as saving, and
   the buttons of the others stay enabled. *)
Save(k) ==
  /\ phase = "ready" /\ draft[k] # values[k] /\ saving # k
  /\ SpendClick
  /\ saving' = k
  /\ saves' = saves \union {Request(k, draft[k])}
  /\ UNCHANGED <<table, env, phase, values, draft, overtaken>>

(* loadData: the fields are unmounted, with their drafts. *)
Load == /\ phase' = "loading"
        /\ draft' = NoAnswer
        /\ saves' = saves \union {Request(Unset, Unset)}
        /\ UNCHANGED <<table, env, values, saving, overtaken>>

(* The button of the error page. *)
Reload == phase = "error" /\ UNCHANGED clicks /\ Load

(* The app renders, for a poll or a toast, and hands down another
   onUnauthorized: the effect on [loadData] runs. *)
AppRenders == SpendFault /\ Load

SaveBecomes(s, new) == saves' = (saves \ {s}) \union {new}

(* Mutant of SaveWrites: the values are read without waiting for the write. *)
SaveNotAwaited(s) ==
  /\ s.key # Unset
  /\ IF s.pc = "orphan"
     THEN /\ table' = IF s.value = Malformed THEN table ELSE [table EXCEPT ![s.key] = s.value]
          /\ saves' = saves \ {s}
     ELSE /\ s.pc = "sent"
          /\ saves' = (saves \ {s}) \union {[s EXCEPT !.pc = pc] : pc \in {"orphan", "written"}}
          /\ UNCHANGED table
  /\ UNCHANGED <<env, phase, values, draft, saving, overtaken, clicks>>

(* set: a malformed value is refused, a valid one written.  A PUT that the
   page has given up is an orphan: it writes, and answers nobody. *)
SaveWrites(s) ==
  /\ s.pc \in {"sent", "orphan"} /\ s.key # Unset
  /\ table' = IF s.value = Malformed THEN table ELSE [table EXCEPT ![s.key] = s.value]
  /\ IF s.pc = "orphan" THEN saves' = saves \ {s}
     ELSE SaveBecomes(s, [s EXCEPT !.pc = IF s.value = Malformed THEN "failed" ELSE "written"])
  /\ UNCHANGED <<env, phase, values, draft, saving, overtaken, clicks>>

Older(u) == IF u.pc = "back" THEN [u EXCEPT !.age = @ + 1] ELSE u

(* getAllEffective, for a GET or after the write of a PUT. *)
SaveReads(s) ==
  /\ s.pc = IF s.key = Unset THEN "sent" ELSE "written"
  /\ saves' = {Older(u) : u \in saves \ {s}} \union
              {[s EXCEPT !.pc = "back", !.got = AllEffective(table)]}
  /\ UNCHANGED <<table, env, phase, values, draft, saving, overtaken, clicks>>

(* The server fails; a PUT that has written is not undone. *)
SaveBreaks(s) ==
  /\ s.pc \in {"sent", "written"}
  /\ SpendFault
  /\ SaveBecomes(s, [s EXCEPT !.pc = "failed"])
  /\ overtaken' = (overtaken \/ s.pc = "written")
  /\ UNCHANGED <<table, env, phase, values, draft, saving>>

(* What the page does when a request fails. *)
Failed(s) == IF s.key = Unset
             THEN phase' = "error" /\ draft' = NoAnswer /\ UNCHANGED saving
             ELSE saving' = Unset /\ UNCHANGED <<phase, draft>>

(* The connection breaks: the page gives the request up, a PUT may go on. *)
SaveLost(s) ==
  /\ s.pc \in {"sent", "written", "back"}
  /\ SpendFault
  /\ IF s.pc = "sent" /\ s.key # Unset THEN SaveBecomes(s, [s EXCEPT !.pc = "orphan"])
     ELSE saves' = saves \ {s}
  /\ Failed(s)
  /\ overtaken' = (overtaken \/ s.key # Unset)
  /\ UNCHANGED <<table, env, values>>

SaveFailed(s) ==
  /\ s.pc = "failed"
  /\ saves' = saves \ {s}
  /\ Failed(s)
  /\ UNCHANGED <<table, env, values, overtaken, clicks>>

(* Mutant of Synced: every field is reset when an answer comes. *)
SyncedAll(got) == got

(* A mounted field takes over its value when that changes, and only then. *)
Synced(got) == [k \in Keys |-> IF got[k] # values[k] THEN got[k] ELSE draft[k]]

(* An answer is applied; one read before it and still on its way would then
   put older values in its place. *)
Applied(s) ==
  /\ s.pc = "back"
  /\ saves' = saves \ {s}
  /\ values' = s.got
  /\ overtaken' = (overtaken \/ \E u \in saves : u.pc = "back" /\ u.age > s.age)
  /\ UNCHANGED <<table, env, clicks>>

(* The answer of handleSave, to fields that may be unmounted by now. *)
SaveAnswered(s) ==
  /\ s.key # Unset
  /\ Applied(s)
  /\ saving' = Unset
  /\ draft' = IF phase = "ready" THEN Synced(s.got) ELSE draft
  /\ UNCHANGED phase

(* The answer of loadData: the fields are mounted, or already are. *)
Loaded(s) ==
  /\ s.key = Unset
  /\ Applied(s)
  /\ phase' = "ready"
  /\ draft' = IF phase = "ready" THEN Synced(s.got) ELSE s.got
  /\ UNCHANGED saving

(* Another panel writes a row. *)
SavedElsewhere(k) ==
  /\ SpendFault
  /\ \E v \in Valid : table' = [table EXCEPT ![k] = v]
  /\ overtaken' = TRUE
  /\ UNCHANGED <<env, phase, values, draft, saving, saves>>

SettingsNext ==
  \/ Reload \/ AppRenders
  \/ \E k \in Keys : Draft(k) \/ Save(k) \/ SavedElsewhere(k)
  \/ \E s \in saves : \/ SaveWrites(s) \/ SaveReads(s) \/ SaveBreaks(s)
                      \/ SaveLost(s) \/ SaveFailed(s) \/ SaveAnswered(s) \/ Loaded(s)

-----------------------------------------------------------------------------
SettingsTypeOK ==
  LET Contents == Valid \union {Unset, Malformed} IN
  /\ {table, env, values, draft} \subseteq [Keys -> Contents]
  /\ phase \in {"loading", "ready", "error"}
  /\ saving \in Keys \union {Unset}
  /\ saves \subseteq [pc : {"sent", "orphan", "written", "back", "failed"},
                      key : Keys \union {Unset}, value : Contents,
                      got : [Keys -> Contents], age : Nat, n : Nat]
  /\ overtaken \in BOOLEAN

(* With every request answered the fields show what the crons will read,
   however saves and reloads overlapped on the server, unless an answer
   overtook one read before it, what became of a save was not told (its
   answer was lost, or the server broke off after the write), or another
   panel wrote. *)
SettledSettings == phase = "ready" /\ saves = {} => overtaken \/ values = AllEffective(table)

(* What is being typed in a field is changed by typing, or by another value
   of that field from the server; no answer to another field's save touches
   it.  Only a reload takes every draft away (README, divergences). *)
DraftKept ==
  [][\A k \in Keys : phase = "ready" /\ phase' = "ready" /\ draft'[k] # draft[k]
       => values'[k] # values[k] \/ clicks'.acts < clicks.acts]_settingsVars
=============================================================================
