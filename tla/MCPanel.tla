------------------------------ MODULE MCPanel -------------------------------
(***************************************************************************)
(* The panel for TLC.  One tab is mounted at a time and the tabs share no   *)
(* state but the key, so each behaviour looks at one of them, chosen at the *)
(* start, and the states of the run are the sum of theirs, not the product. *)
(***************************************************************************)
EXTENDS Panel, Composer, Settings, HistoryPage

VARIABLE looked  \* the part of the panel this behaviour looks at

tabVars == <<vars, composerVars, settingsVars, historyVars, looked>>

(* The keys are independent of each other: the environment sets both or none,
   to the same value. *)
SameEnv == \E v \in Valid \union {Unset} : env = [k \in Keys |-> v]

TabsInit ==
  /\ looked \in {"queue", "composer", "config", "history"}
  /\ Init /\ ComposerInit /\ SettingsInit /\ HistoryInit
  /\ SameEnv
  /\ looked # "config" => /\ table = [k \in Keys |-> Unset]
                          /\ env = [k \in Keys |-> Unset]

Only(what) == /\ looked = what
              /\ UNCHANGED looked
              /\ what # "queue" => UNCHANGED vars
              /\ what # "composer" => UNCHANGED composerVars
              /\ what # "config" => UNCHANGED settingsVars
              /\ what # "history" => UNCHANGED historyVars

TabsNext ==
  \/ Only("queue") /\ PanelNext
  \/ Only("composer") /\ ComposerNext
  \/ Only("config") /\ SettingsNext
  \/ Only("history") /\ HistoryNext

(* PanelFairness, for the behaviours that look at the queue. *)
TabsFairness ==
  /\ WF_vars(looked = "queue" /\ PollStarts)
  /\ WF_vars(looked = "queue" /\ (\E p \in polls : PollAnswered(p)))
  /\ WF_vars(looked = "queue" /\ (\E c \in calls : CallStep(c)))

TabsSpec == TabsInit /\ [][TabsNext]_tabVars /\ TabsFairness

TabsTypeOK == TypeOK /\ ComposerTypeOK /\ SettingsTypeOK /\ HistoryTypeOK

(* With their requests answered the history shows the page its pager names,
   whatever answers came late, and the settings show what the server has,
   unless an answer overtook an older one, what became of a save was not
   told, or another panel wrote. *)
ShownIsServed == SettledSettings /\ PageIsCurrent

(* Once nobody acts any more the page shows exactly the pending rows. *)
QueueConverges ==
  <>[](looked = "queue" /\ served => status = "ready" /\ DOMAIN deals = PendingRows)
=============================================================================
