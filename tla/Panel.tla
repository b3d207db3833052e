-------------------------------- MODULE Panel --------------------------------
(***************************************************************************)
(* The curation page: the list of pending deals, its polls, the optimistic  *)
(* decisions, the API key gate and the tabs, against the approval           *)
(* endpoints.  Every request is sent, served and answered in three steps,   *)
(* so that answers meet a page that has moved on, and a call the page gives  *)
(* up goes on in its handler.                                               *)
(*                                                                         *)
(* The server's table is reduced to whether a row is pending and its        *)
(* product recently posted; ApprovalQueue has the service in detail.  A     *)
(* list of deals is a function from ids to the repost warning.  Polls, and  *)
(* the calls of one deal, are numbered, so that equal ones are two.         *)
(***************************************************************************)
EXTENDS DealCard, FiniteSets

CONSTANTS MaxPolls,   \* bound: GET pending requests on their way together
          MaxCalls,   \* bound: decisions on their way together
          MaxActs,    \* bound: what the curator does
          MaxEvents   \* bound: rows moved elsewhere, failing requests, rotated keys

ASSUME PanelAssumption ==
  {MaxPolls, MaxCalls, MaxActs, MaxEvents} \subseteq Nat

VARIABLES
  row,      \* PendingDeal: "pending" or "decided"
  recent,   \* is the product in the dedup window
  served,   \* is the browser's key the server's
  status, tab, deals,
  polls,    \* lists read and on their way to the page
  calls,    \* decide() calls
  settled,  \* ghost: decisions the server carried out, per row
  excused,  \* ghost: rows whose card came back, or whose handler broke off,
            \* while a decision on them was open; a call the page gave up is open
  left      \* what is left of the bounds

appVars == <<row, recent, served, status, tab, deals, polls, calls, settled,
             excused, left>>
vars == <<appVars, card, previews>>

NoList == [d \in {} |-> FALSE]

Init == /\ row = [d \in Deals |-> "pending"]
        /\ recent = [d \in Deals |-> FALSE]
        /\ served = TRUE
        /\ status = "loading" /\ tab = "pending" /\ deals = NoList
        /\ polls = {} /\ calls = {}
        /\ settled = [d \in Deals |-> 0]
        /\ excused = {}
        /\ left = [acts |-> MaxActs, events |-> MaxEvents]
        /\ CardInit

Spend(what) == /\ left[what] > 0
               /\ left' = [left EXCEPT ![what] = @ - 1]

PendingRows == {d \in Deals : row[d] = "pending"}

(* postedDaysAgo: what the dedup lookup may say of a product.  A lookup that
   fails says it was never posted. *)
LookupSays(d) == {FALSE, recent[d]}

(* listPending, with the warning of each row. *)
Listings == {list \in [PendingRows -> BOOLEAN] :
               \A d \in PendingRows : list[d] \in LookupSays(d)}

Cards == IF tab = "pending" /\ status # "unauthorized" THEN DOMAIN deals ELSE {}

(* After a render: cards that left the page lose their state, and the
   answers they waited for; a row whose card comes back while a decision on
   it stays open is noted. *)
Rendered ==
  /\ card' = [d \in Deals |-> IF d \in Cards /\ d \in Cards' THEN card[d] ELSE Fresh]
  /\ previews' = {m \in previews : m.deal \in Cards /\ m.deal \in Cards'}
  /\ excused' = excused \union
       {d \in DOMAIN deals' \ DOMAIN deals : \E c \in calls' : c.deal = d}

-----------------------------------------------------------------------------
(* Polls. *)

(* The least number no request has. *)
Free(n, requests) == /\ \A q \in requests : q.n # n
                     /\ \A i \in 1..n - 1 : \E q \in requests : q.n = i

List(key) == \E n \in 1..MaxPolls, list \in Listings :
  /\ Free(n, polls)
  /\ polls' = polls \union {[n |-> n, key |-> key, got |-> list]}

(* The interval, a tab that becomes visible, or the retry button asks for
   the list.  Whether it is read now or later in flight makes no difference
   to what can arrive when, so asking and reading are one step. *)
PollStarts ==
  /\ List(served)
  /\ UNCHANGED <<row, recent, served, status, tab, deals, calls, settled,
                 excused, left, card, previews>>

(* Mutant of PollAnswered: a poll only adds rows to the list. *)
PollMerged(p) ==
  /\ polls' = polls \ {p}
  /\ IF p.key
     THEN /\ deals' = [d \in DOMAIN deals \union DOMAIN p.got |->
                         IF d \in DOMAIN p.got THEN p.got[d] ELSE deals[d]]
          /\ status' = "ready"
     ELSE UNCHANGED deals /\ status' = "unauthorized"
  /\ UNCHANGED <<row, recent, served, tab, calls, settled, left>>
  /\ Rendered

(* refresh: whatever list arrives last replaces the one shown. *)
PollAnswered(p) ==
  /\ polls' = polls \ {p}
  /\ IF p.key THEN deals' = p.got /\ status' = "ready"
              ELSE UNCHANGED deals /\ status' = "unauthorized"
  /\ UNCHANGED <<row, recent, served, tab, calls, settled, left>>
  /\ Rendered

PollFails(p) ==
  /\ Spend("events")
  /\ polls' = polls \ {p}
  /\ status' = "error"
  /\ UNCHANGED <<row, recent, served, tab, deals, calls, settled>>
  /\ Rendered

(* ApiKeyGate: the key is stored and the list asked for. *)
SaveKey ==
  /\ status = "unauthorized"
  /\ Spend("acts")
  /\ \E good \in BOOLEAN : served' = good /\ List(good)
  /\ UNCHANGED <<row, recent, status, tab, deals, calls, settled, excused,
                 card, previews>>

SwitchTab ==
  /\ status # "unauthorized"
  /\ Spend("acts")
  /\ tab' = IF tab = "pending" THEN "compose" ELSE "pending"
  /\ UNCHANGED <<row, recent, served, status, deals, polls, calls, settled>>
  /\ Rendered

-----------------------------------------------------------------------------
(* Decisions. *)

Without(list, d) == [e \in DOMAIN list \ {d} |-> list[e]]

(* decide: the card leaves the list and the request goes out. *)
Send(d, kind, override, asked) ==
  /\ \E n \in 1..MaxCalls :
       /\ Cardinality(calls) < MaxCalls
       /\ Free(n, {c \in calls : c.deal = d})
       /\ calls' = calls \union
            {[n |-> n, pc |-> "sent", deal |-> d, kind |-> kind,
              override |-> override, asked |-> asked, blind |-> FALSE,
              lost |-> FALSE, key |-> served, snapshot |-> deals]}
  /\ deals' = Without(deals, d)

(* Mutant of Decide: the card sends the override without asking. *)
DecideUnasked ==
  /\ Spend("acts")
  /\ \E d \in Cards, kind \in {"approve", "reject"} :
       /\ kind = "approve" => ~InvalidEdits(card[d])
       /\ Send(d, kind, kind = "approve" /\ deals[d], FALSE)
  /\ UNCHANGED <<row, recent, served, status, tab, polls, settled>>
  /\ Rendered

(* act: a warned repost is confirmed before it is sent.  A confirmation
   declined changes nothing. *)
Decide ==
  /\ Spend("acts")
  /\ \E d \in Cards, kind \in {"approve", "reject"} :
       LET warned == kind = "approve" /\ deals[d] IN
         /\ kind = "approve" => ~InvalidEdits(card[d])
         /\ Send(d, kind, warned, warned)
  /\ UNCHANGED <<row, recent, served, status, tab, polls, settled>>
  /\ Rendered

Becomes(c, new) == calls' = (calls \ {c}) \union {new}

(* The answer that ends a call, which a page that gave it up does not get; a
   decision carried out or found decided elsewhere is all the same to it. *)
Answer(c, what) ==
  calls' = (calls \ {c}) \union (IF c.lost THEN {} ELSE {[c EXCEPT !.pc = what]})

(* Past the status check: reject decides the row; approve looks the product
   up, and what needs no dialog or had one is handed to the send path. *)
Carries(c) ==
  IF c.kind = "reject"
  THEN /\ settled' = [settled EXCEPT ![c.deal] = @ + 1]
       /\ row' = [row EXCEPT ![c.deal] = "decided"]
       /\ Answer(c, "done")
  ELSE /\ UNCHANGED row
       /\ \E posted \in LookupSays(c.deal) :
            IF posted /\ ~c.override
            THEN Answer(c, "recent") /\ UNCHANGED settled
            ELSE /\ settled' = [settled EXCEPT ![c.deal] = @ + 1]
                 /\ Becomes(c, [c EXCEPT !.pc = "sending",
                                         !.blind = posted # recent[c.deal]])

(* Mutant of CallServed: the row's status is not checked. *)
CallServedBlindly(c) ==
  /\ c.pc = "sent"
  /\ IF ~c.key THEN Answer(c, "unauthorized") /\ UNCHANGED <<row, settled>>
     ELSE Carries(c)
  /\ UNCHANGED <<recent, served, status, tab, deals, polls, excused, left, card, previews>>

(* approve and reject on the server, up to the hand-over to the send path. *)
CallServed(c) ==
  /\ c.pc = "sent"
  /\ IF ~c.key THEN Answer(c, "unauthorized") /\ UNCHANGED <<row, settled>>
     ELSE IF row[c.deal] # "pending" THEN Answer(c, "done") /\ UNCHANGED <<row, settled>>
     ELSE Carries(c)
  /\ UNCHANGED <<recent, served, status, tab, deals, polls, excused, left, card, previews>>

(* The row is marked once the send path has taken the deal. *)
CallMarked(c) ==
  /\ c.pc = "sending"
  /\ row' = [row EXCEPT ![c.deal] = "decided"]
  /\ Answer(c, "done")
  /\ UNCHANGED <<recent, served, status, tab, deals, polls, settled, excused,
                 left, card, previews>>

(* The request never reaches its handler, or the handler breaks off. *)
CallBreaks(c) ==
  /\ c.pc \in {"sent", "sending"}
  /\ Spend("events")
  /\ Answer(c, "failed")
  /\ excused' = IF c.pc = "sending" THEN excused \union {c.deal} ELSE excused
  /\ UNCHANGED <<row, recent, served, status, tab, deals, polls, settled, card, previews>>

(* Decided, here or elsewhere (GoneError): the card stays away. *)
DecisionDone(c) ==
  /\ c.pc = "done"
  /\ calls' = calls \ {c}
  /\ UNCHANGED <<row, recent, served, status, tab, deals, polls, settled,
                 excused, left, card, previews>>

(* A repost the card did not warn of: the curator confirms, and the approval
   is sent again, or declines and gets back the list of before. *)
RepostConfirmed(c) ==
  /\ c.pc = "recent"
  /\ Becomes(c, [c EXCEPT !.pc = "sent", !.override = TRUE, !.asked = TRUE,
                          !.key = served])
  /\ UNCHANGED <<row, recent, served, status, tab, deals, polls, settled,
                 excused, left, card, previews>>

RestoreSnapshot(c) ==
  /\ deals' = c.snapshot
  /\ UNCHANGED <<row, recent, served, tab, polls, settled>>
  /\ Rendered

RepostDeclined(c) ==
  /\ c.pc = "recent"
  /\ calls' = calls \ {c}
  /\ UNCHANGED <<status, left>>
  /\ RestoreSnapshot(c)

DecisionFailed(c) ==
  /\ c.pc \in {"failed", "unauthorized"}
  /\ calls' = calls \ {c}
  /\ status' = IF c.pc = "failed" THEN status ELSE "unauthorized"
  /\ UNCHANGED left
  /\ RestoreSnapshot(c)

(* The connection of a call breaks: the page gets back the list of before,
   and a handler that has the request goes on. *)
CallLost(c) ==
  /\ ~c.lost /\ c.pc # "failed"
  /\ Spend("events")
  /\ calls' = (calls \ {c}) \union
       (IF c.pc \in {"sent", "sending"} THEN {[c EXCEPT !.lost = TRUE]} ELSE {})
  /\ UNCHANGED status
  /\ RestoreSnapshot(c)

-----------------------------------------------------------------------------
(* The editor of a mounted card, and everybody else. *)

Edit(d) ==
  /\ d \in Cards
  /\ \/ Spend("acts") /\ (ToggleEditing(d) \/ Type(d))
     \/ UNCHANGED left /\ PreviewAsked(d)
  /\ UNCHANGED <<row, recent, served, status, tab, deals, polls, calls, settled, excused>>

PreviewArrives ==
  /\ \E m \in previews : PreviewAnswered(m)
  /\ UNCHANGED appVars

(* Another tab, the cron or the send path moves a row; the key is rotated. *)
Elsewhere(d) ==
  /\ \/ /\ row[d] = "pending"
        /\ row' = [row EXCEPT ![d] = "decided"]
        /\ UNCHANGED recent
     \/ /\ ~recent[d]
        /\ recent' = [recent EXCEPT ![d] = TRUE]
        /\ UNCHANGED row
  /\ Spend("events")
  /\ UNCHANGED <<served, status, tab, deals, polls, calls, settled, excused, card, previews>>

KeyRotates ==
  /\ served
  /\ Spend("events")
  /\ served' = FALSE
  /\ UNCHANGED <<row, recent, status, tab, deals, polls, calls, settled, excused,
                 card, previews>>

CallStep(c) == \/ CallServed(c) \/ CallMarked(c) \/ DecisionDone(c)
               \/ RepostConfirmed(c) \/ RepostDeclined(c) \/ DecisionFailed(c)

PanelNext ==
  \/ PollStarts \/ SaveKey \/ SwitchTab \/ Decide
  \/ \E p \in polls : PollAnswered(p) \/ PollFails(p)
  \/ \E c \in calls : CallStep(c) \/ CallBreaks(c) \/ CallLost(c)
  \/ \E d \in Deals : Edit(d) \/ Elsewhere(d)
  \/ PreviewArrives
  \/ KeyRotates

(* The interval keeps polling, lists arrive, the server serves and answers
   arrive; an open dialog blocks the page until it is answered.  Nothing else
   makes the curator act. *)
PanelFairness ==
  /\ WF_vars(PollStarts)
  /\ WF_vars(\E p \in polls : PollAnswered(p))
  /\ WF_vars(\E c \in calls : CallStep(c))

Spec == Init /\ [][PanelNext]_vars /\ PanelFairness

-----------------------------------------------------------------------------
Lists == UNION {[S -> BOOLEAN] : S \in SUBSET Deals}

(* Type correctness of the page, its requests and the rows. *)
TypeOK ==
  /\ row \in [Deals -> {"pending", "decided"}]
  /\ recent \in [Deals -> BOOLEAN]
  /\ served \in BOOLEAN
  /\ status \in {"loading", "ready", "unauthorized", "error"}
  /\ tab \in {"pending", "compose"}
  /\ deals \in Lists
  /\ polls \subseteq [n : 1..MaxPolls, key : BOOLEAN, got : Lists]
  /\ calls \subseteq [n : 1..MaxCalls,
                      pc : {"sent", "sending", "recent", "done", "failed", "unauthorized"},
                      deal : Deals, kind : {"approve", "reject"}, override : BOOLEAN,
                      asked : BOOLEAN, blind : BOOLEAN, lost : BOOLEAN,
                      key : BOOLEAN, snapshot : Lists]
  /\ settled \in [Deals -> Nat]
  /\ excused \subseteq Deals
  /\ left \in [acts : Nat, events : Nat]
  /\ CardTypeOK

(* A row is decided once from this page, unless its card came back while a
   decision on it was still open (a list read earlier, another call's
   snapshot, or its own snapshot after a lost connection whose handler went
   on), or the handler broke off between sending and marking. *)
OneDecision == \A d \in Deals : settled[d] > 1 => d \in excused

(* What was posted in the last fourteen days is handed to the send path only
   after the curator said so in a dialog, however old the warning on the
   card, unless the lookup of that very approval failed. *)
RepostIsConfirmed ==
  [][\A c \in calls' \ calls : settled' # settled /\ c.pc = "sending" /\ recent[c.deal]
                               => c.asked \/ c.blind]_vars

(* What you see is what you send: once its preview has come, a card shows the
   caption of exactly the edits that approving it now would publish. *)
WhatYouSee == \A d \in Cards :
  LET c == card[d] IN
    \/ c.timer \/ c.missed \/ InvalidEdits(c)
    \/ \E m \in previews : m.deal = d /\ m.seq = c.seq
    \/ Shown(c) = Carried(c)
=============================================================================
