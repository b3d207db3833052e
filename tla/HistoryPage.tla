----------------------------- MODULE HistoryPage -----------------------------
(***************************************************************************)
(* The history tab: one request per page, and an effect whose clean-up      *)
(* makes the page deaf to the answers of pages it has left.  The items of a *)
(* page are its number.                                                     *)
(***************************************************************************)
EXTENDS Naturals, FiniteSets

CONSTANTS Pages,     \* bound: pages of the history
          MaxTurns   \* bound: page turns and renders of the app

ASSUME HistoryAssumption == {Pages, MaxTurns} \subseteq Nat

VARIABLES page, items, loading, failed,
          fetches,   \* requests on their way, and whether the page still listens
          turns      \* what is left of the bound

historyVars == <<page, items, loading, failed, fetches, turns>>

HistoryInit ==
  /\ page = 1 /\ items = 0 /\ loading = TRUE /\ failed = FALSE
  /\ fetches = {[page |-> 1, n |-> MaxTurns, active |-> TRUE]}
  /\ turns = MaxTurns

(* Mutant of Cleaned: the clean-up does not end the former request. *)
CleanedNot == fetches

(* The clean-up of the effect. *)
Cleaned == {[f EXCEPT !.active = FALSE] : f \in fetches}

(* The clean-up, then the effect on [page, onUnauthorized]. *)
Loads(p) ==
  /\ turns > 0
  /\ turns' = turns - 1
  /\ page' = p
  /\ loading' = TRUE
  /\ fetches' = Cleaned \union {[page |-> p, n |-> turns', active |-> TRUE]}
  /\ UNCHANGED <<items, failed>>

(* The buttons, which are there once items are and no request has failed. *)
Turn == /\ items # 0 /\ ~failed
        /\ \E p \in {page - 1, page + 1} \cap 1 .. Pages : Loads(p)

(* The app renders and hands down another onUnauthorized. *)
Rerenders == Loads(page)

Fetched(f) ==
  /\ fetches' = fetches \ {f}
  /\ IF f.active
     THEN \/ items' = f.page /\ loading' = FALSE /\ failed' = FALSE
          \/ UNCHANGED items /\ loading' = FALSE /\ failed' = TRUE
     ELSE UNCHANGED <<items, loading, failed>>
  /\ UNCHANGED <<page, turns>>

HistoryNext == Turn \/ Rerenders \/ \E f \in fetches : Fetched(f)

-----------------------------------------------------------------------------
HistoryTypeOK == /\ page \in 1 .. Pages /\ items \in 0 .. Pages
                 /\ {loading, failed} \subseteq BOOLEAN
                 /\ fetches \subseteq [page : 1 .. Pages, n : Nat, active : BOOLEAN]

(* Once loaded, the items are those of the page the pager names, however
   late the answers of other pages come. *)
PageIsCurrent == loading \/ failed \/ items = page
=============================================================================
