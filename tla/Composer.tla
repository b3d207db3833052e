------------------------------ MODULE Composer -------------------------------
(***************************************************************************)
(* The composer of manual deals: a form, the resolution of a pasted link,   *)
(* the debounced preview and the submission, which stores a card and, when  *)
(* dispatched, approves it at once.                                         *)
(*                                                                         *)
(* The form is reduced to its product (title, prices, image, link) and its  *)
(* coupon, 0 when empty; whatever is typed or resolved is a new number, so  *)
(* that a caption tells which form it renders.                              *)
(***************************************************************************)
EXTENDS Integers

CONSTANTS MaxWork,  \* bound: edits and clicks
          MaxLost   \* bound: requests or answers lost, handlers that break off

ASSUME ComposerAssumption == {MaxWork, MaxLost} \subseteq Nat

VARIABLES
  form,       \* what is typed
  resolving,  \* the product a resolution under way will bring, 0 without one
  busy,       \* a submission of the mounted form is under way
  shown,      \* the form the preview renders, Empty when none
  debounce,   \* is a preview due
  asked,      \* the forms of previews on their way
  submits,    \* submissions, with how far they are
  queued,     \* forms that are cards of the approval queue
  handed,     \* ghost: how often each form was handed to the send path
  lost,       \* ghost: forms with a submission that broke off or went unanswered
  late,       \* ghost: the preview shown was not of the form when it came, or
              \* the last one asked for failed
  work        \* what is left of the bounds

screen == <<form, resolving, busy, shown, debounce, asked, late>>
server == <<submits, queued, handed, lost>>
composerVars == <<screen, server, work>>

Contents == 0 .. MaxWork
Forms == [product : Contents, coupon : Contents]
Empty == [product |-> 0, coupon |-> 0]

ComposerInit ==
  /\ form = Empty /\ resolving = 0 /\ busy = FALSE
  /\ shown = Empty /\ debounce = FALSE /\ asked = {} /\ late = FALSE
  /\ submits = {} /\ queued = {} /\ handed = [f \in Forms |-> 0] /\ lost = {}
  /\ work = [acts |-> MaxWork, lost |-> MaxLost]

SpendAct == /\ work.acts > 0
            /\ work' = [work EXCEPT !.acts = @ - 1]
SpendLoss == /\ work.lost > 0
             /\ work' = [work EXCEPT !.lost = @ - 1]
New == MaxWork - work.acts + 1

CanSend(f) == f.product # 0

(* Mutant of FormSet: the effect does not depend on the coupon. *)
FormSetNoCoupon(f) ==
  /\ form' = f
  /\ IF f.product = form.product THEN UNCHANGED <<shown, debounce, late>>
     ELSE IF CanSend(f)
     THEN debounce' = TRUE /\ UNCHANGED <<shown, late>>
     ELSE debounce' = FALSE /\ shown' = Empty /\ late' = FALSE

(* The form changes and the effect on its fields runs: a preview is due, or
   the preview is cleared.  A request on its way is left to arrive. *)
FormSet(f) ==
  /\ form' = f
  /\ IF f = form THEN UNCHANGED <<shown, debounce, late>>
     ELSE IF CanSend(f)
     THEN debounce' = TRUE /\ UNCHANGED <<shown, late>>
     ELSE debounce' = FALSE /\ shown' = Empty /\ late' = FALSE

(* A field is typed in, or cleared; nothing disables the form meanwhile. *)
TypeField ==
  /\ SpendAct
  /\ \E field \in {"product", "coupon"}, v \in {0, New} : FormSet([form EXCEPT ![field] = v])
  /\ UNCHANGED <<server, resolving, busy, asked>>

ComposerAsks ==
  /\ debounce
  /\ debounce' = FALSE
  /\ asked' = asked \union {form}
  /\ UNCHANGED <<server, work, form, resolving, busy, shown, late>>

(* A preview arrives, whatever is in the form by now, or fails. *)
ComposerPreviewed(f) ==
  /\ asked' = asked \ {f}
  /\ \/ shown' = f /\ late' = (f # form)
     \/ UNCHANGED shown /\ late' = TRUE
  /\ UNCHANGED <<server, work, form, resolving, busy, debounce>>

(* onResolve: the answer replaces the product and leaves the coupon. *)
ResolveStarts ==
  /\ resolving = 0
  /\ SpendAct
  /\ resolving' = New
  /\ UNCHANGED <<server, form, busy, shown, debounce, asked, late>>

Resolved ==
  /\ resolving # 0
  /\ resolving' = 0
  /\ \/ FormSet([form EXCEPT !.product = resolving])
     \/ UNCHANGED <<form, shown, debounce, late>>
  /\ UNCHANGED <<server, work, busy, asked>>

-----------------------------------------------------------------------------
(* Submitting. *)

SubmitStarts ==
  /\ CanSend(form)
  /\ ~busy
  /\ SpendAct
  /\ busy' = TRUE
  /\ \E dispatch \in BOOLEAN :
       submits' = submits \union
         {[pc |-> "sent", f |-> form, dispatch |-> dispatch, mounted |-> TRUE]}
  /\ UNCHANGED <<queued, handed, lost, form, resolving, shown, debounce, asked, late>>

SubmitMoves(s, pc) == submits' = (submits \ {s}) \union {[s EXCEPT !.pc = pc]}

(* createManual: the card is stored, or refreshed when there is one. *)
CardStored(s) ==
  /\ s.pc = "sent"
  /\ queued' = queued \union {s.f}
  /\ SubmitMoves(s, IF s.dispatch THEN "stored" ELSE "ok")
  /\ UNCHANGED <<screen, work, handed, lost>>

(* approve with urgent: refused when posted recently, else handed over and
   marked. *)
CardApproved(s) ==
  /\ s.pc = "stored"
  /\ \/ SubmitMoves(s, "refused") /\ UNCHANGED <<queued, handed>>
     \/ /\ handed' = [handed EXCEPT ![s.f] = @ + 1]
        /\ queued' = queued \ {s.f}
        /\ SubmitMoves(s, "ok")
  /\ UNCHANGED <<screen, work, lost>>

SubmitLost(s) ==
  /\ s.pc # "lost"
  /\ SpendLoss
  /\ SubmitMoves(s, "lost")
  /\ lost' = lost \union {s.f}
  /\ UNCHANGED <<screen, queued, handed>>

(* Mutant of SubmitAnswered: the form stays filled in after a success. *)
SubmitKeepsForm(s) ==
  /\ s.pc \in {"ok", "refused", "lost"}
  /\ submits' = submits \ {s}
  /\ IF s.mounted THEN busy' = FALSE ELSE UNCHANGED busy
  /\ UNCHANGED <<work, queued, handed, lost, form, resolving, shown, debounce, asked, late>>

(* A success clears the form, with what was typed in it since; a refusal or
   an error leaves it.  Nothing reaches a composer that was left meanwhile. *)
SubmitAnswered(s) ==
  /\ s.pc \in {"ok", "refused", "lost"}
  /\ submits' = submits \ {s}
  /\ IF s.mounted
     THEN /\ busy' = FALSE
          /\ IF s.pc = "ok" THEN FormSet(Empty)
                            ELSE UNCHANGED <<form, shown, debounce, late>>
     ELSE UNCHANGED <<busy, form, shown, debounce, late>>
  /\ UNCHANGED <<work, queued, handed, lost, resolving, asked>>

(* Another tab of the panel and back: the component starts afresh. *)
Remount ==
  /\ SpendAct
  /\ form' = Empty /\ resolving' = 0 /\ busy' = FALSE
  /\ shown' = Empty /\ debounce' = FALSE /\ asked' = {} /\ late' = FALSE
  /\ submits' = {[s EXCEPT !.mounted = FALSE] : s \in submits}
  /\ UNCHANGED <<queued, handed, lost>>

ComposerNext ==
  \/ TypeField \/ ComposerAsks \/ ResolveStarts \/ Resolved \/ SubmitStarts \/ Remount
  \/ \E f \in asked : ComposerPreviewed(f)
  \/ \E s \in submits : \/ CardStored(s) \/ CardApproved(s) \/ SubmitLost(s)
                        \/ SubmitAnswered(s)

-----------------------------------------------------------------------------
ComposerTypeOK ==
  /\ form \in Forms /\ shown \in Forms
  /\ resolving \in Contents
  /\ {busy, debounce, late} \subseteq BOOLEAN
  /\ asked \subseteq Forms /\ queued \subseteq Forms /\ lost \subseteq Forms
  /\ submits \subseteq [pc : {"sent", "stored", "ok", "refused", "lost"}, f : Forms,
                        dispatch : BOOLEAN, mounted : BOOLEAN]
  /\ handed \in [Forms -> Nat]

(* A deal composed once is sent once: a form is handed over again, nothing
   retyped, only after a submission of it broke off or went unanswered. *)
ResubmitNeedsLoss == \A f \in Forms : handed[f] > 1 => f \in lost

(* When no preview is due or on its way, the preview is of the form as it
   stands, unless the last answer came late or never. *)
SettledPreview ==
  debounce \/ asked # {} \/ late \/ shown = (IF CanSend(form) THEN form ELSE Empty)
=============================================================================
