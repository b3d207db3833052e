------------------------------ MODULE DealCard -------------------------------
(***************************************************************************)
(* A card of the curation panel: its editor, the debounced live preview of  *)
(* the edits, and what an approval from it carries.  The component is       *)
(* mounted and unmounted by the page (Panel).                               *)
(*                                                                         *)
(* The four fields of the editor are one value: "empty" (or no more than a  *)
(* coupon price, which makes no edit), "bad" (a price that does not parse)  *)
(* or one of Texts, fields that make edits.  A caption is the text of the   *)
(* edits it renders, "none" without.                                        *)
(***************************************************************************)
EXTENDS Integers

CONSTANTS Deals,   \* ids of rows of the approval queue
          Texts    \* contents of the editor that make edits

ASSUME TextsAssumption == Texts \cap {"empty", "bad", "none"} = {}

VARIABLES card,      \* each card that is mounted; its field missed is a ghost:
                     \* the last preview asked for failed.  `acting` is never
                     \* seen: the card leaves with its decision
          previews   \* POST :id/preview requests on their way

Typed == Texts \union {"empty", "bad"}
Captions == Texts \union {"none"}

Fresh == [editing |-> FALSE, fields |-> "empty", preview |-> "none",
          seq |-> 0, timer |-> FALSE, missed |-> FALSE]

CardInit == /\ card = [d \in Deals |-> Fresh]
            /\ previews = {}

(* buildEdits: only filled fields become edits. *)
Edits(c) == IF c.fields \in Texts THEN c.fields ELSE "none"

(* What an approval sends. *)
Carried(c) == IF c.editing THEN Edits(c) ELSE "none"

(* A price that is filled in and does not parse blocks the approval. *)
InvalidEdits(c) == c.editing /\ c.fields = "bad"

(* Mutant of Effect: closing the editor lets a request on its way go on. *)
EffectKeepsSeq(c) ==
  IF ~c.editing \/ Edits(c) = "none"
  THEN [c EXCEPT !.preview = "none", !.timer = FALSE]
  ELSE [c EXCEPT !.seq = @ + 1, !.timer = TRUE]

(* The effect on [editing, edits]: every run invalidates the previews on
   their way; without edits none is shown. *)
Effect(c) ==
  IF ~c.editing \/ Edits(c) = "none"
  THEN [c EXCEPT !.seq = @ + 1, !.preview = "none", !.timer = FALSE]
  ELSE [c EXCEPT !.seq = @ + 1, !.timer = TRUE, !.missed = FALSE]

ToggleEditing(d) ==
  /\ card' = [card EXCEPT ![d] =
       Effect(IF @.editing
              THEN [@ EXCEPT !.editing = FALSE, !.fields = "empty", !.preview = "none"]
              ELSE [@ EXCEPT !.editing = TRUE])]
  /\ UNCHANGED previews

(* setField. *)
Type(d) ==
  /\ card[d].editing
  /\ \E t \in Typed \ {card[d].fields} :
       card' = [card EXCEPT ![d] = Effect([@ EXCEPT !.fields = t])]
  /\ UNCHANGED previews

(* The debounce ends: the preview is asked for. *)
PreviewAsked(d) ==
  /\ card[d].timer
  /\ previews' = previews \union {[deal |-> d, seq |-> card[d].seq,
                                   text |-> Edits(card[d])]}
  /\ card' = [card EXCEPT ![d].timer = FALSE]

(* Its answer, ignored unless it is the last one asked for.  A failure is
   swallowed: the last caption stays. *)
PreviewAnswered(m) ==
  /\ previews' = previews \ {m}
  /\ \E failed \in BOOLEAN :
       card' = IF card[m.deal].seq # m.seq THEN card
               ELSE IF failed THEN [card EXCEPT ![m.deal].missed = TRUE]
               ELSE [card EXCEPT ![m.deal].preview = m.text]

(* The caption the card shows. *)
Shown(c) == IF c.editing THEN c.preview ELSE "none"

CardTypeOK ==
  /\ card \in [Deals -> [editing : BOOLEAN, fields : Typed, preview : Captions,
                         seq : Nat, timer : BOOLEAN, missed : BOOLEAN]]
  /\ previews \subseteq [deal : Deals, seq : Nat, text : Texts]
=============================================================================
