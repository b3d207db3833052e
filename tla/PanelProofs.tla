----------------------------- MODULE PanelProofs -----------------------------
(***************************************************************************)
(* Proofs about the panel, for any deals, editors, keys and bounds.  The     *)
(* queue page: a card shows what approving it would send, a row is decided  *)
(* once, a repost is confirmed.  The composer: its preview settles on the   *)
(* form, and a deal is handed over once.  The settings and the history: a   *)
(* draft is kept, and what is shown is what is served.                      *)
(***************************************************************************)
EXTENDS MCPanel, TLAPS

(* A card that is not mounted has no state. *)
UnmountedIsFresh == \A d \in Deals \ Cards : card[d] = Fresh

(* A preview on its way is of a mounted card, and the last one asked for is of
   the edits as they stand. *)
LastIsCurrent ==
  \A m \in previews :
    /\ m.deal \in Cards
    /\ m.seq <= card[m.deal].seq
    /\ m.seq = card[m.deal].seq =>
         card[m.deal].editing /\ m.text = Edits(card[m.deal])

(* WhatYouSee of one card, mounted or not. *)
SeesWhatIsSent(d) ==
  LET c == card[d] IN
    \/ c.timer \/ c.missed \/ InvalidEdits(c)
    \/ \E m \in previews : m.deal = d /\ m.seq = c.seq
    \/ Shown(c) = Carried(c)

(* A preview is due only for a card with edits. *)
DueHasEdits == \A d \in Deals :
  card[d].timer => card[d].editing /\ Edits(card[d]) # "none"

CardInv == /\ CardTypeOK
           /\ UnmountedIsFresh
           /\ DueHasEdits
           /\ LastIsCurrent
           /\ \A d \in Deals : SeesWhatIsSent(d)

(* An unexcused row is on the page or being decided, not both; one call at a
   time decides it; once it was decided it says so or is about to. *)
OneCall(d) ==
  /\ d \in DOMAIN deals => \A c \in calls : c.deal # d
  /\ \A b, c \in calls : b.deal = d /\ c.deal = d => b = c
  /\ settled[d] > 0 =>
       /\ settled[d] = 1
       /\ row[d] = "decided" \/ \E c \in calls : c.deal = d /\ c.pc = "sending"

CallInv == /\ \A d \in Deals \ excused : OneCall(d)
           /\ \A c \in calls : c.override => c.asked

IInv == TypeOK /\ CardInv /\ CallInv

-----------------------------------------------------------------------------
(* What the operators of the card return. *)

LEMMA FreshIsTyped ==
  /\ Fresh \in [editing : BOOLEAN, fields : Typed, preview : Captions,
                seq : Nat, timer : BOOLEAN, missed : BOOLEAN]
  /\ Shown(Fresh) = Carried(Fresh)
BY DEF Fresh, Typed, Captions, Shown, Carried

CardStates == [editing : BOOLEAN, fields : Typed, preview : Captions,
               seq : Nat, timer : BOOLEAN, missed : BOOLEAN]

(* After the effect a preview is due, or none is and none is shown, and no
   preview on its way is the last one asked for. *)
LEMMA EffectHolds ==
  ASSUME NEW c \in CardStates
  PROVE  /\ Effect(c) \in CardStates
         /\ Effect(c).seq = c.seq + 1
         /\ Effect(c).timer => Effect(c).editing /\ Edits(Effect(c)) # "none"
         /\ Effect(c).timer \/ Shown(Effect(c)) = Carried(Effect(c))
<1>0. c.seq + 1 \in Nat /\ "none" \in Captions
  BY DEF CardStates, Captions
<1>1. Effect(c) \in CardStates
  <2>1. [c EXCEPT !.seq = @ + 1, !.preview = "none", !.timer = FALSE] \in CardStates
    BY <1>0 DEF CardStates
  <2>2. [c EXCEPT !.seq = @ + 1, !.timer = TRUE, !.missed = FALSE] \in CardStates
    BY <1>0 DEF CardStates
  <2> QED BY <2>1, <2>2 DEF Effect
<1>2. Effect(c).seq = c.seq + 1
  BY DEF Effect, CardStates
<1>3. CASE ~c.editing \/ Edits(c) = "none"
  <2>1. Effect(c) = [c EXCEPT !.seq = @ + 1, !.preview = "none", !.timer = FALSE]
    BY <1>3 DEF Effect
  <2>2. /\ Effect(c).editing = c.editing /\ Effect(c).fields = c.fields
        /\ Effect(c).preview = "none" /\ ~Effect(c).timer
    BY <2>1 DEF CardStates
  <2>3. Shown(Effect(c)) = Carried(Effect(c))
    BY <1>3, <2>2 DEF Shown, Carried, Edits
  <2> QED BY <1>1, <1>2, <2>2, <2>3
<1>4. CASE ~(~c.editing \/ Edits(c) = "none")
  <2>1. Effect(c) = [c EXCEPT !.seq = @ + 1, !.timer = TRUE, !.missed = FALSE]
    BY <1>4 DEF Effect
  <2>2. /\ Effect(c).editing = c.editing /\ Effect(c).fields = c.fields
        /\ Effect(c).timer
    BY <2>1 DEF CardStates
  <2>3. Edits(Effect(c)) # "none"
    BY <1>4, <2>2 DEF Edits
  <2> QED BY <1>1, <1>2, <1>4, <2>2, <2>3
<1> QED BY <1>3, <1>4

-----------------------------------------------------------------------------
(* The cards. *)

LEMMA CardsRendered == CardInv /\ Rendered => CardInv'
<1> SUFFICES ASSUME CardInv, Rendered PROVE CardInv'
  OBVIOUS
<1> USE DEF CardInv, Rendered
<1>1. CardTypeOK'
  BY FreshIsTyped DEF CardTypeOK
<1>2. UnmountedIsFresh'
  BY DEF UnmountedIsFresh
<1>3. \A m \in previews' : m \in previews /\ m.deal \in Deals /\ m.deal \in Cards /\ m.deal \in Cards'
                           /\ card'[m.deal] = card[m.deal]
  BY DEF CardTypeOK
<1>4. LastIsCurrent'
  BY <1>3 DEF LastIsCurrent
<1>5. ASSUME NEW d \in Deals PROVE SeesWhatIsSent(d)'
  <2>1. CASE d \in Cards /\ d \in Cards'
    <3>1. card'[d] = card[d]
      BY <2>1 DEF CardTypeOK
    <3>2. \A m \in previews : m.deal = d => m \in previews'
      BY <2>1
    <3> QED BY <3>1, <3>2 DEF SeesWhatIsSent
  <2>2. CASE ~(d \in Cards /\ d \in Cards')
    <3>1. card'[d] = Fresh
      BY <2>2 DEF CardTypeOK
    <3> QED BY <3>1, FreshIsTyped DEF SeesWhatIsSent
  <2> QED BY <2>1, <2>2
<1>6. DueHasEdits'
  BY DEF DueHasEdits, Fresh, CardTypeOK
<1> QED BY <1>1, <1>2, <1>4, <1>5, <1>6

LEMMA CardsStay ==
  CardInv /\ UNCHANGED <<card, previews, deals, tab, status>> => CardInv'
BY DEF CardInv, CardTypeOK, UnmountedIsFresh, LastIsCurrent, DueHasEdits,
     SeesWhatIsSent, Cards

(* Typing and toggling: the effect runs on a card of the page. *)
LEMMA CardEdited ==
  ASSUME CardInv, UNCHANGED <<deals, tab, status, previews>>,
         NEW d \in Cards, d \in Deals, NEW c \in CardStates,
         c.seq = card[d].seq, card' = [card EXCEPT ![d] = Effect(c)]
  PROVE  CardInv'
<1> USE DEF CardInv
<1>0. /\ Cards' = Cards
      /\ card \in [Deals -> CardStates]
      /\ previews \subseteq [deal : Deals, seq : Nat, text : Texts]
  BY DEF Cards, CardTypeOK, CardStates
<1>1. card'[d] = Effect(c) /\ \A e \in Deals \ {d} : card'[e] = card[e]
  BY <1>0
<1>2. card' \in [Deals -> CardStates]
  BY <1>0, EffectHolds
<1>3. CardTypeOK'
  BY <1>0, <1>2 DEF CardTypeOK, CardStates
<1>4. UnmountedIsFresh'
  BY <1>0, <1>1 DEF UnmountedIsFresh
<1>5. card'[d].seq = card[d].seq + 1 /\ card[d].seq \in Nat
  BY <1>0, <1>1, EffectHolds DEF CardStates
<1>6. ASSUME NEW m \in previews' PROVE
        /\ m.deal \in Cards'
        /\ m.seq <= card'[m.deal].seq
        /\ m.seq = card'[m.deal].seq =>
             card'[m.deal].editing /\ m.text = Edits(card'[m.deal])
  <2>1. m \in previews /\ m.deal \in Deals /\ m.seq \in Nat /\ m.seq <= card[m.deal].seq
    BY <1>0 DEF LastIsCurrent
  <2>2. CASE m.deal = d
    BY <1>0, <1>5, <2>1, <2>2
  <2>3. CASE m.deal # d
    BY <1>0, <1>1, <2>1, <2>3 DEF LastIsCurrent
  <2> QED BY <2>2, <2>3
<1>7. ASSUME NEW e \in Deals PROVE SeesWhatIsSent(e)'
  <2>1. CASE e = d
    BY <1>1, <2>1, EffectHolds DEF SeesWhatIsSent
  <2>2. CASE e # d
    BY <1>1, <2>2 DEF SeesWhatIsSent
  <2> QED BY <2>1, <2>2
<1>8. DueHasEdits'
  BY <1>1, EffectHolds DEF DueHasEdits
<1> QED BY <1>3, <1>4, <1>6, <1>7, <1>8 DEF LastIsCurrent

(* The preview of a card is asked for: it is of the edits as they stand. *)
LEMMA PreviewGoesOut ==
  ASSUME CardInv, UNCHANGED <<deals, tab, status>>, NEW d \in Cards, d \in Deals,
         PreviewAsked(d)
  PROVE  CardInv'
<1> USE DEF CardInv
<1>0. /\ Cards' = Cards
      /\ card \in [Deals -> CardStates]
      /\ previews \subseteq [deal : Deals, seq : Nat, text : Texts]
  BY DEF Cards, CardTypeOK, CardStates
<1> DEFINE c == card[d]
           going == [deal |-> d, seq |-> c.seq, text |-> Edits(c)]
<1>1. c \in CardStates /\ c.timer
  BY <1>0 DEF PreviewAsked
<1>2. card' = [card EXCEPT ![d].timer = FALSE] /\ previews' = previews \union {going}
  BY DEF PreviewAsked
<1>3. /\ card'[d] = [c EXCEPT !.timer = FALSE]
      /\ \A e \in Deals \ {d} : card'[e] = card[e]
  BY <1>0, <1>2
<1>4. [c EXCEPT !.timer = FALSE] \in CardStates
  BY <1>1 DEF CardStates
<1>5. card' \in [Deals -> CardStates]
  BY <1>0, <1>2, <1>4
<1>6. /\ card'[d].seq = c.seq /\ card'[d].editing = c.editing
      /\ card'[d].fields = c.fields
  BY <1>1, <1>3 DEF CardStates
<1>7. c.editing /\ Edits(c) \in Texts
  BY <1>1 DEF DueHasEdits, Edits
<1>8. Edits(card'[d]) = Edits(c)
  BY <1>6 DEF Edits
<1>9. previews' \subseteq [deal : Deals, seq : Nat, text : Texts]
  BY <1>0, <1>1, <1>2, <1>7 DEF CardStates
<1>10. CardTypeOK'
  BY <1>5, <1>9 DEF CardTypeOK, CardStates
<1>11. UnmountedIsFresh'
  BY <1>0, <1>3 DEF UnmountedIsFresh
<1>12. DueHasEdits'
  BY <1>3, <1>4, <1>6 DEF DueHasEdits, CardStates, Edits
<1>13. /\ going \in previews' /\ going.deal = d
       /\ going.seq = card'[d].seq /\ going.text = Edits(card'[d])
       /\ card'[d].editing /\ card'[d].seq \in Nat
  BY <1>1, <1>2, <1>6, <1>7, <1>8 DEF CardStates
<1>14. ASSUME NEW m \in previews' PROVE
         /\ m.deal \in Cards'
         /\ m.seq <= card'[m.deal].seq
         /\ m.seq = card'[m.deal].seq =>
              card'[m.deal].editing /\ m.text = Edits(card'[m.deal])
  <2>1. CASE m = going
    BY <1>0, <1>13, <2>1
  <2>2. CASE m \in previews /\ m.deal = d
    BY <1>0, <1>6, <1>8, <2>2 DEF LastIsCurrent
  <2>3. CASE m \in previews /\ m.deal # d
    BY <1>0, <1>3, <2>3 DEF LastIsCurrent
  <2> QED BY <1>2, <2>1, <2>2, <2>3
<1>15. ASSUME NEW e \in Deals PROVE SeesWhatIsSent(e)'
  <2>1. CASE e = d
    BY <1>13, <2>1 DEF SeesWhatIsSent
  <2>2. CASE e # d
    BY <1>2, <1>3, <2>2 DEF SeesWhatIsSent
  <2> QED BY <2>1, <2>2
<1> QED BY <1>10, <1>11, <1>12, <1>14, <1>15 DEF LastIsCurrent

(* A preview arrives: it is ignored, or is the caption of the edits as they
   stand, or is noted as missed. *)
LEMMA PreviewComes ==
  ASSUME CardInv, UNCHANGED <<deals, tab, status>>, Cards \subseteq Deals,
         NEW m \in previews, PreviewAnswered(m)
  PROVE  CardInv'
<1> USE DEF CardInv
<1> DEFINE d == m.deal
           c == card[d]
<1>0. /\ Cards' = Cards /\ d \in Cards /\ d \in Deals
      /\ card \in [Deals -> CardStates] /\ c \in CardStates
      /\ previews \subseteq [deal : Deals, seq : Nat, text : Texts]
  BY DEF Cards, CardTypeOK, CardStates, LastIsCurrent
<1>1. previews' = previews \ {m}
  BY DEF PreviewAnswered
<1>2. CASE c.seq # m.seq
  <2>1. card' = card
    BY <1>2 DEF PreviewAnswered
  <2>2. \A e \in Deals : SeesWhatIsSent(e)'
    BY <1>1, <1>2, <2>1 DEF SeesWhatIsSent
  <2> QED
    BY <1>0, <1>1, <2>1, <2>2
       DEF CardTypeOK, UnmountedIsFresh, LastIsCurrent, DueHasEdits
<1>3. CASE c.seq = m.seq
  <2>1. PICK new \in {[c EXCEPT !.missed = TRUE], [c EXCEPT !.preview = m.text]} :
          card' = [card EXCEPT ![d] = new]
    BY <1>0, <1>3 DEF PreviewAnswered
  <2>2. card'[d] = new /\ \A e \in Deals \ {d} : card'[e] = card[e]
    BY <1>0, <2>1
  <2>3. /\ new \in CardStates
        /\ new.seq = c.seq /\ new.editing = c.editing /\ new.fields = c.fields
        /\ new.timer = c.timer /\ (new.missed \/ new.preview = m.text)
    BY <1>0, <2>1 DEF CardStates, Captions
  <2>4. c.editing /\ m.text = Edits(c)
    BY <1>3 DEF LastIsCurrent
  <2>5. Edits(new) = Edits(c)
    BY <2>3 DEF Edits
  <2>6. card' \in [Deals -> CardStates]
    BY <1>0, <2>1, <2>3
  <2>7. CardTypeOK'
    BY <1>0, <1>1, <2>6 DEF CardTypeOK, CardStates
  <2>8. UnmountedIsFresh' /\ DueHasEdits'
    BY <1>0, <2>2, <2>3, <2>5 DEF UnmountedIsFresh, DueHasEdits
  <2>9. LastIsCurrent'
    BY <1>0, <1>1, <2>2, <2>3, <2>5 DEF LastIsCurrent
  <2>10. ASSUME NEW e \in Deals PROVE SeesWhatIsSent(e)'
    <3>1. CASE e = d
      BY <2>2, <2>3, <2>4, <2>5, <3>1 DEF SeesWhatIsSent, Shown, Carried
    <3>2. CASE e # d
      BY <1>1, <2>2, <3>2 DEF SeesWhatIsSent
    <3> QED BY <3>1, <3>2
  <2> QED BY <2>7, <2>8, <2>9, <2>10
<1> QED BY <1>2, <1>3

LEMMA ListIsTyped ==
  /\ \A list \in Lists : DOMAIN list \subseteq Deals /\ list \in [DOMAIN list -> BOOLEAN]
  /\ \A S \in SUBSET Deals : [S -> BOOLEAN] \subseteq Lists
BY DEF Lists

LEMMA CardsAreDeals == TypeOK => Cards \subseteq Deals
BY ListIsTyped DEF TypeOK, Cards

(* Every step keeps the cards' part. *)
LEMMA CardStep == TypeOK /\ CardInv /\ [PanelNext]_vars => CardInv'
<1> SUFFICES ASSUME TypeOK, CardInv, [PanelNext]_vars PROVE CardInv'
  OBVIOUS
<1>0. Cards \subseteq Deals
  BY CardsAreDeals
<1>1. CASE PollStarts \/ SaveKey
  BY <1>1, CardsStay DEF PollStarts, SaveKey
<1>2. CASE SwitchTab \/ Decide
  BY <1>2, CardsRendered DEF SwitchTab, Decide
<1>3. ASSUME NEW p \in polls, PollAnswered(p) \/ PollFails(p) PROVE CardInv'
  BY <1>3, CardsRendered DEF PollAnswered, PollFails
<1>4. ASSUME NEW c \in calls, CallStep(c) \/ CallBreaks(c) \/ CallLost(c) PROVE CardInv'
  <2>1. CASE CallServed(c) \/ CallMarked(c) \/ DecisionDone(c) \/ RepostConfirmed(c)
             \/ CallBreaks(c)
    BY <2>1, CardsStay
       DEF CallServed, CallMarked, DecisionDone, RepostConfirmed, CallBreaks
  <2>2. CASE RepostDeclined(c) \/ DecisionFailed(c) \/ CallLost(c)
    BY <2>2, CardsRendered DEF RepostDeclined, DecisionFailed, CallLost, RestoreSnapshot
  <2> QED BY <1>4, <2>1, <2>2 DEF CallStep
<1>5. ASSUME NEW d \in Deals, Edit(d) PROVE CardInv'
  <2>0. d \in Cards /\ UNCHANGED <<deals, tab, status>> /\ card[d] \in CardStates
    BY <1>5 DEF Edit, CardInv, CardTypeOK, CardStates
  <2>1. CASE ToggleEditing(d)
    <3> DEFINE c == IF card[d].editing
              THEN [card[d] EXCEPT !.editing = FALSE, !.fields = "empty", !.preview = "none"]
              ELSE [card[d] EXCEPT !.editing = TRUE]
    <3>1. c \in CardStates /\ c.seq = card[d].seq
      BY <2>0 DEF CardStates, Typed, Captions
    <3>2. card' = [card EXCEPT ![d] = Effect(c)] /\ UNCHANGED previews
      BY <2>1 DEF ToggleEditing, CardInv, CardTypeOK
    <3> HIDE DEF c
    <3> QED BY <2>0, <3>1, <3>2, CardEdited
  <2>2. CASE Type(d)
    <3>1. PICK t \in Typed : card' = [card EXCEPT ![d] = Effect([@ EXCEPT !.fields = t])]
      BY <2>2 DEF Type
    <3> DEFINE c == [card[d] EXCEPT !.fields = t]
    <3>2. c \in CardStates /\ c.seq = card[d].seq
      BY <2>0 DEF CardStates
    <3>3. card' = [card EXCEPT ![d] = Effect(c)] /\ UNCHANGED previews
      BY <2>2, <3>1 DEF Type, CardInv, CardTypeOK
    <3> HIDE DEF c
    <3> QED BY <2>0, <3>2, <3>3, CardEdited
  <2>3. CASE PreviewAsked(d)
    BY <2>0, <2>3, PreviewGoesOut
  <2> QED BY <1>5, <2>1, <2>2, <2>3 DEF Edit
<1>6. ASSUME NEW d \in Deals, Elsewhere(d) PROVE CardInv'
  BY <1>6, CardsStay DEF Elsewhere
<1>7. CASE KeyRotates
  BY <1>7, CardsStay DEF KeyRotates
<1>8. CASE PreviewArrives
  BY <1>0, <1>8, PreviewComes DEF PreviewArrives, appVars
<1>9. CASE UNCHANGED vars
  BY <1>9, CardsStay DEF vars, appVars
<1> QED BY <1>1, <1>2, <1>3, <1>4, <1>5, <1>6, <1>7, <1>8, <1>9 DEF PanelNext

-----------------------------------------------------------------------------
(* The decisions. *)

(* Calls end, other than between sending and marking, and cards come back
   only where that is noted. *)
LEMMA CallsEnd ==
  ASSUME CallInv, UNCHANGED <<row, settled>>, calls' \subseteq calls,
         \A c \in calls \ calls' : c.pc # "sending",
         excused \subseteq excused',
         \A d \in DOMAIN deals' \ DOMAIN deals :
           d \in excused' \/ \A c \in calls' : c.deal # d
  PROVE  CallInv'
<1>1. ASSUME NEW d \in Deals \ excused' PROVE OneCall(d)'
  BY DEF CallInv, OneCall
<1>2. \A c \in calls' : c.override => c.asked
  BY DEF CallInv
<1> QED BY <1>1, <1>2 DEF CallInv

(* A call is given up by the page, and goes on in its handler. *)
LEMMA CallGoesOn ==
  ASSUME CallInv, UNCHANGED <<row, settled>>, NEW c \in calls, NEW new, Becomes(c, new),
         new.deal = c.deal, new.pc = c.pc, new.override => new.asked,
         excused \subseteq excused',
         \A d \in DOMAIN deals' \ DOMAIN deals :
           d \in excused' \/ \A b \in calls' : b.deal # d
  PROVE  CallInv'
<1>0. calls' = (calls \ {c}) \union {new}
  BY DEF Becomes
<1>1. ASSUME NEW d \in Deals \ excused' PROVE OneCall(d)'
  <2>1. OneCall(d)
    BY DEF CallInv
  <2>2. d \in DOMAIN deals' => \A b \in calls' : b.deal # d
    BY <1>0, <2>1 DEF OneCall
  <2>3. \A b, e \in calls' : b.deal = d /\ e.deal = d => b = e
    BY <1>0, <2>1 DEF OneCall
  <2> QED BY <1>0, <2>1, <2>2, <2>3 DEF OneCall
<1>2. \A b \in calls' : b.override => b.asked
  BY <1>0 DEF CallInv
<1> QED BY <1>1, <1>2 DEF CallInv

(* A call moves on, or ends unheard; if it settles the row it was pending, or
   it marks it. *)
LEMMA CallMoves ==
  ASSUME CallInv, NEW c \in calls, NEW new,
         Becomes(c, new) \/ calls' = calls \ {c},
         new.deal = c.deal, c.deal \in Deals,
         new.override => new.asked,
         UNCHANGED deals, excused \subseteq excused',
         row \in [Deals -> {"pending", "decided"}],
         settled \in [Deals -> Nat],
         \/ /\ UNCHANGED <<row, settled>>
            /\ c.pc = "sending" => c.deal \in excused'
         \/ /\ row' = [row EXCEPT ![c.deal] = "decided"]
            /\ UNCHANGED settled
         \/ /\ row[c.deal] = "pending" /\ c.pc # "sending"
            /\ settled' = [settled EXCEPT ![c.deal] = @ + 1]
            /\ \/ new.pc = "sending" /\ Becomes(c, new) /\ UNCHANGED row
               \/ row' = [row EXCEPT ![c.deal] = "decided"]
  PROVE  CallInv'
<1>1. /\ calls \ {c} \subseteq calls' /\ calls' \subseteq (calls \ {c}) \union {new}
      /\ Becomes(c, new) => new \in calls'
  BY DEF Becomes
<1>2. ASSUME NEW d \in Deals \ excused' PROVE OneCall(d)'
  <2>0. OneCall(d)
    BY DEF CallInv
  <2>1. d \in DOMAIN deals' => \A b \in calls' : b.deal # d
    BY <1>1, <2>0 DEF OneCall
  <2>2. \A b, e \in calls' : b.deal = d /\ e.deal = d => b = e
    BY <1>1, <2>0 DEF OneCall
  <2>3. CASE d # c.deal
    <3>1. row'[d] = row[d] /\ settled'[d] = settled[d]
      BY <2>3
    <3> QED BY <1>1, <2>0, <2>1, <2>2, <2>3, <3>1 DEF OneCall
  <2>4. CASE d = c.deal
    <3>1. \A b \in calls : b.deal = d => b = c
      BY <2>0, <2>4 DEF OneCall
    <3>2. new.deal = d
      BY <2>4
    <3>3. CASE UNCHANGED <<row, settled>> /\ (c.pc = "sending" => c.deal \in excused')
      BY <2>0, <2>1, <2>2, <2>4, <3>1, <3>3 DEF OneCall
    <3>4. CASE row' = [row EXCEPT ![c.deal] = "decided"] /\ UNCHANGED settled
      <4>1. row'[d] = "decided"
        BY <2>4, <3>4
      <4> QED BY <2>0, <2>1, <2>2, <3>4, <4>1 DEF OneCall
    <3>5. CASE /\ row[c.deal] = "pending" /\ c.pc # "sending"
               /\ settled' = [settled EXCEPT ![c.deal] = @ + 1]
               /\ \/ new.pc = "sending" /\ Becomes(c, new) /\ UNCHANGED row
                  \/ row' = [row EXCEPT ![c.deal] = "decided"]
      <4>1. settled[d] = 0
        BY <2>0, <2>4, <3>1, <3>5 DEF OneCall
      <4>2. settled'[d] = 1
        BY <2>4, <3>5, <4>1
      <4>3. row'[d] = "decided" \/ (new.pc = "sending" /\ new \in calls')
        BY <1>1, <2>4, <3>5
      <4> QED BY <2>1, <2>2, <3>2, <4>2, <4>3 DEF OneCall
    <3> QED BY <3>3, <3>4, <3>5
  <2> QED BY <2>3, <2>4
<1>3. \A b \in calls' : b.override => b.asked
  BY <1>1 DEF CallInv
<1> QED BY <1>2, <1>3 DEF CallInv

(* The request of a decision. *)
Called(n, d, kind, warned) ==
  [n |-> n, pc |-> "sent", deal |-> d, kind |-> kind, override |-> warned,
   asked |-> warned, blind |-> FALSE, lost |-> FALSE, key |-> served, snapshot |-> deals]

(* A card that is decided leaves the page with the only call on its row. *)
LEMMA DecideKeepsCalls == TypeOK /\ CallInv /\ Decide => CallInv'
<1> SUFFICES ASSUME TypeOK, CallInv, Decide PROVE CallInv'
  OBVIOUS
<1> DEFINE Sends(d, new) == /\ calls' = calls \union {new} /\ new.deal = d
                            /\ new.override => new.asked
                            /\ deals' = Without(deals, d)
<1>0. \E d \in Cards : \E new : Sends(d, new)
  <2>1. PICK d \in Cards, kind \in {"approve", "reject"} :
          Send(d, kind, kind = "approve" /\ deals[d], kind = "approve" /\ deals[d])
    BY DEF Decide
  <2> DEFINE warned == kind = "approve" /\ deals[d]
  <2> HIDE DEF warned
  <2>2. Send(d, kind, warned, warned)
    BY <2>1 DEF warned
  <2>3. PICK n \in 1..MaxCalls : calls' = calls \union {Called(n, d, kind, warned)}
    BY <2>2 DEF Send, Called
  <2>4. /\ Called(n, d, kind, warned).deal = d
        /\ Called(n, d, kind, warned).override => Called(n, d, kind, warned).asked
    BY DEF Called
  <2>5. deals' = Without(deals, d)
    BY <2>2 DEF Send
  <2> QED BY <2>3, <2>4, <2>5
<1>1. PICK d \in Cards : \E new : Sends(d, new)
  BY <1>0
<1>2. PICK new : Sends(d, new)
  BY <1>1
<1>3. UNCHANGED <<row, settled>> /\ excused \subseteq excused' /\ d \in DOMAIN deals
  BY DEF Decide, Rendered, Cards
<1>4. DOMAIN deals' = DOMAIN deals \ {d}
  BY <1>2 DEF Without
<1>5. ASSUME NEW e \in Deals \ excused' PROVE OneCall(e)'
  <2>0. OneCall(e) /\ calls \subseteq calls'
    BY <1>2, <1>3 DEF CallInv
  <2>1. CASE e = d
    BY <1>2, <1>3, <1>4, <2>0, <2>1 DEF OneCall
  <2>2. CASE e # d
    BY <1>2, <1>3, <1>4, <2>0, <2>2 DEF OneCall
  <2> QED BY <2>1, <2>2
<1>6. \A c \in calls' : c.override => c.asked
  BY <1>2 DEF CallInv
<1> QED BY <1>5, <1>6 DEF CallInv

CallStates == {"sent", "sending", "recent", "done", "failed", "unauthorized"}

CallRecords == [n : 1..MaxCalls, pc : CallStates, deal : Deals,
                kind : {"approve", "reject"}, override : BOOLEAN, asked : BOOLEAN,
                blind : BOOLEAN, lost : BOOLEAN, key : BOOLEAN, snapshot : Lists]

LEMMA AnswerIsTyped ==
  ASSUME NEW c \in CallRecords, NEW pc \in CallStates
  PROVE  LET new == [c EXCEPT !.pc = pc] IN
           /\ new \in CallRecords
           /\ new.pc = pc /\ new.deal = c.deal /\ new.override = c.override
           /\ new.asked = c.asked
BY DEF CallRecords

LEMMA SendingIsTyped ==
  ASSUME NEW c \in CallRecords, NEW blind \in BOOLEAN
  PROVE  LET new == [c EXCEPT !.pc = "sending", !.blind = blind] IN
           /\ new \in CallRecords
           /\ new.pc = "sending" /\ new.deal = c.deal /\ new.override = c.override
           /\ new.asked = c.asked
BY DEF CallRecords, CallStates

LEMMA LostIsTyped ==
  ASSUME NEW c \in CallRecords
  PROVE  /\ [c EXCEPT !.lost = TRUE] \in CallRecords
         /\ [c EXCEPT !.lost = TRUE].pc = c.pc /\ [c EXCEPT !.lost = TRUE].deal = c.deal
         /\ [c EXCEPT !.lost = TRUE].override = c.override
         /\ [c EXCEPT !.lost = TRUE].asked = c.asked
BY DEF CallRecords

(* An answer moves its call on, or ends it where nobody listens. *)
LEMMA AnswerMoves ==
  ASSUME NEW c, NEW pc, Answer(c, pc)
  PROVE  Becomes(c, [c EXCEPT !.pc = pc]) \/ calls' = calls \ {c}
BY DEF Answer, Becomes

(* What an approval or rejection past the status check does. *)
LEMMA CarriesOn ==
  ASSUME NEW c \in calls, Carries(c)
  PROVE  \/ UNCHANGED <<row, settled>> /\ Answer(c, "recent")
         \/ /\ settled' = [settled EXCEPT ![c.deal] = @ + 1]
            /\ row' = [row EXCEPT ![c.deal] = "decided"]
            /\ Answer(c, "done")
         \/ /\ settled' = [settled EXCEPT ![c.deal] = @ + 1] /\ UNCHANGED row
            /\ \E posted \in LookupSays(c.deal) :
                 /\ posted => c.override
                 /\ Becomes(c, [c EXCEPT !.pc = "sending", !.blind = posted # recent[c.deal]])
<1>1. CASE c.kind = "reject"
  BY <1>1 DEF Carries
<1>2. CASE c.kind # "reject"
  <2>1. UNCHANGED row
    BY <1>2 DEF Carries
  <2>2. PICK posted \in LookupSays(c.deal) :
          IF posted /\ ~c.override
          THEN Answer(c, "recent") /\ UNCHANGED settled
          ELSE /\ settled' = [settled EXCEPT ![c.deal] = @ + 1]
               /\ Becomes(c, [c EXCEPT !.pc = "sending", !.blind = posted # recent[c.deal]])
    BY <1>2 DEF Carries
  <2> QED BY <2>1, <2>2
<1> QED BY <1>1, <1>2

(* Every step keeps the calls' part. *)
LEMMA CallStepKeeps == TypeOK /\ CallInv /\ [PanelNext]_vars => CallInv'
<1> SUFFICES ASSUME TypeOK, CallInv, [PanelNext]_vars PROVE CallInv'
  OBVIOUS
<1>0. /\ row \in [Deals -> {"pending", "decided"}] /\ settled \in [Deals -> Nat]
      /\ calls \subseteq CallRecords
      /\ \A c \in calls : c.deal \in Deals /\ (c.override => c.asked)
  BY DEF TypeOK, CallInv, CallRecords, CallStates
<1>1. CASE UNCHANGED <<row, settled, excused, deals, calls>>
  BY <1>1, CallsEnd
<1>2. CASE PollStarts \/ SaveKey \/ KeyRotates \/ PreviewArrives \/ UNCHANGED vars
           \/ \E d \in Deals : Edit(d)
  BY <1>1, <1>2 DEF PollStarts, SaveKey, KeyRotates, PreviewArrives, Edit, vars, appVars
<1>3. CASE SwitchTab \/ \E p \in polls : PollAnswered(p) \/ PollFails(p)
  <2>1. UNCHANGED <<row, settled, calls>> /\ Rendered
    BY <1>3 DEF SwitchTab, PollAnswered, PollFails
  <2> QED BY <2>1, CallsEnd DEF Rendered
<1>4. CASE Decide
  BY <1>4, DecideKeepsCalls
<1>5. ASSUME NEW c \in calls, CallServed(c) PROVE CallInv'
  <2>0. c.pc = "sent" /\ UNCHANGED <<deals, excused>>
    BY <1>5 DEF CallServed
  <2>1. ASSUME NEW pc \in CallStates, Answer(c, pc), UNCHANGED <<row, settled>>
        PROVE  CallInv'
    <3> DEFINE new == [c EXCEPT !.pc = pc]
    <3>1. new.deal = c.deal /\ new.override = c.override /\ new.asked = c.asked
      BY <1>0, AnswerIsTyped
    <3>2. Becomes(c, new) \/ calls' = calls \ {c}
      BY <2>1, AnswerMoves
    <3> HIDE DEF new
    <3> QED BY <1>0, <2>0, <2>1, <3>1, <3>2, CallMoves
  <2>2. CASE ~c.key \/ row[c.deal] # "pending"
    BY <1>5, <2>1, <2>2 DEF CallServed, CallStates
  <2>3. CASE c.key /\ row[c.deal] = "pending"
    <3>0. Carries(c)
      BY <1>5, <2>3 DEF CallServed
    <3>1. CASE UNCHANGED <<row, settled>> /\ Answer(c, "recent")
      BY <2>1, <3>1 DEF CallStates
    <3>2. CASE /\ settled' = [settled EXCEPT ![c.deal] = @ + 1]
               /\ row' = [row EXCEPT ![c.deal] = "decided"]
               /\ Answer(c, "done")
      <4> DEFINE new == [c EXCEPT !.pc = "done"]
      <4>1. new.deal = c.deal /\ new.override = c.override /\ new.asked = c.asked
        BY <1>0, AnswerIsTyped DEF CallStates
      <4>2. Becomes(c, new) \/ calls' = calls \ {c}
        BY <3>2, AnswerMoves
      <4> HIDE DEF new
      <4> QED BY <1>0, <2>0, <2>3, <3>2, <4>1, <4>2, CallMoves
    <3>3. ASSUME settled' = [settled EXCEPT ![c.deal] = @ + 1], UNCHANGED row,
                 NEW posted \in LookupSays(c.deal),
                 Becomes(c, [c EXCEPT !.pc = "sending", !.blind = posted # recent[c.deal]])
          PROVE  CallInv'
      <4> DEFINE blind == posted # recent[c.deal]
                 new == [c EXCEPT !.pc = "sending", !.blind = blind]
      <4>0. blind \in BOOLEAN
        OBVIOUS
      <4>1. Becomes(c, new)
        BY <3>3
      <4> HIDE DEF blind
      <4>2. /\ new.pc = "sending" /\ new.deal = c.deal
            /\ new.override = c.override /\ new.asked = c.asked
        BY <1>0, <4>0, SendingIsTyped
      <4> HIDE DEF new
      <4> QED BY <1>0, <2>0, <2>3, <3>3, <4>1, <4>2, CallMoves
    <3> QED BY <3>0, <3>1, <3>2, <3>3, CarriesOn
  <2> QED BY <2>2, <2>3
<1>6. ASSUME NEW c \in calls, CallMarked(c) PROVE CallInv'
  <2> DEFINE new == [c EXCEPT !.pc = "done"]
  <2>1. new.deal = c.deal /\ new.override = c.override /\ new.asked = c.asked
    BY <1>0, AnswerIsTyped DEF CallStates
  <2>2. Becomes(c, new) \/ calls' = calls \ {c}
    BY <1>6, AnswerMoves DEF CallMarked
  <2> HIDE DEF new
  <2> QED BY <1>0, <1>6, <2>1, <2>2, CallMoves DEF CallMarked
<1>7. ASSUME NEW c \in calls, CallBreaks(c) PROVE CallInv'
  <2> DEFINE new == [c EXCEPT !.pc = "failed"]
  <2>1. new.deal = c.deal /\ new.override = c.override /\ new.asked = c.asked
    BY <1>0, AnswerIsTyped DEF CallStates
  <2>2. Becomes(c, new) \/ calls' = calls \ {c}
    BY <1>7, AnswerMoves DEF CallBreaks
  <2>3. excused \subseteq excused' /\ (c.pc = "sending" => c.deal \in excused')
    BY <1>7 DEF CallBreaks
  <2> HIDE DEF new
  <2> QED BY <1>0, <1>7, <2>1, <2>2, <2>3, CallMoves DEF CallBreaks
<1>8. ASSUME NEW c \in calls, DecisionDone(c) PROVE CallInv'
  BY <1>8, CallsEnd DEF DecisionDone
<1>9. ASSUME NEW c \in calls, RepostConfirmed(c) PROVE CallInv'
  <2> DEFINE new == [c EXCEPT !.pc = "sent", !.override = TRUE, !.asked = TRUE,
                              !.key = served]
  <2>1. new.deal = c.deal /\ new.asked
    BY <1>0 DEF CallRecords
  <2>2. Becomes(c, new) /\ c.pc = "recent"
    BY <1>9 DEF RepostConfirmed
  <2> HIDE DEF new
  <2> QED BY <1>0, <1>9, <2>1, <2>2, CallMoves DEF RepostConfirmed
<1>10. ASSUME NEW c \in calls, RepostDeclined(c) \/ DecisionFailed(c) PROVE CallInv'
  <2>1. /\ UNCHANGED <<row, settled>> /\ calls' = calls \ {c} /\ Rendered
        /\ c.pc # "sending"
    BY <1>10 DEF RepostDeclined, DecisionFailed, RestoreSnapshot
  <2> QED BY <2>1, CallsEnd DEF Rendered
<1>11. ASSUME NEW c \in calls, CallLost(c) PROVE CallInv'
  <2>1. UNCHANGED <<row, settled>> /\ Rendered
    BY <1>11 DEF CallLost, RestoreSnapshot
  <2>2. CASE c.pc \in {"sent", "sending"}
    <3> DEFINE new == [c EXCEPT !.lost = TRUE]
    <3>1. /\ new.pc = c.pc /\ new.deal = c.deal /\ new.override = c.override
          /\ new.asked = c.asked
      BY <1>0, LostIsTyped
    <3>2. Becomes(c, new)
      BY <1>11, <2>2 DEF CallLost, Becomes
    <3> HIDE DEF new
    <3> QED BY <1>0, <2>1, <3>1, <3>2, CallGoesOn DEF Rendered
  <2>3. CASE c.pc \notin {"sent", "sending"}
    <3>1. calls' = calls \ {c}
      BY <1>11, <2>3 DEF CallLost
    <3> QED BY <2>1, <2>3, <3>1, CallsEnd DEF Rendered
  <2> QED BY <2>2, <2>3
<1>12. ASSUME NEW d \in Deals, Elsewhere(d) PROVE CallInv'
  <2>1. /\ UNCHANGED <<settled, calls, deals, excused>>
        /\ \A e \in Deals : row[e] = "decided" => row'[e] = "decided"
    BY <1>0, <1>12 DEF Elsewhere
  <2> QED BY <2>1 DEF CallInv, OneCall
<1> QED
  BY <1>2, <1>3, <1>4, <1>5, <1>6, <1>7, <1>8, <1>9, <1>10, <1>11, <1>12
     DEF PanelNext, CallStep

-----------------------------------------------------------------------------
(* Types. *)

LEMMA SpendIsTyped ==
  ASSUME left \in [acts : Nat, events : Nat], NEW what \in {"acts", "events"}, Spend(what)
  PROVE  left' \in [acts : Nat, events : Nat]
<1>1. left[what] - 1 \in Nat
  BY DEF Spend
<1> QED BY <1>1 DEF Spend

LEMMA ListingsAreTyped == Listings \subseteq Lists
<1>1. Listings \subseteq [PendingRows -> BOOLEAN] /\ PendingRows \in SUBSET Deals
  BY DEF Listings, PendingRows
<1> QED BY <1>1, ListIsTyped

LEMMA WithoutIsTyped ==
  ASSUME NEW list \in Lists, NEW d
  PROVE  Without(list, d) \in Lists
<1>1. DOMAIN list \ {d} \in SUBSET Deals /\ list \in [DOMAIN list -> BOOLEAN]
  BY ListIsTyped
<1>2. Without(list, d) \in [DOMAIN list \ {d} -> BOOLEAN]
  BY <1>1 DEF Without
<1> QED BY <1>1, <1>2, ListIsTyped

(* The page's variables and the server's; the requests; the cards. *)
PageTypeOK ==
  /\ row \in [Deals -> {"pending", "decided"}]
  /\ recent \in [Deals -> BOOLEAN]
  /\ served \in BOOLEAN
  /\ status \in {"loading", "ready", "unauthorized", "error"}
  /\ tab \in {"pending", "compose"}
  /\ settled \in [Deals -> Nat]
  /\ excused \subseteq Deals
  /\ left \in [acts : Nat, events : Nat]

PollRecords == [n : 1..MaxPolls, key : BOOLEAN, got : Lists]

RequestTypeOK ==
  /\ deals \in Lists
  /\ polls \subseteq PollRecords
  /\ calls \subseteq CallRecords

LEMMA TypeParts == TypeOK <=> PageTypeOK /\ RequestTypeOK /\ CardTypeOK
BY DEF TypeOK, PageTypeOK, RequestTypeOK, PollRecords, CallRecords, CallStates

LEMMA RequestTypes == TypeOK /\ [PanelNext]_vars => RequestTypeOK'
<1> SUFFICES ASSUME TypeOK, [PanelNext]_vars PROVE RequestTypeOK'
  OBVIOUS
<1> USE TypeParts DEF RequestTypeOK
<1>0. /\ deals \in Lists /\ polls \subseteq PollRecords
      /\ calls \subseteq CallRecords /\ Listings \subseteq Lists /\ served \in BOOLEAN
  BY ListingsAreTyped DEF PageTypeOK
<1>1. ASSUME NEW key \in BOOLEAN, List(key), UNCHANGED <<deals, calls>> PROVE RequestTypeOK'
  <2>1. PICK n \in 1..MaxPolls, list \in Listings :
          polls' = polls \union {[n |-> n, key |-> key, got |-> list]}
    BY <1>1 DEF List
  <2>2. [n |-> n, key |-> key, got |-> list] \in PollRecords
    BY <1>0 DEF PollRecords
  <2> QED BY <1>0, <1>1, <2>1, <2>2
<1>2. CASE PollStarts
  BY <1>0, <1>1, <1>2 DEF PollStarts
<1>3. CASE SaveKey
  BY <1>1, <1>3 DEF SaveKey
<1>4. ASSUME NEW p \in polls, PollAnswered(p) \/ PollFails(p) PROVE RequestTypeOK'
  BY <1>0, <1>4 DEF PollAnswered, PollFails, PollRecords
<1>5. CASE Decide
  <2>1. PICK d \in Cards, kind \in {"approve", "reject"} :
          Send(d, kind, kind = "approve" /\ deals[d], kind = "approve" /\ deals[d])
    BY <1>5 DEF Decide
  <2> DEFINE warned == kind = "approve" /\ deals[d]
  <2>2. d \in Deals /\ warned \in BOOLEAN
    BY CardsAreDeals
  <2> HIDE DEF warned
  <2>3. Send(d, kind, warned, warned)
    BY <2>1 DEF warned
  <2>4. PICK n \in 1..MaxCalls : calls' = calls \union {Called(n, d, kind, warned)}
    BY <2>3 DEF Send, Called
  <2>5. Called(n, d, kind, warned) \in CallRecords
    BY <1>0, <2>2 DEF Called, CallRecords, CallStates
  <2>6. UNCHANGED polls /\ deals' = Without(deals, d)
    BY <1>5, <2>3 DEF Decide, Send
  <2> QED BY <1>0, <2>4, <2>5, <2>6, WithoutIsTyped
<1>6. ASSUME NEW c \in calls, NEW pc \in CallStates, Answer(c, pc),
             UNCHANGED <<deals, polls>>
      PROVE  RequestTypeOK'
  <2>1. [c EXCEPT !.pc = pc] \in CallRecords
    BY <1>0, AnswerIsTyped
  <2> QED BY <1>0, <1>6, <2>1 DEF Answer
<1>7. ASSUME NEW c \in calls, CallServed(c) \/ CallMarked(c) \/ CallBreaks(c)
      PROVE  RequestTypeOK'
  <2>1. UNCHANGED <<deals, polls>>
    BY <1>7 DEF CallServed, CallMarked, CallBreaks
  <2>2. Carries(c) \/ \E pc \in {"done", "failed", "unauthorized"} : Answer(c, pc)
    BY <1>7 DEF CallServed, CallMarked, CallBreaks
  <2>3. ASSUME Carries(c) PROVE RequestTypeOK'
    <3>1. CASE Answer(c, "recent") \/ Answer(c, "done")
      BY <1>6, <2>1, <3>1 DEF CallStates
    <3>2. ASSUME NEW posted,
                 Becomes(c, [c EXCEPT !.pc = "sending", !.blind = posted # recent[c.deal]])
          PROVE  RequestTypeOK'
      <4> DEFINE blind == posted # recent[c.deal]
      <4>1. blind \in BOOLEAN
        OBVIOUS
      <4>2. Becomes(c, [c EXCEPT !.pc = "sending", !.blind = blind])
        BY <3>2
      <4> HIDE DEF blind
      <4>3. [c EXCEPT !.pc = "sending", !.blind = blind] \in CallRecords
        BY <1>0, <4>1, SendingIsTyped
      <4> QED BY <1>0, <2>1, <4>2, <4>3 DEF Becomes
    <3> QED BY <2>3, <3>1, <3>2, CarriesOn
  <2> QED BY <1>6, <2>1, <2>2, <2>3 DEF CallStates
<1>8. ASSUME NEW c \in calls, RepostConfirmed(c) PROVE RequestTypeOK'
  <2>1. [c EXCEPT !.pc = "sent", !.override = TRUE, !.asked = TRUE, !.key = served]
          \in CallRecords
    BY <1>0 DEF CallRecords, CallStates
  <2> QED BY <1>0, <1>8, <2>1 DEF RepostConfirmed, Becomes
<1>9. ASSUME NEW c \in calls,
             RepostDeclined(c) \/ DecisionFailed(c) \/ DecisionDone(c) \/ CallLost(c)
      PROVE  RequestTypeOK'
  <2>1. c.snapshot \in Lists /\ [c EXCEPT !.lost = TRUE] \in CallRecords
    BY <1>0, LostIsTyped DEF CallRecords
  <2>2. calls' \subseteq (calls \ {c}) \union {[c EXCEPT !.lost = TRUE]}
    BY <1>9 DEF RepostDeclined, DecisionFailed, DecisionDone, CallLost
  <2>3. UNCHANGED polls /\ deals' \in {deals, c.snapshot}
    BY <1>9 DEF RepostDeclined, DecisionFailed, DecisionDone, CallLost, RestoreSnapshot
  <2> QED BY <1>0, <2>1, <2>2, <2>3
<1>10. CASE UNCHANGED <<deals, polls, calls>>
  BY <1>0, <1>10
<1>11. CASE SwitchTab \/ PreviewArrives \/ KeyRotates \/ UNCHANGED vars
            \/ \E d \in Deals : Edit(d) \/ Elsewhere(d)
  BY <1>10, <1>11
     DEF SwitchTab, PreviewArrives, KeyRotates, Edit, Elsewhere, vars, appVars
<1> QED
  BY <1>2, <1>3, <1>4, <1>5, <1>7, <1>8, <1>9, <1>11 DEF PanelNext, CallStep

LEMMA ExcusesAreDeals ==
  ASSUME excused \subseteq Deals, calls' \subseteq CallRecords, Rendered
  PROVE  excused' \subseteq Deals
<1>1. \A c \in calls' : c.deal \in Deals
  BY DEF CallRecords
<1> QED BY <1>1 DEF Rendered

LEMMA PageTypes == TypeOK /\ [PanelNext]_vars => PageTypeOK'
<1> SUFFICES ASSUME TypeOK, [PanelNext]_vars PROVE PageTypeOK'
  OBVIOUS
<1>0. PageTypeOK /\ calls \subseteq CallRecords /\ calls' \subseteq CallRecords
      /\ \A c \in calls : c.deal \in Deals
  BY TypeParts, RequestTypes DEF RequestTypeOK, CallRecords
<1> USE DEF PageTypeOK
<1>1. CASE SwitchTab \/ Decide
  <2>1. left' \in [acts : Nat, events : Nat]
    BY <1>0, <1>1, SpendIsTyped DEF SwitchTab, Decide
  <2>2. excused' \subseteq Deals
    BY <1>0, <1>1, ExcusesAreDeals DEF SwitchTab, Decide
  <2> QED BY <1>0, <1>1, <2>1, <2>2 DEF SwitchTab, Decide
<1>2. CASE SaveKey
  <2>1. left' \in [acts : Nat, events : Nat]
    BY <1>0, <1>2, SpendIsTyped DEF SaveKey
  <2> QED BY <1>0, <1>2, <2>1 DEF SaveKey
<1>3. ASSUME NEW p \in polls, PollAnswered(p) \/ PollFails(p) PROVE PageTypeOK'
  <2>1. left' \in [acts : Nat, events : Nat]
    BY <1>0, <1>3, SpendIsTyped DEF PollAnswered, PollFails
  <2>2. excused' \subseteq Deals
    BY <1>0, <1>3, ExcusesAreDeals DEF PollAnswered, PollFails
  <2>3. status' \in {"loading", "ready", "unauthorized", "error"}
    BY <1>3 DEF PollAnswered, PollFails
  <2> QED BY <1>0, <1>3, <2>1, <2>2, <2>3 DEF PollAnswered, PollFails
<1>4. ASSUME NEW c \in calls, CallServed(c) \/ CallMarked(c) PROVE PageTypeOK'
  <2>1. /\ row' \in {row, [row EXCEPT ![c.deal] = "decided"]}
        /\ settled' \in {settled, [settled EXCEPT ![c.deal] = @ + 1]}
    <3>1. CASE Carries(c)
      BY <3>1, CarriesOn
    <3>2. CASE ~Carries(c)
      BY <1>4, <3>2 DEF CallServed, CallMarked
    <3> QED BY <3>1, <3>2
  <2>2. row' \in [Deals -> {"pending", "decided"}]
    BY <1>0, <2>1
  <2>3. settled' \in [Deals -> Nat]
    <3>1. settled[c.deal] + 1 \in Nat
      BY <1>0
    <3> QED BY <1>0, <2>1, <3>1
  <2> QED BY <1>0, <1>4, <2>2, <2>3 DEF CallServed, CallMarked
<1>5. ASSUME NEW c \in calls, CallBreaks(c) PROVE PageTypeOK'
  <2>1. left' \in [acts : Nat, events : Nat]
    BY <1>0, <1>5, SpendIsTyped DEF CallBreaks
  <2> QED BY <1>0, <1>5, <2>1 DEF CallBreaks
<1>6. ASSUME NEW c \in calls, DecisionDone(c) \/ RepostConfirmed(c) PROVE PageTypeOK'
  BY <1>0, <1>6 DEF DecisionDone, RepostConfirmed
<1>7. ASSUME NEW c \in calls, RepostDeclined(c) \/ DecisionFailed(c) \/ CallLost(c)
      PROVE  PageTypeOK'
  <2>1. RestoreSnapshot(c)
    BY <1>7 DEF RepostDeclined, DecisionFailed, CallLost
  <2>2. excused' \subseteq Deals
    BY <1>0, <2>1, ExcusesAreDeals DEF RestoreSnapshot
  <2>3. status' \in {"loading", "ready", "unauthorized", "error"}
    BY <1>0, <1>7 DEF RepostDeclined, DecisionFailed, CallLost
  <2>4. left' \in [acts : Nat, events : Nat]
    BY <1>0, <1>7, SpendIsTyped DEF RepostDeclined, DecisionFailed, CallLost
  <2> QED BY <1>0, <2>1, <2>2, <2>3, <2>4 DEF RestoreSnapshot
<1>8. ASSUME NEW d \in Deals, Edit(d) PROVE PageTypeOK'
  <2>1. left' \in [acts : Nat, events : Nat]
    BY <1>0, <1>8, SpendIsTyped DEF Edit
  <2> QED BY <1>0, <1>8, <2>1 DEF Edit
<1>9. ASSUME NEW d \in Deals, Elsewhere(d) PROVE PageTypeOK'
  <2>1. left' \in [acts : Nat, events : Nat]
    BY <1>0, <1>9, SpendIsTyped DEF Elsewhere
  <2>2. row' \in [Deals -> {"pending", "decided"}] /\ recent' \in [Deals -> BOOLEAN]
    BY <1>0, <1>9 DEF Elsewhere
  <2> QED BY <1>0, <1>9, <2>1, <2>2 DEF Elsewhere
<1>10. CASE KeyRotates
  <2>1. left' \in [acts : Nat, events : Nat]
    BY <1>0, <1>10, SpendIsTyped DEF KeyRotates
  <2> QED BY <1>0, <1>10, <2>1 DEF KeyRotates
<1>11. CASE PollStarts \/ PreviewArrives \/ UNCHANGED vars
  BY <1>0, <1>11 DEF PollStarts, PreviewArrives, vars, appVars
<1> QED
  BY <1>1, <1>2, <1>3, <1>4, <1>5, <1>6, <1>7, <1>8, <1>9, <1>10, <1>11 DEF PanelNext, CallStep

-----------------------------------------------------------------------------
(* The theorems. *)

LEMMA Initially == Init => IInv
<1> SUFFICES ASSUME Init PROVE IInv
  OBVIOUS
<1> USE DEF Init, CardInit
<1>1. PageTypeOK
  BY PanelAssumption DEF PageTypeOK
<1>2. RequestTypeOK
  <2>1. NoList \in [{} -> BOOLEAN]
    BY DEF NoList
  <2> QED BY <2>1, ListIsTyped DEF RequestTypeOK
<1>3. CardTypeOK
  BY FreshIsTyped DEF CardTypeOK
<1>4. \A d \in Deals : card[d] = Fresh /\ settled[d] = 0
  OBVIOUS
<1>5. CardInv
  BY <1>3, <1>4, FreshIsTyped
     DEF CardInv, UnmountedIsFresh, DueHasEdits, LastIsCurrent, SeesWhatIsSent, Fresh
<1>6. CallInv
  BY <1>4 DEF CallInv, OneCall
<1> QED BY <1>1, <1>2, <1>3, <1>5, <1>6, TypeParts DEF IInv

(* The inductive invariant: every step of the page, the server and the
   answers keeps it. *)
THEOREM Invariance == Spec => []IInv
<1>1. IInv /\ [PanelNext]_vars => IInv'
  <2> SUFFICES ASSUME IInv, [PanelNext]_vars PROVE IInv'
    OBVIOUS
  <2>1. CardInv' /\ CallInv'
    BY CardStep, CallStepKeeps DEF IInv
  <2>2. PageTypeOK' /\ RequestTypeOK'
    BY PageTypes, RequestTypes DEF IInv
  <2>3. TypeOK'
    BY <2>1, <2>2, TypeParts DEF CardInv, TypeOK, PageTypeOK, RequestTypeOK, PollRecords,
                                    CallRecords, CallStates
  <2> QED BY <2>1, <2>3 DEF IInv
<1> QED BY <1>1, Initially, PTL DEF Spec

(* Every variable of the page keeps its type (App.tsx, DealCard.tsx). *)
THEOREM TypeCorrect == Spec => []TypeOK
<1>1. IInv => TypeOK
  BY DEF IInv
<1> QED BY <1>1, Invariance, PTL

(* A card shows the caption that approving it now would publish, whatever
   order its previews come in and however often it is mounted. *)
THEOREM YouSeeWhatYouSend == Spec => []WhatYouSee
<1>1. IInv => WhatYouSee
  BY CardsAreDeals DEF IInv, CardInv, SeesWhatIsSent, WhatYouSee
<1> QED BY <1>1, Invariance, PTL

(* A row is decided once from the page, also when connections of its decisions
   break and their handlers go on, unless its card came back while a decision
   was open or a handler broke off after the send path (App.tsx,
   approval-queue.service.ts). *)
THEOREM RowsAreDecidedOnce == Spec => []OneDecision
<1>1. IInv => OneDecision
  BY DEF IInv, TypeOK, CallInv, OneCall, OneDecision
<1> QED BY <1>1, Invariance, PTL

(* No recently posted product is handed to the send path again without a
   dialog, unless the dedup lookup of that approval failed
   (ApprovalQueueService.postedDaysAgo). *)
THEOREM RepostsAreConfirmed == Spec => RepostIsConfirmed
<1>1. IInv /\ [PanelNext]_vars =>
        [\A c \in calls' \ calls : settled' # settled /\ c.pc = "sending" /\ recent[c.deal]
                                   => c.asked \/ c.blind]_vars
  <2> SUFFICES ASSUME IInv, PanelNext, NEW new \in calls' \ calls, settled' # settled,
                      new.pc = "sending", recent[new.deal]
               PROVE  new.asked \/ new.blind
    OBVIOUS
  <2>0. calls \subseteq CallRecords /\ (\A c \in calls : c.override => c.asked)
        /\ recent \in [Deals -> BOOLEAN]
    BY TypeParts DEF IInv, CallInv, RequestTypeOK, PageTypeOK
  <2>1. PICK c \in calls : CallServed(c)
    BY DEF PanelNext, PollStarts, SaveKey, SwitchTab, Decide, PollAnswered, PollFails,
           CallStep, CallMarked, DecisionDone, RepostConfirmed, RepostDeclined,
           DecisionFailed, CallBreaks, CallLost, RestoreSnapshot, Edit, Elsewhere,
           PreviewArrives, KeyRotates, appVars
  <2>2. Carries(c)
    BY <2>1 DEF CallServed
  <2>3. ASSUME NEW pc \in CallStates, pc # "sending", Answer(c, pc) PROVE FALSE
    <3>1. new = [c EXCEPT !.pc = pc]
      BY <2>3 DEF Answer
    <3> QED BY <2>0, <2>3, <3>1, AnswerIsTyped
  <2>4. PICK posted \in LookupSays(c.deal) :
          /\ posted => c.override
          /\ Becomes(c, [c EXCEPT !.pc = "sending", !.blind = posted # recent[c.deal]])
    BY <2>2, <2>3, CarriesOn DEF CallStates
  <2>5. new = [c EXCEPT !.pc = "sending", !.blind = posted # recent[c.deal]]
    BY <2>4 DEF Becomes
  <2>6. /\ new.deal = c.deal /\ new.asked = c.asked
        /\ new.blind = (posted # recent[c.deal])
    BY <2>0, <2>5 DEF CallRecords
  <2>7. posted = recent[c.deal] \/ new.blind
    BY <2>6
  <2> QED BY <2>0, <2>4, <2>6, <2>7
<1> QED BY <1>1, Invariance, PTL DEF Spec, RepostIsConfirmed

-----------------------------------------------------------------------------
(* The composer and the settings. *)

(* A preview is asked for and shown only of a form that can be sent. *)
PreviewInv == /\ SettledPreview
              /\ debounce => CanSend(form)
              /\ \A f \in asked : CanSend(f)
              /\ debounce \in BOOLEAN /\ late \in BOOLEAN

LEMMA FormSetSettles ==
  ASSUME PreviewInv, NEW f, FormSet(f), UNCHANGED asked
  PROVE  PreviewInv'
<1>1. CASE f = form
  <2>1. UNCHANGED <<form, shown, debounce, late, asked>>
    BY <1>1 DEF FormSet
  <2> QED BY <2>1 DEF PreviewInv, SettledPreview, CanSend
<1>2. CASE f # form /\ CanSend(f)
  BY <1>2 DEF FormSet, PreviewInv, SettledPreview, CanSend
<1>3. CASE f # form /\ ~CanSend(f)
  BY <1>3 DEF FormSet, PreviewInv, SettledPreview, CanSend
<1> QED BY <1>1, <1>2, <1>3

(* When no preview is due or on its way, the composer shows the caption of
   the form (ManualComposer.tsx), but for answers that came late or never. *)
THEOREM PreviewSettles ==
  ComposerInit /\ [][ComposerNext]_composerVars => []SettledPreview
<1>1. ComposerInit => PreviewInv
  BY DEF ComposerInit, PreviewInv, SettledPreview, CanSend, Empty
<1>2. PreviewInv /\ [ComposerNext]_composerVars => PreviewInv'
  <2> SUFFICES ASSUME PreviewInv, [ComposerNext]_composerVars PROVE PreviewInv'
    OBVIOUS
  <2>1. ASSUME UNCHANGED <<form, shown, debounce, asked, late>> PROVE PreviewInv'
    BY <2>1 DEF PreviewInv, SettledPreview, CanSend
  <2>2. CASE TypeField
    BY <2>2, FormSetSettles DEF TypeField
  <2>3. CASE ComposerAsks
    BY <2>3 DEF ComposerAsks, PreviewInv, SettledPreview, CanSend
  <2>4. ASSUME NEW f \in asked, ComposerPreviewed(f) PROVE PreviewInv'
    <3>1. UNCHANGED <<form, debounce>> /\ asked' = asked \ {f}
      BY <2>4 DEF ComposerPreviewed
    <3>2. CASE shown' = f /\ late' = (f # form)
      BY <3>1, <3>2 DEF PreviewInv, SettledPreview, CanSend
    <3>3. CASE UNCHANGED shown /\ late' = TRUE
      BY <3>1, <3>3 DEF PreviewInv, SettledPreview, CanSend
    <3> QED BY <2>4, <3>2, <3>3 DEF ComposerPreviewed
  <2>5. CASE ResolveStarts \/ SubmitStarts \/ UNCHANGED composerVars
    BY <2>1, <2>5 DEF ResolveStarts, SubmitStarts, composerVars, screen
  <2>6. CASE Resolved
    BY <2>1, <2>6, FormSetSettles DEF Resolved
  <2>7. CASE Remount
    BY <2>7 DEF Remount, PreviewInv, SettledPreview, CanSend, Empty
  <2>8. ASSUME NEW s \in submits, CardStored(s) \/ CardApproved(s) \/ SubmitLost(s)
        PROVE  PreviewInv'
    BY <2>1, <2>8 DEF CardStored, CardApproved, SubmitLost, screen
  <2>9. ASSUME NEW s \in submits, SubmitAnswered(s) PROVE PreviewInv'
    BY <2>1, <2>9, FormSetSettles DEF SubmitAnswered
  <2> QED BY <2>2, <2>3, <2>4, <2>5, <2>6, <2>7, <2>8, <2>9 DEF ComposerNext
<1>3. PreviewInv => SettledPreview
  BY DEF PreviewInv
<1> QED BY <1>1, <1>2, <1>3, PTL

ClicksOK == clicks \in [acts : Nat, faults : Nat]

LEMMA ClicksAreCounted == ClicksOK /\ [SettingsNext]_settingsVars => ClicksOK'
<1> SUFFICES ASSUME ClicksOK, [SettingsNext]_settingsVars PROVE ClicksOK'
  OBVIOUS
<1> USE DEF ClicksOK
<1>1. CASE SpendClick
  <2>1. clicks.acts - 1 \in Nat
    BY <1>1 DEF SpendClick
  <2> QED BY <1>1, <2>1 DEF SpendClick
<1>2. CASE SpendFault
  <2>1. clicks.faults - 1 \in Nat
    BY <1>2 DEF SpendFault
  <2> QED BY <1>2, <2>1 DEF SpendFault
<1>3. CASE UNCHANGED clicks
  BY <1>3
<1>4. CASE UNCHANGED settingsVars
  BY <1>3, <1>4 DEF settingsVars
<1>5. CASE SettingsNext
  <2>1. CASE Reload \/ AppRenders
    BY <1>2, <1>3, <2>1 DEF Reload, AppRenders
  <2>2. ASSUME NEW k \in Keys, Draft(k) \/ Save(k) \/ SavedElsewhere(k) PROVE ClicksOK'
    BY <1>1, <1>2, <2>2 DEF Draft, Save, SavedElsewhere
  <2>3. ASSUME NEW s \in saves,
               \/ SaveWrites(s) \/ SaveReads(s) \/ SaveBreaks(s)
               \/ SaveLost(s) \/ SaveFailed(s) \/ SaveAnswered(s) \/ Loaded(s)
        PROVE  ClicksOK'
    BY <1>2, <1>3, <2>3
       DEF SaveWrites, SaveReads, SaveBreaks, SaveLost, SaveFailed, SaveAnswered, Loaded, Applied
  <2> QED BY <1>5, <2>1, <2>2, <2>3 DEF SettingsNext
<1> QED BY <1>4, <1>5

(* What is typed in a mounted field changes by typing, or with that field's
   value on the server, and never by an answer about another field
   (ConfigPanel.tsx). *)
THEOREM DraftsAreKept == SettingsInit /\ [][SettingsNext]_settingsVars => DraftKept
<1>1. SettingsInit => ClicksOK
  BY SettingsAssumption DEF SettingsInit, ClicksOK
<1>2. ClicksOK /\ [SettingsNext]_settingsVars =>
        [\A k \in Keys : phase = "ready" /\ phase' = "ready" /\ draft'[k] # draft[k]
           => values'[k] # values[k] \/ clicks'.acts < clicks.acts]_settingsVars
  <2> SUFFICES ASSUME ClicksOK, SettingsNext, NEW k \in Keys,
                      phase = "ready", phase' = "ready", draft'[k] # draft[k]
               PROVE  values'[k] # values[k] \/ clicks'.acts < clicks.acts
    OBVIOUS
  <2>1. ASSUME SpendClick PROVE clicks'.acts < clicks.acts
    BY <2>1 DEF SpendClick, ClicksOK
  <2>2. ~(Reload \/ AppRenders)
    BY DEF Reload, AppRenders, Load
  <2>3. ASSUME NEW j \in Keys, Draft(j) \/ Save(j) \/ SavedElsewhere(j)
        PROVE  clicks'.acts < clicks.acts
    BY <2>1, <2>3 DEF Draft, Save, SavedElsewhere
  <2>4. ASSUME NEW s \in saves,
               \/ SaveWrites(s) \/ SaveReads(s) \/ SaveBreaks(s)
               \/ SaveLost(s) \/ SaveFailed(s) \/ SaveAnswered(s) \/ Loaded(s)
        PROVE  values'[k] # values[k]
    <3>1. SaveAnswered(s) \/ Loaded(s)
      BY <2>4 DEF SaveWrites, SaveReads, SaveBreaks, SaveLost, SaveFailed, Failed
    <3>2. values' = s.got /\ draft' = Synced(s.got)
      BY <3>1 DEF SaveAnswered, Loaded, Applied
    <3> QED BY <3>2 DEF Synced
  <2> QED BY <2>2, <2>3, <2>4 DEF SettingsNext
<1> QED BY <1>1, <1>2, ClicksAreCounted, PTL DEF DraftKept

-----------------------------------------------------------------------------
(* The composer: what was handed over once is gone from the screen. *)

Used == MaxWork - work.acts
WorkOK == work \in [acts : 0..MaxWork, lost : Nat]

SubmitStates == [pc : {"sent", "stored", "ok", "refused", "lost"}, f : Forms,
                 dispatch : BOOLEAN, mounted : BOOLEAN]

(* Products are numbered as they come. *)
ProductsKnown ==
  /\ form.product \in 0..Used /\ resolving \in 0..Used
  /\ \A s \in submits : s.f.product \in 1..Used
  /\ \A f \in Forms : handed[f] > 0 => f.product \in 1..Used

(* A resolution brings a product that is nowhere else. *)
ResolvesNews ==
  resolving # 0 => /\ form.product # resolving
                   /\ \A s \in submits : s.f.product # resolving

(* The product of a composer that was left does not come back. *)
LeftBehind == \A s \in submits : ~s.mounted => s.f.product \notin {form.product, resolving}

OneSubmits ==
  /\ \A s, t \in submits : s.f.product = t.f.product => s = t
  /\ \A s \in submits : s.mounted => busy /\ \A t \in submits : t.mounted => t = s

GoneFrom(f) == /\ f.product \notin {form.product, resolving}
               /\ \A s \in submits : s.f.product # f.product

(* A form handed over is about to be cleared, or is gone. *)
HandedIsOver ==
  \A f \in Forms : handed[f] > 0 /\ f \notin lost =>
    \/ \E s \in submits : s.f = f /\ s.pc = "ok"
    \/ GoneFrom(f)

ComposeInv == /\ ComposerTypeOK
              /\ WorkOK
              /\ ProductsKnown
              /\ ResolvesNews
              /\ LeftBehind
              /\ OneSubmits
              /\ HandedIsOver
              /\ ResubmitNeedsLoss

LEMMA ComposerTyped ==
  ASSUME ComposerTypeOK, WorkOK
  PROVE  /\ form \in Forms /\ shown \in Forms /\ resolving \in Contents
         /\ busy \in BOOLEAN /\ debounce \in BOOLEAN /\ late \in BOOLEAN
         /\ asked \subseteq Forms /\ queued \subseteq Forms /\ lost \subseteq Forms
         /\ submits \subseteq SubmitStates /\ handed \in [Forms -> Nat]
         /\ MaxWork \in Nat /\ MaxLost \in Nat
         /\ work \in [acts : 0..MaxWork, lost : Nat]
         /\ Used \in 0..MaxWork /\ 0 \in Contents
  <1>1. MaxWork \in Nat /\ MaxLost \in Nat
    BY ComposerAssumption
  <1>2. work \in [acts : 0..MaxWork, lost : Nat]
    BY DEF WorkOK
  <1>3. Used \in 0..MaxWork
    BY <1>1, <1>2 DEF Used
  <1> QED BY <1>1, <1>2, <1>3 DEF ComposerTypeOK, SubmitStates, Contents

(* An act uses up the next number. *)
LEMMA ActUses ==
  ASSUME ComposeInv, SpendAct
  PROVE  /\ New = Used + 1 /\ Used' = Used + 1 /\ New \in Contents /\ New > 0
         /\ WorkOK' /\ \A n : n \in 0..Used => n \in 0..Used' /\ n # New
         /\ \A n : n \in 1..Used => n \in 1..Used' /\ n # New
<1>1. work.acts \in 1..MaxWork /\ MaxWork \in Nat /\ Used \in 0..MaxWork
  BY ComposerTyped DEF ComposeInv, SpendAct
<1>2. work' = [work EXCEPT !.acts = @ - 1]
  BY DEF SpendAct
<1>3. work'.acts = work.acts - 1 /\ WorkOK'
  BY <1>1, <1>2, ComposerTyped DEF ComposeInv, WorkOK
<1>4. New = Used + 1 /\ Used' = Used + 1 /\ New \in Contents
  BY <1>1, <1>3 DEF New, Used, Contents
<1> QED BY <1>1, <1>3, <1>4

LEMMA LossUses ==
  ASSUME ComposeInv, SpendLoss PROVE Used' = Used /\ WorkOK'
<1>1. work.lost - 1 \in Nat
  BY ComposerTyped DEF ComposeInv, SpendLoss
<1> QED BY <1>1, ComposerTyped DEF ComposeInv, SpendLoss, WorkOK, Used

LEMMA FormSetTyped ==
  ASSUME ComposerTypeOK, NEW f \in Forms, FormSet(f)
  PROVE  /\ form' = f /\ shown' \in Forms /\ debounce' \in BOOLEAN /\ late' \in BOOLEAN
<1>1. Empty \in Forms
  BY ComposerAssumption DEF Empty, Forms, Contents
<1> QED BY <1>1 DEF FormSet, ComposerTypeOK

(* The form is replaced by one of its own product, of none, of the one that
   is resolved or of a new one. *)
LEMMA FormMoves ==
  ASSUME ComposeInv, FormSet(form'), form' \in Forms, UNCHANGED <<submits, queued, handed, lost, busy>>,
         asked' \subseteq Forms, resolving' \in {resolving, 0}, WorkOK', Used' \in {Used, Used + 1},
         \/ form'.product \in {form.product, 0}
         \/ form'.product = resolving /\ resolving' = 0
         \/ form'.product = Used + 1 /\ Used' = Used + 1
  PROVE  ComposeInv'
<1>1. /\ Used \in Nat /\ Used' \in Nat /\ form.product \in 0..Used /\ resolving \in 0..Used
      /\ \A s \in submits : s.f.product \in 1..Used
      /\ \A f \in Forms : handed[f] > 0 => f.product \in 1..Used
  BY ComposerTyped DEF ComposeInv, ProductsKnown
<1>2. ComposerTypeOK'
  BY FormSetTyped, ComposerTyped DEF ComposeInv, ComposerTypeOK
<1>3. ProductsKnown'
  BY <1>1 DEF ProductsKnown
<1>4. ResolvesNews'
  BY <1>1 DEF ComposeInv, ResolvesNews
<1>5. LeftBehind'
  BY <1>1 DEF ComposeInv, LeftBehind
<1>6. OneSubmits' /\ ResubmitNeedsLoss'
  BY DEF ComposeInv, OneSubmits, ResubmitNeedsLoss
<1>7. ASSUME NEW f \in Forms, handed[f] > 0, GoneFrom(f) PROVE GoneFrom(f)'
  BY <1>1, <1>7 DEF GoneFrom
<1>8. HandedIsOver'
  BY <1>7 DEF ComposeInv, HandedIsOver
<1> QED BY <1>2, <1>3, <1>4, <1>5, <1>6, <1>8 DEF ComposeInv

LEMMA TypeFieldKeeps == ASSUME ComposeInv, TypeField PROVE ComposeInv'
<1>1. PICK field \in {"product", "coupon"}, v \in {0, New} : FormSet([form EXCEPT ![field] = v])
  BY DEF TypeField
<1> DEFINE f == [form EXCEPT ![field] = v]
<1>2. /\ SpendAct /\ UNCHANGED <<submits, queued, handed, lost, resolving, busy, asked>>
  BY DEF TypeField, server
<1>3. /\ New = Used + 1 /\ Used' = Used + 1 /\ New \in Contents /\ WorkOK'
      /\ form \in Forms /\ 0 \in Contents /\ asked \subseteq Forms
  BY <1>2, ActUses, ComposerTyped DEF ComposeInv
<1>4. f \in Forms /\ f.product \in {form.product, 0, New}
  <2>1. CASE field = "product"
    BY <1>3, <2>1 DEF Forms
  <2>2. CASE field = "coupon"
    BY <1>3, <2>2 DEF Forms
  <2> QED BY <2>1, <2>2
<1> HIDE DEF f
<1>5. FormSet(f) /\ form' = f
  BY <1>1 DEF f, FormSet
<1> QED BY <1>2, <1>3, <1>4, <1>5, FormMoves

LEMMA ResolvedKeeps == ASSUME ComposeInv, Resolved PROVE ComposeInv'
<1>1. /\ resolving # 0 /\ resolving' = 0
      /\ UNCHANGED <<submits, queued, handed, lost, work, busy, asked>>
      /\ form \in Forms /\ resolving \in Contents /\ asked \subseteq Forms
  BY ComposerTyped DEF Resolved, server, ComposeInv
<1>2. Used' = Used /\ WorkOK'
  BY <1>1 DEF Used, WorkOK, ComposeInv
<1>3. CASE FormSet([form EXCEPT !.product = resolving])
  <2> DEFINE f == [form EXCEPT !.product = resolving]
  <2>1. f \in Forms /\ f.product = resolving
    BY <1>1 DEF Forms
  <2> HIDE DEF f
  <2>2. FormSet(f) /\ form' = f
    BY <1>3 DEF f, FormSet
  <2> QED BY <1>1, <1>2, <2>1, <2>2, FormMoves
<1>4. CASE UNCHANGED <<form, shown, debounce, late>>
  <2>1. FormSet(form') /\ form' = form
    BY <1>4 DEF FormSet
  <2> QED BY <1>1, <1>2, <1>4, <2>1, FormMoves
<1> QED BY <1>3, <1>4 DEF Resolved

LEMMA ResolveStartsKeeps == ASSUME ComposeInv, ResolveStarts PROVE ComposeInv'
<1>1. /\ SpendAct /\ resolving = 0 /\ resolving' = New
      /\ UNCHANGED <<submits, queued, handed, lost, form, busy, shown, debounce, asked, late>>
  BY DEF ResolveStarts, server
<1>2. /\ New = Used + 1 /\ Used' = Used + 1 /\ New \in Contents /\ New > 0 /\ WorkOK'
      /\ Used \in Nat
      /\ form.product \in 0..Used
      /\ \A s \in submits : s.f.product \in 1..Used
      /\ \A f \in Forms : handed[f] > 0 => f.product \in 1..Used
  BY <1>1, ActUses, ComposerTyped DEF ComposeInv, ProductsKnown
<1>3. ComposerTypeOK'
  BY <1>1, <1>2 DEF ComposeInv, ComposerTypeOK
<1>4. ProductsKnown' /\ ResolvesNews'
  BY <1>1, <1>2 DEF ProductsKnown, ResolvesNews
<1>5. LeftBehind' /\ OneSubmits' /\ ResubmitNeedsLoss'
  BY <1>1, <1>2 DEF ComposeInv, LeftBehind, OneSubmits, ResubmitNeedsLoss
<1>6. HandedIsOver'
  BY <1>1, <1>2 DEF ComposeInv, HandedIsOver, GoneFrom
<1> QED BY <1>2, <1>3, <1>4, <1>5, <1>6 DEF ComposeInv

LEMMA SubmitStartsKeeps == ASSUME ComposeInv, SubmitStarts PROVE ComposeInv'
<1>1. PICK dispatch \in BOOLEAN :
        submits' = submits \union
          {[pc |-> "sent", f |-> form, dispatch |-> dispatch, mounted |-> TRUE]}
  BY DEF SubmitStarts
<1> DEFINE s0 == [pc |-> "sent", f |-> form, dispatch |-> dispatch, mounted |-> TRUE]
<1>2. /\ SpendAct /\ form.product # 0 /\ ~busy /\ busy' = TRUE
      /\ UNCHANGED <<queued, handed, lost, form, resolving, shown, debounce, asked, late>>
  BY DEF SubmitStarts, CanSend
<1>3. /\ WorkOK' /\ Used' = Used + 1 /\ Used \in Nat
      /\ form.product \in 1..Used /\ resolving \in 0..Used
      /\ \A s \in submits : s.f.product \in 1..Used
      /\ \A f \in Forms : handed[f] > 0 => f.product \in 1..Used
  BY <1>2, ActUses, ComposerTyped DEF ComposeInv, ProductsKnown
<1>4. s0 \in SubmitStates /\ s0.f = form /\ s0.mounted /\ submits' = submits \union {s0}
  BY <1>1, ComposerTyped DEF ComposeInv, SubmitStates
<1> HIDE DEF s0
<1>5. ComposerTypeOK'
  BY <1>2, <1>4 DEF ComposeInv, ComposerTypeOK, SubmitStates
<1>6. ProductsKnown' /\ ResolvesNews' /\ LeftBehind'
  BY <1>2, <1>3, <1>4 DEF ComposeInv, ProductsKnown, ResolvesNews, LeftBehind
<1>7. \A s \in submits : ~s.mounted /\ s.f.product # form.product
  BY <1>2 DEF ComposeInv, OneSubmits, LeftBehind
<1>8. OneSubmits'
  BY <1>2, <1>4, <1>7 DEF ComposeInv, OneSubmits
<1>9. HandedIsOver' /\ ResubmitNeedsLoss'
  BY <1>2, <1>4 DEF ComposeInv, HandedIsOver, GoneFrom, ResubmitNeedsLoss
<1> QED BY <1>3, <1>5, <1>6, <1>8, <1>9 DEF ComposeInv

(* A submission takes a step of its own: what HandedIsOver says is left to
   the step. *)
LEMMA SubmitMoved ==
  ASSUME ComposeInv, NEW s \in submits, NEW pc \in {"sent", "stored", "ok", "refused", "lost"},
         SubmitMoves(s, pc), UNCHANGED <<form, resolving, busy>>, WorkOK', Used' = Used,
         \A f \in Forms : handed'[f] > 0 => handed[f] > 0 \/ f = s.f
  PROVE  /\ submits' \subseteq SubmitStates
         /\ ProductsKnown' /\ ResolvesNews' /\ LeftBehind' /\ OneSubmits'
         /\ \A t \in submits : t # s => t \in submits'
         /\ \E t \in submits' : t.f = s.f /\ t.pc = pc
         /\ \A f \in Forms : GoneFrom(f) => GoneFrom(f)'
<1> DEFINE t == [s EXCEPT !.pc = pc]
<1>1. s \in SubmitStates /\ submits \subseteq SubmitStates
  BY ComposerTyped DEF ComposeInv
<1>2. /\ t \in SubmitStates /\ t.f = s.f /\ t.mounted = s.mounted /\ t.pc = pc
      /\ submits' = (submits \ {s}) \union {t}
  BY <1>1 DEF SubmitStates, SubmitMoves
<1> HIDE DEF t
<1>3. ProductsKnown' /\ ResolvesNews'
  BY <1>2 DEF ComposeInv, ProductsKnown, ResolvesNews
<1>4. LeftBehind'
  BY <1>2 DEF ComposeInv, LeftBehind
<1>5. OneSubmits'
  BY <1>2 DEF ComposeInv, OneSubmits
<1>6. \A f \in Forms : GoneFrom(f) => GoneFrom(f)'
  BY <1>2 DEF GoneFrom
<1> QED BY <1>1, <1>2, <1>3, <1>4, <1>5, <1>6

LEMMA CardStoredKeeps == ASSUME ComposeInv, NEW s \in submits, CardStored(s) PROVE ComposeInv'
<1>1. /\ s.pc = "sent" /\ queued' = queued \union {s.f}
      /\ UNCHANGED <<form, resolving, busy, shown, debounce, asked, late, work, handed, lost>>
      /\ s \in SubmitStates
  BY ComposerTyped DEF CardStored, screen, ComposeInv
<1>2. PICK pc \in {"stored", "ok"} : SubmitMoves(s, pc)
  BY DEF CardStored
<1>3. Used' = Used /\ WorkOK'
  BY <1>1 DEF Used, WorkOK, ComposeInv
<1>4. /\ submits' \subseteq SubmitStates
      /\ ProductsKnown' /\ ResolvesNews' /\ LeftBehind' /\ OneSubmits'
      /\ \A t \in submits : t # s => t \in submits'
      /\ \A f \in Forms : GoneFrom(f) => GoneFrom(f)'
  BY <1>1, <1>2, <1>3, SubmitMoved
<1>5. ComposerTypeOK'
  BY <1>1, <1>4 DEF ComposeInv, ComposerTypeOK, SubmitStates
<1>6. HandedIsOver' /\ ResubmitNeedsLoss'
  BY <1>1, <1>4 DEF ComposeInv, HandedIsOver, ResubmitNeedsLoss
<1> QED BY <1>3, <1>4, <1>5, <1>6 DEF ComposeInv

(* The form is handed over: for the first time, unless a submission of it was
   lost. *)
LEMMA CardApprovedKeeps == ASSUME ComposeInv, NEW s \in submits, CardApproved(s) PROVE ComposeInv'
<1>1. /\ s.pc = "stored"
      /\ UNCHANGED <<form, resolving, busy, shown, debounce, asked, late, work, lost>>
      /\ s.f \in Forms /\ s.f.product \in 1..Used
  BY ComposerTyped DEF CardApproved, screen, ComposeInv, SubmitStates, ProductsKnown
<1>2. Used' = Used /\ WorkOK'
  BY <1>1 DEF Used, WorkOK, ComposeInv
<1>3. CASE SubmitMoves(s, "refused") /\ UNCHANGED <<queued, handed>>
  <2>1. /\ submits' \subseteq SubmitStates
        /\ ProductsKnown' /\ ResolvesNews' /\ LeftBehind' /\ OneSubmits'
        /\ \A t \in submits : t # s => t \in submits'
        /\ \A f \in Forms : GoneFrom(f) => GoneFrom(f)'
    BY <1>1, <1>2, <1>3, SubmitMoved
  <2>2. ComposerTypeOK'
    BY <1>1, <1>3, <2>1 DEF ComposeInv, ComposerTypeOK, SubmitStates
  <2>3. HandedIsOver' /\ ResubmitNeedsLoss'
    BY <1>1, <1>3, <2>1 DEF ComposeInv, HandedIsOver, ResubmitNeedsLoss
  <2> QED BY <1>2, <2>1, <2>2, <2>3 DEF ComposeInv
<1>4. CASE /\ handed' = [handed EXCEPT ![s.f] = @ + 1] /\ queued' = queued \ {s.f}
           /\ SubmitMoves(s, "ok")
  <2>1. /\ handed \in [Forms -> Nat] /\ handed' \in [Forms -> Nat]
        /\ handed'[s.f] = handed[s.f] + 1
        /\ \A f \in Forms : f # s.f => handed'[f] = handed[f]
    BY <1>1, <1>4, ComposerTyped DEF ComposeInv
  <2>2. /\ submits' \subseteq SubmitStates
        /\ ProductsKnown' /\ ResolvesNews' /\ LeftBehind' /\ OneSubmits'
        /\ \A t \in submits : t # s => t \in submits'
        /\ \E t \in submits' : t.f = s.f /\ t.pc = "ok"
        /\ \A f \in Forms : GoneFrom(f) => GoneFrom(f)'
    BY <1>1, <1>2, <1>4, <2>1, SubmitMoved
  <2>3. ComposerTypeOK'
    BY <1>1, <1>4, <2>1, <2>2 DEF ComposeInv, ComposerTypeOK, SubmitStates
  <2>4. HandedIsOver'
    BY <1>1, <2>1, <2>2 DEF ComposeInv, HandedIsOver
  <2>5. handed[s.f] > 0 => s.f \in lost
    BY <1>1 DEF ComposeInv, HandedIsOver, OneSubmits, GoneFrom
  <2>6. ResubmitNeedsLoss'
    BY <1>1, <2>1, <2>5 DEF ComposeInv, ResubmitNeedsLoss
  <2> QED BY <1>2, <2>2, <2>3, <2>4, <2>6 DEF ComposeInv
<1> QED BY <1>3, <1>4 DEF CardApproved

LEMMA SubmitLostKeeps == ASSUME ComposeInv, NEW s \in submits, SubmitLost(s) PROVE ComposeInv'
<1>1. /\ SpendLoss /\ SubmitMoves(s, "lost") /\ lost' = lost \union {s.f}
      /\ UNCHANGED <<form, resolving, busy, shown, debounce, asked, late, queued, handed>>
      /\ s.f \in Forms
  BY ComposerTyped DEF SubmitLost, screen, ComposeInv, SubmitStates
<1>2. Used' = Used /\ WorkOK'
  BY <1>1, LossUses
<1>3. /\ submits' \subseteq SubmitStates
      /\ ProductsKnown' /\ ResolvesNews' /\ LeftBehind' /\ OneSubmits'
      /\ \A t \in submits : t # s => t \in submits'
      /\ \A f \in Forms : GoneFrom(f) => GoneFrom(f)'
  BY <1>1, <1>2, SubmitMoved
<1>4. ComposerTypeOK'
  BY <1>1, <1>3 DEF ComposeInv, ComposerTypeOK, SubmitStates
<1>5. HandedIsOver' /\ ResubmitNeedsLoss'
  BY <1>1, <1>3 DEF ComposeInv, HandedIsOver, ResubmitNeedsLoss
<1> QED BY <1>2, <1>3, <1>4, <1>5 DEF ComposeInv

(* A submission is over; a success of the composer that is still there clears
   the form, so what was handed over is gone. *)
LEMMA SubmitAnsweredKeeps ==
  ASSUME ComposeInv, NEW s \in submits, SubmitAnswered(s) PROVE ComposeInv'
<1>1. /\ s.pc \in {"ok", "refused", "lost"} /\ submits' = submits \ {s}
      /\ UNCHANGED <<work, queued, handed, lost, resolving, asked>>
      /\ s \in SubmitStates /\ s.f.product \in 1..Used
      /\ Used \in Nat /\ form.product \in 0..Used /\ resolving \in 0..Used
      /\ \A f \in Forms : handed[f] > 0 => f.product \in 1..Used
  BY ComposerTyped DEF SubmitAnswered, ComposeInv, ProductsKnown
<1>2. Used' = Used /\ WorkOK'
  BY <1>1 DEF Used, WorkOK, ComposeInv
<1>3. /\ \/ UNCHANGED <<form, shown, debounce, late>>
         \/ FormSet(Empty)
      /\ s.mounted /\ s.pc = "ok" => form' = Empty
      /\ busy' = (busy /\ ~s.mounted)
  BY ComposerTyped DEF SubmitAnswered, ComposeInv, FormSet
<1>4. /\ Empty \in Forms /\ Empty.product = 0
  BY ComposerAssumption DEF Empty, Forms, Contents
<1>5. /\ form'.product \in {form.product, 0} /\ form' \in Forms
      /\ shown' \in Forms /\ debounce' \in BOOLEAN /\ late' \in BOOLEAN
  BY <1>3, <1>4, FormSetTyped, ComposerTyped DEF ComposeInv, FormSet
<1>6. ComposerTypeOK'
  BY <1>1, <1>3, <1>5 DEF ComposeInv, ComposerTypeOK
<1>7. ProductsKnown' /\ ResolvesNews'
  BY <1>1, <1>2, <1>5 DEF ComposeInv, ProductsKnown, ResolvesNews
<1>8. LeftBehind'
  BY <1>1, <1>5 DEF ComposeInv, LeftBehind, ProductsKnown
<1>9. OneSubmits'
  BY <1>1, <1>3 DEF ComposeInv, OneSubmits
<1>10. ASSUME NEW f \in Forms, handed[f] > 0, GoneFrom(f) PROVE GoneFrom(f)'
  BY <1>1, <1>5, <1>10 DEF GoneFrom
<1>11. ASSUME s.pc = "ok", handed[s.f] > 0, s.f \in Forms PROVE GoneFrom(s.f)'
  <2>1. s.f.product # resolving
    BY <1>1 DEF ComposeInv, ResolvesNews
  <2>2. s.f.product # form'.product
    <3>1. CASE s.mounted
      BY <1>1, <1>3, <1>4, <1>11, <3>1
    <3>2. CASE ~s.mounted
      BY <1>1, <1>5, <3>2 DEF ComposeInv, LeftBehind
    <3> QED BY <3>1, <3>2
  <2>3. \A t \in submits' : t.f.product # s.f.product
    BY <1>1 DEF ComposeInv, OneSubmits
  <2> QED BY <1>1, <2>1, <2>2, <2>3 DEF GoneFrom
<1>12. HandedIsOver'
  BY <1>1, <1>10, <1>11 DEF ComposeInv, HandedIsOver
<1>13. ResubmitNeedsLoss'
  BY <1>1 DEF ComposeInv, ResubmitNeedsLoss
<1> QED BY <1>2, <1>6, <1>7, <1>8, <1>9, <1>12, <1>13 DEF ComposeInv

LEMMA RemountKeeps == ASSUME ComposeInv, Remount PROVE ComposeInv'
<1>1. /\ SpendAct /\ form' = Empty /\ resolving' = 0 /\ busy' = FALSE
      /\ shown' = Empty /\ debounce' = FALSE /\ asked' = {} /\ late' = FALSE
      /\ submits' = {[s EXCEPT !.mounted = FALSE] : s \in submits}
      /\ UNCHANGED <<queued, handed, lost>>
  BY DEF Remount
<1>2. /\ WorkOK' /\ Used' = Used + 1 /\ Used \in Nat
      /\ \A s \in submits : s.f.product \in 1..Used
      /\ \A f \in Forms : handed[f] > 0 => f.product \in 1..Used
      /\ submits \subseteq SubmitStates
  BY <1>1, ActUses, ComposerTyped DEF ComposeInv, ProductsKnown
<1>3. Empty \in Forms /\ Empty.product = 0
  BY ComposerAssumption DEF Empty, Forms, Contents
<1>4. ASSUME NEW s \in submits
      PROVE  LET t == [s EXCEPT !.mounted = FALSE]
             IN  /\ t \in SubmitStates /\ ~t.mounted /\ t.f = s.f /\ t.pc = s.pc
                 /\ t \in submits'
  BY <1>1, <1>2 DEF SubmitStates
<1>5. \A t \in submits' : \E s \in submits :
        /\ t = [s EXCEPT !.mounted = FALSE]
        /\ t \in SubmitStates /\ ~t.mounted /\ t.f = s.f /\ t.pc = s.pc
  BY <1>1, <1>4, ZenonT(30)
<1>6. ComposerTypeOK'
  <2>1. submits' \subseteq SubmitStates /\ resolving' \in Contents
    BY <1>1, <1>5, ComposerTyped DEF ComposeInv
  <2> QED BY <1>1, <1>3, <2>1 DEF ComposeInv, ComposerTypeOK, SubmitStates
<1>7. ProductsKnown' /\ ResolvesNews' /\ LeftBehind'
  BY <1>1, <1>2, <1>3, <1>5 DEF ProductsKnown, ResolvesNews, LeftBehind
<1>8. OneSubmits'
  <2>1. ASSUME NEW t \in submits', NEW u \in submits', t.f.product = u.f.product PROVE t = u
    <3>1. PICK a \in submits : t = [a EXCEPT !.mounted = FALSE] /\ t.f = a.f
      BY <1>5
    <3>2. PICK b \in submits : u = [b EXCEPT !.mounted = FALSE] /\ u.f = b.f
      BY <1>5
    <3>3. a = b
      BY <2>1, <3>1, <3>2 DEF ComposeInv, OneSubmits
    <3> QED BY <3>1, <3>2, <3>3
  <2>2. \A t \in submits' : ~t.mounted
    BY <1>5
  <2> QED BY <2>1, <2>2 DEF OneSubmits
<1>9. ASSUME NEW f \in Forms, handed[f] > 0, GoneFrom(f) PROVE GoneFrom(f)'
  BY <1>1, <1>2, <1>3, <1>5, <1>9 DEF GoneFrom
<1>10. ASSUME NEW f \in Forms, NEW s \in submits, s.f = f, s.pc = "ok"
       PROVE  \E t \in submits' : t.f = f /\ t.pc = "ok"
  BY <1>4, <1>10
<1>11. HandedIsOver' /\ ResubmitNeedsLoss'
  BY <1>1, <1>9, <1>10 DEF ComposeInv, HandedIsOver, ResubmitNeedsLoss
<1> QED BY <1>2, <1>6, <1>7, <1>8, <1>11 DEF ComposeInv

LEMMA PreviewsKeep ==
  ASSUME ComposeInv,
         ComposerAsks \/ (\E f \in asked : ComposerPreviewed(f)) \/ UNCHANGED composerVars
  PROVE  ComposeInv'
<1>1. /\ UNCHANGED <<form, resolving, busy, submits, queued, handed, lost, work>>
      /\ asked' \subseteq Forms /\ shown' \in Forms
      /\ debounce' \in BOOLEAN /\ late' \in BOOLEAN
  BY ComposerTyped
  DEF ComposerAsks, ComposerPreviewed, composerVars, screen, server, ComposeInv
<1>2. ComposerTypeOK'
  BY <1>1 DEF ComposeInv, ComposerTypeOK
<1> QED BY <1>1, <1>2 DEF ComposeInv, WorkOK, Used, ProductsKnown, ResolvesNews, LeftBehind,
                          OneSubmits, HandedIsOver, GoneFrom, ResubmitNeedsLoss

LEMMA ComposerStarts == ComposerInit => ComposeInv
<1> SUFFICES ASSUME ComposerInit PROVE ComposeInv
  OBVIOUS
<1>1. Empty \in Forms /\ Empty.product = 0 /\ 0 \in Contents
  BY ComposerAssumption DEF Empty, Forms, Contents
<1>2. WorkOK /\ Used = 0
  BY ComposerAssumption DEF ComposerInit, WorkOK, Used
<1>3. /\ form = Empty /\ resolving = 0 /\ submits = {} /\ handed = [f \in Forms |-> 0]
  BY DEF ComposerInit
<1>4. ComposerTypeOK
  BY <1>1 DEF ComposerInit, ComposerTypeOK
<1>5. /\ ProductsKnown /\ ResolvesNews /\ LeftBehind /\ OneSubmits /\ HandedIsOver
      /\ ResubmitNeedsLoss
  BY <1>1, <1>2, <1>3
  DEF ProductsKnown, ResolvesNews, LeftBehind, OneSubmits, HandedIsOver, ResubmitNeedsLoss
<1> QED BY <1>2, <1>4, <1>5 DEF ComposeInv

LEMMA ComposerInductive == ComposeInv /\ [ComposerNext]_composerVars => ComposeInv'
<1> SUFFICES ASSUME ComposeInv, [ComposerNext]_composerVars PROVE ComposeInv'
  OBVIOUS
<1>1. ASSUME NEW s \in submits,
             CardStored(s) \/ CardApproved(s) \/ SubmitLost(s) \/ SubmitAnswered(s)
      PROVE  ComposeInv'
  BY <1>1, CardStoredKeeps, CardApprovedKeeps, SubmitLostKeeps, SubmitAnsweredKeeps
<1> QED BY <1>1, TypeFieldKeeps, ResolvedKeeps, ResolveStartsKeeps, SubmitStartsKeeps,
           RemountKeeps, PreviewsKeep DEF ComposerNext

(* The inductive invariant of the composer: a product is in the form, in a
   resolution or with one submission, and a form that was handed over is about
   to be cleared or nowhere any more. *)
THEOREM ComposerInvariance == ComposerInit /\ [][ComposerNext]_composerVars => []ComposeInv
  BY ComposerStarts, ComposerInductive, PTL

(* A form is handed to the send path a second time, nothing retyped, only
   after a submission of it broke off or went unanswered (ManualComposer.tsx
   and the approval of a manual card). *)
THEOREM DealsAreSentOnce == ComposerInit /\ [][ComposerNext]_composerVars => []ResubmitNeedsLoss
<1>1. ComposeInv => ResubmitNeedsLoss
  BY DEF ComposeInv
<1> QED BY <1>1, ComposerInvariance, PTL

-----------------------------------------------------------------------------
(* What the settings and the history show. *)

(* A save that has written: its answer, still to be read or on its way, is
   what the table says. *)
Renews(v) == /\ v.key # Unset
             /\ v.pc = "written" \/ (v.pc = "back" /\ v.got = AllEffective(table))

(* An answer of other values than the table's has a newer one of these behind
   it, and so have fields that show other values. *)
Renewed(u) == \/ u.got = AllEffective(table)
              \/ \E v \in saves : Renews(v) /\ (v.pc = "back" => v.age < u.age)

ServedWell ==
  ~overtaken =>
    /\ \A s \in saves : s.pc # "orphan"
    /\ \A u \in saves : u.pc = "back" => Renewed(u)
    /\ phase = "ready" => values = AllEffective(table) \/ \E v \in saves : Renews(v)

SaveOK(s) == /\ DOMAIN s = {"pc", "key", "value", "got", "age", "n"}
             /\ s.age \in Nat
             /\ s.pc # "back" => s.age = 0

SettleInv == ServedWell /\ (\A s \in saves : SaveOK(s)) /\ overtaken \in BOOLEAN

(* A request goes out. *)
LEMMA RequestKeeps ==
  ASSUME SettleInv, NEW k, NEW v, saves' = saves \union {Request(k, v)},
         phase' \in {phase, "loading"}, UNCHANGED <<table, env, values, overtaken>>
  PROVE  SettleInv'
<1> DEFINE r == Request(k, v)
<1>1. SaveOK(r) /\ r.pc = "sent"
  BY DEF Request, SaveOK
<1> HIDE DEF r
<1>2. saves' = saves \union {r}
  BY DEF r
<1>3. AllEffective(table)' = AllEffective(table)
  BY DEF AllEffective
<1>4. \A u : Renews(u)' <=> Renews(u)
  BY <1>3 DEF Renews
<1>5. \A u : Renewed(u) => Renewed(u)'
  BY <1>2, <1>3, <1>4 DEF Renewed
<1>6. (\E u \in saves : Renews(u)) => (\E u \in saves' : Renews(u)')
  BY <1>2, <1>4
<1>7. \A s \in saves' : SaveOK(s)'
  BY <1>1, <1>2 DEF SettleInv, SaveOK
<1>8. ServedWell'
  BY <1>1, <1>2, <1>3, <1>5, <1>6 DEF SettleInv, ServedWell
<1> QED BY <1>7, <1>8 DEF SettleInv

(* A request that no save rests on ends, or breaks. *)
LEMMA RequestEnds ==
  ASSUME SettleInv, NEW s \in saves, overtaken' \in BOOLEAN,
         overtaken => overtaken',
         \/ saves' = saves \ {s}
         \/ /\ saves' = (saves \ {s}) \union {[s EXCEPT !.pc = "failed"]}
            /\ s.pc \in {"sent", "written"}
         \/ /\ saves' = (saves \ {s}) \union {[s EXCEPT !.pc = "orphan"]}
            /\ s.pc = "sent" /\ overtaken',
         Renews(s) => overtaken',
         phase' \in {phase, "error"}, UNCHANGED <<table, env, values>>
  PROVE  SettleInv'
<1>1. AllEffective(table)' = AllEffective(table)
  BY DEF AllEffective
<1>2. \A u : Renews(u)' <=> Renews(u)
  BY <1>1 DEF Renews
<1>3. \A t \in saves' : SaveOK(t)'
  BY DEF SettleInv, SaveOK
<1>4. CASE overtaken'
  BY <1>3, <1>4 DEF SettleInv, ServedWell
<1>5. CASE ~overtaken'
  <2>1. /\ saves \ {s} \subseteq saves'
        /\ \A t \in saves' : t \in saves \/ t.pc = "failed"
    BY <1>5 DEF SettleInv, SaveOK
  <2>2. \A v \in saves : Renews(v) => v \in saves'
    BY <1>5, <2>1
  <2>3. \A u : Renewed(u) => Renewed(u)'
    BY <1>1, <1>2, <2>2 DEF Renewed
  <2>4. ServedWell'
    BY <1>1, <1>2, <1>5, <2>1, <2>2, <2>3 DEF SettleInv, ServedWell
  <2> QED BY <1>3, <2>4 DEF SettleInv
<1> QED BY <1>4, <1>5 DEF SettleInv

(* A save writes: whatever else is on its way, its answer will come after. *)
LEMMA SaveWritesKeeps == ASSUME SettleInv, NEW s \in saves, SaveWrites(s) PROVE SettleInv'
<1>0. SaveOK(s) /\ s.key # Unset /\ UNCHANGED <<env, phase, values, overtaken>>
  BY DEF SaveWrites, SettleInv
<1>1. CASE s.pc = "orphan"
  <2>1. overtaken
    BY <1>1 DEF SettleInv, ServedWell
  <2>2. saves' = saves \ {s}
    BY <1>1 DEF SaveWrites
  <2> QED BY <1>0, <2>1, <2>2 DEF SettleInv, ServedWell, SaveOK
<1>2. CASE s.pc = "sent" /\ s.value = Malformed
  <2>1. UNCHANGED table /\ saves' = (saves \ {s}) \union {[s EXCEPT !.pc = "failed"]}
    BY <1>2 DEF SaveWrites, SaveBecomes
  <2>2. ~Renews(s)
    BY <1>2 DEF Renews
  <2> QED BY <1>0, <1>2, <2>1, <2>2, RequestEnds DEF SettleInv
<1>3. CASE s.pc = "sent" /\ s.value # Malformed
  <2> DEFINE new == [s EXCEPT !.pc = "written"]
  <2>1. saves' = (saves \ {s}) \union {new}
    BY <1>3 DEF SaveWrites, SaveBecomes
  <2>2. new.pc = "written" /\ new.key = s.key /\ SaveOK(new)
    BY <1>0, <1>3 DEF SaveOK
  <2> HIDE DEF new
  <2>3. new \in saves' /\ Renews(new)'
    BY <1>0, <2>1, <2>2 DEF Renews
  <2>4. \A u : Renewed(u)'
    BY <2>2, <2>3 DEF Renewed
  <2>5. \A t \in saves' : SaveOK(t)'
    BY <2>1, <2>2 DEF SettleInv, SaveOK
  <2>6. ServedWell'
    BY <1>0, <2>1, <2>2, <2>3, <2>4 DEF SettleInv, ServedWell
  <2> QED BY <1>0, <2>5, <2>6 DEF SettleInv
<1> QED BY <1>1, <1>2, <1>3 DEF SaveWrites

LEMMA OlderIs ==
  ASSUME NEW u, SaveOK(u)
  PROVE  /\ SaveOK(Older(u)) /\ Older(u).pc = u.pc /\ Older(u).got = u.got
         /\ Older(u).key = u.key
         /\ u.pc = "back" => Older(u).age = u.age + 1
BY DEF Older, SaveOK

(* The values are read: every other answer on its way becomes older. *)
LEMMA SaveReadsKeeps == ASSUME SettleInv, NEW s \in saves, SaveReads(s) PROVE SettleInv'
<1> PICK new : new = [s EXCEPT !.pc = "back", !.got = AllEffective(table)]
  OBVIOUS
<1>0. /\ SaveOK(s) /\ s.pc # "back" /\ UNCHANGED <<table, env, phase, values, overtaken>>
      /\ s.pc = "written" <=> s.key # Unset
  BY DEF SaveReads, SettleInv
<1>1. AllEffective(table)' = AllEffective(table)
  BY <1>0 DEF AllEffective
<1>2. saves' = {Older(u) : u \in saves \ {s}} \union {new}
  BY DEF SaveReads
<1>3. /\ SaveOK(new) /\ new.pc = "back" /\ new.got = AllEffective(table)
      /\ new.key = s.key /\ new.age = 0
  BY <1>0 DEF SaveOK
<1>4. \A u : Renews(u)' <=> Renews(u)
  BY <1>1 DEF Renews
<1>5. ASSUME NEW v \in saves, Renews(v)
      PROVE  \E w \in saves' : /\ Renews(w)' /\ (w.pc = "back" <=> v.pc = "back" \/ v = s)
                               /\ v.pc = "back" => w.age = v.age + 1
                               /\ v = s => w.age = 0
  <2>1. CASE v = s
    <3>1. Renews(new)
      BY <1>3, <1>5, <2>1 DEF Renews
    <3> QED BY <1>0, <1>2, <1>3, <1>4, <2>1, <3>1
  <2>2. CASE v # s
    <3>1. SaveOK(v)
      BY DEF SettleInv
    <3>2. Older(v) \in saves' /\ Renews(Older(v))
      BY <1>2, <1>5, <2>2, <3>1, OlderIs DEF Renews
    <3> QED BY <1>4, <2>2, <3>1, <3>2, OlderIs
  <2> QED BY <2>1, <2>2
<1>6. ASSUME NEW u \in saves, u # s, u.pc = "back", Renewed(u) PROVE Renewed(Older(u))'
  <2>0. SaveOK(u) /\ Older(u).got = u.got /\ Older(u).age = u.age + 1 /\ u.age \in Nat
    BY <1>6, OlderIs DEF SettleInv, SaveOK
  <2>1. CASE u.got = AllEffective(table)
    BY <1>1, <2>0, <2>1 DEF Renewed
  <2>2. ASSUME NEW v \in saves, Renews(v), v.pc = "back" => v.age < u.age
        PROVE  Renewed(Older(u))'
    <3>0. SaveOK(v)
      BY DEF SettleInv
    <3>1. PICK w \in saves' : /\ Renews(w)' /\ (w.pc = "back" <=> v.pc = "back" \/ v = s)
                              /\ v.pc = "back" => w.age = v.age + 1
                              /\ v = s => w.age = 0
      BY <1>5, <2>2
    <3>2. w.pc = "back" => w.age < Older(u).age
      BY <2>0, <2>2, <3>0, <3>1 DEF SaveOK
    <3> QED BY <3>1, <3>2 DEF Renewed
  <2> QED BY <1>6, <2>1, <2>2 DEF Renewed
<1>7. Renewed(new)'
  BY <1>1, <1>3 DEF Renewed
<1>8. \A t \in saves' : SaveOK(t)'
  <2>1. \A u \in saves : SaveOK(Older(u))
    BY OlderIs DEF SettleInv
  <2>2. \A t \in saves' : SaveOK(t)
    BY <1>2, <1>3, <2>1
  <2> QED BY <2>2 DEF SaveOK
<1>9. ASSUME ~overtaken, NEW t \in saves'
      PROVE  t.pc # "orphan" /\ (t.pc = "back" => Renewed(t)')
  <2>1. CASE t = new
    BY <1>3, <1>7, <2>1
  <2>2. CASE t # new
    <3>1. PICK u \in saves \ {s} : t = Older(u)
      BY <1>2, <2>2
    <3>2. SaveOK(u) /\ u.pc # "orphan" /\ (u.pc = "back" => Renewed(u))
      BY <1>9 DEF SettleInv, ServedWell
    <3> QED BY <1>6, <3>1, <3>2, OlderIs
  <2> QED BY <2>1, <2>2
<1>10. ServedWell'
  BY <1>0, <1>1, <1>5, <1>9 DEF SettleInv, ServedWell
<1> QED BY <1>0, <1>8, <1>10 DEF SettleInv

(* An answer is applied, and does not overtake one read before it: a newer
   one is on its way, or the fields show what the table says. *)
LEMMA AppliedKeeps ==
  ASSUME SettleInv, NEW s \in saves, Applied(s) PROVE SettleInv'
<1>0. /\ s.pc = "back" /\ saves' = saves \ {s} /\ values' = s.got
      /\ UNCHANGED <<table, env>> /\ SaveOK(s)
      /\ overtaken' = (overtaken \/ \E u \in saves : u.pc = "back" /\ u.age > s.age)
  BY DEF Applied, SettleInv
<1>1. AllEffective(table)' = AllEffective(table)
  BY <1>0 DEF AllEffective
<1>2. \A u : Renews(u)' <=> Renews(u)
  BY <1>1 DEF Renews
<1>3. \A t \in saves' : SaveOK(t)'
  BY <1>0 DEF SettleInv, SaveOK
<1>4. overtaken' \in BOOLEAN
  BY <1>0 DEF SettleInv
<1>5. ASSUME ~overtaken' PROVE ServedWell'
  <2>1. ~overtaken /\ \A u \in saves : u.pc = "back" => ~(u.age > s.age)
    BY <1>0, <1>5
  <2>2. \A u \in saves : u.age \in Nat
    BY DEF SettleInv, SaveOK
  <2>3. ASSUME NEW u \in saves, u.pc = "back", NEW v \in saves, Renews(v),
               v.pc = "back" => v.age < u.age
        PROVE  v # s
    BY <1>0, <2>1, <2>2, <2>3
  <2>4. \A u \in saves : u.pc = "back" /\ Renewed(u) => Renewed(u)'
    BY <1>0, <1>1, <1>2, <2>3 DEF Renewed
  <2>5. Renewed(s)'
    BY <1>0, <2>1, <2>4 DEF SettleInv, ServedWell
  <2>6. values' = AllEffective(table)' \/ \E v \in saves' : Renews(v)'
    BY <1>0, <2>5 DEF Renewed
  <2> QED BY <1>0, <2>1, <2>4, <2>6 DEF SettleInv, ServedWell
<1>6. ServedWell'
  BY <1>5 DEF ServedWell
<1> QED BY <1>3, <1>4, <1>6 DEF SettleInv

LEMMA SettingsSettle == SettleInv /\ [SettingsNext]_settingsVars => SettleInv'
<1> SUFFICES ASSUME SettleInv, [SettingsNext]_settingsVars PROVE SettleInv'
  OBVIOUS
<1>1. CASE Reload \/ AppRenders
  BY <1>1, RequestKeeps DEF Reload, AppRenders, Load
<1>2. ASSUME NEW k \in Keys, Save(k) PROVE SettleInv'
  BY <1>2, RequestKeeps DEF Save
<1>3. CASE UNCHANGED settingsVars \/ \E k \in Keys : Draft(k)
  <2>1. UNCHANGED <<table, env, phase, values, saves, overtaken>>
    BY <1>3 DEF settingsVars, Draft
  <2>2. AllEffective(table)' = AllEffective(table)
    BY <2>1 DEF AllEffective
  <2> QED BY <2>1, <2>2 DEF SettleInv, ServedWell, Renewed, Renews, SaveOK
<1>4. ASSUME NEW k \in Keys, SavedElsewhere(k) PROVE SettleInv'
  BY <1>4 DEF SavedElsewhere, SettleInv, ServedWell, SaveOK
<1>5. ASSUME NEW s \in saves, SaveBreaks(s) PROVE SettleInv'
  <2>1. /\ s.pc \in {"sent", "written"} /\ overtaken' = (overtaken \/ s.pc = "written")
        /\ saves' = (saves \ {s}) \union {[s EXCEPT !.pc = "failed"]}
        /\ UNCHANGED <<table, env, phase, values>>
    BY <1>5 DEF SaveBreaks, SaveBecomes
  <2>2. Renews(s) => overtaken'
    BY <2>1 DEF Renews
  <2>3. overtaken' \in BOOLEAN
    BY <2>1 DEF SettleInv
  <2> QED BY <2>1, <2>2, <2>3, RequestEnds
<1>6. ASSUME NEW s \in saves, SaveLost(s) PROVE SettleInv'
  <2>1. /\ overtaken' = (overtaken \/ s.key # Unset) /\ UNCHANGED <<table, env, values>>
        /\ phase' \in {phase, "error"}
        /\ \/ saves' = saves \ {s}
           \/ /\ saves' = (saves \ {s}) \union {[s EXCEPT !.pc = "orphan"]}
              /\ s.pc = "sent" /\ s.key # Unset
    BY <1>6 DEF SaveLost, SaveBecomes, Failed
  <2>2. Renews(s) => overtaken'
    BY <2>1 DEF Renews
  <2>3. overtaken' \in BOOLEAN
    BY <2>1 DEF SettleInv
  <2> QED BY <2>1, <2>2, <2>3, RequestEnds
<1>7. ASSUME NEW s \in saves, SaveFailed(s) PROVE SettleInv'
  <2>1. /\ s.pc = "failed" /\ saves' = saves \ {s} /\ phase' \in {phase, "error"}
        /\ UNCHANGED <<table, env, values, overtaken>>
    BY <1>7 DEF SaveFailed, Failed
  <2>2. ~Renews(s)
    BY <2>1 DEF Renews
  <2> QED BY <2>1, <2>2, RequestEnds DEF SettleInv
<1>8. ASSUME NEW s \in saves, SaveAnswered(s) \/ Loaded(s) PROVE SettleInv'
  BY <1>8, AppliedKeeps DEF SaveAnswered, Loaded
<1> QED BY <1>1, <1>2, <1>3, <1>4, <1>5, <1>6, <1>7, <1>8, SaveWritesKeeps, SaveReadsKeeps
        DEF SettingsNext

LEMMA SettingsStart == SettingsInit => SettleInv
<1> SUFFICES ASSUME SettingsInit PROVE SettleInv
  OBVIOUS
<1> DEFINE s == [pc |-> "sent", key |-> Unset, value |-> Unset, got |-> NoAnswer,
                 age |-> 0, n |-> MaxClicks + MaxFaults]
<1>1. saves = {s} /\ phase = "loading" /\ overtaken = FALSE
  BY DEF SettingsInit
<1>2. s.pc = "sent" /\ SaveOK(s)
  BY DEF SaveOK
<1> HIDE DEF s
<1> QED BY <1>1, <1>2 DEF SettleInv, ServedWell

LEMMA SettledShown == SettleInv => SettledSettings
  BY DEF SettleInv, ServedWell, SettledSettings

(* The page listens to one request, that of the page it is on, and only while
   it is loading. *)
ListensOnce ==
  /\ \A f \in fetches : f.active => f.page = page /\ loading
  /\ \A f, g \in fetches : f.active /\ g.active => f = g
  /\ loading \in BOOLEAN /\ failed \in BOOLEAN
  /\ \A f \in fetches : f \in [page : Nat, n : Nat, active : BOOLEAN]
  /\ page \in Nat /\ turns \in Nat

HistoryInv == ListensOnce /\ PageIsCurrent

LEMMA LoadsKeeps == ASSUME HistoryInv, NEW p \in Nat, Loads(p) PROVE HistoryInv'
<1> DEFINE new == [page |-> p, n |-> turns', active |-> TRUE]
<1>1. /\ turns > 0 /\ turns' = turns - 1 /\ page' = p /\ loading' = TRUE
      /\ fetches' = Cleaned \union {new} /\ UNCHANGED <<items, failed>>
  BY DEF Loads
<1>2. turns' \in Nat
  BY <1>1 DEF HistoryInv, ListensOnce
<1>3. new \in [page : Nat, n : Nat, active : BOOLEAN] /\ new.page = p /\ new.active
  BY <1>2
<1>4. \A f \in Cleaned : f \in [page : Nat, n : Nat, active : BOOLEAN] /\ ~f.active
  BY DEF Cleaned, HistoryInv, ListensOnce
<1> HIDE DEF new
<1>5. ListensOnce'
  BY <1>1, <1>2, <1>3, <1>4 DEF HistoryInv, ListensOnce
<1>6. PageIsCurrent'
  BY <1>1 DEF PageIsCurrent
<1> QED BY <1>5, <1>6 DEF HistoryInv

LEMMA HistoryInductive == HistoryInv /\ [HistoryNext]_historyVars => HistoryInv'
<1> SUFFICES ASSUME HistoryInv, [HistoryNext]_historyVars PROVE HistoryInv'
  OBVIOUS
<1>1. CASE Turn
  <2>1. PICK p \in {page - 1, page + 1} \cap 1..Pages : Loads(p)
    BY <1>1 DEF Turn
  <2>2. p \in Nat
    BY HistoryAssumption
  <2> QED BY <2>1, <2>2, LoadsKeeps
<1>2. CASE Rerenders
  BY <1>2, LoadsKeeps DEF Rerenders, HistoryInv, ListensOnce
<1>3. ASSUME NEW f \in fetches, Fetched(f) PROVE HistoryInv'
  <2>1. fetches' = fetches \ {f} /\ UNCHANGED <<page, turns>>
    BY <1>3 DEF Fetched
  <2>2. CASE f.active
    <3>1. /\ loading' = FALSE /\ failed' \in BOOLEAN
          /\ items' = f.page \/ failed' = TRUE
      BY <1>3, <2>2 DEF Fetched
    <3>2. \A g \in fetches' : ~g.active
      BY <2>1, <2>2 DEF HistoryInv, ListensOnce
    <3>3. f.page = page
      BY <2>2 DEF HistoryInv, ListensOnce
    <3> QED BY <2>1, <3>1, <3>2, <3>3 DEF HistoryInv, ListensOnce, PageIsCurrent
  <2>3. CASE ~f.active
    <3>1. UNCHANGED <<items, loading, failed>>
      BY <1>3, <2>3 DEF Fetched
    <3> QED BY <2>1, <3>1 DEF HistoryInv, ListensOnce, PageIsCurrent
  <2> QED BY <2>2, <2>3
<1>4. CASE UNCHANGED historyVars
  BY <1>4 DEF historyVars, HistoryInv, ListensOnce, PageIsCurrent
<1> QED BY <1>1, <1>2, <1>3, <1>4 DEF HistoryNext

LEMMA HistoryStarts == HistoryInit => HistoryInv
<1> SUFFICES ASSUME HistoryInit PROVE HistoryInv
  OBVIOUS
<1> DEFINE f == [page |-> 1, n |-> MaxTurns, active |-> TRUE]
<1>1. /\ page = 1 /\ loading = TRUE /\ failed = FALSE /\ turns = MaxTurns
      /\ fetches = {f}
  BY DEF HistoryInit
<1>2. MaxTurns \in Nat
  BY HistoryAssumption
<1>3. f.page = 1 /\ f.active /\ f \in [page : Nat, n : Nat, active : BOOLEAN]
  BY <1>2
<1> HIDE DEF f
<1> QED BY <1>1, <1>2, <1>3 DEF HistoryInv, ListensOnce, PageIsCurrent

(* With their requests answered, the history shows the page its pager names,
   whatever order the answers came in, and the settings show what the crons
   read, however saves and reloads overlapped on the server, unless an answer
   overtook one read before it, what became of a save was not told, or another
   panel wrote (ConfigPanel.tsx, HistoryPanel.tsx). *)
THEOREM ShownIsWhatIsServed ==
  /\ SettingsInit /\ [][SettingsNext]_settingsVars
  /\ HistoryInit /\ [][HistoryNext]_historyVars
  => []ShownIsServed
<1>1. SettingsInit /\ [][SettingsNext]_settingsVars => []SettledSettings
  BY SettingsStart, SettingsSettle, SettledShown, PTL
<1>2. HistoryInv => PageIsCurrent
  BY DEF HistoryInv
<1>3. HistoryInit /\ [][HistoryNext]_historyVars => []PageIsCurrent
  BY <1>2, HistoryStarts, HistoryInductive, PTL
<1>4. SettledSettings /\ PageIsCurrent => ShownIsServed
  BY DEF ShownIsServed
<1> QED BY <1>1, <1>3, <1>4, PTL
==============================================================================
