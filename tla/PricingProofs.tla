---------------------------- MODULE PricingProofs ----------------------------
(***************************************************************************)
(* A printed price is never older than the queue and the scraper's cache     *)
(* allow, a printed coupon fits its price, a dispatch finds the best coupon   *)
(* there is, and a lower price never scores less, whatever the ages, the      *)
(* pages, the histories, the coupons and what curators edit.                  *)
(***************************************************************************)
EXTENDS Pricing, FiniteSetTheorems, WellFoundedInduction, TLAPS

LEMMA NoEditsTyped == NoEdits \in {NoEdits} \union Edits
  OBVIOUS

LEMMA EditsTyped ==
  ASSUME NEW e \in {NoEdits} \union Edits
  PROVE  /\ e \in [price : SUBSET Nat, coupon : SUBSET [final : SUBSET Nat]]
         /\ e.price # {} => The(e.price) \in Nat
  <1>1. e \in [price : SUBSET Nat, coupon : SUBSET [final : SUBSET Nat]]
    <2>1. CASE e = NoEdits
      BY <2>1 DEF NoEdits
    <2>2. CASE e \in Edits
      <3>1. Edits \subseteq [price : SUBSET Prices, coupon : SUBSET [final : SUBSET Nat]]
            /\ Prices \subseteq Nat
        BY PricingAssumption
      <3>2. e = [price |-> e.price, coupon |-> e.coupon] /\ e.price \subseteq Prices
            /\ e.coupon \subseteq [final : SUBSET Nat]
        BY <2>2, <3>1
      <3>3. QED
        BY <3>1, <3>2
    <2>3. QED
      BY <2>1, <2>2
  <1>2. e.price # {} => The(e.price) \in e.price
    BY DEF The
  <1>3. QED
    BY <1>1, <1>2

(* What a scrape returns is a reading younger than the cache keeps one, and
   the cache still holds at most one. *)
LEMMA ScrapeFresh ==
  ASSUME IInv, NEW v \in {cache, Shown, {}}, Scrape(v)
  PROVE  /\ cache' \subseteq Readings /\ \A x, y \in cache' : x = y
         /\ v # {} => The(v) \in Readings /\ now - The(v).seen < CacheTTL
  <1>1. Shown \subseteq Readings /\ \A x, y \in Shown : x = y
    BY PricingAssumption DEF Shown, Readings, IInv, TypeOK
  <1>2. v # {} => The(v) \in v
    BY DEF The
  <1>3. CASE Fresh # {}
    <2>1. v = cache /\ cache' = cache
      BY <1>3 DEF Scrape
    <2>2. PICK w \in cache : now - w.seen < CacheTTL
      BY <1>3 DEF Fresh
    <2>3. The(v) = w
      BY <1>2, <2>1, <2>2 DEF IInv, Provenance
    <2>4. QED
      BY <2>1, <2>2, <2>3 DEF IInv, TypeOK, Provenance
  <1>4. CASE Fresh = {}
    <2>1. CASE v = Shown /\ cache' = v
      <3>1. \A x \in Shown : x.seen = now
        BY DEF Shown
      <3>2. v # {} => The(v).seen = now
        BY <1>2, <2>1, <3>1
      <3>3. now - now < CacheTTL
        BY PricingAssumption DEF IInv, TypeOK
      <3>4. QED
        BY <1>1, <1>2, <2>1, <3>2, <3>3
    <2>2. CASE v = {} /\ cache' = cache
      BY <2>2 DEF IInv, TypeOK, Provenance
    <2>3. QED
      BY <1>4, <2>1, <2>2 DEF Scrape
  <1>5. QED
    BY <1>3, <1>4

(* A price that was recorded stays recorded. *)
LEMMA RecordedStays ==
  ASSUME history \subseteq history', NEW s, Recorded(s)
  PROVE  Recorded(s)'
  BY DEF Recorded

LEMMA EditedTyped ==
  ASSUME NEW s \in Cards, NEW e \in {NoEdits} \union Edits, now \in Nat
  PROVE  /\ Edited(s, e) \in Cards
         /\ Edited(s, e).edits = e /\ Edited(s, e).held = s.held
         /\ e.price # {} => Edited(s, e).by = "human"
         /\ e.price = {} => /\ Edited(s, e).by = s.by /\ Edited(s, e).seen = s.seen
                            /\ Edited(s, e).price = s.price
  BY EditsTyped DEF Edited, Cards

LEMMA CorrectedTyped ==
  ASSUME NEW s \in Cards, NEW v, v # {} => The(v) \in Readings
  PROVE  /\ Corrected(s, v) \in Cards
         /\ Corrected(s, v).edits = s.edits /\ Corrected(s, v).held = s.held
         /\ v = {} => Corrected(s, v) = s
         /\ v # {} => Corrected(s, v).by = "page" /\ Corrected(s, v).seen = The(v).seen
  BY DEF Corrected, Cards, Readings

-----------------------------------------------------------------------------
LEMMA Initially == Init => IInv
  BY DEF Init, IInv, TypeOK, Provenance, PriceAge

LEMMA ScreenKeeps == ASSUME IInv, NEW r \in Runs, Screen(r) PROVE IInv'
  <1>1. PICK p \in Prices :
          /\ history' = history \union {[price |-> p, at |-> now, by |-> starts']}
          /\ cand' = [cand EXCEPT ![r] =
               IF IsFakeDiscount(history, now, p) THEN {} ELSE {[price |-> p, seen |-> now]}]
    BY DEF Screen
  <1>2. starts' \in Nat /\ starts' # 0
    BY DEF Screen, IInv, TypeOK
  <1>3. TypeOK'
    BY <1>1, <1>2 DEF Screen, IInv, TypeOK
  <1>4. history \subseteq history'
    BY <1>1
  <1>5. \A q \in Runs : \A c \in cand'[q] : Recorded(c)'
    <2>1. TAKE q \in Runs
    <2>2. TAKE c \in cand'[q]
    <2>3. CASE c \in cand[q]
      BY <2>3, <1>4, RecordedStays DEF IInv, Provenance
    <2>4. CASE c = [price |-> p, seen |-> now]
      <3>. DEFINE o == [price |-> p, at |-> now, by |-> starts']
      <3>1. o \in history'
        BY <1>1
      <3>2. o.by # 0 /\ o.price = c.price /\ o.at = c.seen
        BY <1>2, <2>4
      <3>3. QED
        BY <3>1, <3>2 DEF Recorded
    <2>5. QED
      BY <1>1, <2>2, <2>3, <2>4 DEF IInv, TypeOK
  <1>6. UNCHANGED <<now, cache, card, job, message>>
    BY DEF Screen
  <1>7. Provenance'
    BY <1>4, <1>5, <1>6, RecordedStays DEF IInv, Provenance
  <1>8. PriceAge'
    BY <1>4, <1>6, RecordedStays DEF IInv, PriceAge
  <1>9. QED
    BY <1>3, <1>7, <1>8 DEF IInv

LEMMA ScoreKeeps == ASSUME IInv, NEW r \in Runs, Score(r) PROVE IInv'
  <1>1. PICK c \in cand[r] : Hold(c) \/ UNCHANGED card
    BY DEF Score
  <1>2. cand' = [cand EXCEPT ![r] = {}]
        /\ UNCHANGED <<now, page, cache, history, job, message, starts>>
    BY DEF Score
  <1>3. c \in [price : Prices, seen : Nat] /\ Recorded(c)
    BY DEF IInv, TypeOK, Provenance
  <1>4. \A s \in card' : s \in Cards /\ s.edits.price = {} /\ s.by # "page"
                         /\ (s.by = "api" => Recorded(s))
    <2>1. CASE Hold(c)
      <3>1. TAKE s \in card'
      <3>2. s = [price |-> c.price, seen |-> c.seen, by |-> "api", edits |-> NoEdits,
                 manual |-> FALSE, held |-> now]
        BY <2>1, <3>1 DEF Hold
      <3>3. s \in Cards
        BY <1>3, <3>2, PricingAssumption DEF Cards, IInv, TypeOK
      <3>4. s.edits.price = {} /\ s.by = "api" /\ Recorded(s)
        BY <1>3, <3>2 DEF NoEdits, Recorded
      <3>5. QED
        BY <3>3, <3>4
    <2>2. CASE UNCHANGED card
      BY <2>2 DEF IInv, TypeOK, Provenance
    <2>3. QED
      BY <1>1, <2>1, <2>2
  <1>5. TypeOK'
    BY <1>2, <1>4 DEF IInv, TypeOK
  <1>6. Provenance'
    BY <1>2, <1>4 DEF IInv, TypeOK, Provenance, Recorded
  <1>7. PriceAge'
    BY <1>2 DEF IInv, PriceAge, Recorded
  <1>8. QED
    BY <1>5, <1>6, <1>7 DEF IInv

(* The panel makes a card of a person's price. *)
LEMMA ComposeKeeps == ASSUME IInv, Compose PROVE IInv'
  <1>1. PICK p \in Prices : \E e \in {NoEdits} \union {x \in Edits : x.price = {}} :
          card' = {[price |-> p, seen |-> now, by |-> "human", edits |-> e, manual |-> TRUE,
                    held |-> now]}
    BY DEF Compose
  <1>2. PICK e \in {NoEdits} \union {x \in Edits : x.price = {}} :
          card' = {[price |-> p, seen |-> now, by |-> "human", edits |-> e, manual |-> TRUE,
                    held |-> now]}
    BY <1>1
  <1>3. e \in {NoEdits} \union Edits /\ e.price = {}
    BY DEF NoEdits
  <1>4. starts' \in Nat
        /\ UNCHANGED <<now, page, cache, history, coupons, cand, job, message>>
    BY DEF Compose, IInv, TypeOK
  <1>5. \A s \in card' : s \in Cards /\ s.edits.price = {} /\ s.by = "human"
    <2>1. p \in Nat /\ now \in Nat
      BY PricingAssumption DEF IInv, TypeOK
    <2>2. TAKE s \in card'
    <2>3. s = [price |-> p, seen |-> now, by |-> "human", edits |-> e, manual |-> TRUE,
               held |-> now]
      BY <1>2
    <2>4. QED
      BY <1>3, <2>1, <2>3 DEF Cards
  <1>6. TypeOK'
    BY <1>4, <1>5 DEF IInv, TypeOK
  <1>7. Provenance'
    BY <1>4, <1>5 DEF IInv, TypeOK, Provenance, Recorded
  <1>8. PriceAge'
    BY <1>4 DEF IInv, PriceAge, Recorded
  <1>9. QED
    BY <1>6, <1>7, <1>8 DEF IInv

(* A job's deal is the card's, edited, or what the page showed just then. *)
LEMMA DispatchKeeps == ASSUME IInv, Dispatch PROVE IInv'
  <1>1. PICK s \in card : \E e \in {s.edits} \union Edits :
          LET edited == IF e = s.edits THEN s ELSE Edited(s, e) IN
          /\ now < s.held + CardTTL
          /\ \E v \in {cache, Shown, {}} :
               /\ IF edited.edits.price # {} \/ s.manual THEN v = {} /\ UNCHANGED cache
                                                          ELSE Scrape(v)
               /\ \E found \in Found(Corrected(edited, v).price) :
                    Enqueue(Corrected(edited, v), v, found)
    BY DEF Dispatch
  <1>2. s \in Cards /\ s.edits.price = {} /\ s.by # "page" /\ (s.by = "api" => Recorded(s))
        /\ s.edits \in {NoEdits} \union Edits /\ s.held \in Nat
    BY DEF IInv, TypeOK, Provenance, Cards
  <1>3. PICK e \in {s.edits} \union Edits :
          LET edited == IF e = s.edits THEN s ELSE Edited(s, e) IN
          /\ now < s.held + CardTTL
          /\ \E v \in {cache, Shown, {}} :
               /\ IF edited.edits.price # {} \/ s.manual THEN v = {} /\ UNCHANGED cache
                                                          ELSE Scrape(v)
               /\ \E found \in Found(Corrected(edited, v).price) :
                    Enqueue(Corrected(edited, v), v, found)
    BY <1>1
  <1>. DEFINE edited == IF e = s.edits THEN s ELSE Edited(s, e)
  <1>4. PICK v \in {cache, Shown, {}} :
          /\ IF edited.edits.price # {} \/ s.manual THEN v = {} /\ UNCHANGED cache
                                                     ELSE Scrape(v)
          /\ \E found \in Found(Corrected(edited, v).price) :
               Enqueue(Corrected(edited, v), v, found)
    BY <1>3
  <1>. DEFINE sent == Corrected(edited, v)
  <1>5. PICK found \in Found(sent.price) : Enqueue(sent, v, found)
    BY <1>4
  <1>6. now < s.held + CardTTL /\ now \in Nat
    BY <1>1 DEF IInv, TypeOK
  <1>7. /\ edited \in Cards /\ edited.held = s.held
        /\ edited.by # "page"
        /\ edited.by = "api" => edited.edits.price = {} /\ Recorded(edited)
    <2>1. CASE e = s.edits
      BY <1>2, <2>1
    <2>2. CASE e # s.edits
      <3>1. e \in {NoEdits} \union Edits /\ edited = Edited(s, e)
        BY <2>2
      <3>2. /\ edited \in Cards /\ edited.edits = e /\ edited.held = s.held
            /\ e.price # {} => edited.by = "human"
            /\ e.price = {} => /\ edited.by = s.by /\ edited.seen = s.seen
                               /\ edited.price = s.price
        BY <1>2, <1>6, <3>1, EditedTyped
      <3>3. QED
        BY <1>2, <3>2 DEF Recorded
    <2>3. QED
      BY <2>1, <2>2
  <1>8. /\ cache' \subseteq Readings /\ \A x, y \in cache' : x = y
        /\ v # {} => /\ The(v) \in Readings /\ now - The(v).seen < CacheTTL
                     /\ edited.edits.price = {}
    <2>1. CASE edited.edits.price # {} \/ s.manual
      BY <1>4, <2>1 DEF IInv, TypeOK, Provenance
    <2>2. CASE ~(edited.edits.price # {} \/ s.manual)
      BY <1>4, <2>2, ScrapeFresh
    <2>3. QED
      BY <2>1, <2>2
  <1>9. /\ sent \in Cards /\ sent.edits = edited.edits /\ sent.held = edited.held
        /\ v = {} => sent = edited
        /\ v # {} => sent.by = "page" /\ sent.seen = The(v).seen
    BY <1>7, <1>8, CorrectedTyped
  <1>10. /\ sent.by # "human" => sent.edits.price = {}
         /\ sent.by = "page" => now - sent.seen < CacheTTL
         /\ sent.by = "api" => now < sent.held + CardTTL /\ Recorded(sent)
    <2>1. CASE v = {}
      <3>1. sent = edited
        BY <1>9, <2>1
      <3>2. edited.by \in {"api", "human"}
        BY <1>7 DEF Cards
      <3>3. QED
        BY <1>6, <1>7, <3>1, <3>2
    <2>2. CASE v # {}
      BY <1>8, <1>9, <2>2
    <2>3. QED
      BY <2>1, <2>2
  <1>11. \A j \in job' : j.deal = sent /\ j.stamp = now
    BY <1>5 DEF Enqueue
  <1>12. card' = {} /\ UNCHANGED <<now, page, history, coupons, cand, message, starts>>
    BY DEF Dispatch
  <1>. HIDE DEF sent, edited
  <1>13. TypeOK'
    BY <1>6, <1>8, <1>9, <1>11, <1>12 DEF IInv, TypeOK
  <1>14. Provenance'
    <2>1. \A r \in Runs : \A c \in cand'[r] : Recorded(c)'
      BY <1>12 DEF IInv, Provenance, Recorded
    <2>2. ASSUME NEW j \in job'
          PROVE  /\ j.deal.by # "human" => j.deal.edits.price = {}
                 /\ j.deal.by = "page" => j.stamp - j.deal.seen < CacheTTL
                 /\ j.deal.by = "api" => j.stamp < j.deal.held + CardTTL /\ Recorded(j.deal)'
      BY <1>10, <1>11, <1>12 DEF Recorded
    <2>3. QED
      BY <1>8, <1>12, <2>1, <2>2 DEF Provenance
  <1>15. PriceAge'
    BY <1>12 DEF IInv, PriceAge, Recorded
  <1>16. QED
    BY <1>13, <1>14, <1>15 DEF IInv

-----------------------------------------------------------------------------
(* When a job goes, what else is kept stays as it was. *)
LEMMA JobGoes ==
  ASSUME IInv, job' = {}, cache' \subseteq Readings, \A x, y \in cache' : x = y,
         UNCHANGED <<now, page, history, cand, card, starts>>
  PROVE  TypeOK' /\ Provenance'
  <1>1. TypeOK'
    BY DEF IInv, TypeOK
  <1>2. Provenance'
    BY DEF IInv, Provenance, Recorded
  <1>3. QED
    BY <1>1, <1>2

LEMMA PrintAsIsKeeps == ASSUME IInv, PrintAsIs PROVE IInv'
  <1>1. PICK j \in job : /\ ~Stale(j) \/ j.deal.edits.price # {}
                         /\ Caption(j.deal, j.view, CouponOf(j.deal, StillValid(j.coupon)))
    BY DEF PrintAsIs
  <1>2. job' = {} /\ UNCHANGED <<now, page, cache, history, coupons, cand, card, starts>>
    BY DEF PrintAsIs
  <1>3. /\ j.deal \in Cards /\ j.stamp \in Nat /\ now \in Nat
        /\ j.deal.by # "human" => j.deal.edits.price = {}
        /\ j.deal.by = "page" => j.stamp - j.deal.seen < CacheTTL
        /\ j.deal.by = "api" => j.stamp < j.deal.held + CardTTL /\ Recorded(j.deal)
    BY DEF IInv, TypeOK, Provenance
  <1>4. \A m \in message' : m.deal = j.deal /\ m.taken = now
    BY <1>1 DEF Caption
  <1>5. j.deal.by # "human" => now - j.stamp <= MaxAge
    BY <1>1, <1>3, PricingAssumption DEF Stale
  <1>6. j.deal.seen \in Nat /\ j.deal.held \in Nat
        /\ MaxAge \in Nat /\ CacheTTL \in Nat /\ CardTTL \in Nat
    BY <1>3, PricingAssumption DEF Cards
  <1>7. /\ j.deal.by = "page" => now - j.deal.seen < MaxAge + CacheTTL
        /\ j.deal.by = "api" => now - j.deal.held < MaxAge + CardTTL
    BY <1>3, <1>5, <1>6
  <1>8. PriceAge'
    BY <1>2, <1>3, <1>4, <1>7 DEF PriceAge, Recorded
  <1>9. cache' \subseteq Readings /\ \A x, y \in cache' : x = y
    BY <1>2 DEF IInv, TypeOK, Provenance
  <1>10. QED
    BY <1>2, <1>8, <1>9, JobGoes DEF IInv

LEMMA PrintRefreshedKeeps == ASSUME IInv, PrintRefreshed PROVE IInv'
  <1>1. PICK j \in job : \E v \in {cache, Shown} :
          /\ v # {} /\ Scrape(v)
          /\ LET s == Corrected(j.deal, v)
             IN \E found \in Found(s.price) : Caption(s, v, CouponOf(s, found))
    BY DEF PrintRefreshed
  <1>2. PICK v \in {cache, Shown} :
          /\ v # {} /\ Scrape(v)
          /\ LET s == Corrected(j.deal, v)
             IN \E found \in Found(s.price) : Caption(s, v, CouponOf(s, found))
    BY <1>1
  <1>3. job' = {} /\ UNCHANGED <<now, page, history, coupons, cand, card, starts>>
    BY DEF PrintRefreshed
  <1>4. /\ cache' \subseteq Readings /\ \A x, y \in cache' : x = y
        /\ The(v) \in Readings /\ now - The(v).seen < CacheTTL
    BY <1>2, ScrapeFresh
  <1>5. Corrected(j.deal, v).by = "page" /\ Corrected(j.deal, v).seen = The(v).seen
    BY <1>2, <1>4, CorrectedTyped DEF IInv, TypeOK
  <1>6. \A m \in message' : m.deal = Corrected(j.deal, v) /\ m.taken = now
    BY <1>2 DEF Caption
  <1>7. The(v).seen \in Nat /\ now \in Nat /\ MaxAge \in Nat /\ CacheTTL \in Nat
    BY <1>4, PricingAssumption DEF Readings, IInv, TypeOK
  <1>8. now - The(v).seen < MaxAge + CacheTTL
    BY <1>4, <1>7
  <1>9. PriceAge'
    BY <1>5, <1>6, <1>8 DEF PriceAge
  <1>10. QED
    BY <1>3, <1>4, <1>9, JobGoes DEF IInv

LEMMA DropKeeps == ASSUME IInv, Drop PROVE IInv'
  <1>1. /\ job' = {} /\ Scrape({})
        /\ UNCHANGED <<now, page, history, coupons, cand, card, message, starts>>
    BY DEF Drop
  <1>2. cache' \subseteq Readings /\ \A x, y \in cache' : x = y
    BY <1>1, ScrapeFresh
  <1>3. PriceAge'
    BY <1>1 DEF IInv, PriceAge, Recorded
  <1>4. QED
    BY <1>1, <1>2, <1>3, JobGoes DEF IInv

LEMMA PublishKeeps == ASSUME IInv, Publish PROVE IInv'
  BY DEF Publish, IInv, TypeOK, Provenance, PriceAge, Recorded

LEMMA SurroundingsKeep ==
  ASSUME IInv, CouponEntered \/ PageChanges \/ TimePasses \/ UNCHANGED vars
  PROVE  IInv'
  <1>1. UNCHANGED <<cache, history, cand, card, job, message, starts>>
        /\ now' \in Nat /\ page' \in Pages
    BY DEF CouponEntered, PageChanges, TimePasses, vars, IInv, TypeOK
  <1>2. TypeOK' /\ Provenance' /\ PriceAge'
    BY <1>1 DEF IInv, TypeOK, Provenance, PriceAge, Recorded
  <1>3. QED
    BY <1>2 DEF IInv

LEMMA Inductive == IInv /\ [Next]_vars => IInv'
  BY ScreenKeeps, ScoreKeeps, ComposeKeeps, DispatchKeeps, PrintAsIsKeeps,
     PrintRefreshedKeeps, DropKeeps, PublishKeeps, SurroundingsKeep
  DEF Next

(* The inductive invariant holds in every reachable state. *)
THEOREM Invariance == Spec => []IInv
  BY Initially, Inductive, PTL DEF Spec

(* Cards, jobs and readings are well typed. *)
THEOREM TypeCorrect == Spec => []TypeOK
  BY Invariance, PTL DEF IInv

(* A caption's price is a person's, one of the page that is younger than
   SEND_MAX_JOB_AGE_MIN and PRICE_SCRAPE_TTL_MS together, or one the API gave,
   on a card younger than the queue and the card's life together. *)
THEOREM PricesAreFresh == Spec => []PriceAge
  BY Invariance, PTL DEF IInv

-----------------------------------------------------------------------------
(* A nonempty set of numbers has a least one. *)
LEMMA LeastOf ==
  ASSUME NEW T \in SUBSET Nat, T # {}
  PROVE  \E n \in T : \A m \in T : n <= m
  <1>. DEFINE U == {0..n : n \in T}
              R == StrictSubsetOrdering(Nat)
  <1>1. U \subseteq FiniteSubsetsOf(Nat)
    <2>1. \A n \in Nat : IsFiniteSet(0..n) /\ 0..n \subseteq Nat
      BY FS_Interval
    <2>2. QED
      BY <2>1 DEF FiniteSubsetsOf
  <1>2. U # {}
    OBVIOUS
  <1>3. IsWellFoundedOn(R, FiniteSubsetsOf(Nat))
    BY FS_StrictSubsetOrderingWellFounded
  <1>. HIDE DEF R, U
  <1>4. \E x \in U : \A y \in U : ~(<<y, x>> \in R)
    BY <1>1, <1>2, <1>3, WFMin
  <1>5. PICK x \in U : \A y \in U : ~(<<y, x>> \in R)
    BY <1>4
  <1>6. PICK n \in T : x = 0..n
    BY <1>5 DEF U
  <1>7. ASSUME NEW m \in T PROVE n <= m
    <2>1. 0..m \in U /\ <<0..m, 0..n>> \notin R
      BY <1>5, <1>6 DEF U
    <2>2. CASE m < n
      <3>1. 0..m \subseteq 0..n /\ n \in 0..n /\ n \notin 0..m
        BY <2>2
      <3>2. 0..m \in SUBSET Nat /\ 0..n \in SUBSET Nat /\ 0..m # 0..n
        BY <3>1
      <3>3. <<0..m, 0..n>> \in R
        BY <3>1, <3>2 DEF R, StrictSubsetOrdering
      <3>4. QED
        BY <2>1, <3>3
    <2>3. QED
      BY <2>2
  <1>8. QED
    BY <1>6, <1>7

(* What holds first and carries over from each place to the next holds at every
   place. *)
LEMMA Climbing ==
  ASSUME NEW S, NEW N \in Nat, 0 \in S,
         \A n \in 0..N - 1 : n \in S => n + 1 \in S
  PROVE  0..N \subseteq S
  <1>. DEFINE T == {n \in 0..N : n \notin S}
  <1>1. SUFFICES ASSUME T # {} PROVE FALSE
    OBVIOUS
  <1>2. T \in SUBSET Nat
    OBVIOUS
  <1>3. \A n \in T : n \in 0..N /\ n \notin S
    OBVIOUS
  <1>4. \A n \in 0..N : n \notin T => n \in S
    OBVIOUS
  <1>. HIDE DEF T
  <1>5. PICK n \in T : \A m \in T : n <= m
    BY <1>1, <1>2, LeastOf
  <1>6. n \in 0..N /\ n # 0 /\ n - 1 \in 0..N - 1 /\ n - 1 \in 0..N /\ (n - 1) + 1 = n
    BY <1>3
  <1>7. n - 1 \notin T
    BY <1>5, <1>6
  <1>8. n - 1 \in S
    BY <1>4, <1>6, <1>7
  <1>9. n \in S
    BY <1>6, <1>8
  <1>10. QED
    BY <1>3, <1>9

(* The loop over the rows: what is best after each of them, the last the
   answer. *)
Looped(best, rows, price, today) ==
  /\ best[0] = {}
  /\ \A n \in 1..Len(rows) : best[n] = Better(best[n - 1], rows[n], price, today)
  /\ Resolve(rows, price, today) = best[Len(rows)]

LEMMA LoopRuns ==
  ASSUME NEW rows, NEW price, NEW today, Len(rows) \in Nat
  PROVE  \E best : Looped(best, rows, price, today)
  <1>. DEFINE N == Len(rows)
              Loop(g, n) == g = [k \in 0..n |-> IF k = 0 THEN {}
                                               ELSE Better(g[k - 1], rows[k], price, today)]
              S == {n \in Nat : \E g : Loop(g, n)}
  <1>1. 0 \in S
    <2>1. Loop([k \in 0..0 |-> {}], 0)
      OBVIOUS
    <2>2. QED
      BY <2>1
  <1>2. ASSUME NEW n \in 0..N - 1, n \in S PROVE n + 1 \in S
    <2>1. PICK g : Loop(g, n)
      BY <1>2
    <2>. DEFINE h == [k \in 0..n + 1 |-> IF k = n + 1 THEN Better(g[n], rows[n + 1], price, today)
                                                     ELSE g[k]]
    <2>2. n \in Nat /\ n + 1 \in Nat
      OBVIOUS
    <2>3. \A k \in 0..n + 1 :
            h[k] = IF k = 0 THEN {} ELSE Better(h[k - 1], rows[k], price, today)
      <3>1. TAKE k \in 0..n + 1
      <3>2. CASE k = n + 1
        BY <2>2, <3>2
      <3>3. CASE k # n + 1
        <4>1. k \in 0..n /\ h[k] = g[k]
          BY <2>2, <3>3
        <4>2. k # 0 => k - 1 \in 0..n + 1 /\ k - 1 # n + 1 /\ h[k - 1] = g[k - 1]
          BY <2>2, <4>1
        <4>3. g[k] = IF k = 0 THEN {} ELSE Better(g[k - 1], rows[k], price, today)
          BY <2>1, <4>1
        <4>4. QED
          BY <4>1, <4>2, <4>3
      <3>4. QED
        BY <3>2, <3>3
    <2>4. Loop(h, n + 1)
      BY <2>3
    <2>5. QED
      BY <2>2, <2>4
  <1>3. N \in S
    <2>. HIDE DEF S, N
    <2>1. N \in Nat
      BY DEF N
    <2>2. 0..N \subseteq S
      BY <1>1, <1>2, <2>1, Climbing
    <2>3. QED
      BY <2>1, <2>2
  <1>. DEFINE best == CHOOSE g : Loop(g, N)
  <1>4. Loop(best, N)
    BY <1>3
  <1>5. Resolve(rows, price, today) = best[N]
    BY DEF Resolve
  <1>6. best[0] = {} /\ \A n \in 1..N : best[n] = Better(best[n - 1], rows[n], price, today)
    <2>. HIDE DEF best
    <2>1. \A k \in 0..N : best[k] = IF k = 0 THEN {} ELSE Better(best[k - 1], rows[k], price, today)
      BY <1>4
    <2>2. QED
      BY <2>1
  <1>7. QED
    BY <1>5, <1>6 DEF Looped

-----------------------------------------------------------------------------
(* A view announces one price or none. *)
Announces(v) ==
  /\ v.product \in BOOLEAN
  /\ \/ v.mode = "PRICE" /\ \E f \in Nat : v.final = {f}
     \/ v.mode = "CTA" /\ v.final = {}

LEMMA TheOnly == ASSUME NEW x PROVE The({x}) = x
  BY DEF The

LEMMA AnnouncedLeast ==
  ASSUME NEW v, Announces(v), NEW f \in v.final
  PROVE  v.final # {} /\ The(v.final) = f /\ The(v.final) <= f
  <1>1. PICK g \in Nat : v.final = {g}
    BY DEF Announces
  <1>2. The(v.final) = g /\ f = g
    BY <1>1, TheOnly
  <1>3. QED
    BY <1>1, <1>2

LEMMA ReducedTyped ==
  ASSUME NEW base \in Nat, NEW c \in Rows, c.cap # {} => The(c.cap) \in Nat
  PROVE  Reduced(base, c) \in Nat
  <1>1. c.value \in Nat /\ c.kind \in {"PERCENT", "FIXED", "FINAL"}
    BY DEF Rows
  <1>2. base * c.value + 50 \in Nat
    BY <1>1
  <1>3. (base * c.value + 50) \div 100 \in Nat
    BY <1>2
  <1>4. PercentOff(base, c) \in Nat
    BY <1>3 DEF PercentOff, Least
  <1>5. base - PercentOff(base, c) \in Int /\ base - c.value \in Int
    BY <1>1, <1>4
  <1>6. QED
    BY <1>1, <1>5 DEF Reduced, Least, AtLeastZero

(* What a row gives: at most one view, with the row's code, scope and end. *)
LEMMA ViewsTyped ==
  ASSUME NEW c \in Rows, NEW price \in Nat, NEW today \in Int, NEW w \in Views(c, price, today)
  PROVE  /\ Views(c, price, today) = {w}
         /\ w.code = c.code /\ w.product = c.product /\ w.until = c.until
         /\ c.until > today /\ ~c.once
         /\ Announces(w)
  <1>1. Usable(c, today)
    BY DEF Views
  <1>2. c.until > today /\ ~c.once
    BY <1>1 DEF Usable
  <1>3. c.value \in Nat /\ c.product \in BOOLEAN /\ c.cap \in SUBSET Nat
    BY DEF Rows
  <1>4. c.cap # {} => The(c.cap) \in Nat
    BY <1>3 DEF The
  <1>. DEFINE v(mode, final) == ViewOf(c, mode, final)
  <1>5. Views(c, price, today) \in {{}, {v("PRICE", {c.value})}, {v("PRICE", {Reduced(price, c)})},
                                    {v("CTA", {})}}
    BY DEF Views
  <1>6. \A mode, final :
          /\ v(mode, final).code = c.code /\ v(mode, final).product = c.product
          /\ v(mode, final).until = c.until /\ v(mode, final).mode = mode
          /\ v(mode, final).final = final
    BY DEF ViewOf
  <1>7. Reduced(price, c) \in Nat
    BY <1>4, ReducedTyped
  <1>. HIDE DEF v
  <1>8. \/ w = v("PRICE", {c.value}) /\ Views(c, price, today) = {w}
        \/ w = v("PRICE", {Reduced(price, c)}) /\ Views(c, price, today) = {w}
        \/ w = v("CTA", {}) /\ Views(c, price, today) = {w}
    BY <1>5
  <1>9. QED
    <2>1. w.code = c.code /\ w.product = c.product /\ w.until = c.until
      BY <1>6, <1>8
    <2>2. Announces(w)
      BY <1>3, <1>6, <1>7, <1>8 DEF Announces
    <2>3. QED
      BY <1>2, <1>8, <2>1, <2>2

(* What the loop has found is a view of a row it has seen, at this price and
   now, and none of those it has seen is better. *)
Unbeaten(b, rows, n, price, today) ==
  \A i \in 1..n : \A w \in Views(rows[i], price, today) :
    \E v \in b : /\ w.product => v.product
                 /\ w.product = v.product =>
                      \A f \in w.final : v.final # {} /\ The(v.final) <= f

FromRows(b, rows, n, price, today) ==
  b # {} => \E i \in 1..n : b = Views(rows[i], price, today)

LEMMA BetterTurns ==
  ASSUME NEW rows, NEW n \in Nat, NEW price \in Nat, NEW today \in Int,
         \A i \in 1..n + 1 : rows[i] \in Rows,
         NEW b, FromRows(b, rows, n, price, today), Unbeaten(b, rows, n, price, today)
  PROVE  LET d == Better(b, rows[n + 1], price, today)
         IN FromRows(d, rows, n + 1, price, today) /\ Unbeaten(d, rows, n + 1, price, today)
  <1>. DEFINE V(i) == Views(rows[i], price, today)
              d == Better(b, rows[n + 1], price, today)
  <1>1. n + 1 \in 1..n + 1 /\ \A i \in 1..n : i \in 1..n + 1
    OBVIOUS
  <1>2. \A i \in 1..n + 1 : i = n + 1 \/ i \in 1..n
    OBVIOUS
  <1>3. \A i \in 1..n + 1 : \A w \in V(i) : V(i) = {w} /\ Announces(w)
    <2>1. TAKE i \in 1..n + 1
    <2>2. TAKE w \in V(i)
    <2>3. rows[i] \in Rows
      BY <2>1
    <2>4. QED
      BY <2>2, <2>3, ViewsTyped
  <1>4. d = IF V(n + 1) = {} \/ (b # {} /\ ~Beats(The(V(n + 1)), The(b))) THEN b ELSE V(n + 1)
    BY DEF Better
  <1>5. b # {} => \E i \in 1..n : b = V(i)
    BY DEF FromRows
  <1>6. \A i \in 1..n : \A w \in V(i) : \E v \in b :
          /\ w.product => v.product
          /\ w.product = v.product => \A f \in w.final : v.final # {} /\ The(v.final) <= f
    BY DEF Unbeaten
  <1>7. \A v \in b : b = {v} /\ Announces(v)
    BY <1>1, <1>3, <1>5
  <1>. HIDE DEF V, d
  <1>8. d # {} => \E i \in 1..n + 1 : d = V(i)
    BY <1>1, <1>4, <1>5
  <1>9. ASSUME NEW i \in 1..n + 1, NEW w \in V(i)
        PROVE  \E v \in d : /\ w.product => v.product
                            /\ w.product = v.product =>
                                 \A f \in w.final : v.final # {} /\ The(v.final) <= f
    <2>1. CASE V(n + 1) = {}
      BY <1>2, <1>4, <1>6, <1>9, <2>1
    <2>2. CASE b = {} /\ V(n + 1) # {}
      <3>1. d = V(n + 1) /\ i = n + 1
        BY <1>2, <1>4, <1>6, <1>9, <2>2
      <3>2. w \in d /\ Announces(w)
        BY <1>3, <1>9, <3>1
      <3>3. \A f \in w.final : w.final # {} /\ The(w.final) <= f
        BY <3>2, AnnouncedLeast
      <3>4. QED
        BY <3>2, <3>3
    <2>3. CASE b # {} /\ V(n + 1) # {}
      <3>1. PICK x \in b : TRUE
        BY <2>3
      <3>2. PICK y \in V(n + 1) : TRUE
        BY <2>3
      <3>3. b = {x} /\ The(b) = x /\ Announces(x) /\ V(n + 1) = {y} /\ The(V(n + 1)) = y
            /\ Announces(y)
        BY <1>1, <1>3, <1>7, <3>1, <3>2, TheOnly
      <3>4. d = IF Beats(y, x) THEN {y} ELSE {x}
        BY <1>4, <3>3
      <3>5. Announces(w)
        BY <1>3, <1>9
      <3>6. CASE i = n + 1
        <4>1. w = y
          BY <1>9, <3>3, <3>6
        <4>2. CASE Beats(y, x)
          <5>1. \A f \in y.final : y.final # {} /\ The(y.final) <= f
            BY <3>3, AnnouncedLeast
          <5>2. d = {y}
            BY <3>4, <4>2
          <5>3. QED
            BY <4>1, <5>1, <5>2
        <4>3. CASE ~Beats(y, x)
          <5>1. x.product \in BOOLEAN /\ y.product \in BOOLEAN
            BY <3>3 DEF Announces
          <5>2. y.product => x.product
            BY <4>3, <5>1 DEF Beats
          <5>3. ASSUME y.product = x.product, NEW f \in y.final
                PROVE  x.final # {} /\ The(x.final) <= f
            <6>1. y.mode = "PRICE" /\ y.final = {f} /\ f \in Nat /\ The(y.final) = f
              BY <3>3, <5>3, TheOnly DEF Announces
            <6>2. x.mode # "CTA" /\ ~(The(y.final) < The(x.final))
              BY <4>3, <5>3, <6>1 DEF Beats
            <6>3. PICK g \in Nat : x.final = {g}
              BY <3>3, <6>2 DEF Announces
            <6>4. The(x.final) = g
              BY <6>3, TheOnly
            <6>5. QED
              BY <6>1, <6>2, <6>3, <6>4
          <5>4. d = {x}
            BY <3>4, <4>3
          <5>5. QED
            BY <4>1, <5>2, <5>3, <5>4
        <4>4. QED
          BY <4>2, <4>3
      <3>7. CASE i \in 1..n
        <4>1. /\ w.product => x.product
              /\ w.product = x.product => \A f \in w.final : x.final # {} /\ The(x.final) <= f
          BY <1>6, <1>9, <3>3, <3>7
        <4>2. CASE Beats(y, x)
          <5>1. x.product \in BOOLEAN /\ y.product \in BOOLEAN /\ w.product \in BOOLEAN
            BY <3>3, <3>5 DEF Announces
          <5>2. x.product => y.product
            BY <4>2, <5>1 DEF Beats
          <5>3. ASSUME w.product = y.product, NEW f \in w.final
                PROVE  y.final # {} /\ The(y.final) <= f
            <6>1. x.product = y.product
              BY <4>1, <5>1, <5>2, <5>3
            <6>2. f \in Nat /\ x.final # {} /\ The(x.final) <= f
              BY <3>5, <4>1, <5>3, <6>1 DEF Announces
            <6>3. PICK g \in Nat : x.mode = "PRICE" /\ x.final = {g}
              BY <3>3, <6>2 DEF Announces
            <6>4. y.mode = "PRICE" /\ The(y.final) < The(x.final)
              BY <4>2, <6>1, <6>3 DEF Beats
            <6>5. PICK h \in Nat : y.final = {h}
              BY <3>3, <6>4 DEF Announces
            <6>6. The(x.final) = g /\ The(y.final) = h
              BY <6>3, <6>5, TheOnly
            <6>7. g <= f /\ h < g /\ f \in Nat
              BY <6>2, <6>4, <6>6
            <6>8. QED
              BY <6>5, <6>6, <6>7
          <5>4. d = {y}
            BY <3>4, <4>2
          <5>5. QED
            BY <4>1, <5>2, <5>3, <5>4
        <4>3. CASE ~Beats(y, x)
          BY <3>4, <4>1, <4>3
        <4>4. QED
          BY <4>2, <4>3
      <3>8. QED
        BY <1>2, <3>6, <3>7
    <2>4. QED
      BY <2>1, <2>2, <2>3
  <1>10. QED
    BY <1>8, <1>9 DEF V, d, FromRows, Unbeaten

(* resolveForDeal finds a view of a row, and none is better. *)
LEMMA ResolveBest ==
  ASSUME NEW rows, Len(rows) \in Nat, \A i \in 1..Len(rows) : rows[i] \in Rows,
         NEW price \in Nat, NEW today \in Int
  PROVE  LET b == Resolve(rows, price, today)
         IN /\ FromRows(b, rows, Len(rows), price, today)
            /\ Unbeaten(b, rows, Len(rows), price, today)
  <1>. DEFINE N == Len(rows)
  <1>1. PICK best : Looped(best, rows, price, today)
    BY LoopRuns
  <1>2. /\ best[0] = {}
        /\ \A n \in 1..N : best[n] = Better(best[n - 1], rows[n], price, today)
        /\ Resolve(rows, price, today) = best[N]
    BY <1>1 DEF Looped
  <1>. DEFINE Kept(n) == /\ FromRows(best[n], rows, n, price, today)
                         /\ Unbeaten(best[n], rows, n, price, today)
              S == {n \in 0..N : Kept(n)}
  <1>3. 0 \in S
    BY <1>2 DEF FromRows, Unbeaten
  <1>4. ASSUME NEW n \in 0..N - 1, n \in S PROVE n + 1 \in S
    <2>1. n \in Nat /\ n + 1 \in 1..N /\ (n + 1) - 1 = n /\ n + 1 \in 0..N
      OBVIOUS
    <2>2. best[n + 1] = Better(best[n], rows[n + 1], price, today)
      BY <1>2, <2>1
    <2>3. \A i \in 1..n + 1 : rows[i] \in Rows
      BY <2>1
    <2>4. Kept(n)
      BY <1>4
    <2>5. Kept(n + 1)
      BY <2>1, <2>2, <2>3, <2>4, BetterTurns
    <2>6. QED
      BY <2>1, <2>5
  <1>5. N \in S
    <2>. HIDE DEF S
    <2>1. 0..N \subseteq S
      BY <1>3, <1>4, Climbing
    <2>2. QED
      BY <2>1
  <1>6. QED
    BY <1>2, <1>5

-----------------------------------------------------------------------------
(* What is needed of the coupons: somebody entered each, and a job without a
   curator's coupon carries a view of one of them, of the job's price, made no
   later than now. *)
Entered == coupons \subseteq Offered /\ IsFiniteSet(coupons)

CouponFitsJob ==
  \A j \in job : j.deal.edits.coupon = {} =>
    \A c \in j.coupon : \E row \in coupons : \E t \in 0..now : c \in Views(row, j.deal.price, t)

CouponInv == Entered /\ CouponFitsJob /\ CouponIsGood

(* The rows a search can return are all that match, each once. *)
LEMMA RowsListed ==
  ASSUME Entered, NEW rows \in SetToSeqs(Matching)
  PROVE  /\ Len(rows) \in Nat
         /\ \A i \in 1..Len(rows) : rows[i] \in Matching
         /\ \A c \in Matching : \E i \in 1..Len(rows) : rows[i] = c
  <1>. DEFINE N == Cardinality(Matching)
  <1>1. IsFiniteSet(Matching)
    <2>1. Matching \subseteq coupons
      BY DEF Matching
    <2>2. QED
      BY <2>1, FS_Subset DEF Entered
  <1>2. N \in Nat
    BY <1>1, FS_CardinalityType
  <1>3. rows \in [1..N -> Matching] /\ \A i, j \in 1..N : i # j => rows[i] # rows[j]
    BY DEF SetToSeqs
  <1>4. rows \in Injection(1..N, Matching)
    BY <1>3 DEF Injection, IsInjective
  <1>5. Cardinality(1..N) = N
    BY <1>2, FS_Interval
  <1>6. rows \in Surjection(1..N, Matching)
    BY <1>1, <1>4, <1>5, FS_Injection
  <1>7. rows \in Seq(Matching) /\ Len(rows) = N
    BY <1>2, <1>3
  <1>8. QED
    BY <1>2, <1>3, <1>6, <1>7 DEF Surjection

(* What a search finds is a view of a row, and it is the best. *)
LEMMA FoundBest ==
  ASSUME Entered, now \in Nat, NEW price \in Nat, NEW found \in Found(price), NEW v \in found
  PROVE  /\ \E row \in coupons : v \in Views(row, price, now)
         /\ \A c \in coupons : \A w \in Views(c, price, now) :
              /\ w.product => v.product
              /\ w.product = v.product => \A f \in w.final : v.final # {} /\ The(v.final) <= f
  <1>1. PICK rows \in SetToSeqs(Matching) : found = Resolve(rows, price, now)
    BY DEF Found
  <1>2. /\ Len(rows) \in Nat
        /\ \A i \in 1..Len(rows) : rows[i] \in Matching
        /\ \A c \in Matching : \E i \in 1..Len(rows) : rows[i] = c
    BY RowsListed
  <1>3. Matching \subseteq coupons /\ coupons \subseteq Rows
    BY PricingAssumption DEF Matching, Entered
  <1>4. \A i \in 1..Len(rows) : rows[i] \in Rows
    BY <1>2, <1>3
  <1>5. /\ FromRows(found, rows, Len(rows), price, now)
        /\ Unbeaten(found, rows, Len(rows), price, now)
    BY <1>1, <1>2, <1>4, ResolveBest
  <1>6. PICK i \in 1..Len(rows) : found = Views(rows[i], price, now)
    BY <1>5 DEF FromRows
  <1>7. rows[i] \in coupons /\ v \in Views(rows[i], price, now) /\ found = {v}
    BY <1>2, <1>3, <1>4, <1>6, ViewsTyped
  <1>8. ASSUME NEW c \in coupons, NEW w \in Views(c, price, now)
        PROVE  /\ w.product => v.product
               /\ w.product = v.product => \A f \in w.final : v.final # {} /\ The(v.final) <= f
    <2>1. c \in Rows
      BY <1>3
    <2>2. c.until > now
      BY <2>1, <1>8, ViewsTyped
    <2>3. c \in Matching
      BY <2>2 DEF Matching
    <2>4. PICK k \in 1..Len(rows) : rows[k] = c
      BY <1>2, <2>3
    <2>5. QED
      BY <1>5, <1>7, <1>8, <2>4 DEF Unbeaten
  <1>9. QED
    BY <1>7, <1>8

(* A coupon of the table never has a typed code. *)
LEMMA TableCode ==
  ASSUME Entered, NEW row \in coupons, NEW price \in Nat, NEW t \in Int,
         NEW v \in Views(row, price, t)
  PROVE  /\ v.code # Hand /\ v.code = row.code /\ v.until = row.until
         /\ ~row.once /\ row.until > t
  <1>1. row \in Rows /\ row.code # Hand
    BY PricingAssumption DEF Entered
  <1>2. QED
    BY <1>1, ViewsTyped

LEMMA HandCode ==
  ASSUME NEW s, s.edits.coupon # {}, NEW found, NEW c \in CouponOf(s, found)
  PROVE  c.code = Hand /\ c = CuratorView(The(s.edits.coupon).final, s.price, now)
  BY DEF CouponOf, CuratorView

(* What is printed is good when each coupon of the table fits the price now
   printed, and can be used now. *)
LEMMA CaptionGood ==
  ASSUME Entered, now \in Nat, NEW s \in Cards, NEW v, NEW found,
         s.edits.coupon = {} =>
           \A c \in found : \E row \in coupons : \E t \in 0..now :
             c \in Views(row, s.price, t) /\ c.until > now,
         Caption(s, v, CouponOf(s, found)), UNCHANGED <<coupons, now>>
  PROVE  CouponIsGood'
  <1>1. \A m \in message' : m.deal = s /\ m.coupon = CouponOf(s, found) /\ m.taken = now
    BY DEF Caption
  <1>2. s.price \in Nat
    BY DEF Cards
  <1>3. CASE s.edits.coupon = {}
    <2>1. CouponOf(s, found) = found
      BY <1>3 DEF CouponOf
    <2>2. ASSUME NEW c \in found
          PROVE  /\ c.code # Hand
                 /\ \E row \in coupons : \E t \in 0..now : c \in Views(row, s.price, t)
                 /\ \E row \in coupons : row.code = c.code /\ ~row.once /\ row.until > now
      <3>1. PICK row \in coupons : \E t \in 0..now :
              c \in Views(row, s.price, t) /\ c.until > now
        BY <1>3
      <3>2. PICK t \in 0..now : c \in Views(row, s.price, t) /\ c.until > now
        BY <3>1
      <3>3. c.code # Hand /\ c.code = row.code /\ c.until = row.until /\ ~row.once
        BY <1>2, <3>2, TableCode
      <3>4. QED
        BY <3>1, <3>2, <3>3
    <2>3. QED
      BY <1>1, <2>1, <2>2 DEF CouponIsGood, CouponFitsPrice, CodeIsGood
  <1>4. CASE s.edits.coupon # {}
    <2>1. \A c \in CouponOf(s, found) :
            c.code = Hand /\ c = CuratorView(The(s.edits.coupon).final, s.price, now)
      BY <1>4, HandCode
    <2>2. \A m \in message' : \A c \in m.coupon :
            c.code = Hand /\ c = CuratorView(The(m.deal.edits.coupon).final, m.deal.price, m.taken)
      BY <1>1, <2>1
    <2>3. QED
      BY <2>2 DEF CouponIsGood, CouponFitsPrice, CodeIsGood
  <1>5. QED
    BY <1>3, <1>4

LEMMA CouponInitially == Init => CouponInv
  BY FS_EmptySet DEF Init, CouponInv, Entered, CouponFitsJob, CouponIsGood, CouponFitsPrice, CodeIsGood

(* A dispatch puts on the job what was found for the price the job carries, or
   the curator's coupon. *)
LEMMA DispatchCarries ==
  ASSUME IInv, Dispatch, NEW j \in job'
  PROVE  /\ j.deal.price \in Nat
         /\ \E found \in Found(j.deal.price) : j.coupon = CouponOf(j.deal, found)
  <1>1. PICK s \in card : \E e \in {s.edits} \union Edits :
          LET edited == IF e = s.edits THEN s ELSE Edited(s, e) IN
          /\ now < s.held + CardTTL
          /\ \E v \in {cache, Shown, {}} :
               /\ IF edited.edits.price # {} \/ s.manual THEN v = {} /\ UNCHANGED cache
                                                          ELSE Scrape(v)
               /\ \E found \in Found(Corrected(edited, v).price) :
                    Enqueue(Corrected(edited, v), v, found)
    BY DEF Dispatch
  <1>2. PICK sent, v : \E found \in Found(sent.price) : Enqueue(sent, v, found)
    BY <1>1
  <1>3. PICK found \in Found(sent.price) : Enqueue(sent, v, found)
    BY <1>2
  <1>4. j.deal = sent /\ j.coupon = CouponOf(sent, found)
    BY <1>3 DEF Enqueue
  <1>5. j.deal.price \in Nat
    <2>1. IInv'
      BY DispatchKeeps
    <2>2. QED
      BY <2>1 DEF IInv, TypeOK, Cards
  <1>6. QED
    BY <1>3, <1>4, <1>5

LEMMA DispatchFits == ASSUME IInv, CouponInv, message = {}, Dispatch PROVE CouponInv'
  <1>1. UNCHANGED <<now, coupons, message>>
    BY DEF Dispatch
  <1>2. now \in Nat
    BY DEF IInv, TypeOK
  <1>3. ASSUME NEW j \in job', j.deal.edits.coupon = {}, NEW c \in j.coupon
        PROVE  \E row \in coupons : \E t \in 0..now : c \in Views(row, j.deal.price, t)
    <2>1. PICK found \in Found(j.deal.price) : j.coupon = CouponOf(j.deal, found)
      BY DispatchCarries
    <2>2. j.deal.price \in Nat
      BY DispatchCarries
    <2>3. c \in found
      BY <1>3, <2>1 DEF CouponOf
    <2>4. \E row \in coupons : c \in Views(row, j.deal.price, now)
      BY <1>2, <2>2, <2>3, FoundBest DEF CouponInv
    <2>5. now \in 0..now
      BY <1>2
    <2>6. QED
      BY <2>4, <2>5
  <1>4. CouponFitsJob'
    BY <1>1, <1>3 DEF CouponFitsJob
  <1>5. Entered' /\ CouponIsGood'
    BY <1>1 DEF CouponInv, Entered, CouponIsGood, CouponFitsPrice, CodeIsGood
  <1>6. QED
    BY <1>4, <1>5 DEF CouponInv

LEMMA PrintAsIsFits == ASSUME IInv, CouponInv, PrintAsIs PROVE CouponInv'
  <1>1. PICK j \in job : Caption(j.deal, j.view, CouponOf(j.deal, StillValid(j.coupon)))
    BY DEF PrintAsIs
  <1>2. job' = {} /\ UNCHANGED <<now, coupons>>
    BY DEF PrintAsIs
  <1>3. j.deal \in Cards /\ now \in Nat
    BY DEF IInv, TypeOK
  <1>4. j.deal.edits.coupon = {} =>
          \A c \in StillValid(j.coupon) : \E row \in coupons : \E t \in 0..now :
            c \in Views(row, j.deal.price, t) /\ c.until > now
    BY DEF StillValid, CouponInv, CouponFitsJob
  <1>5. CouponIsGood'
    BY <1>1, <1>2, <1>3, <1>4, CaptionGood DEF CouponInv
  <1>6. Entered' /\ CouponFitsJob'
    BY <1>2 DEF CouponInv, Entered, CouponFitsJob
  <1>7. QED
    BY <1>5, <1>6 DEF CouponInv

LEMMA PrintRefreshedFits == ASSUME IInv, CouponInv, PrintRefreshed PROVE CouponInv'
  <1>1. PICK j \in job : \E v \in {cache, Shown} :
          /\ v # {} /\ Scrape(v)
          /\ LET s == Corrected(j.deal, v)
             IN \E found \in Found(s.price) : Caption(s, v, CouponOf(s, found))
    BY DEF PrintRefreshed
  <1>2. PICK v \in {cache, Shown} :
          /\ v # {} /\ Scrape(v)
          /\ LET s == Corrected(j.deal, v)
             IN \E found \in Found(s.price) : Caption(s, v, CouponOf(s, found))
    BY <1>1
  <1>. DEFINE s == Corrected(j.deal, v)
  <1>3. PICK found \in Found(s.price) : Caption(s, v, CouponOf(s, found))
    BY <1>2
  <1>4. job' = {} /\ UNCHANGED <<now, coupons>> /\ now \in Nat
    BY DEF PrintRefreshed, IInv, TypeOK
  <1>5. The(v) \in Readings
    BY <1>2, ScrapeFresh
  <1>6. s \in Cards
    BY <1>5, CorrectedTyped DEF IInv, TypeOK
  <1>. HIDE DEF s
  <1>7. ASSUME NEW c \in found
        PROVE  \E row \in coupons : \E t \in 0..now : c \in Views(row, s.price, t) /\ c.until > now
    <2>1. s.price \in Nat
      BY <1>6 DEF Cards
    <2>2. PICK row \in coupons : c \in Views(row, s.price, now)
      BY <1>4, <2>1, FoundBest DEF CouponInv
    <2>3. c.until > now
      BY <1>4, <2>1, <2>2, TableCode DEF CouponInv
    <2>4. now \in 0..now
      BY <1>4
    <2>5. QED
      BY <2>2, <2>3, <2>4
  <1>8. CouponIsGood'
    BY <1>3, <1>4, <1>6, <1>7, CaptionGood DEF CouponInv
  <1>9. Entered' /\ CouponFitsJob'
    BY <1>4 DEF CouponInv, Entered, CouponFitsJob
  <1>10. QED
    BY <1>8, <1>9 DEF CouponInv

(* While no caption waits, the clock may go on and coupons may be entered: what
   fitted still does. *)
LEMMA RestFits ==
  ASSUME IInv, CouponInv, message' = {} \/ UNCHANGED <<now, coupons, message>>,
         job' = {} \/ UNCHANGED job, now' \in Nat, now <= now',
         coupons \subseteq coupons', Entered'
  PROVE  CouponInv'
  <1>1. CouponFitsJob'
    <2>1. now \in Nat
      BY DEF IInv, TypeOK
    <2>2. 0..now \subseteq 0..now'
      BY <2>1
    <2>3. QED
      BY <2>2 DEF CouponInv, CouponFitsJob
  <1>2. CouponIsGood'
    BY DEF CouponInv, CouponIsGood, CouponFitsPrice, CodeIsGood
  <1>3. QED
    BY <1>1, <1>2 DEF CouponInv

LEMMA CouponEnteredFits == ASSUME IInv, CouponInv, message = {}, CouponEntered PROVE CouponInv'
  <1>1. PICK c \in Offered \ coupons : coupons' = coupons \union {c}
    BY DEF CouponEntered
  <1>2. Entered'
    BY <1>1, FS_AddElement DEF CouponInv, Entered
  <1>3. UNCHANGED <<now, job, message>> /\ now \in Nat
    BY DEF CouponEntered, IInv, TypeOK
  <1>4. QED
    BY <1>1, <1>2, <1>3, RestFits

LEMMA CouponInductive == IInv /\ CouponInv /\ [Next]_vars => CouponInv'
  <1>. SUFFICES ASSUME IInv, CouponInv, [Next]_vars PROVE CouponInv'
    OBVIOUS
  <1>1. now \in Nat
    BY DEF IInv, TypeOK
  <1>2. ASSUME Publish \/ Drop \/ UNCHANGED vars PROVE CouponInv'
    <2>1. UNCHANGED <<now, coupons>> /\ (message' = {} \/ UNCHANGED message)
          /\ (job' = {} \/ UNCHANGED job)
      BY <1>2 DEF Publish, Drop, vars
    <2>2. Entered'
      BY <2>1 DEF CouponInv, Entered
    <2>3. QED
      BY <1>1, <2>1, <2>2, RestFits
  <1>3. ASSUME \/ \E r \in Runs : Screen(r) \/ Score(r)
               \/ Compose \/ PageChanges \/ TimePasses,
               message = {}
        PROVE  CouponInv'
    <2>1. UNCHANGED <<coupons, job, message>> /\ now' \in Nat /\ now <= now'
      BY <1>1, <1>3 DEF Screen, Score, Compose, PageChanges, TimePasses
    <2>2. Entered'
      BY <2>1 DEF CouponInv, Entered
    <2>3. QED
      BY <1>3, <2>1, <2>2, RestFits
  <1>4. QED
    BY <1>2, <1>3, DispatchFits, PrintAsIsFits, PrintRefreshedFits, CouponEnteredFits DEF Next

(* What the table, the job and the caption say of coupons holds in every
   reachable state. *)
THEOREM CouponInvariance == Spec => []CouponInv
  BY Invariance, CouponInitially, CouponInductive, PTL DEF Spec

(* A printed coupon is one the rules give at the printed price, and its code can
   still be used: it is a curator's, or in the table, for everybody, and not
   expired when the worker printed it. *)
THEOREM PrintedCouponsFit == Spec => []CouponIsGood
  BY CouponInvariance, PTL DEF CouponInv

(* Whatever the order of the rows, no other coupon would have served the deal
   better than the one a dispatch puts on its job. *)
THEOREM DispatchFindsTheBest == Spec => BestCoupon
  <1>1. IInv /\ CouponInv /\ [Next]_vars =>
          [\A j \in job' \ job : \A v \in j.coupon : v.code # Hand =>
             \A c \in coupons : \A w \in Views(c, j.deal.price, now) :
               /\ w.product => v.product
               /\ w.product = v.product => \A f \in w.final : v.final # {} /\ The(v.final) <= f]_vars
    <2>. SUFFICES ASSUME IInv, CouponInv, Next, NEW j \in job' \ job, NEW v \in j.coupon,
                         v.code # Hand
                  PROVE  \A c \in coupons : \A w \in Views(c, j.deal.price, now) :
                           /\ w.product => v.product
                           /\ w.product = v.product =>
                                \A f \in w.final : v.final # {} /\ The(v.final) <= f
      OBVIOUS
    <2>1. Dispatch
      BY DEF Next, Publish, Screen, Score, Compose, PrintAsIs, PrintRefreshed, Drop, CouponEntered,
             PageChanges, TimePasses
    <2>2. PICK found \in Found(j.deal.price) : j.coupon = CouponOf(j.deal, found)
      BY <2>1, DispatchCarries
    <2>3. j.deal.price \in Nat
      BY <2>1, DispatchCarries
    <2>4. v \in found
      BY <2>2, HandCode DEF CouponOf
    <2>5. now \in Nat
      BY DEF IInv, TypeOK
    <2>6. QED
      BY <2>3, <2>4, <2>5, FoundBest DEF CouponInv
  <1>2. QED
    BY <1>1, Invariance, CouponInvariance, PTL DEF Spec, BestCoupon

-----------------------------------------------------------------------------
(* The points as functions of the price. *)

LEMMA DivMonotone ==
  ASSUME NEW a \in Int, NEW b \in Int, a <= b, NEW d \in Nat \ {0}
  PROVE  a \div d \in Int /\ b \div d \in Int /\ a \div d <= b \div d
  <1>. DEFINE x == a \div d
              y == b \div d
  <1>1. x \in Int /\ y \in Int
    OBVIOUS
  <1>2. d * x <= a /\ b < d * (y + 1)
    OBVIOUS
  <1>. HIDE DEF x, y
  <1>3. ASSUME y + 1 <= x PROVE FALSE
    <2>1. d * (y + 1) <= d * x
      BY <1>1, <1>3
    <2>2. QED
      BY <1>1, <1>2, <2>1
  <1>4. x <= y
    BY <1>1, <1>3
  <1>5. QED
    BY <1>1, <1>4 DEF x, y

LEMMA RoundMonotone ==
  ASSUME NEW a \in Int, NEW b \in Int, a <= b, NEW d \in Nat \ {0}
  PROVE  Round(a, d) \in Int /\ Round(b, d) \in Int /\ Round(a, d) <= Round(b, d)
  <1>1. 2 * a + d \in Int /\ 2 * b + d \in Int /\ 2 * a + d <= 2 * b + d /\ 2 * d \in Nat \ {0}
    OBVIOUS
  <1>2. QED
    BY <1>1, DivMonotone DEF Round

LEMMA ClampMonotone ==
  ASSUME NEW m \in Int, NEW n \in Int, m <= n, NEW hi \in Nat
  PROVE  /\ Clamp(m, 0, hi) \in Nat /\ Clamp(n, 0, hi) \in Nat
         /\ Clamp(m, 0, hi) <= Clamp(n, 0, hi)
  BY DEF Clamp

LEMMA DiscountMonotone ==
  ASSUME NEW p \in Nat, NEW q \in Nat, p < q
  PROVE  /\ DiscountPoints(OffOf(p)) \in Nat /\ DiscountPoints(OffOf(q)) \in Nat
         /\ DiscountPoints(OffOf(q)) <= DiscountPoints(OffOf(p))
  <1>1. Original \in Nat \ {0} /\ W.discountMax \in Nat
    BY PricingAssumption, ScoreAssumption
  <1>2. 100 * (Original - q) \in Int /\ 100 * (Original - p) \in Int
        /\ 100 * (Original - q) <= 100 * (Original - p)
    BY <1>1
  <1>3. OffOf(p) \in Int /\ OffOf(q) \in Int /\ OffOf(q) <= OffOf(p)
    BY <1>1, <1>2, RoundMonotone DEF OffOf
  <1>. DEFINE x == OffOf(q) - 25
              y == OffOf(p) - 25
              k == W.discountMax
  <1>4. x \in Int /\ y \in Int /\ x <= y
    BY <1>3
  <1>. HIDE DEF x, y, k
  <1>5. k \in Nat
    BY <1>1 DEF k
  <1>6. x * k \in Int /\ y * k \in Int /\ x * k <= y * k
    BY <1>4, <1>5
  <1>7. 25 \in Nat \ {0}
    OBVIOUS
  <1>8. Round(x * k, 25) \in Int /\ Round(y * k, 25) \in Int /\ Round(x * k, 25) <= Round(y * k, 25)
    BY <1>6, <1>7, RoundMonotone
  <1>9. QED
    BY <1>5, <1>8, ClampMonotone DEF DiscountPoints, x, y, k

(* What a history consists of. *)
Observed == [price : Nat, at : Int, by : Nat]

(* The price at a place of a finite history exists. *)
LEMMA RankedTyped ==
  ASSUME NEW obs, obs \subseteq Observed, IsFiniteSet(obs),
         NEW i \in 1..Cardinality(obs)
  PROVE  Ranked(obs, i) \in Nat
  <1>. DEFINE UpTo(n) == {o \in obs : o.price <= n}
              T == {n \in Nat : i <= Cardinality(UpTo(n))}
  <1>1. \A n : IsFiniteSet(UpTo(n)) /\ Cardinality(UpTo(n)) \in Nat
    <2>1. TAKE n
    <2>2. UpTo(n) \subseteq obs
      OBVIOUS
    <2>3. QED
      BY <2>2, FS_Subset, FS_CardinalityType
  <1>2. T # {}
    <2>1. PICK n \in Nat : \A o \in obs : o.price <= n
      <3>. DEFINE Above(n) == {o \in obs : o.price > n}
                  U == {Above(n) : n \in Nat}
                  R == StrictSubsetOrdering(obs)
      <3>1. U \subseteq FiniteSubsetsOf(obs) /\ U # {}
        <4>1. \A n \in Nat : Above(n) \in SUBSET obs
          OBVIOUS
        <4>2. \A n \in Nat : Above(n) \in FiniteSubsetsOf(obs)
          <5>. HIDE DEF Above
          <5>1. QED
            BY <4>1, FS_Subset DEF FiniteSubsetsOf
        <4>3. QED
          BY <4>2
      <3>2. IsWellFoundedOn(R, FiniteSubsetsOf(obs))
        BY FS_StrictSubsetOrderingWellFounded
      <3>3. PICK x \in U : \A y \in U : ~(<<y, x>> \in R)
        <4>. HIDE DEF R, U
        <4>1. QED
          BY <3>1, <3>2, WFMin
      <3>4. PICK n \in Nat : x = Above(n)
        BY <3>3
      <3>5. ASSUME NEW o \in obs, o.price > n PROVE FALSE
        <4>1. o.price \in Nat /\ Above(o.price) \in U
          BY DEF Observed
        <4>2. Above(o.price) \subseteq Above(n) /\ o \in Above(n) /\ o \notin Above(o.price)
          BY <3>4, <3>5, <4>1 DEF Observed
        <4>3. <<Above(o.price), Above(n)>> \in R
          BY <4>2 DEF StrictSubsetOrdering
        <4>4. QED
          BY <3>3, <3>4, <4>1, <4>3
      <3>6. QED
        BY <3>5 DEF Observed
    <2>2. UpTo(n) = obs
      BY <2>1
    <2>3. Cardinality(obs) \in Nat /\ i <= Cardinality(obs) /\ i \in Nat
      BY FS_CardinalityType
    <2>4. QED
      BY <2>2, <2>3
  <1>3. PICK n \in T : \A m \in T : n <= m
    <2>1. T \in SUBSET Nat
      OBVIOUS
    <2>. HIDE DEF T
    <2>2. QED
      BY <1>2, <2>1, LeastOf
  <1>4. n \in Nat /\ i <= Cardinality(UpTo(n)) /\ i \in Nat /\ i # 0
    BY <1>3
  <1>. DEFINE Below == {o \in obs : o.price < n}
  <1>5. Below \subseteq UpTo(n) /\ IsFiniteSet(Below) /\ Cardinality(Below) \in Nat
    BY FS_Subset, FS_CardinalityType DEF Observed
  <1>6. Cardinality(Below) < i
    <2>1. CASE n = 0
      <3>1. Below = {}
        BY <2>1 DEF Observed
      <3>2. QED
        BY <1>4, <3>1, FS_EmptySet
    <2>2. CASE n # 0
      <3>1. n - 1 \in Nat /\ n - 1 < n
        BY <1>4, <2>2
      <3>2. Below = UpTo(n - 1)
        BY <1>4, <3>1 DEF Observed
      <3>3. n - 1 \notin T
        BY <1>3, <3>1
      <3>4. ~(i <= Cardinality(UpTo(n - 1)))
        BY <3>1, <3>3
      <3>5. ~(i <= Cardinality(Below))
        BY <3>2, <3>4
      <3>. HIDE DEF Below
      <3>6. QED
        BY <1>4, <1>5, <3>5
    <2>3. QED
      BY <2>1, <2>2
  <1>7. n \in {o.price : o \in obs}
    <2>1. ASSUME n \notin {o.price : o \in obs} PROVE FALSE
      <3>1. UpTo(n) = Below
        BY <1>4, <2>1 DEF Observed
      <3>2. QED
        <4>. HIDE DEF Below, UpTo
        <4>1. QED
          BY <1>1, <1>4, <1>5, <1>6, <3>1
    <2>2. QED
      BY <2>1
  <1>8. Ranked(obs, i) \in {o.price : o \in obs}
    BY <1>4, <1>6, <1>7 DEF Ranked
  <1>9. QED
    BY <1>8 DEF Observed

(* So the median is a number. *)
LEMMA MedianTyped ==
  ASSUME NEW obs, obs \subseteq Observed, IsFiniteSet(obs), obs # {}
  PROVE  Median(obs) \in Nat
  <1>. DEFINE n == Cardinality(obs)
  <1>1. n \in Nat /\ n # 0
    BY FS_CardinalityType, FS_EmptySet
  <1>. HIDE DEF n
  <1>2. CASE n % 2 = 0
    <2>1. n \div 2 \in 1..n /\ n \div 2 + 1 \in 1..n
      BY <1>1, <1>2
    <2>2. Ranked(obs, n \div 2) \in Nat /\ Ranked(obs, n \div 2 + 1) \in Nat
      BY <2>1, RankedTyped DEF n
    <2>3. (Ranked(obs, n \div 2) + Ranked(obs, n \div 2 + 1) + 1) \div 2 \in Nat
      BY <2>2
    <2>4. QED
      BY <1>2, <2>3 DEF Median, n
  <1>3. CASE n % 2 # 0
    <2>1. n \div 2 + 1 \in 1..n
      BY <1>1, <1>3
    <2>2. Ranked(obs, n \div 2 + 1) \in Nat
      BY <2>1, RankedTyped DEF n
    <2>3. QED
      BY <1>3, <2>2 DEF Median, n
  <1>4. QED
    BY <1>2, <1>3

LEMMA MedianMonotone ==
  ASSUME NEW a, a.month \subseteq Observed, IsFiniteSet(a.month),
         NEW p \in Nat, NEW q \in Nat, p < q
  PROVE  /\ MedianPoints(a, p) \in Int /\ MedianPoints(a, q) \in Int
         /\ MedianPoints(a, q) <= MedianPoints(a, p)
  <1>. DEFINE m == Median(a.month)
  <1>1. W.aboveMedianPenalty \in Nat /\ W.belowMedianMax \in Nat
    BY ScoreAssumption
  <1>2. CASE a.month = {} \/ m = 0
    BY <1>2 DEF MedianPoints
  <1>3. CASE a.month # {} /\ m # 0
    <2>1. m \in Nat \ {0}
      BY <1>3, MedianTyped
    <2>. DEFINE Below(n) == Clamp(Round(100 * (m - n), m), 0, W.belowMedianMax)
    <2>2. 100 * (m - q) \in Int /\ 100 * (m - p) \in Int /\ 100 * (m - q) <= 100 * (m - p)
      BY <2>1
    <2>3. Round(100 * (m - q), m) \in Int /\ Round(100 * (m - p), m) \in Int
          /\ Round(100 * (m - q), m) <= Round(100 * (m - p), m)
      BY <2>1, <2>2, RoundMonotone
    <2>4. Below(p) \in Nat /\ Below(q) \in Nat /\ Below(q) <= Below(p)
      BY <1>1, <2>3, ClampMonotone
    <2>5. \A n : MedianPoints(a, n) = IF n > m THEN -W.aboveMedianPenalty ELSE Below(n)
      BY <1>3 DEF MedianPoints
    <2>. HIDE DEF m, Below
    <2>6. QED
      BY <1>1, <2>1, <2>4, <2>5
  <1>4. QED
    BY <1>2, <1>3

LEMMA LowestMonotone ==
  ASSUME W.lowest30d >= W.lowest14d, W.lowest14d >= W.lowest7d,
         NEW a, UNION {a.month, a.fortnight, a.week} \subseteq Observed,
         NEW p \in Nat, NEW q \in Nat, p < q
  PROVE  /\ LowestPoints(a, p) \in Nat /\ LowestPoints(a, q) \in Nat
         /\ LowestPoints(a, q) <= LowestPoints(a, p)
  <1>1. W.lowest30d \in Nat /\ W.lowest14d \in Nat /\ W.lowest7d \in Nat
    BY ScoreAssumption
  <1>2. \A window \in SUBSET Observed : Lowest(window, q) => Lowest(window, p)
    <2>1. TAKE window \in SUBSET Observed
    <2>2. \A o \in window : o.price \in Nat
      BY DEF Observed
    <2>3. QED
      BY <2>2 DEF Lowest
  <1>3. /\ Lowest(a.month, q) => Lowest(a.month, p)
        /\ Lowest(a.fortnight, q) => Lowest(a.fortnight, p)
        /\ Lowest(a.week, q) => Lowest(a.week, p)
    BY <1>2
  <1>4. QED
    BY <1>1, <1>3 DEF LowestPoints, If

LEMMA RaisedMonotone ==
  ASSUME NEW obs \in SUBSET Observed, NEW today, NEW p \in Nat, NEW q \in Nat, p < q,
         PriceRaised(obs, today, p)
  PROVE  PriceRaised(obs, today, q)
  <1>1. CurrentPercent \in Nat
    BY ScoreAssumption
  <1>2. \A low \in Within(obs, today, BaselineWindow) :
          100 * p >= CurrentPercent * low.price => 100 * q >= CurrentPercent * low.price
    <2>1. TAKE low \in Within(obs, today, BaselineWindow)
    <2>2. low.price \in Nat
      BY DEF Within, Observed
    <2>3. CurrentPercent * low.price \in Int
      BY <1>1, <2>2
    <2>4. QED
      BY <2>3
  <1>3. QED
    BY <1>2 DEF PriceRaised

LEMMA MeritTyped == Merit.points \in Int
  <1>1. W.officialStore \in Nat /\ W.freeShipping \in Nat /\ W.installmentsNoInterest \in Nat
        /\ W.highSoldQtyMax \in Nat /\ W.sellerReputationMax \in Nat /\ W.unknownSeller \in Nat
        /\ W.usedPenalty \in Nat
    BY ScoreAssumption
  <1>2. \A n \in Nat : /\ Round(3 * n, 10) \in Int /\ Round(3 * n, 2) \in Int
                      /\ Round(3 * n, 5) \in Int /\ Round(n, 5) \in Int
    BY DEF Round
  <1>3. Deal.volume \in {"high", "mid", "low", "none"}
        /\ Deal.trust \in {"high", "medium", "low", "unknown", "none"}
    BY PricingAssumption DEF Traits
  <1>4. VolumePoints(Deal.volume) \in Int
    BY <1>1, <1>2, <1>3 DEF VolumePoints
  <1>5. SellerPoints(Deal.trust) \in Int
    BY <1>1, <1>2, <1>3 DEF SellerPoints
  <1>. DEFINE good == If(Deal.official, W.officialStore) + If(Deal.freeShipping, W.freeShipping)
                      + If(Deal.noInterest, W.installmentsNoInterest) + VolumePoints(Deal.volume)
  <1>6. good \in Int
    BY <1>1, <1>4 DEF If
  <1>. HIDE DEF good
  <1>7. If(~Deal.new, W.usedPenalty) \in Int
    BY <1>1 DEF If
  <1>8. good + SellerPoints(Deal.trust) - If(~Deal.new, W.usedPenalty) \in Int
    BY <1>5, <1>6, <1>7
  <1>9. Merit.points = good + SellerPoints(Deal.trust) - If(~Deal.new, W.usedPenalty)
    BY DEF Merit, MeritOf, good
  <1>10. QED
    BY <1>8, <1>9

(* With some history, the points for the length of the history do not look at
   the price. *)
LEMMA HistorySteady ==
  ASSUME NEW obs, IsFiniteSet(obs), obs # {}, NEW today
  PROVE  \E h \in Int : \A off : HistoryPoints(Analyze(obs, today), off, Merit) = h
  <1>. DEFINE D == {o.at : o \in obs}
              f == [o \in obs |-> o.at]
              a == Analyze(obs, today)
  <1>1. f \in Surjection(obs, D)
    BY DEF Surjection
  <1>2. IsFiniteSet(D) /\ D # {}
    BY <1>1, FS_Surjection
  <1>3. a.days = Cardinality(D)
    BY DEF Analyze, DistinctDays
  <1>4. a.days # 0
    BY <1>2, <1>3, FS_EmptySet
  <1>. HIDE DEF a
  <1>. DEFINE h == -If(a.days < MinDays, W.insufficientHistory) - 0
  <1>5. h \in Int
    BY ScoreAssumption DEF If
  <1>6. \A off : HistoryPoints(a, off, Merit) = h
    BY <1>4 DEF HistoryPoints, If
  <1>7. QED
    BY <1>5, <1>6 DEF a

LEMMA ScoreMonotone ==
  ASSUME W.lowest30d >= W.lowest14d, W.lowest14d >= W.lowest7d,
         history \subseteq Observed, IsFiniteSet(history), history # {},
         NEW p \in Nat, NEW q \in Nat, p < q
  PROVE  RawOf(p) >= RawOf(q)
  <1>. DEFINE a == Analyze(history, now)
              R(x) == If(PriceRaised(history, now, x), W.priceRaisePenalty)
              S == StabilityPoints(a)
              D(x) == DiscountPoints(OffOf(x))
  <1>1. /\ UNION {a.month, a.fortnight, a.week} \subseteq Observed
        /\ a.month \subseteq Observed /\ IsFiniteSet(a.month)
    <2>1. a.month = Within(history, now, Recent) /\ a.fortnight = Within(history, now, Fortnight)
          /\ a.week = Within(history, now, Week)
      BY DEF Analyze
    <2>2. a.month \subseteq history /\ a.fortnight \subseteq history /\ a.week \subseteq history
      BY <2>1 DEF Within
    <2>3. QED
      BY <2>2, FS_Subset
  <1>2. D(p) \in Int /\ D(q) \in Int /\ D(q) <= D(p)
    BY DiscountMonotone
  <1>3. PICK h \in Int : \A off : HistoryPoints(a, off, Merit) = h
    BY HistorySteady
  <1>4. R(p) \in Int /\ R(q) \in Int /\ R(p) <= R(q)
    BY RaisedMonotone, ScoreAssumption DEF If
  <1>5. S \in Int
    BY ScoreAssumption DEF StabilityPoints, If
  <1>6. \A x : RawOf(x) = D(x) + MedianPoints(a, x) + LowestPoints(a, x) + Merit.points + S + h - R(x)
    BY <1>3 DEF RawOf, RawScore
  <1>. HIDE DEF a, R, S, D
  <1>7. MedianPoints(a, p) \in Int /\ MedianPoints(a, q) \in Int
        /\ MedianPoints(a, q) <= MedianPoints(a, p)
    BY <1>1, MedianMonotone
  <1>8. LowestPoints(a, p) \in Int /\ LowestPoints(a, q) \in Int
        /\ LowestPoints(a, q) <= LowestPoints(a, p)
    BY <1>1, LowestMonotone
  <1>9. QED
    BY <1>2, <1>3, <1>4, <1>5, <1>6, <1>7, <1>8, MeritTyped

(* A history is finite and its prices are numbers. *)
HistoryKept == history \subseteq Observed /\ IsFiniteSet(history)

LEMMA HistoryInitially == Init => HistoryKept
  <1>. SUFFICES ASSUME Init PROVE HistoryKept
    OBVIOUS
  <1>1. history \subseteq [price : Nat, at : Int, by : {0}] /\ IsFiniteSet(history)
    BY PricingAssumption DEF Init
  <1>2. QED
    BY <1>1 DEF HistoryKept, Observed

LEMMA HistoryInductive == IInv /\ HistoryKept /\ [Next]_vars => HistoryKept'
  <1>. SUFFICES ASSUME IInv, HistoryKept, [Next]_vars PROVE HistoryKept'
    OBVIOUS
  <1>1. ASSUME NEW r \in Runs, Screen(r) PROVE HistoryKept'
    <2>1. PICK p \in Prices :
            history' = history \union {[price |-> p, at |-> now, by |-> starts']}
      BY <1>1 DEF Screen
    <2>2. p \in Nat /\ now \in Int /\ starts' \in Nat
      BY <1>1, PricingAssumption DEF Screen, IInv, TypeOK
    <2>3. [price |-> p, at |-> now, by |-> starts'] \in Observed
      BY <2>2 DEF Observed
    <2>4. IsFiniteSet(history')
      BY <2>1, FS_AddElement DEF HistoryKept
    <2>5. QED
      BY <2>1, <2>3, <2>4 DEF HistoryKept
  <1>2. ASSUME UNCHANGED history PROVE HistoryKept'
    BY <1>2 DEF HistoryKept
  <1>3. QED
    BY <1>1, <1>2 DEF Next, Publish, Score, Compose, Dispatch, PrintAsIs, PrintRefreshed, Drop,
                      CouponEntered, PageChanges, TimePasses, vars

LEMMA HistoryInvariance == Spec => []HistoryKept
  BY Invariance, HistoryInitially, HistoryInductive, PTL DEF Spec

(* When a longer window's lowest price counts no less than a shorter one's, as
   by default, no deal scores less for a lower price or a coupon. *)
THEOREM CheaperIsNoWorse ==
  ASSUME W.lowest30d >= W.lowest14d, W.lowest14d >= W.lowest7d
  PROVE  Spec => []CheaperScoresNoLess
  <1>1. IInv /\ CouponInv /\ HistoryKept => CheaperScoresNoLess
    <2>. SUFFICES ASSUME IInv, CouponInv, HistoryKept PROVE CheaperScoresNoLess
      OBVIOUS
    <2>. DEFINE WithCoupon(c) ==
                  {v.final : v \in UNION {Views(row, c.price, now) : row \in coupons}}
    <2>1. ASSUME NEW r \in Runs, NEW c \in cand[r],
                 NEW p \in Prices \union UNION WithCoupon(c),
                 NEW q \in Prices \union UNION WithCoupon(c), p < q
          PROVE  RawOf(p) >= RawOf(q)
      <3>. HIDE DEF WithCoupon
      <3>1. cand[r] \subseteq [price : Prices, seen : Nat] /\ now \in Nat
        BY DEF IInv, TypeOK
      <3>2. Prices \subseteq Nat
        BY PricingAssumption
      <3>3. c.price \in Prices
        BY <2>1, <3>1
      <3>4. c.price \in Nat /\ now \in Int
        <4>1. c.price \in Nat
          BY <3>2, <3>3, Zenon
        <4>2. now \in Int
          BY <3>1
        <4>3. QED
          BY <4>1, <4>2
      <3>5. UNION WithCoupon(c) \subseteq Nat
        <4>1. ASSUME NEW row \in coupons, NEW v \in Views(row, c.price, now)
              PROVE  v.final \subseteq Nat
          <5>1. row \in Rows
            BY PricingAssumption DEF CouponInv, Entered
          <5>2. Announces(v)
            BY <3>4, <5>1, ViewsTyped
          <5>3. QED
            BY <5>2 DEF Announces
        <4>2. QED
          BY <4>1 DEF WithCoupon
      <3>6. history # {}
        BY DEF IInv, Provenance, Recorded
      <3>7. p \in Nat /\ q \in Nat
        BY <3>2, <3>5
      <3>8. QED
        BY <2>1, <3>6, <3>7, ScoreMonotone DEF HistoryKept
    <2>2. QED
      BY <2>1 DEF CheaperScoresNoLess
  <1>2. QED
    BY <1>1, Invariance, CouponInvariance, HistoryInvariance, PTL
=============================================================================
