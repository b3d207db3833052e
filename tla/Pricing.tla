------------------------------- MODULE Pricing -------------------------------
(***************************************************************************)
(* The price of one deal, from its collection to the caption: runs record   *)
(* and score it, a card waits for a curator (or none, when approval is off), *)
(* the dispatch reads the page and looks for a coupon, the job waits, and    *)
(* the worker checks both again before it prints.                            *)
(*                                                                         *)
(* One clock counts the days of the history and the units a job waits; a     *)
(* dispatch and the worker's check each take less than a unit.  Dedup, the   *)
(* gate, the queue and what is not a price are in other modules.             *)
(***************************************************************************)
EXTENDS DealScore, Coupon

CONSTANTS
  Runs,           \* ticks and manual runs
  Prices,         \* of the API, and typed by a curator
  Pages,          \* what the page may show: [price, pix]
  Offered,        \* coupons somebody may enter
  Edits,          \* what a curator may edit: [price, coupon]
  Original,       \* originalPriceCents
  Deal,           \* its traits
  Histories,      \* what an earlier process left in the table
  MaxAge,         \* SEND_MAX_JOB_AGE_MIN
  CacheTTL,       \* PRICE_SCRAPE_TTL_MS
  CardTTL,        \* of a card that waits for a curator
  MaxNow, MaxStarts   \* bounds

ASSUME PricingAssumption ==
  /\ Deal \in Traits
  /\ Prices \subseteq Nat \ {0} /\ Original \in Nat \ {0}
  /\ Pages \subseteq [price : Nat, pix : Nat] /\ \A g \in Pages : g.pix <= g.price
  /\ Edits \subseteq [price : SUBSET Prices, coupon : SUBSET [final : SUBSET Nat]]
  /\ \A e \in Edits : /\ Cardinality(e.price) <= 1 /\ Cardinality(e.coupon) <= 1
                     /\ \A c \in e.coupon : Cardinality(c.final) <= 1
  /\ Offered \subseteq Rows
  /\ \A c \in Offered : (c.kind = "FINAL" => c.product) /\ c.code # Hand
  /\ {MaxAge, CacheTTL, CardTTL, MaxNow, MaxStarts} \subseteq Nat /\ CacheTTL > 0
  /\ \A h \in Histories : h \subseteq [price : Nat, at : Int, by : {0}] /\ IsFiniteSet(h)

VARIABLES
  now,
  page,      \* the product page
  cache,     \* what the scraper read last
  history,   \* observed prices
  coupons,   \* the table
  cand,      \* what each run has screened and not scored
  card,      \* the deal held for dispatch
  job,       \* the job in the queue
  message,   \* the caption on its way to the publisher
  starts     \* runs and manual deals so far

vars == <<now, page, cache, history, coupons, cand, card, job, message, starts>>

Init == /\ now = 0
        /\ page \in Pages
        /\ cache = {}
        /\ history \in Histories
        /\ coupons = {}
        /\ cand = [r \in Runs |-> {}]
        /\ card = {} /\ job = {} /\ message = {}
        /\ starts = 0

NoEdits == [price |-> {}, coupon |-> {}]

Merit == MeritOf(Deal)

OffOf(price) == Round(100 * (Original - price), Original)

-----------------------------------------------------------------------------
(* The scraper and the coupon table *)

Shown == {[price |-> page.price, pix |-> page.pix, seen |-> now]}

Fresh == {v \in cache : now - v.seen < CacheTTL}

(* Mutant of Scrape: what was read once is kept. *)
ScrapeOnce(v) == IF cache # {} THEN v = cache /\ UNCHANGED cache
                               ELSE v \in {Shown, {}} /\ cache' = v

(* scrapePriceView returns v: cached, read now, or nothing. *)
Scrape(v) ==
  IF Fresh # {} THEN v = cache /\ UNCHANGED cache
  ELSE \/ v = Shown /\ cache' = v
       \/ v = {} /\ UNCHANGED cache

(* findMatching *)
Matching == {c \in coupons : c.until > now}

(* What resolveForDeal may return, the rows being in no order; nothing when it
   fails. *)
Found(price) == {{}} \union {Resolve(rows, price, now) : rows \in SetToSeqs(Matching)}

-----------------------------------------------------------------------------
(* A run *)

(* screenRaw against the history, then record. *)
Screen(r) ==
  /\ cand[r] = {} /\ starts < MaxStarts
  /\ starts' = starts + 1
  /\ \E p \in Prices :
       /\ history' = history \union {[price |-> p, at |-> now, by |-> starts']}
       /\ cand' = [cand EXCEPT ![r] =
            IF IsFakeDiscount(history, now, p) THEN {}
            ELSE {[price |-> p, seen |-> now]}]
  /\ UNCHANGED <<now, page, cache, coupons, card, job, message>>

RawOf(price) == RawScore(history, now, price, OffOf(price), Merit)

(* applyCouponBoost: the score at the price with the coupon, if that is
   better. *)
Boosted(price, found) ==
  LET lower == {f \in UNION {v.final : v \in {w \in found : w.mode = "PRICE"}} : f < price}
  IN IF lower # {} /\ RawOf(The(lower)) > RawOf(price) THEN RawOf(The(lower)) ELSE RawOf(price)

(* holdPending, which refreshes a card that still waits. *)
Hold(c) ==
  card' = {[price |-> c.price, seen |-> c.seen, by |-> "api", edits |-> NoEdits,
            manual |-> FALSE, held |-> now]}

(* The card keeps the price without the coupon. *)
Score(r) ==
  /\ \E c \in cand[r] : \E found \in Found(c.price) :
       IF Passes(Boosted(c.price, found)) THEN Hold(c) ELSE UNCHANGED card
  /\ cand' = [cand EXCEPT ![r] = {}]
  /\ UNCHANGED <<now, page, cache, history, coupons, job, message, starts>>

-----------------------------------------------------------------------------
(* The panel *)

(* submit of a manual deal. *)
Compose ==
  /\ starts < MaxStarts
  /\ starts' = starts + 1
  /\ \E p \in Prices : \E e \in {NoEdits} \union {x \in Edits : x.price = {}} :
       card' = {[price |-> p, seen |-> now, by |-> "human", edits |-> e, manual |-> TRUE,
                 held |-> now]}
  /\ UNCHANGED <<now, page, cache, history, coupons, cand, job, message>>

(* applyEdits: what the curator edits replaces all earlier edits. *)
Edited(s, e) ==
  IF e.price = {} THEN [s EXCEPT !.edits = e]
  ELSE [s EXCEPT !.edits = e, !.price = The(e.price), !.seen = now, !.by = "human"]

Corrected(s, v) ==
  IF v = {} THEN s ELSE [s EXCEPT !.price = The(v).price, !.seen = The(v).seen, !.by = "page"]

(* The coupon of a deal: the curator's, else one that is found. *)
CouponOf(s, found) ==
  IF s.edits.coupon = {} THEN found
  ELSE {CuratorView(The(s.edits.coupon).final, s.price, now)}

Enqueue(s, v, found) ==
  job' = {[deal |-> s, view |-> v, coupon |-> CouponOf(s, found), stamp |-> now]}

(* approve, or dispatchScored at once, and enqueueScored: the page is read
   unless a person set the price. *)
Dispatch ==
  /\ job = {}
  /\ \E s \in card : \E e \in {s.edits} \union Edits :
       LET edited == IF e = s.edits THEN s ELSE Edited(s, e) IN
       /\ now < s.held + CardTTL
       /\ \E v \in {cache, Shown, {}} :
            /\ IF edited.edits.price # {} \/ s.manual THEN v = {} /\ UNCHANGED cache ELSE Scrape(v)
            /\ \E found \in Found(Corrected(edited, v).price) :
                 Enqueue(Corrected(edited, v), v, found)
  /\ card' = {}
  /\ UNCHANGED <<now, page, history, coupons, cand, message, starts>>

-----------------------------------------------------------------------------
(* The worker *)

(* ofertasTemplate: the promo price is the one with PIX if the page shows one;
   the coupon stacks on it. *)
Caption(s, v, coupon) ==
  LET promo == IF v = {} THEN s.price ELSE The(v).pix
  IN message' = {[deal |-> s, promo |-> promo, coupon |-> coupon, taken |-> now,
                  final |-> UNION {PrintedFinal(promo, c) : c \in coupon}]}

Stale(j) == now - j.stamp > MaxAge

(* Mutant of StillValid: a coupon is not checked again. *)
StillValidAlways(coupon) == coupon

StillValid(coupon) == {c \in coupon : c.until > now}

(* A job young enough, or with a curator's price, prints what it carries; a
   coupon that expired is left out. *)
PrintAsIs ==
  /\ \E j \in job :
       /\ ~Stale(j) \/ j.deal.edits.price # {}
       /\ Caption(j.deal, j.view, CouponOf(j.deal, StillValid(j.coupon)))
  /\ job' = {}
  /\ UNCHANGED <<now, page, cache, history, coupons, cand, card, starts>>

(* Mutant of PrintRefreshed: the job's coupon stays. *)
PrintRefreshedKeepsCoupon ==
  /\ \E j \in job :
       /\ Stale(j) /\ j.deal.edits.price = {}
       /\ \E v \in {cache, Shown} :
            /\ v # {} /\ Scrape(v)
            /\ Caption(Corrected(j.deal, v), v,
                       CouponOf(Corrected(j.deal, v), StillValid(j.coupon)))
  /\ job' = {}
  /\ UNCHANGED <<now, page, history, coupons, cand, card, starts>>

(* refreshPrice: a stale job prints the page as it is now, and the coupon that
   fits it. *)
PrintRefreshed ==
  /\ \E j \in job :
       /\ Stale(j) /\ j.deal.edits.price = {}
       /\ \E v \in {cache, Shown} :
            /\ v # {} /\ Scrape(v)
            /\ LET s == Corrected(j.deal, v)
               IN \E found \in Found(s.price) : Caption(s, v, CouponOf(s, found))
  /\ job' = {}
  /\ UNCHANGED <<now, page, history, coupons, cand, card, starts>>

(* The page cannot be read: the deal is dropped. *)
Drop ==
  /\ \E j \in job : Stale(j) /\ j.deal.edits.price = {}
  /\ Scrape({})
  /\ job' = {}
  /\ UNCHANGED <<now, page, history, coupons, cand, card, message, starts>>

Publish ==
  /\ message # {}
  /\ message' = {}
  /\ UNCHANGED <<now, page, cache, history, coupons, cand, card, job, starts>>

-----------------------------------------------------------------------------
(* The surroundings *)

CouponEntered ==
  /\ \E c \in Offered \ coupons : coupons' = coupons \union {c}
  /\ UNCHANGED <<now, page, cache, history, cand, card, job, message, starts>>

PageChanges ==
  /\ page' \in Pages \ {page}
  /\ UNCHANGED <<now, cache, history, coupons, cand, card, job, message, starts>>

TimePasses ==
  /\ now < MaxNow
  /\ now' = now + 1
  /\ UNCHANGED <<page, cache, history, coupons, cand, card, job, message, starts>>

(* Nobody looks at a caption that is printed, so nothing is lost when the other
   steps wait for the publisher. *)
Next == \/ Publish
        \/ /\ message = {}
           /\ \/ \E r \in Runs : Screen(r) \/ Score(r)
              \/ Compose \/ Dispatch
              \/ PrintAsIs \/ PrintRefreshed \/ Drop
              \/ CouponEntered \/ PageChanges \/ TimePasses

Spec == Init /\ [][Next]_vars

-----------------------------------------------------------------------------
Cards == [price : Nat, seen : Nat, by : {"api", "page", "human"},
          edits : {NoEdits} \union Edits, manual : BOOLEAN, held : Nat]

Readings == [price : Nat, pix : Nat, seen : Nat]

TypeOK ==
  /\ now \in Nat /\ starts \in Nat
  /\ page \in Pages
  /\ cache \subseteq Readings
  /\ cand \in [Runs -> SUBSET [price : Prices, seen : Nat]]
  /\ card \subseteq Cards
  /\ \A j \in job : j.deal \in Cards /\ j.stamp \in Nat

(* A price the API gave a run. *)
Recorded(s) == \E o \in history : o.by # 0 /\ o.price = s.price /\ o.at = s.seen

(* What is kept on the way to a caption: where its price is from, and how old
   it may be when the job is queued. *)
Provenance ==
  /\ \A x, y \in cache : x = y
  /\ \A r \in Runs : \A c \in cand[r] : Recorded(c)
  /\ \A s \in card : /\ s.edits.price = {} /\ s.by # "page"
                     /\ s.by = "api" => Recorded(s)
  /\ \A j \in job :
       LET s == j.deal IN
       /\ s.by # "human" => s.edits.price = {}
       /\ s.by = "page" => j.stamp - s.seen < CacheTTL
       /\ s.by = "api" => j.stamp < s.held + CardTTL /\ Recorded(s)

(* A printed price is a person's, one the page showed not much longer ago than
   a job may wait and the scraper's cache keeps, or, when the page could not be
   read, one the API gave a run, on a card that had not expired. *)
PriceAge ==
  \A m \in message :
    LET s == m.deal IN
    /\ s.by = "page" => m.taken - s.seen < MaxAge + CacheTTL
    /\ s.by = "api" => /\ m.taken - s.held < MaxAge + CardTTL
                       /\ Recorded(s)

IInv == TypeOK /\ Provenance /\ PriceAge

(* The coupon line belongs to the price line: it is what the rules gave, for the
   price the message shows, when the worker printed it or before; a curator's
   is made when it is printed. *)
CouponFitsPrice ==
  \A m \in message : \A c \in m.coupon :
    IF c.code = Hand
    THEN c = CuratorView(The(m.deal.edits.coupon).final, m.deal.price, m.taken)
    ELSE \E row \in coupons : \E t \in 0..m.taken : c \in Views(row, m.deal.price, t)

(* "Never post a stale code": a printed code is a curator's, or of a coupon
   that anybody may use and that was valid when the worker printed it. *)
CodeIsGood ==
  \A m \in message : \A c \in m.coupon :
    c.code # Hand => \E row \in coupons : row.code = c.code /\ ~row.once /\ row.until > m.taken

(* The coupon a dispatch puts on a job is the best there is, whatever the
   order of the rows: of the product if one of these can be used, and none of
   the same scope gives a lower price. *)
BestCoupon ==
  [][\A j \in job' \ job : \A v \in j.coupon : v.code # Hand =>
       \A c \in coupons : \A w \in Views(c, j.deal.price, now) :
         /\ w.product => v.product
         /\ w.product = v.product => \A f \in w.final : v.final # {} /\ The(v.final) <= f]_vars

(* A lower price never scores less, whatever history a run has found: a coupon
   only helps a deal, and so does a price that falls. *)
CheaperScoresNoLess ==
  LET WithCoupon(c) == {v.final : v \in UNION {Views(row, c.price, now) : row \in coupons}}
  IN \A r \in Runs : \A c \in cand[r] :
       \A p, q \in Prices \union UNION WithCoupon(c) : p < q => RawOf(p) >= RawOf(q)

(* A comment of enqueueScored: the prices of a manual deal are "authoritative",
   and the "sent message identical to the composer preview". *)
ManualPriceKept == \A m \in message : m.deal.manual => m.deal.by = "human"

(* A printed coupon fits the printed price, and its code is one a reader can
   still use. *)
CouponIsGood == CouponFitsPrice /\ CodeIsGood
=============================================================================
