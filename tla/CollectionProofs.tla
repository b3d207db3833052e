--------------------------- MODULE CollectionProofs ---------------------------
(***************************************************************************)
(* The collection of deals for every number of ticks, manual runs, deals,   *)
(* prices, days, restarts and failing calls.                                *)
(***************************************************************************)
EXTENDS Collection, TLAPS

RunStates == [pc : {"idle", "jitter", "fetch", "screen", "decide", "audit",
                    "insert", "cut", "enrich"},
              n : Numbers, left : 0..Feeds, todo : SUBSET Offer,
              cur : SUBSET Offer, recent : BOOLEAN,
              kept : SUBSET Deals, items : SUBSET Numbers]

(* States of a run that still uses the index, and the deals it asks it for. *)
Busy == {"fetch", "screen", "decide", "audit", "insert", "cut"}
DealsOf(x) == {o.deal : o \in x.todo \union x.cur} \union x.kept

(* Runs at work have numbers of their own. *)
Numbered ==
  \A r \in Runs : run[r].pc # "idle" =>
    /\ run[r].n \in 1..starts
    /\ \A q \in Runs : run[q].pc # "idle" /\ run[q].n = run[r].n => q = r

(* No observation is of a run still to start. *)
Observed == \A k \in Deals : \A p \in store[k] \union table[k] : p.by <= starts

(* A run looks at one offer of a deal, and at one offer at a time. *)
Shape(x) ==
  /\ x.pc \in {"idle", "jitter"} => x.todo = {} /\ x.kept = {}
  /\ x.pc \in {"decide", "audit", "insert"} =>
       \E c \in Offer : x.cur = {c} /\ \A o \in x.todo : o.deal # c.deal
  /\ x.pc \notin {"decide", "audit", "insert"} => x.cur = {}
  /\ \A o, u \in x.todo : o.deal = u.deal => o = u
  /\ x.pc = "fetch" => x.left > 0

(* What a run has still to decide it has not recorded. *)
Unseen(x) ==
  /\ x.pc \in {"jitter", "fetch"} => \A k \in Deals : \A p \in store[k] : p.by # x.n
  /\ \A o \in x.todo : \A p \in store[o.deal] : p.by # x.n
  /\ x.pc \in {"decide", "audit"} => \A o \in x.cur : \A p \in store[o.deal] : p.by # x.n

(* The index has a run's own items, unless it met another. *)
OwnItems(x) ==
  x.n \notin met =>
    /\ x.pc \in Busy => \A k \in DealsOf(x) : index[k] = x.n
    /\ x.pc = "enrich" => x.items \subseteq {x.n}

RunsFit == \A r \in Runs : Shape(run[r]) /\ Unseen(run[r]) /\ OwnItems(run[r])

MeetingsKnown ==
  \A r, q \in Runs : r # q /\ run[q].pc = "fetch" /\ run[r].pc \in Busy => run[r].n \in met

MemoryHeld ==
  \A k \in Deals :
    /\ \A p \in store[k] \ table[k] :
         [deal |-> k, obs |-> p] \in lost \union UNION {Unsaved(r) : r \in Runs}
    /\ blind \/ Retained(table[k]) \subseteq store[k]

(* A post the table forgot is too old to matter. *)
PostsHeld ==
  \A k \in Deals : \/ posted[k] = lastPost[k]
                   \/ posted[k] = Never /\ day - lastPost[k] >= Window

ColIInv == /\ TypeOK
           /\ Numbered
           /\ FlagIsTick
           /\ Observed
           /\ RunsFit
           /\ MeetingsKnown
           /\ MemoryHeld
           /\ PostsHeld

-----------------------------------------------------------------------------
LEMMA Typed ==
  ASSUME TypeOK
  PROVE  /\ run \in [Runs -> RunStates]
         /\ store \in [Deals -> SUBSET Observation] /\ table \in [Deals -> SUBSET Observation]
         /\ posted \in [Deals -> Int] /\ lastPost \in [Deals -> Int]
         /\ index \in [Deals -> Numbers] /\ day \in Nat /\ starts \in Numbers
         /\ met \subseteq Numbers /\ fails \in 0..MaxFails
         /\ lost \subseteq [deal : Deals, obs : Observation]
         /\ tickInFlight \in BOOLEAN /\ blind \in BOOLEAN
         /\ MaxStarts \in Nat /\ MaxFails \in Nat /\ Numbers \subseteq Nat
         /\ Window \in Nat /\ PruneAge \in Nat /\ Retention \in Nat /\ Window <= PruneAge
  BY LimitsAssumption DEF TypeOK, RunStates, Numbers

LEMMA Untouched ==
  ASSUME NEW f \in [Runs -> RunStates], NEW r \in Runs, NEW x \in RunStates,
         NEW g, g = [f EXCEPT ![r] = x]
  PROVE  /\ g \in [Runs -> RunStates]
         /\ g[r] = x /\ \A q \in Runs : q # r => g[q] = f[q]
  OBVIOUS

LEMMA RestingFits ==
  /\ Resting \in RunStates /\ Resting.pc = "idle" /\ Resting.n = 0
  /\ Resting.todo = {} /\ Resting.cur = {} /\ Resting.kept = {} /\ Resting.items = {}
  /\ Shape(Resting) /\ Unseen(Resting) /\ OwnItems(Resting)
<1>1. /\ Resting \in RunStates /\ Resting.pc = "idle" /\ Resting.n = 0
      /\ Resting.todo = {} /\ Resting.cur = {} /\ Resting.kept = {} /\ Resting.items = {}
  BY LimitsAssumption DEF Resting, RunStates, Numbers
<1> QED BY <1>1 DEF Shape, Unseen, OwnItems, Busy

(* What a run in state x has in history s and not in the table yet. *)
UnsavedIn(x, s) ==
  {p \in [deal : {o.deal : o \in x.cur}, obs : UNION {s[o.deal] : o \in x.cur}] :
     x.pc = "insert" /\ p.obs.by = x.n /\ p.obs \in s[p.deal]}

LEMMA UnsavedMembers ==
  ASSUME NEW x, NEW s, NEW k, NEW p
  PROVE  [deal |-> k, obs |-> p] \in UnsavedIn(x, s) <=>
           /\ x.pc = "insert" /\ p.by = x.n /\ p \in s[k]
           /\ \E o \in x.cur : o.deal = k
<1> DEFINE u == [deal |-> k, obs |-> p]
<1>1. u.deal = k /\ u.obs = p
  OBVIOUS
<1>2. ASSUME NEW o \in x.cur, o.deal = k, p \in s[k]
      PROVE  u \in [deal : {v.deal : v \in x.cur}, obs : UNION {s[v.deal] : v \in x.cur}]
  <2>1. k \in {v.deal : v \in x.cur} /\ p \in UNION {s[v.deal] : v \in x.cur}
    BY <1>2
  <2> QED BY <2>1
<1>3. u \in UnsavedIn(x, s) => k \in {v.deal : v \in x.cur}
  BY DEF UnsavedIn
<1> QED BY <1>1, <1>2, <1>3 DEF UnsavedIn

(* What the insert adds to the table for deal k. *)
RowsIn(x, s, k) == {p.obs : p \in {u \in UnsavedIn(x, s) : u.deal = k}}

LEMMA UnsavedRows ==
  ASSUME NEW x, NEW s, NEW k, NEW p
  PROVE  p \in RowsIn(x, s, k) <=>
           /\ p \in s[k] /\ x.pc = "insert" /\ p.by = x.n
           /\ \E o \in x.cur : o.deal = k
<1>1. ASSUME NEW u \in UnsavedIn(x, s), u.deal = k
      PROVE  u.obs \in s[k] /\ x.pc = "insert" /\ u.obs.by = x.n /\ \E o \in x.cur : o.deal = k
  BY <1>1 DEF UnsavedIn
<1>2. ASSUME p \in s[k], x.pc = "insert", p.by = x.n, \E o \in x.cur : o.deal = k
      PROVE  \E u \in UnsavedIn(x, s) : u.deal = k /\ u.obs = p
  <2>1. [deal |-> k, obs |-> p] \in UnsavedIn(x, s)
    BY <1>2, UnsavedMembers
  <2> QED BY <2>1
<1> QED BY <1>1, <1>2 DEF RowsIn

LEMMA UnsavedHere == \A r : Unsaved(r) = UnsavedIn(run[r], store)
  BY DEF Unsaved, UnsavedIn

LEMMA UnsavedNext == \A r : Unsaved(r)' = UnsavedIn(run'[r], store')
  BY DEF Unsaved, UnsavedIn

-----------------------------------------------------------------------------
(* What a run that goes on or ends leaves as it was. *)

Goes(r, x) == /\ run' = [run EXCEPT ![r] = x]
              /\ run[r].pc # "idle" /\ x.pc # "idle" /\ x.n = run[r].n
              /\ UNCHANGED tickInFlight

LEMMA GoingKeepsNumbers ==
  ASSUME ColIInv, NEW r \in Runs, NEW x \in RunStates, Goes(r, x), UNCHANGED starts
  PROVE  Numbered' /\ FlagIsTick'
<1>1. /\ run'[r] = x /\ \A q \in Runs : q # r => run'[q] = run[q]
      /\ Ticks \subseteq Runs
  BY Typed, Untouched DEF ColIInv, Goes, Runs
<1>2. \A q \in Runs : q # r =>
        (run'[q].pc # "idle") = (run[q].pc # "idle") /\ run'[q].n = run[q].n
  BY <1>1
<1>3. (run'[r].pc # "idle") = (run[r].pc # "idle") /\ run'[r].n = run[r].n
  BY <1>1 DEF Goes
<1>4. Numbered'
  BY <1>2, <1>3 DEF ColIInv, Numbered
<1>5. FlagIsTick'
  BY <1>1, <1>2, <1>3 DEF ColIInv, FlagIsTick, Goes
<1> QED BY <1>4, <1>5

LEMMA EndingKeepsNumbers ==
  ASSUME ColIInv, NEW r \in Runs, run[r].pc # "idle", End(r), UNCHANGED starts
  PROVE  Numbered' /\ FlagIsTick'
<1>1. /\ run'[r] = Resting /\ \A q \in Runs : q # r => run'[q] = run[q]
      /\ Ticks \subseteq Runs /\ Resting.pc = "idle"
  BY Typed, Untouched, RestingFits DEF ColIInv, End, Runs
<1>2. Numbered'
  BY <1>1 DEF ColIInv, Numbered
<1>3. FlagIsTick'
  <2>1. CASE r \in Ticks
    BY <1>1, <2>1 DEF ColIInv, FlagIsTick, End
  <2>2. CASE r \notin Ticks
    BY <1>1, <2>2 DEF ColIInv, FlagIsTick, End
  <2> QED BY <2>1, <2>2
<1> QED BY <1>2, <1>3

LEMMA OthersFit ==
  ASSUME ColIInv, NEW r \in Runs, NEW x \in RunStates, run' = [run EXCEPT ![r] = x],
         UNCHANGED <<store, index, met>>,
         Shape(x), Unseen(x), OwnItems(x)
  PROVE  RunsFit'
<1>1. run'[r] = x /\ \A q \in Runs : q # r => run'[q] = run[q]
  BY Typed, Untouched DEF ColIInv
<1>2. \A q \in Runs : Shape(run'[q]) /\ Unseen(run'[q]) /\ OwnItems(run'[q])
  BY <1>1 DEF ColIInv, RunsFit
<1>3. \A q \in Runs : Shape(run[q])' /\ Unseen(run[q])' /\ OwnItems(run[q])'
  BY <1>2 DEF Shape, Unseen, OwnItems, DealsOf
<1> QED BY <1>3 DEF RunsFit

LEMMA NobodyMeets ==
  ASSUME ColIInv, NEW r \in Runs, NEW x \in RunStates, run' = [run EXCEPT ![r] = x],
         met \subseteq met',
         x.pc \in Busy => run[r].pc \in Busy /\ x.n = run[r].n,
         x.pc = "fetch" => run[r].pc = "fetch"
  PROVE  MeetingsKnown'
<1>1. run'[r] = x /\ \A q \in Runs : q # r => run'[q] = run[q]
  BY Typed, Untouched DEF ColIInv
<1> QED BY <1>1 DEF ColIInv, MeetingsKnown

LEMMA MemoryStands ==
  ASSUME ColIInv, NEW r \in Runs, NEW x \in RunStates, run' = [run EXCEPT ![r] = x],
         UNCHANGED <<store, table, blind, day>>, lost \subseteq lost',
         Unsaved(r) \subseteq lost'
  PROVE  MemoryHeld'
<1>1. run'[r] = x /\ \A q \in Runs : q # r => run'[q] = run[q]
  BY Typed, Untouched DEF ColIInv
<1>2. \A q \in Runs : q # r => Unsaved(q)' = Unsaved(q)
  BY <1>1, UnsavedHere, UnsavedNext
<1>3. ASSUME NEW k \in Deals, NEW p \in store[k] \ table[k]
      PROVE  \/ [deal |-> k, obs |-> p] \in lost'
             \/ \E q \in Runs : [deal |-> k, obs |-> p] \in Unsaved(q)'
  <2>1. \/ [deal |-> k, obs |-> p] \in lost
        \/ \E q \in Runs : [deal |-> k, obs |-> p] \in Unsaved(q)
    BY DEF ColIInv, MemoryHeld
  <2> QED BY <1>2, <2>1
<1>4. \A k \in Deals : Retained(table[k])' = Retained(table[k])
  BY DEF Retained
<1> QED BY <1>3, <1>4 DEF ColIInv, MemoryHeld

LEMMA PostsStand == ASSUME ColIInv, UNCHANGED <<posted, lastPost, day>> PROVE PostsHeld'
  BY DEF ColIInv, PostsHeld

LEMMA ObservedStand ==
  ASSUME ColIInv, UNCHANGED <<store, table, starts>> PROVE Observed'
  BY DEF ColIInv, Observed

(* A run that only goes on: it reads, decides or cuts. *)
LEMMA QuietStep ==
  ASSUME ColIInv, NEW r \in Runs, NEW x \in RunStates, run[r].pc # "insert",
         UNCHANGED <<day, store, table, posted, index, starts, lastPost, lost, blind, met>>,
         fails' \in 0..MaxFails, tickInFlight' \in BOOLEAN,
         Shape(x), Unseen(x), OwnItems(x),
         \/ Goes(r, x) /\ x.pc # "fetch" /\ (x.pc \in Busy => run[r].pc \in Busy)
         \/ run[r].pc # "idle" /\ End(r) /\ x = Resting
  PROVE  ColIInv'
<1>1. run' = [run EXCEPT ![r] = x]
  BY DEF Goes, End
<1>2. Numbered' /\ FlagIsTick'
  BY GoingKeepsNumbers, EndingKeepsNumbers
<1>3. Unsaved(r) = {}
  BY UnsavedHere DEF UnsavedIn
<1>4. MeetingsKnown'
  BY <1>1, NobodyMeets, RestingFits DEF Goes, Busy
<1>5. TypeOK'
  BY <1>1, Typed, Untouched DEF ColIInv, TypeOK, RunStates
<1> QED BY <1>1, <1>2, <1>3, <1>4, <1>5, OthersFit, MemoryStands, PostsStand, ObservedStand DEF ColIInv

-----------------------------------------------------------------------------
(* The steps of a run *)

(* What every step of a run may use. *)
LEMMA RunFacts ==
  ASSUME ColIInv, NEW r \in Runs
  PROVE  /\ TypeOK /\ run[r] \in RunStates
         /\ Shape(run[r]) /\ Unseen(run[r]) /\ OwnItems(run[r])
  BY Typed DEF ColIInv, RunsFit

LEMMA EndsKeep ==
  ASSUME ColIInv, NEW r \in Runs, TickSkips(r) \/ DedupFails(r) \/ Finish(r)
  PROVE  ColIInv'
<1>1. /\ run[r].pc \in {"jitter", "screen", "enrich"} /\ End(r)
      /\ UNCHANGED <<day, store, table, posted, index, starts, lastPost, lost, blind, met>>
      /\ fails' = fails \/ (fails > 0 /\ fails' = fails - 1)
  BY DEF TickSkips, DedupFails, Finish
<1>2. fails' \in 0..MaxFails /\ tickInFlight' \in BOOLEAN
  BY <1>1, Typed DEF ColIInv, End
<1> QED BY <1>1, <1>2, RestingFits, QuietStep

LEMMA AskDedupKeeps == ASSUME ColIInv, NEW r \in Runs, AskDedup(r) PROVE ColIInv'
<1>1. PICK o \in run[r].todo :
        run' = [run EXCEPT ![r].pc = "decide", ![r].cur = {o}, ![r].todo = @ \ {o},
                           ![r].recent = WasRecentlyPosted(o.deal)]
  BY DEF AskDedup
<1> DEFINE x == [run[r] EXCEPT !.pc = "decide", !.cur = {o}, !.todo = @ \ {o},
                               !.recent = WasRecentlyPosted(o.deal)]
<1>2. /\ run[r].pc = "screen" /\ run[r] \in RunStates /\ o \in Offer
      /\ Shape(run[r]) /\ Unseen(run[r]) /\ OwnItems(run[r])
      /\ UNCHANGED <<day, store, table, posted, index, tickInFlight, starts, lastPost, lost,
                     blind, met, fails>>
  BY RunFacts DEF AskDedup, RunStates
<1>3. /\ x \in RunStates /\ x.pc = "decide" /\ x.cur = {o} /\ x.todo = run[r].todo \ {o}
      /\ x.n = run[r].n /\ x.kept = run[r].kept /\ run' = [run EXCEPT ![r] = x]
  BY <1>1, <1>2, Typed DEF ColIInv, RunStates, WasRecentlyPosted
<1> HIDE DEF x
<1>4. Shape(x) /\ Unseen(x) /\ OwnItems(x)
  <2>1. Shape(x)
    BY <1>2, <1>3 DEF Shape
  <2>2. Unseen(x)
    BY <1>2, <1>3 DEF Unseen
  <2>3. DealsOf(x) \subseteq DealsOf(run[r])
    BY <1>3 DEF DealsOf
  <2>4. OwnItems(x)
    BY <1>2, <1>3, <2>3 DEF OwnItems, Busy
  <2> QED BY <2>1, <2>2, <2>4
<1>5. Goes(r, x) /\ x.pc # "fetch" /\ run[r].pc \in Busy
  BY <1>2, <1>3 DEF Goes, Busy
<1>6. fails \in 0..MaxFails /\ tickInFlight \in BOOLEAN
  BY Typed DEF ColIInv
<1> QED BY <1>2, <1>3, <1>4, <1>5, <1>6, QuietStep

LEMMA RejectKeeps == ASSUME ColIInv, NEW r \in Runs, Reject(r) PROVE ColIInv'
<1> DEFINE x == [run[r] EXCEPT !.pc = "audit"]
<1>1. /\ run[r].pc = "decide" /\ run[r] \in RunStates
      /\ Shape(run[r]) /\ Unseen(run[r]) /\ OwnItems(run[r])
      /\ UNCHANGED <<day, store, table, posted, index, tickInFlight, starts, lastPost, lost,
                     blind, met, fails>>
  BY RunFacts DEF Reject
<1>2. /\ x \in RunStates /\ x.pc = "audit" /\ x.cur = run[r].cur /\ x.todo = run[r].todo
      /\ x.n = run[r].n /\ x.kept = run[r].kept /\ run' = [run EXCEPT ![r] = x]
  BY <1>1, Typed DEF Reject, ColIInv, RunStates
<1> HIDE DEF x
<1>3. Shape(x) /\ Unseen(x) /\ OwnItems(x)
  BY <1>1, <1>2 DEF Shape, Unseen, OwnItems, DealsOf, Busy
<1>4. Goes(r, x) /\ x.pc # "fetch" /\ run[r].pc \in Busy
  BY <1>1, <1>2 DEF Goes, Busy
<1>5. fails \in 0..MaxFails /\ tickInFlight \in BOOLEAN
  BY Typed DEF ColIInv
<1> QED BY <1>1, <1>2, <1>3, <1>4, <1>5, QuietStep

LEMMA PrescoreKeeps == ASSUME ColIInv, NEW r \in Runs, Prescore(r) PROVE ColIInv'
<1>1. PICK K \in SUBSET run[r].kept : run' = [run EXCEPT ![r].pc = "cut", ![r].kept = K]
  BY DEF Prescore
<1> DEFINE x == [run[r] EXCEPT !.pc = "cut", !.kept = K]
<1>2. /\ run[r].pc = "screen" /\ run[r].todo = {} /\ run[r] \in RunStates
      /\ Shape(run[r]) /\ Unseen(run[r]) /\ OwnItems(run[r])
      /\ UNCHANGED <<day, store, table, posted, index, tickInFlight, starts, lastPost, lost,
                     blind, met, fails>>
  BY RunFacts DEF Prescore
<1>3. /\ x \in RunStates /\ x.pc = "cut" /\ x.cur = run[r].cur /\ x.todo = {}
      /\ x.n = run[r].n /\ x.kept = K /\ run' = [run EXCEPT ![r] = x]
  BY <1>1, <1>2, Typed DEF ColIInv, RunStates
<1> HIDE DEF x
<1>4. Shape(x) /\ Unseen(x)
  BY <1>2, <1>3 DEF Shape, Unseen
<1>5. OwnItems(x)
  BY <1>2, <1>3 DEF OwnItems, DealsOf, Busy
<1>6. Goes(r, x) /\ x.pc # "fetch" /\ run[r].pc \in Busy
  BY <1>2, <1>3 DEF Goes, Busy
<1>7. fails \in 0..MaxFails /\ tickInFlight \in BOOLEAN
  BY Typed DEF ColIInv
<1> QED BY <1>2, <1>3, <1>4, <1>5, <1>6, <1>7, QuietStep

LEMMA LookupKeeps == ASSUME ColIInv, NEW r \in Runs, Lookup(r) PROVE ColIInv'
<1> DEFINE I == {index[k] : k \in run[r].kept}
           x == [run[r] EXCEPT !.pc = "enrich", !.items = I]
<1>1. /\ run[r].pc = "cut" /\ run[r] \in RunStates
      /\ Shape(run[r]) /\ Unseen(run[r]) /\ OwnItems(run[r])
      /\ UNCHANGED <<day, store, table, posted, index, tickInFlight, starts, lastPost, lost,
                     blind, met, fails>>
  BY RunFacts DEF Lookup
<1>2. I \subseteq Numbers /\ (run[r].n \notin met => I \subseteq {run[r].n})
  BY <1>1, Typed DEF ColIInv, RunStates, OwnItems, DealsOf, Busy
<1> HIDE DEF I
<1>3. /\ x \in RunStates /\ x.pc = "enrich" /\ x.cur = run[r].cur /\ x.todo = run[r].todo
      /\ x.n = run[r].n /\ x.kept = run[r].kept /\ x.items = I
      /\ run' = [run EXCEPT ![r] = x]
  BY <1>1, <1>2, Typed DEF Lookup, ColIInv, RunStates, I
<1> HIDE DEF x
<1>4. Shape(x) /\ Unseen(x) /\ OwnItems(x)
  BY <1>1, <1>2, <1>3 DEF Shape, Unseen, OwnItems, Busy
<1>5. Goes(r, x) /\ x.pc # "fetch" /\ x.pc \notin Busy
  BY <1>1, <1>3 DEF Goes, Busy
<1>6. fails \in 0..MaxFails /\ tickInFlight \in BOOLEAN
  BY Typed DEF ColIInv
<1> QED BY <1>1, <1>3, <1>4, <1>5, <1>6, QuietStep

(* Recording an offer: its run has decided, and the others do not tell their
   own prices from it. *)
LEMMA RecordingKeeps ==
  ASSUME ColIInv, NEW r \in Runs, NEW o \in Offer, Record(r, o),
         run[r].pc \in {"audit", "decide"}, run[r].cur = {o},
         NEW x \in RunStates, run' = [run EXCEPT ![r] = x],
         x.pc = "insert", x.cur = {o}, x.todo = run[r].todo, x.n = run[r].n,
         x.kept \subseteq run[r].kept \union {o.deal},
         UNCHANGED <<day, table, posted, index, tickInFlight, starts, lastPost, lost, blind,
                     met, fails>>
  PROVE  ColIInv'
<1> DEFINE c == Captured(r, o)
           n == run[r].n
<1>1. /\ run[r] \in RunStates /\ n \in 1..starts /\ n \in Numbers
      /\ Shape(run[r]) /\ Unseen(run[r]) /\ OwnItems(run[r])
  BY RunFacts DEF ColIInv, Numbered, RunStates
<1>2. c \in Observation /\ c.by = n
  <2>1. o.price \in Nat /\ day \in Int
    <3>1. o.price \in Prices /\ Prices \subseteq Nat
      BY DealsAssumption DEF Offer
    <3>2. o.price \in Nat
      BY <3>1
    <3>3. day \in Int
      BY Typed DEF ColIInv
    <3> QED BY <3>2, <3>3
  <2>2. c = [price |-> o.price, at |-> day, by |-> n]
    BY DEF Captured
  <2> HIDE DEF c, n
  <2> QED BY <1>1, <2>1, <2>2 DEF Observation, n
<1> HIDE DEF c
<1>3. /\ run'[r] = x /\ \A q \in Runs : q # r => run'[q] = run[q]
      /\ o.deal \in Deals
  BY Typed, Untouched DEF ColIInv, Offer
<1>4. /\ store'[o.deal] = store[o.deal] \union {c}
      /\ \A k \in Deals : k # o.deal => store'[k] = store[k]
      /\ store' \in [Deals -> SUBSET Observation]
  BY <1>2, <1>3, Typed DEF Record, ColIInv, c
<1>5. TypeOK'
  BY <1>4, Typed, Untouched DEF ColIInv, TypeOK, RunStates
<1>6. Goes(r, x)
  BY DEF Goes
<1>7. Numbered' /\ FlagIsTick'
  BY <1>6, GoingKeepsNumbers
<1>8. Observed'
  <2>1. c.by <= starts
    BY <1>1, <1>2, Typed DEF ColIInv
  <2> QED BY <1>4, <2>1 DEF ColIInv, Observed
<1>9. RunsFit'
  <2>1. Shape(run[r])'
    BY <1>1, <1>3 DEF Shape
  <2>2. Unseen(run[r])'
    <3>1. \A u \in x.todo : u.deal # o.deal /\ u.deal \in Deals
      BY <1>1 DEF Shape, RunStates, Offer
    <3> QED BY <1>1, <1>3, <1>4, <3>1 DEF Unseen
  <2>3. OwnItems(run[r])'
    <3>1. DealsOf(x) \subseteq DealsOf(run[r])
      BY DEF DealsOf
    <3>2. x.n \notin met => \A k \in DealsOf(run[r]) : index[k] = x.n
      BY <1>1 DEF OwnItems, Busy
    <3>3. OwnItems(x)
      BY <3>1, <3>2 DEF OwnItems
    <3> QED BY <1>3, <3>3 DEF OwnItems, DealsOf
  <2>4. ASSUME NEW q \in Runs, q # r
        PROVE  Shape(run[q])' /\ Unseen(run[q])' /\ OwnItems(run[q])'
    <3>1. Shape(run[q]) /\ Unseen(run[q]) /\ OwnItems(run[q]) /\ run[q] \in RunStates
      BY RunFacts
    <3>2. Shape(run[q])' /\ OwnItems(run[q])'
      BY <1>3, <2>4, <3>1 DEF Shape, OwnItems, DealsOf
    <3>3. CASE run[q].pc # "idle"
      <4>1. run[q].n # n
        BY <2>4, <3>3 DEF ColIInv, Numbered
      <4>2. \A u \in run[q].todo \union run[q].cur : u.deal \in Deals
        BY <3>1 DEF RunStates, Offer
      <4>3. \A k \in Deals : store'[k] \subseteq store[k] \union {c}
        BY <1>4
      <4> QED BY <1>2, <1>3, <2>4, <3>1, <3>2, <4>1, <4>2, <4>3 DEF Unseen
    <3>4. CASE run[q].pc = "idle"
      BY <1>3, <2>4, <3>1, <3>2, <3>4 DEF Unseen, Shape
    <3> QED BY <3>3, <3>4
  <2> QED BY <2>1, <2>2, <2>3, <2>4 DEF RunsFit
<1>10. MeetingsKnown'
  BY NobodyMeets DEF Busy
<1>11. MemoryHeld'
  <2>1. \A q \in Runs : q # r => run'[q] = run[q]
    BY <1>3
  <2>2. ASSUME NEW k \in Deals, NEW p \in store'[k] \ table[k]
        PROVE  \/ [deal |-> k, obs |-> p] \in lost
               \/ \E q \in Runs : [deal |-> k, obs |-> p] \in Unsaved(q)'
    <3>1. CASE p \in store[k]
      <4>1. \/ [deal |-> k, obs |-> p] \in lost
            \/ \E q \in Runs : [deal |-> k, obs |-> p] \in Unsaved(q)
        BY <2>2, <3>1 DEF ColIInv, MemoryHeld
      <4>2. ASSUME NEW q \in Runs, [deal |-> k, obs |-> p] \in Unsaved(q)
            PROVE  [deal |-> k, obs |-> p] \in Unsaved(q)'
        <5>1. run[q].pc = "insert"
          BY <4>2, UnsavedHere DEF UnsavedIn
        <5>2. q # r
          BY <5>1
        <5>3. run'[q] = run[q]
          BY <2>1, <5>2
        <5>4. [deal |-> k, obs |-> p] \in UnsavedIn(run[q], store)
          BY <4>2, UnsavedHere
        <5>5. [deal |-> k, obs |-> p] \in UnsavedIn(run'[q], store')
          BY <2>2, <5>3, <5>4, UnsavedMembers
        <5> QED BY <5>5, UnsavedNext
      <4> QED BY <4>1, <4>2
    <3>2. CASE p \notin store[k]
      <4>1. k = o.deal /\ p = c
        BY <1>4, <2>2, <3>2
      <4>2. [deal |-> k, obs |-> p] \in UnsavedIn(x, store')
        BY <1>2, <2>2, <4>1, UnsavedMembers
      <4> QED BY <1>3, <4>2, UnsavedNext
    <3> QED BY <3>1, <3>2
  <2>3. \A k \in Deals : Retained(table[k])' = Retained(table[k]) /\ store[k] \subseteq store'[k]
    BY <1>4 DEF Retained
  <2> QED BY <2>2, <2>3 DEF ColIInv, MemoryHeld
<1> QED BY <1>5, <1>7, <1>8, <1>9, <1>10, <1>11, PostsStand DEF ColIInv

LEMMA DecidedKeep ==
  ASSUME ColIInv, NEW r \in Runs, Audit(r) \/ Survive(r) PROVE ColIInv'
<1>1. /\ run[r] \in RunStates /\ Shape(run[r]) /\ run[r].pc \in {"audit", "decide"}
      /\ UNCHANGED <<day, table, posted, index, tickInFlight, starts, lastPost, lost, blind,
                     met, fails>>
  BY RunFacts DEF Audit, Survive
<1>2. PICK o \in Offer : run[r].cur = {o}
  BY <1>1 DEF Shape
<1>3. Record(r, o)
  BY <1>2 DEF Audit, Survive
<1>4. CASE Audit(r)
  <2> DEFINE x == [run[r] EXCEPT !.pc = "insert"]
  <2>1. /\ x \in RunStates /\ x.pc = "insert" /\ x.cur = {o} /\ x.todo = run[r].todo
        /\ x.n = run[r].n /\ x.kept = run[r].kept /\ run' = [run EXCEPT ![r] = x]
    BY <1>1, <1>2, <1>4, Typed DEF Audit, ColIInv, RunStates
  <2> HIDE DEF x
  <2> QED BY <1>1, <1>2, <1>3, <2>1, RecordingKeeps
<1>5. CASE Survive(r)
  <2> DEFINE x == [run[r] EXCEPT !.pc = "insert", !.kept = @ \union {o.deal}]
  <2>1. /\ x \in RunStates /\ x.pc = "insert" /\ x.cur = {o} /\ x.todo = run[r].todo
        /\ x.n = run[r].n /\ x.kept = run[r].kept \union {o.deal}
    BY <1>1, <1>2, Typed DEF ColIInv, RunStates, Offer
  <2>2. run' = [run EXCEPT ![r] = x]
    BY <1>1, <1>2, <1>5, Typed DEF Survive, ColIInv
  <2> HIDE DEF x
  <2> QED BY <1>1, <1>2, <1>3, <2>1, <2>2, RecordingKeeps
<1> QED BY <1>4, <1>5

(* After the insert the run goes on screening. *)
LEMMA SavedState ==
  ASSUME ColIInv, NEW r \in Runs, run[r].pc = "insert", Saved(r)
  PROVE  \E x \in RunStates :
           /\ run' = [run EXCEPT ![r] = x]
           /\ x.n = run[r].n /\ x.pc = "screen"
           /\ Shape(x) /\ Unseen(x) /\ OwnItems(x)
<1> DEFINE x == [run[r] EXCEPT !.pc = "screen", !.cur = {}]
<1>1. run[r] \in RunStates /\ Shape(run[r]) /\ Unseen(run[r]) /\ OwnItems(run[r])
  BY RunFacts
<1>2. /\ x \in RunStates /\ x.pc = "screen" /\ x.cur = {} /\ x.todo = run[r].todo
      /\ x.n = run[r].n /\ x.kept = run[r].kept /\ run' = [run EXCEPT ![r] = x]
  BY <1>1, Typed DEF Saved, ColIInv, RunStates
<1> HIDE DEF x
<1>3. Shape(x) /\ Unseen(x) /\ OwnItems(x)
  BY <1>1, <1>2 DEF Shape, Unseen, OwnItems, DealsOf, Busy
<1> QED BY <1>2, <1>3

LEMMA InsertKeeps == ASSUME ColIInv, NEW r \in Runs, Insert(r) PROVE ColIInv'
<1>1. /\ run[r].pc = "insert" /\ Saved(r) /\ run[r] \in RunStates
      /\ UNCHANGED <<day, store, posted, index, tickInFlight, starts, lastPost, lost, blind,
                     met, fails>>
  BY RunFacts DEF Insert
<1>2. PICK x \in RunStates :
        /\ run' = [run EXCEPT ![r] = x]
        /\ x.n = run[r].n /\ x.pc = "screen"
        /\ Shape(x) /\ Unseen(x) /\ OwnItems(x)
  BY <1>1, SavedState
<1>3. /\ table' \in [Deals -> SUBSET Observation]
      /\ \A k \in Deals : table'[k] = table[k] \union
           {p \in store[k] : run[r].pc = "insert" /\ p.by = run[r].n
                             /\ \E o \in run[r].cur : o.deal = k}
  <2>1. table' = [k \in Deals |-> table[k] \union RowsIn(run[r], store, k)]
    BY UnsavedHere DEF Insert, RowsIn
  <2>2. ASSUME NEW k \in Deals, NEW p
        PROVE  p \in RowsIn(run[r], store, k) <=>
                 /\ p \in store[k] /\ run[r].pc = "insert" /\ p.by = run[r].n
                 /\ \E o \in run[r].cur : o.deal = k
    BY UnsavedRows
  <2>3. \A k \in Deals : table'[k] = table[k] \union RowsIn(run[r], store, k)
    BY <2>1
  <2>4. table' \in [Deals -> SUBSET Observation]
    BY <2>1, <2>2, Typed DEF ColIInv
  <2> QED BY <2>2, <2>3, <2>4
<1>4. Goes(r, x)
  BY <1>1, <1>2 DEF Goes
<1>5. Numbered' /\ FlagIsTick'
  BY <1>1, <1>4, GoingKeepsNumbers
<1>6. TypeOK'
  BY <1>1, <1>2, <1>3, Typed, Untouched DEF ColIInv, TypeOK, RunStates
<1>7. Observed'
  BY <1>1, <1>3 DEF ColIInv, Observed
<1>8. MeetingsKnown'
  BY <1>1, <1>2, NobodyMeets DEF Busy
<1>9. MemoryHeld'
  <2>1. run'[r] = x /\ \A q \in Runs : q # r => run'[q] = run[q]
    BY <1>2, Typed, Untouched DEF ColIInv
  <2>2. ASSUME NEW k \in Deals, NEW p \in store[k] \ table'[k]
        PROVE  \/ [deal |-> k, obs |-> p] \in lost
               \/ \E q \in Runs : [deal |-> k, obs |-> p] \in Unsaved(q)'
    <3>1. \/ [deal |-> k, obs |-> p] \in lost
          \/ \E q \in Runs : [deal |-> k, obs |-> p] \in Unsaved(q)
      BY <1>3, <2>2 DEF ColIInv, MemoryHeld
    <3>2. [deal |-> k, obs |-> p] \notin Unsaved(r)
      <4>1. [deal |-> k, obs |-> p] \in UnsavedIn(run[r], store) => p \in table'[k]
        BY <1>3, UnsavedMembers
      <4> QED BY <2>2, <4>1, UnsavedHere
    <3>3. \A q \in Runs : q # r => Unsaved(q)' = Unsaved(q)
      BY <1>1, <2>1, UnsavedHere, UnsavedNext
    <3> QED BY <3>1, <3>2, <3>3
  <2>3. \A k \in Deals : blind \/ Retained(table'[k]) \subseteq store[k]
    BY <1>3 DEF ColIInv, MemoryHeld, Retained
  <2>4. \A k : Retained(table[k])' = Retained(table'[k])
    BY <1>1 DEF Retained
  <2> QED BY <1>1, <2>2, <2>3, <2>4 DEF MemoryHeld
<1> QED BY <1>1, <1>2, <1>5, <1>6, <1>7, <1>8, <1>9, OthersFit, PostsStand DEF ColIInv

LEMMA InsertFailsKeeps == ASSUME ColIInv, NEW r \in Runs, InsertFails(r) PROVE ColIInv'
<1>1. /\ run[r].pc = "insert" /\ Saved(r) /\ run[r] \in RunStates
      /\ lost' = lost \union Unsaved(r) /\ fails > 0 /\ fails' = fails - 1
      /\ UNCHANGED <<day, store, table, posted, index, tickInFlight, starts, lastPost, blind, met>>
  BY RunFacts DEF InsertFails
<1>2. PICK x \in RunStates :
        /\ run' = [run EXCEPT ![r] = x]
        /\ x.n = run[r].n /\ x.pc = "screen"
        /\ Shape(x) /\ Unseen(x) /\ OwnItems(x)
  BY <1>1, SavedState
<1>3. Goes(r, x)
  BY <1>1, <1>2 DEF Goes
<1>4. Numbered' /\ FlagIsTick'
  BY <1>1, <1>3, GoingKeepsNumbers
<1>5. lost' \subseteq [deal : Deals, obs : Observation]
  <2>1. \A o \in run[r].cur : o.deal \in Deals
    BY <1>1 DEF RunStates, Offer
  <2>2. \A o \in run[r].cur : store[o.deal] \subseteq Observation
    BY <2>1, Typed DEF ColIInv
  <2>3. UnsavedIn(run[r], store) \subseteq [deal : Deals, obs : Observation]
    BY <2>1, <2>2 DEF UnsavedIn
  <2> QED BY <1>1, <2>3, UnsavedHere, Typed DEF ColIInv
<1>6. TypeOK'
  BY <1>1, <1>2, <1>5, Typed, Untouched DEF ColIInv, TypeOK, RunStates
<1>7. MeetingsKnown'
  BY <1>1, <1>2, NobodyMeets DEF Busy
<1>8. MemoryHeld'
  BY <1>1, <1>2, MemoryStands
<1> QED BY <1>1, <1>2, <1>4, <1>6, <1>7, <1>8, OthersFit, PostsStand, ObservedStand DEF ColIInv

(* The deals of a feed are new to the run and now its own in the index. *)
LEMMA FetchKeeps == ASSUME ColIInv, NEW r \in Runs, Fetch(r) PROVE ColIInv'
<1>0. PICK D \in SUBSET (Deals \ Found(r)) : \E price \in [D -> Prices] :
        /\ run' = [run EXCEPT ![r].left = @ - 1,
                              ![r].pc = IF run[r].left > 1 THEN "fetch" ELSE "screen",
                              ![r].todo = @ \union {[deal |-> k, price |-> price[k]] : k \in D}]
        /\ index' = [k \in Deals |-> IF k \in D THEN run[r].n ELSE index[k]]
  BY DEF Fetch
<1>1. PICK price \in [D -> Prices] :
        /\ run' = [run EXCEPT ![r].left = @ - 1,
                              ![r].pc = IF run[r].left > 1 THEN "fetch" ELSE "screen",
                              ![r].todo = @ \union {[deal |-> k, price |-> price[k]] : k \in D}]
        /\ index' = [k \in Deals |-> IF k \in D THEN run[r].n ELSE index[k]]
  BY <1>0
<1> DEFINE N == {[deal |-> k, price |-> price[k]] : k \in D}
           x == [run[r] EXCEPT !.left = @ - 1,
                               !.pc = IF run[r].left > 1 THEN "fetch" ELSE "screen",
                               !.todo = @ \union N]
<1>2. /\ run[r].pc = "fetch" /\ run[r] \in RunStates
      /\ Shape(run[r]) /\ Unseen(run[r]) /\ OwnItems(run[r])
      /\ UNCHANGED <<day, store, table, posted, tickInFlight, starts, lastPost, lost, blind,
                     met, fails>>
  BY RunFacts DEF Fetch
<1>3. /\ N \subseteq Offer
      /\ \A o \in N : o.deal \in D /\ o.price = price[o.deal]
      /\ \A o \in run[r].todo : o.deal \notin D
      /\ \A o, u \in N : o.deal = u.deal => o = u
  BY DEF Offer, Found
<1> HIDE DEF N
<1>4. run[r].left - 1 \in 0..Feeds /\ (run[r].left > 1 => run[r].left - 1 > 0)
  BY <1>2, LimitsAssumption DEF Shape, RunStates
<1>5. /\ x \in RunStates /\ x.pc \in {"fetch", "screen"} /\ x.cur = run[r].cur
      /\ x.todo = run[r].todo \union N /\ x.n = run[r].n /\ x.kept = run[r].kept
      /\ x.left = run[r].left - 1 /\ (x.pc = "fetch" => x.left > 0)
    BY <1>2, <1>3, <1>4 DEF RunStates
<1>6. run' = [run EXCEPT ![r] = x]
  BY <1>1, <1>2, Typed DEF ColIInv, N
<1> HIDE DEF x
<1>7. /\ run'[r] = x /\ \A q \in Runs : q # r => run'[q] = run[q]
  BY <1>5, <1>6, Typed, Untouched DEF ColIInv
<1>8. Numbered' /\ FlagIsTick'
  BY <1>2, <1>5, <1>6, GoingKeepsNumbers DEF Goes
<1>9. TypeOK'
  <2>1. index' \in [Deals -> Numbers]
    BY <1>1, <1>2, Typed DEF ColIInv, RunStates
  <2> QED BY <1>2, <1>5, <1>6, <2>1, Typed, Untouched DEF ColIInv, TypeOK, RunStates
<1>10. RunsFit'
  <2>1. Shape(x)
    BY <1>2, <1>3, <1>5 DEF Shape
  <2>2. Unseen(x)
    <3>1. \A o \in x.todo : o.deal \in Deals
      BY <1>5 DEF RunStates, Offer
    <3> QED BY <1>2, <1>5, <2>1, <3>1 DEF Unseen, Shape
  <2>3. x.n \notin met => \A k \in DealsOf(x) : index'[k] = x.n
    <3>1. DealsOf(x) \subseteq DealsOf(run[r]) \union D /\ DealsOf(x) \subseteq Deals
      BY <1>3, <1>5 DEF DealsOf, RunStates, Offer
    <3>2. run[r].n \notin met => \A k \in DealsOf(run[r]) : index[k] = run[r].n
      BY <1>2 DEF OwnItems, Busy
    <3> QED BY <1>1, <1>5, <3>1, <3>2
  <2>4. Shape(run[r])' /\ Unseen(run[r])' /\ OwnItems(run[r])'
    BY <1>2, <1>5, <1>7, <2>1, <2>2, <2>3 DEF Shape, Unseen, OwnItems, DealsOf
  <2>5. ASSUME NEW q \in Runs, q # r
        PROVE  Shape(run[q])' /\ Unseen(run[q])' /\ OwnItems(run[q])'
    <3>1. Shape(run[q]) /\ Unseen(run[q]) /\ OwnItems(run[q])
      BY RunFacts
    <3>2. Shape(run[q])' /\ Unseen(run[q])'
      BY <1>2, <1>7, <2>5, <3>1 DEF Shape, Unseen
    <3>3. run[q].pc \in Busy => run[q].n \in met
      BY <1>2, <2>5 DEF ColIInv, MeetingsKnown
    <3>4. OwnItems(run[q])'
      BY <1>2, <1>7, <2>5, <3>1, <3>3 DEF OwnItems
    <3> QED BY <3>2, <3>4
  <2> QED BY <2>4, <2>5 DEF RunsFit
<1>11. MeetingsKnown'
  BY <1>2, <1>5, <1>6, NobodyMeets DEF Busy
<1>12. MemoryHeld'
  <2>1. Unsaved(r) = {}
    BY <1>2, UnsavedHere DEF UnsavedIn
  <2> QED BY <1>2, <1>5, <1>6, <2>1, MemoryStands
<1> QED BY <1>2, <1>8, <1>9, <1>10, <1>11, <1>12, PostsStand, ObservedStand DEF ColIInv

-----------------------------------------------------------------------------
(* Starts, discoveries, posts, days and restarts *)

(* A run that starts has a number nobody has seen. *)
LEMMA StartingKeeps ==
  ASSUME ColIInv, NEW r \in Runs, run[r].pc = "idle", starts < MaxStarts,
         starts' = starts + 1, NEW x \in RunStates, run' = [run EXCEPT ![r] = x],
         x.n = starts + 1, x.pc \in {"jitter", "fetch"},
         x.todo = {}, x.cur = {}, x.kept = {}, x.pc = "fetch" => x.left > 0,
         UNCHANGED <<store, table>>
  PROVE  /\ Numbered' /\ Observed' /\ starts' \in Numbers
         /\ Shape(x) /\ Unseen(x) /\ OwnItems(x)
<1>1. /\ run'[r] = x /\ \A q \in Runs : q # r => run'[q] = run[q]
      /\ starts \in Nat /\ starts' \in Numbers
      /\ \A q \in Runs : run[q].n \in Nat
  BY Typed, Untouched DEF ColIInv, Numbers, RunStates
<1>2. Numbered'
  <2>1. ASSUME NEW q \in Runs, run[q].pc # "idle" PROVE run[q].n \in 1..starts
    BY <2>1 DEF ColIInv, Numbered
  <2> QED BY <1>1, <2>1 DEF ColIInv, Numbered
<1>3. \A k \in Deals : \A p \in store[k] \union table[k] : p.by \in Nat /\ p.by <= starts
  <2>1. \A k \in Deals : \A p \in store[k] \union table[k] : p \in Observation
    BY Typed DEF ColIInv
  <2>2. \A p \in Observation : p.by \in Nat
    BY LimitsAssumption DEF Observation, Numbers
  <2> QED BY <2>1, <2>2 DEF ColIInv, Observed
<1>4. Observed'
  BY <1>1, <1>3 DEF Observed
<1>5. Shape(x) /\ OwnItems(x)
  BY DEF Shape, OwnItems, DealsOf
<1>6. Unseen(x)
  BY <1>1, <1>3 DEF Unseen
<1> QED BY <1>1, <1>2, <1>4, <1>5, <1>6

Starting(pc, n, left) == [Resting EXCEPT !.pc = pc, !.n = n, !.left = left]

LEMMA StartingFits ==
  ASSUME NEW n \in Numbers, NEW pc \in {"jitter", "fetch"}, NEW left \in 0..Feeds
  PROVE  LET x == Starting(pc, n, left)
         IN  /\ x \in RunStates /\ x.pc = pc /\ x.n = n /\ x.left = left
             /\ x.todo = {} /\ x.cur = {} /\ x.kept = {}
<1>1. /\ Resting \in RunStates
      /\ Resting.todo = {} /\ Resting.cur = {} /\ Resting.kept = {}
  BY RestingFits
<1> QED BY <1>1 DEF RunStates, Starting

LEMMA NextNumber == ASSUME TypeOK, starts < MaxStarts PROVE starts + 1 \in Numbers
<1>1. starts \in 0..MaxStarts /\ MaxStarts \in Nat
  BY Typed DEF Numbers
<1> QED BY <1>1 DEF Numbers

LEMMA TickFiresKeeps == ASSUME ColIInv, NEW r \in Runs, TickFires(r) PROVE ColIInv'
<1> DEFINE x == [Resting EXCEPT !.pc = "jitter", !.n = starts']
<1>1. /\ r \in Ticks /\ run[r].pc = "idle" /\ ~tickInFlight /\ tickInFlight' = TRUE
      /\ starts < MaxStarts /\ starts' = starts + 1
      /\ run' = [run EXCEPT ![r] = x]
      /\ UNCHANGED <<day, store, table, posted, index, lastPost, lost, blind, met, fails>>
  BY DEF TickFires
<1>2. /\ x \in RunStates /\ x.pc = "jitter" /\ x.n = starts + 1
      /\ x.todo = {} /\ x.cur = {} /\ x.kept = {}
  <2>1. starts' \in Numbers
    BY <1>1, NextNumber DEF ColIInv
  <2>2. Resting.left \in 0..Feeds
    BY LimitsAssumption DEF Resting
  <2>3. x = Starting("jitter", starts', Resting.left)
    BY DEF Resting, Starting
  <2> HIDE DEF x
  <2> QED BY <1>1, <2>1, <2>2, <2>3, StartingFits
<1> HIDE DEF x
<1>3. /\ run'[r] = x /\ \A q \in Runs : q # r => run'[q] = run[q]
      /\ Ticks \subseteq Runs
  BY <1>1, <1>2, Typed, Untouched DEF ColIInv, Runs
<1>4. /\ Numbered' /\ Observed' /\ starts' \in Numbers
      /\ Shape(x) /\ Unseen(x) /\ OwnItems(x)
  BY <1>1, <1>2, StartingKeeps
<1>5. FlagIsTick'
  BY <1>1, <1>2, <1>3 DEF ColIInv, FlagIsTick
<1>6. TypeOK'
  BY <1>1, <1>2, <1>4, Typed, Untouched DEF ColIInv, TypeOK, RunStates
<1>7. MeetingsKnown'
  BY <1>1, <1>2, NobodyMeets DEF Busy
<1>8. MemoryHeld'
  <2>1. Unsaved(r) = {}
    BY <1>1, UnsavedHere DEF UnsavedIn
  <2> QED BY <1>1, <1>2, <2>1, MemoryStands
<1> QED BY <1>1, <1>2, <1>4, <1>5, <1>6, <1>7, <1>8, OthersFit, PostsStand DEF ColIInv

(* A discovery meets every run that uses the index, and is met by those that
   fill it. *)
LEMMA MeetingsMembers ==
  ASSUME ColIInv, NEW r \in Runs, run[r].pc \in {"idle", "jitter"},
         r \in Manuals \/ run[r].pc # "idle",
         NEW n \in Numbers, NEW q \in Runs, q # r
  PROVE  /\ run[q].pc \in Busy => run[q].n \in Met(r, n)
         /\ run[q].pc = "fetch" => n \in Met(r, n)
         /\ Met(r, n) \subseteq Numbers
<1> DEFINE others == {p \in Runs \ {r} : r \in Manuals \/ p \in Manuals}
<1>1. run[q].pc # "idle" => q \in others
  BY DEF ColIInv, FlagIsTick, Runs
<1>2. \A p \in others : run[p].n \in Numbers
  BY Typed DEF ColIInv, RunStates
<1>3. Met(r, n) = {run[p].n : p \in {s \in others : run[s].pc \notin {"idle", "jitter", "enrich"}}}
                  \union {n : p \in {s \in others : run[s].pc = "fetch"}}
  BY DEF Met
<1> HIDE DEF others
<1> QED BY <1>1, <1>2, <1>3 DEF Busy

(* Emptying the index spoils it only for runs that are known to have met. *)
LEMMA EmptyingKeeps ==
  ASSUME ColIInv, NEW r \in Runs, run[r].pc \in {"idle", "jitter"},
         r \in Manuals \/ run[r].pc # "idle",
         NEW x \in RunStates, run' = [run EXCEPT ![r] = x], x.pc = "fetch",
         x.todo = {}, x.cur = {}, x.kept = {},
         Shape(x), Unseen(x),
         index' = [k \in Deals |-> 0], met' = met \union Met(r, x.n), UNCHANGED store
  PROVE  RunsFit' /\ MeetingsKnown' /\ met' \subseteq Numbers
<1>1. /\ run'[r] = x /\ \A q \in Runs : q # r => run'[q] = run[q]
      /\ x.n \in Numbers /\ met \subseteq Numbers
  BY Typed, Untouched DEF ColIInv, RunStates
<1>2. \A q \in Runs : q # r =>
        /\ run[q].pc \in Busy => run[q].n \in met'
        /\ run[q].pc = "fetch" => x.n \in met'
  BY <1>1, MeetingsMembers
<1>3. MeetingsKnown'
  BY <1>1, <1>2 DEF ColIInv, MeetingsKnown
<1>4. met' \subseteq Numbers
  BY <1>1, Typed DEF ColIInv, Met, RunStates
<1>5. ASSUME NEW q \in Runs PROVE Shape(run[q])' /\ Unseen(run[q])' /\ OwnItems(run[q])'
  <2>1. CASE q = r
    BY <1>1, <2>1 DEF Shape, Unseen, OwnItems, DealsOf
  <2>2. CASE q # r
    <3>1. Shape(run[q]) /\ Unseen(run[q]) /\ OwnItems(run[q])
      BY RunFacts
    <3>2. Shape(run[q])' /\ Unseen(run[q])'
      BY <1>1, <2>2, <3>1 DEF Shape, Unseen
    <3>3. OwnItems(run[q])'
      BY <1>1, <1>2, <2>2, <3>1 DEF OwnItems
    <3> QED BY <3>2, <3>3
  <2> QED BY <2>1, <2>2
<1> QED BY <1>3, <1>4, <1>5 DEF RunsFit

LEMMA DiscoverKeeps == ASSUME ColIInv, NEW r \in Runs, Discover(r) PROVE ColIInv'
<1>1. PICK feeds \in {1, Feeds} : run' = [run EXCEPT ![r].pc = "fetch", ![r].left = feeds]
  BY DEF Discover
<1> DEFINE x == [run[r] EXCEPT !.pc = "fetch", !.left = feeds]
<1>2. /\ run[r].pc = "jitter" /\ run[r] \in RunStates
      /\ Shape(run[r]) /\ Unseen(run[r])
      /\ index' = [k \in Deals |-> 0] /\ met' = met \union Met(r, run[r].n)
      /\ UNCHANGED <<day, store, table, posted, tickInFlight, starts, lastPost, lost, blind, fails>>
  BY RunFacts DEF Discover
<1>3. /\ x \in RunStates /\ x.pc = "fetch" /\ x.n = run[r].n /\ x.left > 0
      /\ x.todo = {} /\ x.cur = {} /\ x.kept = {}
  <2>1. feeds \in 0..Feeds /\ feeds > 0
    BY LimitsAssumption
  <2>2. run[r].todo = {} /\ run[r].cur = {} /\ run[r].kept = {}
    BY <1>2 DEF Shape
  <2>3. x \in RunStates
    BY <1>2, <2>1 DEF RunStates
  <2>4. /\ x.pc = "fetch" /\ x.n = run[r].n /\ x.left = feeds
        /\ x.todo = run[r].todo /\ x.cur = run[r].cur /\ x.kept = run[r].kept
    BY <1>2 DEF RunStates
  <2> QED BY <2>1, <2>2, <2>3, <2>4
<1>4. run' = [run EXCEPT ![r] = x]
  BY <1>1, <1>2, Typed DEF ColIInv
<1> HIDE DEF x
<1>5. Shape(x) /\ Unseen(x)
  BY <1>2, <1>3 DEF Shape, Unseen
<1>6. RunsFit' /\ MeetingsKnown' /\ met' \subseteq Numbers
  BY <1>2, <1>3, <1>4, <1>5, EmptyingKeeps
<1>7. Numbered' /\ FlagIsTick'
  BY <1>2, <1>3, <1>4, GoingKeepsNumbers DEF Goes
<1>8. TypeOK'
  <2>1. index' \in [Deals -> Numbers]
    BY <1>2, LimitsAssumption DEF Numbers
  <2> QED BY <1>2, <1>3, <1>4, <1>6, <2>1, Typed, Untouched DEF ColIInv, TypeOK, RunStates
<1>9. MemoryHeld'
  <2>1. Unsaved(r) = {}
    BY <1>2, UnsavedHere DEF UnsavedIn
  <2> QED BY <1>2, <1>3, <1>4, <2>1, MemoryStands
<1> QED BY <1>2, <1>6, <1>7, <1>8, <1>9, PostsStand, ObservedStand DEF ColIInv

LEMMA ManualStartsKeeps == ASSUME ColIInv, NEW r \in Runs, ManualStarts(r) PROVE ColIInv'
<1> DEFINE x == [Resting EXCEPT !.pc = "fetch", !.n = starts', !.left = Feeds]
<1>1. /\ r \in Manuals /\ run[r].pc = "idle"
      /\ starts < MaxStarts /\ starts' = starts + 1
      /\ run' = [run EXCEPT ![r] = x]
      /\ index' = [k \in Deals |-> 0] /\ met' = met \union Met(r, starts')
      /\ UNCHANGED <<day, store, table, posted, tickInFlight, lastPost, lost, blind, fails>>
  BY DEF ManualStarts
<1>2. /\ x \in RunStates /\ x.pc = "fetch" /\ x.n = starts + 1 /\ x.left > 0
      /\ x.todo = {} /\ x.cur = {} /\ x.kept = {}
  <2>1. starts' \in Numbers
    BY <1>1, NextNumber DEF ColIInv
  <2>2. Feeds \in 0..Feeds /\ Feeds > 0
    BY LimitsAssumption
  <2>3. x = Starting("fetch", starts', Feeds)
    BY DEF Starting
  <2> HIDE DEF x
  <2>4. /\ x \in RunStates /\ x.pc = "fetch" /\ x.n = starts' /\ x.left = Feeds
        /\ x.todo = {} /\ x.cur = {} /\ x.kept = {}
    BY <2>1, <2>2, <2>3, StartingFits
  <2> QED BY <1>1, <2>2, <2>4
<1> HIDE DEF x
<1>3. /\ run'[r] = x /\ \A q \in Runs : q # r => run'[q] = run[q]
  BY <1>1, <1>2, Typed, Untouched DEF ColIInv
<1>4. /\ Numbered' /\ Observed' /\ starts' \in Numbers
      /\ Shape(x) /\ Unseen(x)
  BY <1>1, <1>2, StartingKeeps
<1>5. RunsFit' /\ MeetingsKnown' /\ met' \subseteq Numbers
  BY <1>1, <1>2, <1>4, EmptyingKeeps
<1>6. FlagIsTick'
  <2>1. r \notin Ticks /\ Ticks \subseteq Runs
    BY <1>1, DealsAssumption DEF Runs
  <2> QED BY <1>1, <1>3, <2>1 DEF ColIInv, FlagIsTick
<1>7. TypeOK'
  <2>1. index' \in [Deals -> Numbers]
    BY <1>1, LimitsAssumption DEF Numbers
  <2> QED BY <1>1, <1>2, <1>4, <1>5, <2>1, Typed, Untouched DEF ColIInv, TypeOK, RunStates
<1>8. MemoryHeld'
  <2>1. Unsaved(r) = {}
    BY <1>1, UnsavedHere DEF UnsavedIn
  <2> QED BY <1>1, <1>2, <2>1, MemoryStands
<1> QED BY <1>1, <1>4, <1>5, <1>6, <1>7, <1>8, PostsStand DEF ColIInv

(* What does not touch the runs. *)
LEMMA RunsStand ==
  ASSUME ColIInv, UNCHANGED <<store, table, index, tickInFlight, run, starts, lost, blind, met>>
  PROVE  Numbered' /\ FlagIsTick' /\ Observed' /\ RunsFit' /\ MeetingsKnown'
<1>1. Numbered' /\ FlagIsTick' /\ Observed' /\ MeetingsKnown'
  BY DEF ColIInv, Numbered, FlagIsTick, Observed, MeetingsKnown
<1>2. RunsFit'
  BY DEF ColIInv, RunsFit, Shape, Unseen, OwnItems, DealsOf
<1> QED BY <1>1, <1>2

LEMMA PostKeeps == ASSUME ColIInv, NEW k \in Deals, Post(k) PROVE ColIInv'
<1>1. UNCHANGED <<day, store, table, index, tickInFlight, run, starts, lost, blind, met, fails>>
  BY DEF Post
<1>2. TypeOK'
  BY <1>1, Typed DEF Post, ColIInv, TypeOK
<1>3. MemoryHeld'
  BY <1>1 DEF ColIInv, MemoryHeld, Retained, Unsaved
<1>4. PostsHeld'
  BY <1>1, Typed DEF Post, ColIInv, PostsHeld
<1> QED BY <1>1, <1>2, <1>3, <1>4, RunsStand DEF ColIInv

LEMMA NextDayKeeps == ASSUME ColIInv, NextDay PROVE ColIInv'
<1>1. /\ UNCHANGED <<store, table, posted, index, tickInFlight, run, starts, lastPost, lost,
                     blind, met, fails>>
      /\ day' = day + 1 /\ day \in Nat
  BY Typed DEF NextDay, ColIInv
<1>2. TypeOK'
  BY <1>1 DEF ColIInv, TypeOK
<1>3. MemoryHeld'
  <2>1. ASSUME NEW k \in Deals PROVE Retained(table[k])' \subseteq Retained(table[k])
    <3>1. \A o \in table[k] : o.at \in Int
      BY Typed DEF ColIInv, Observation
    <3> QED BY <1>1, <3>1, LimitsAssumption DEF Retained
  <2>2. \A k \in Deals : \A p \in store[k] \ table[k] :
          [deal |-> k, obs |-> p] \in lost' \union UNION {Unsaved(r)' : r \in Runs}
    <3>1. \A q \in Runs : Unsaved(q)' = Unsaved(q)
      BY <1>1, UnsavedHere, UnsavedNext
    <3>2. \A k \in Deals : \A p \in store[k] \ table[k] :
            [deal |-> k, obs |-> p] \in lost \union UNION {Unsaved(r) : r \in Runs}
      BY DEF ColIInv, MemoryHeld
    <3> QED BY <1>1, <3>1, <3>2
  <2> QED BY <1>1, <2>1, <2>2 DEF ColIInv, MemoryHeld
<1>4. PostsHeld'
  BY <1>1, Typed DEF ColIInv, PostsHeld
<1> QED BY <1>1, <1>2, <1>3, <1>4, RunsStand DEF ColIInv

(* Prunings at boot use cutoffs that forget nothing that still decides. *)
LEMMA RestartKeeps == ASSUME ColIInv, Restart PROVE ColIInv'
<1>1. PICK imports \in BOOLEAN, loads \in BOOLEAN, prunes \in BOOLEAN, forgets \in BOOLEAN :
        \E t \in [Deals -> SUBSET UNION {Legacy[k] \union table[k] : k \in Deals}] :
          /\ Backfilled(t, imports)
          /\ fails >= Failed(imports) + Failed(loads) + Failed(prunes) + Failed(forgets)
          /\ fails' = fails - Failed(imports) - Failed(loads) - Failed(prunes) - Failed(forgets)
          /\ store' = [k \in Deals |-> IF loads THEN Retained(t[k]) ELSE {}]
          /\ table' = Kept(t, prunes)
          /\ posted' = Pruned(forgets)
          /\ blind' = ~loads
  BY DEF Restart
<1>2. PICK t \in [Deals -> SUBSET UNION {Legacy[k] \union table[k] : k \in Deals}] :
          /\ Backfilled(t, imports)
          /\ fails >= Failed(imports) + Failed(loads) + Failed(prunes) + Failed(forgets)
          /\ fails' = fails - Failed(imports) - Failed(loads) - Failed(prunes) - Failed(forgets)
          /\ store' = [k \in Deals |-> IF loads THEN Retained(t[k]) ELSE {}]
          /\ table' = Kept(t, prunes)
          /\ posted' = Pruned(forgets)
          /\ blind' = ~loads
  BY <1>1
<1>3. /\ index' = [k \in Deals |-> 0] /\ tickInFlight' = FALSE
      /\ run' = [r \in Runs |-> Resting] /\ lost' = {}
      /\ UNCHANGED <<day, starts, lastPost, met>>
  BY DEF Restart
<1>4. \A k \in Deals : t[k] \subseteq Observation /\ \A p \in t[k] : p.by <= starts
  <2>1. \A k \in Deals : t[k] = table[k] \/ t[k] \subseteq Legacy[k]
    BY <1>2 DEF Backfilled
  <2>2. \A k \in Deals : Legacy[k] \subseteq Observation /\ \A p \in Legacy[k] : p.by = 0
    BY LegacyAssumption
  <2>3. 0 <= starts
    BY Typed DEF ColIInv, Numbers
  <2> QED BY <2>1, <2>2, <2>3, Typed DEF ColIInv, Observed
<1>5. /\ \A k \in Deals : store'[k] \subseteq t[k] /\ table'[k] \subseteq t[k]
      /\ \A k \in Deals : store'[k] \subseteq table'[k]
      /\ loads => \A k \in Deals : Retained(table'[k]) \subseteq store'[k]
      /\ store' \in [Deals -> SUBSET Observation] /\ table' \in [Deals -> SUBSET Observation]
  BY <1>2, <1>4 DEF Kept, Retained
<1>6. TypeOK'
  <2>1. posted' \in [Deals -> Int]
    BY <1>2, Typed DEF ColIInv, Pruned, Never
  <2>2. fails' \in 0..MaxFails
    BY <1>1, <1>2, Typed DEF ColIInv, Failed
  <2>3. index' \in [Deals -> Numbers] /\ run' \in [Runs -> RunStates]
    BY <1>3, RestingFits, LimitsAssumption DEF Numbers
  <2>4. blind' \in BOOLEAN
    BY <1>2
  <2> QED BY <1>3, <1>5, <2>1, <2>2, <2>3, <2>4, Typed DEF ColIInv, TypeOK, RunStates
<1>7. \A r \in Runs : run'[r].pc = "idle" /\ run'[r] = Resting
  BY <1>3, RestingFits
<1>8. Numbered' /\ FlagIsTick' /\ MeetingsKnown'
  BY <1>3, <1>7 DEF Numbered, FlagIsTick, MeetingsKnown, Busy, Runs
<1>9. Observed'
  BY <1>3, <1>4, <1>5 DEF Observed
<1>10. RunsFit'
  BY <1>7, RestingFits DEF RunsFit, Shape, Unseen, OwnItems, Busy
<1>11. MemoryHeld'
  <2>1. \A k \in Deals : Retained(table[k])' = Retained(table'[k])
    BY <1>3 DEF Retained
  <2> QED BY <1>2, <1>5, <2>1 DEF MemoryHeld
<1>12. PostsHeld'
  <2> SUFFICES ASSUME NEW k \in Deals
               PROVE  \/ posted'[k] = lastPost[k]
                      \/ posted'[k] = Never /\ day - lastPost[k] >= Window
    BY <1>3 DEF PostsHeld
  <2>1. posted'[k] = IF forgets /\ posted[k] < day - PruneAge THEN Never ELSE posted[k]
    BY <1>2 DEF Pruned
  <2>2. /\ posted[k] \in Int /\ lastPost[k] \in Int /\ day \in Nat
        /\ Window \in Nat /\ PruneAge \in Nat /\ Window <= PruneAge
    BY Typed DEF ColIInv
  <2>3. \/ posted[k] = lastPost[k]
        \/ posted[k] = Never /\ day - lastPost[k] >= Window
    BY DEF ColIInv, PostsHeld
  <2> QED BY <2>1, <2>2, <2>3
<1> QED BY <1>6, <1>8, <1>9, <1>10, <1>11, <1>12 DEF ColIInv

-----------------------------------------------------------------------------
LEMMA ColStarts == Init => ColIInv
<1> SUFFICES ASSUME Init PROVE ColIInv
  OBVIOUS
<1>1. /\ \A r \in Runs : run[r] = Resting
      /\ run = [r \in Runs |-> Resting] /\ starts = 0 /\ tickInFlight = FALSE /\ day = 0
      /\ posted = [k \in Deals |-> Never] /\ lastPost = posted /\ met = {} /\ lost = {}
      /\ index = [k \in Deals |-> 0] /\ blind = FALSE /\ fails = MaxFails
  BY DEF Init
<1>2. /\ store = table /\ store \in [Deals -> SUBSET Observation]
      /\ \A k \in Deals : \A p \in store[k] : p.by = 0
  BY LegacyAssumption DEF Init
<1>3. TypeOK
  <2>1. /\ MaxStarts \in Nat /\ MaxFails \in Nat /\ 0 \in Numbers /\ MaxFails \in 0..MaxFails
        /\ Never \in Int
    BY LimitsAssumption DEF Numbers, Never
  <2>2. run \in [Runs -> RunStates]
    BY <1>1, RestingFits
  <2>3. posted \in [Deals -> Int] /\ lastPost \in [Deals -> Int] /\ index \in [Deals -> Numbers]
    BY <1>1, <2>1
  <2> QED BY <1>1, <1>2, <2>1, <2>2, <2>3 DEF TypeOK, RunStates
<1>4. Numbered /\ FlagIsTick /\ MeetingsKnown
  BY <1>1, RestingFits DEF Numbered, FlagIsTick, MeetingsKnown, Busy, Runs
<1>5. Observed /\ RunsFit
  BY <1>1, <1>2, RestingFits DEF Observed, RunsFit
<1>6. MemoryHeld
  BY <1>2 DEF MemoryHeld, Retained
<1>7. PostsHeld
  BY <1>1 DEF PostsHeld
<1> QED BY <1>3, <1>4, <1>5, <1>6, <1>7 DEF ColIInv

LEMMA ColInductive == ColIInv /\ [Next]_vars => ColIInv'
<1> SUFFICES ASSUME ColIInv, [Next]_vars PROVE ColIInv'
  OBVIOUS
<1>1. ASSUME NEW r \in Runs, TickFires(r) \/ ManualStarts(r) \/ Work(r) PROVE ColIInv'
  BY <1>1, TickFiresKeeps, ManualStartsKeeps, DiscoverKeeps, FetchKeeps, AskDedupKeeps,
     RejectKeeps, DecidedKeep, InsertKeeps, InsertFailsKeeps, PrescoreKeeps, LookupKeeps,
     EndsKeep DEF Work
<1>2. CASE UNCHANGED vars
  <2>1. UNCHANGED <<day, store, table, posted, index, tickInFlight, run, starts, lastPost,
                    lost, blind, met, fails>>
    BY <1>2 DEF vars
  <2>2. TypeOK' /\ MemoryHeld' /\ PostsHeld'
    BY <2>1 DEF ColIInv, TypeOK, MemoryHeld, Retained, Unsaved, PostsHeld
  <2> QED BY <2>1, <2>2, RunsStand DEF ColIInv
<1> QED BY <1>1, <1>2, PostKeeps, NextDayKeeps, RestartKeeps DEF Next

(* The inductive invariant of the collection holds in every reachable state. *)
THEOREM ColInvariance == Spec => []ColIInv
  BY ColStarts, ColInductive, PTL DEF Spec

(* No run decides about an offer with the price it captured itself in the
   history (screenRaw, record), for any runs, feeds, restarts and failures. *)
THEOREM DecisionsIgnoreOwnPrice == Spec => []OwnPriceUnseen
<1>1. ColIInv => OwnPriceUnseen
  BY DEF ColIInv, RunsFit, Unseen, OwnPriceUnseen
<1> QED BY <1>1, ColInvariance, PTL

(* One tick at a time, which its flag says, and a run enriches what it found
   unless it met a manual run (tick, runOnce, discover, enrichMany). *)
THEOREM RunsStayApart == Spec => []RunsApart
<1>1. ColIInv => RunsApart
  BY DEF ColIInv, RunsFit, OwnItems, RunsApart, OwnItem
<1> QED BY <1>1, ColInvariance, PTL

(* A run that is told a deal was not posted lately is told the truth, whatever
   the table forgot. *)
LEMMA OldPostsOnly ==
  ASSUME ColIInv, [Next]_vars, NEW r \in Runs,
         run[r].pc = "screen", run'[r].pc = "decide", ~run'[r].recent,
         NEW o \in run'[r].cur, lastPost[o.deal] # Never
  PROVE  day - lastPost[o.deal] >= Window
<1>1. run \in [Runs -> RunStates]
  BY Typed DEF ColIInv
<1>2. AskDedup(r)
  <2>1. ASSUME NEW q \in Runs, TickFires(q) \/ ManualStarts(q) \/ Work(q)
        PROVE  AskDedup(r)
    <3>1. q # r => run'[r] = run[r]
      BY <1>1, <2>1 DEF TickFires, ManualStarts, Work, TickSkips, Discover, Fetch, AskDedup,
         DedupFails, End, Reject, Audit, Survive, Insert, InsertFails, Saved, Prescore, Lookup,
         Finish
    <3>2. q = r
      BY <3>1
    <3>3. CASE DedupFails(r)
      BY <1>1, <3>3, RestingFits DEF DedupFails, End
    <3>4. CASE Prescore(r)
      BY <1>1, <3>4 DEF Prescore
    <3> QED BY <2>1, <3>2, <3>3, <3>4 DEF TickFires, ManualStarts, Work, TickSkips, Discover,
         Fetch, Reject, Audit, Survive, Insert, InsertFails, Lookup, Finish
  <2>2. CASE Restart
    BY <2>2, RestingFits DEF Restart
  <2>3. run' # run
    OBVIOUS
  <2> QED BY <2>1, <2>2, <2>3 DEF Next, Post, NextDay, vars
<1>3. PICK u \in run[r].todo :
        run' = [run EXCEPT ![r].pc = "decide", ![r].cur = {u}, ![r].todo = @ \ {u},
                           ![r].recent = WasRecentlyPosted(u.deal)]
  BY <1>2 DEF AskDedup
<1>4. /\ run'[r].cur = {u} /\ run'[r].recent = WasRecentlyPosted(u.deal)
      /\ u.deal \in Deals
  BY <1>1, <1>3 DEF RunStates, Offer
<1>5. /\ o = u /\ ~WasRecentlyPosted(o.deal) /\ o.deal \in Deals
  BY <1>4
<1>6. /\ posted[o.deal] \in Int /\ day \in Nat /\ Window \in Nat
      /\ \/ posted[o.deal] = lastPost[o.deal]
         \/ posted[o.deal] = Never /\ day - lastPost[o.deal] >= Window
  BY <1>5, Typed DEF ColIInv, PostsHeld
<1> QED BY <1>5, <1>6 DEF WasRecentlyPosted

(* What decides about a deal is kept: prices in memory and table follow each
   other through inserts, failures, prunings and restarts, and the dedup table
   never forgets a post that still counts (record, onModuleInit, gc). *)
THEOREM MemoryOutlivesRestarts == Spec => MemoryIsKept
<1> DEFINE Told == \A r \in Runs : run[r].pc = "screen" /\ run'[r].pc = "decide" /\ ~run'[r].recent =>
                     \A o \in run'[r].cur :
                       lastPost[o.deal] # Never => day - lastPost[o.deal] >= Window
<1>1. ColIInv => MemoryHeld
  BY DEF ColIInv
<1>2. ColIInv /\ [Next]_vars => [Told]_vars
  BY OldPostsOnly
<1>3. Spec => []MemoryHeld /\ [][Told]_vars
  <2> HIDE DEF Told
  <2> QED BY <1>1, <1>2, ColInvariance, PTL DEF Spec
<1> QED BY <1>3 DEF MemoryIsKept, MemoryHeld
==============================================================================
