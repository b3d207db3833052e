----------------------------- MODULE Collection -----------------------------
(***************************************************************************)
(* From a cron fire to scored deals: SchedulerService.tick and runOnce      *)
(* collect what the Mercado Livre feeds offer, screen every offer against   *)
(* the dedup table and the price history, record its price, and look up the *)
(* items of the survivors.  Ticks exclude each other, a manual run excludes *)
(* nobody; all share the history, the source's index and the tables.        *)
(*                                                                         *)
(* Time is counted in days.  An observation is told apart by the run that   *)
(* captured it (`by`, ghost), so a history is a set; a run sees a deal once. *)
(* Scores, enrichment and what follows are in other modules.                 *)
(***************************************************************************)
EXTENDS PriceHistory

CONSTANTS
  Deals,
  Prices,
  Ticks,           \* fires of the cron
  Manuals,         \* calls of runOnce
  Legacy,          \* observations of price-history.json, for each deal
  Feeds,           \* feeds of discover; discoverOne reads one
  Window,          \* DEDUP_WINDOW_DAYS
  PruneAge,        \* 2 * DEFAULT_GC_WINDOW_DAYS
  Retention,       \* RETENTION_DAYS
  MaxDay, MaxStarts, MaxFails  \* bounds

Runs == Ticks \union Manuals
Numbers == 0..MaxStarts
Never == -1

Observation == [price : Nat, at : Int, by : Numbers]
Offer == [deal : Deals, price : Prices]

ASSUME DealsAssumption == IsFiniteSet(Deals) /\ Prices \subseteq Nat /\ Ticks \cap Manuals = {}
ASSUME LegacyAssumption == Legacy \in [Deals -> SUBSET {o \in Observation : o.by = 0}]
ASSUME LimitsAssumption ==
  /\ {Feeds, Window, PruneAge, Retention} \subseteq Nat
  /\ {MaxDay, MaxStarts, MaxFails} \subseteq Nat
  /\ Feeds > 0 /\ Window <= PruneAge

VARIABLES
  day,
  store,         \* the price history in memory
  table,         \* PriceHistory
  posted,        \* DedupEntry: the day of a deal's last post
  index,         \* rawIndex: the run that put the deal's item there, 0 for none
  tickInFlight,
  run,           \* each run and how far it is
  starts,        \* runs started
  lastPost,      \* ghost: posted, never pruned
  lost,          \* ghost: observations whose insert failed
  blind,         \* ghost: the last boot could not load the history
  met,           \* ghost: runs that met a manual one
  fails          \* what is left of the bound

vars == <<day, store, table, posted, index, tickInFlight, run, starts,
          lastPost, lost, blind, met, fails>>

Resting == [pc |-> "idle", n |-> 0, left |-> 0, todo |-> {}, cur |-> {},
            recent |-> FALSE, kept |-> {}, items |-> {}]

Init == /\ day = 0
        /\ \E imported \in {Legacy, [k \in Deals |-> {}]} :
             store = imported /\ table = imported
        /\ posted = [k \in Deals |-> Never]
        /\ index = [k \in Deals |-> 0]
        /\ tickInFlight = FALSE
        /\ run = [r \in Runs |-> Resting]
        /\ starts = 0
        /\ lastPost = posted
        /\ lost = {}
        /\ blind = FALSE
        /\ met = {}
        /\ fails = MaxFails

-----------------------------------------------------------------------------
(* The price history *)

(* record: the price is in memory before the insert. *)
Captured(r, o) == [price |-> o.price, at |-> day, by |-> run[r].n]

Record(r, o) == store' = [store EXCEPT ![o.deal] = @ \union {Captured(r, o)}]

WasRecentlyPosted(k) == posted[k] # Never /\ day - posted[k] < Window

-----------------------------------------------------------------------------
(* A run ends, whatever ended it; a tick lets the next one in. *)
End(r) == /\ run' = [run EXCEPT ![r] = Resting]
          /\ tickInFlight' = (tickInFlight /\ r \notin Ticks)

(* Mutant of TickFires: an overlapping fire is not dropped. *)
TickFiresAnyway(r) ==
  /\ r \in Ticks
  /\ run[r].pc = "idle"
  /\ starts < MaxStarts
  /\ starts' = starts + 1
  /\ tickInFlight' = TRUE
  /\ run' = [run EXCEPT ![r] = [Resting EXCEPT !.pc = "jitter", !.n = starts']]
  /\ UNCHANGED <<day, store, table, posted, index, lastPost, lost, blind, met, fails>>

(* The cron fires; a tick sleeps a while first. *)
TickFires(r) ==
  /\ r \in Ticks
  /\ run[r].pc = "idle"
  /\ ~tickInFlight
  /\ starts < MaxStarts
  /\ starts' = starts + 1
  /\ tickInFlight' = TRUE
  /\ run' = [run EXCEPT ![r] = [Resting EXCEPT !.pc = "jitter", !.n = starts']]
  /\ UNCHANGED <<day, store, table, posted, index, lastPost, lost, blind, met, fails>>

(* Disabled, or quiet hours. *)
TickSkips(r) ==
  /\ run[r].pc = "jitter"
  /\ End(r)
  /\ UNCHANGED <<day, store, table, posted, index, starts, lastPost, lost, blind, met, fails>>

(* Runs that lose items to another discovery, or get another's: run r, the
   n-th, empties the index that others use; one that still reads its feeds
   goes on filling it. *)
Met(r, n) ==
  LET others == {p \in Runs \ {r} : r \in Manuals \/ p \in Manuals}
  IN {run[p].n : p \in {q \in others : run[q].pc \notin {"idle", "jitter", "enrich"}}}
     \union {n : p \in {q \in others : run[q].pc = "fetch"}}

(* discover and discoverOne empty the index, then ask for one feed after the
   other. *)
Discover(r) ==
  /\ run[r].pc = "jitter"
  /\ \E feeds \in {1, Feeds} :
       run' = [run EXCEPT ![r].pc = "fetch", ![r].left = feeds]
  /\ index' = [k \in Deals |-> 0]
  /\ met' = met \union Met(r, run[r].n)
  /\ UNCHANGED <<day, store, table, posted, tickInFlight, starts, lastPost, lost, blind, fails>>

ManualStarts(r) ==
  /\ r \in Manuals
  /\ run[r].pc = "idle"
  /\ starts < MaxStarts
  /\ starts' = starts + 1
  /\ run' = [run EXCEPT ![r] = [Resting EXCEPT !.pc = "fetch", !.n = starts', !.left = Feeds]]
  /\ index' = [k \in Deals |-> 0]
  /\ met' = met \union Met(r, starts')
  /\ UNCHANGED <<day, store, table, posted, tickInFlight, lastPost, lost, blind, fails>>

Found(r) == {o.deal : o \in run[r].todo}

(* The deals of a feed; none if the request failed. *)
Fetch(r) ==
  /\ run[r].pc = "fetch"
  /\ \E D \in SUBSET (Deals \ Found(r)) : \E price \in [D -> Prices] :
       /\ run' = [run EXCEPT ![r].left = @ - 1,
                             ![r].pc = IF run[r].left > 1 THEN "fetch" ELSE "screen",
                             ![r].todo = @ \union {[deal |-> k, price |-> price[k]] : k \in D}]
       /\ index' = [k \in Deals |-> IF k \in D THEN run[r].n ELSE index[k]]
  /\ UNCHANGED <<day, store, table, posted, tickInFlight, starts, lastPost, lost, blind, met, fails>>

(* Mutant of AskDedup: the price is recorded before the screening. *)
AskDedupRecordsFirst(r) ==
  /\ run[r].pc = "screen"
  /\ \E o \in run[r].todo :
       /\ run' = [run EXCEPT ![r].pc = "decide", ![r].cur = {o}, ![r].todo = @ \ {o},
                             ![r].recent = WasRecentlyPosted(o.deal)]
       /\ Record(r, o)
  /\ UNCHANGED <<day, table, posted, index, tickInFlight, starts, lastPost, lost, blind, met, fails>>

(* screenRaw asks the dedup table. *)
AskDedup(r) ==
  /\ run[r].pc = "screen"
  /\ \E o \in run[r].todo :
       run' = [run EXCEPT ![r].pc = "decide", ![r].cur = {o}, ![r].todo = @ \ {o},
                          ![r].recent = WasRecentlyPosted(o.deal)]
  /\ UNCHANGED <<day, store, table, posted, index, tickInFlight, starts, lastPost, lost, blind, met, fails>>

(* Mutant of DedupFails: the flag of the tick is left up. *)
DedupFailsHoldsTick(r) ==
  /\ run[r].pc = "screen"
  /\ run[r].todo # {}
  /\ fails > 0
  /\ fails' = fails - 1
  /\ run' = [run EXCEPT ![r] = Resting]
  /\ UNCHANGED <<day, store, table, posted, index, tickInFlight, starts, lastPost, lost, blind, met>>

(* An error ends the run. *)
DedupFails(r) ==
  /\ run[r].pc = "screen"
  /\ run[r].todo # {}
  /\ fails > 0
  /\ fails' = fails - 1
  /\ End(r)
  /\ UNCHANGED <<day, store, table, posted, index, starts, lastPost, lost, blind, met>>

(* Posted lately, or not really cheaper: a reject, which is audited first. *)
Reject(r) ==
  /\ run[r].pc = "decide"
  /\ \E o \in run[r].cur : run[r].recent \/ IsFakeDiscount(store[o.deal], day, o.price)
  /\ run' = [run EXCEPT ![r].pc = "audit"]
  /\ UNCHANGED <<day, store, table, posted, index, tickInFlight, starts, lastPost, lost, blind, met, fails>>

Audit(r) ==
  /\ run[r].pc = "audit"
  /\ \E o \in run[r].cur : Record(r, o)
  /\ run' = [run EXCEPT ![r].pc = "insert"]
  /\ UNCHANGED <<day, table, posted, index, tickInFlight, starts, lastPost, lost, blind, met, fails>>

Survive(r) ==
  /\ run[r].pc = "decide"
  /\ ~run[r].recent
  /\ \E o \in run[r].cur : /\ ~IsFakeDiscount(store[o.deal], day, o.price)
                           /\ Record(r, o)
                           /\ run' = [run EXCEPT ![r].pc = "insert", ![r].kept = @ \union {o.deal}]
  /\ UNCHANGED <<day, table, posted, index, tickInFlight, starts, lastPost, lost, blind, met, fails>>

(* What a run has in memory and not yet in the table. *)
Unsaved(r) ==
  {p \in [deal : {o.deal : o \in run[r].cur}, obs : UNION {store[o.deal] : o \in run[r].cur}] :
     run[r].pc = "insert" /\ p.obs.by = run[r].n /\ p.obs \in store[p.deal]}

Saved(r) == run' = [run EXCEPT ![r].pc = "screen", ![r].cur = {}]

Insert(r) ==
  /\ run[r].pc = "insert"
  /\ table' = [k \in Deals |-> table[k] \union {p.obs : p \in {u \in Unsaved(r) : u.deal = k}}]
  /\ Saved(r)
  /\ UNCHANGED <<day, store, posted, index, tickInFlight, starts, lastPost, lost, blind, met, fails>>

(* The error is swallowed. *)
InsertFails(r) ==
  /\ run[r].pc = "insert"
  /\ fails > 0
  /\ fails' = fails - 1
  /\ lost' = lost \union Unsaved(r)
  /\ Saved(r)
  /\ UNCHANGED <<day, store, table, posted, index, tickInFlight, starts, lastPost, blind, met>>

(* The survivors with the best pre-score: some of them, for all this module
   knows of scores.  Those cut are audited first. *)
Prescore(r) ==
  /\ run[r].pc = "screen"
  /\ run[r].todo = {}
  /\ \E K \in SUBSET run[r].kept : run' = [run EXCEPT ![r].pc = "cut", ![r].kept = K]
  /\ UNCHANGED <<day, store, table, posted, index, tickInFlight, starts, lastPost, lost, blind, met, fails>>

(* enrichMany takes each item from the index, or makes one up. *)
Lookup(r) ==
  /\ run[r].pc = "cut"
  /\ run' = [run EXCEPT ![r].pc = "enrich", ![r].items = {index[k] : k \in run[r].kept}]
  /\ UNCHANGED <<day, store, table, posted, index, tickInFlight, starts, lastPost, lost, blind, met, fails>>

(* Scored and dispatched, or failed on the way. *)
Finish(r) ==
  /\ run[r].pc = "enrich"
  /\ End(r)
  /\ UNCHANGED <<day, store, table, posted, index, starts, lastPost, lost, blind, met, fails>>

-----------------------------------------------------------------------------
(* The worker marks a deal posted. *)
Post(k) ==
  /\ posted' = [posted EXCEPT ![k] = day]
  /\ lastPost' = [lastPost EXCEPT ![k] = day]
  /\ UNCHANGED <<day, store, table, index, tickInFlight, run, starts, lost, blind, met, fails>>

NextDay ==
  /\ day < MaxDay
  /\ day' = day + 1
  /\ UNCHANGED <<store, table, posted, index, tickInFlight, run, starts, lastPost, lost, blind, met, fails>>

Retained(obs) == {o \in obs : o.at >= day - Retention}

Empty == \A k \in Deals : table[k] = {}

(* maybeBackfillFromJson: only into an empty table, in chunks, each of which
   may be the last that works. *)
Backfilled(t, ok) ==
  IF ~Empty THEN ok /\ t = table
  ELSE /\ \A k \in Deals : t[k] \subseteq Legacy[k]
       /\ ok => t \in {Legacy, table}

(* Mutant of Kept: gc drops the oldest day that was loaded. *)
KeptLess(t, ok) == [k \in Deals |-> IF ok THEN {o \in t[k] : o.at > day - Retention} ELSE t[k]]

(* The table after gc. *)
Kept(t, ok) == [k \in Deals |-> IF ok THEN Retained(t[k]) ELSE t[k]]

(* Mutant of Pruned: a cutoff that many milliseconds ago. *)
PrunedByMs(ok) == [k \in Deals |-> IF ok /\ posted[k] < day THEN Never ELSE posted[k]]

(* The dedup table after gc. *)
Pruned(ok) == [k \in Deals |-> IF ok /\ posted[k] < day - PruneAge THEN Never ELSE posted[k]]

Failed(ok) == IF ok THEN 0 ELSE 1

(* A new process: import, load, prune; each may fail without stopping it. *)
Restart ==
  /\ \E imports, loads, prunes, forgets \in BOOLEAN :
       \E t \in [Deals -> SUBSET UNION {Legacy[k] \union table[k] : k \in Deals}] :
         /\ Backfilled(t, imports)
         /\ fails >= Failed(imports) + Failed(loads) + Failed(prunes) + Failed(forgets)
         /\ fails' = fails - Failed(imports) - Failed(loads) - Failed(prunes) - Failed(forgets)
         /\ store' = [k \in Deals |-> IF loads THEN Retained(t[k]) ELSE {}]
         /\ table' = Kept(t, prunes)
         /\ posted' = Pruned(forgets)
         /\ blind' = ~loads
  /\ index' = [k \in Deals |-> 0]
  /\ tickInFlight' = FALSE
  /\ run' = [r \in Runs |-> Resting]
  /\ lost' = {}
  /\ UNCHANGED <<day, starts, lastPost, met>>

Work(r) == \/ TickSkips(r) \/ Discover(r) \/ Fetch(r) \/ AskDedup(r)
           \/ DedupFails(r) \/ Reject(r) \/ Audit(r) \/ Survive(r) \/ Insert(r)
           \/ InsertFails(r) \/ Prescore(r) \/ Lookup(r) \/ Finish(r)

Next == \/ \E r \in Runs : TickFires(r) \/ ManualStarts(r) \/ Work(r)
        \/ \E k \in Deals : Post(k)
        \/ NextDay \/ Restart

Spec == Init /\ [][Next]_vars

-----------------------------------------------------------------------------
(* Type correctness of the histories and the runs. *)
TypeOK ==
  /\ day \in Nat
  /\ {store, table} \subseteq [Deals -> SUBSET Observation]
  /\ {posted, lastPost} \subseteq [Deals -> Int]
  /\ index \in [Deals -> Numbers]
  /\ {tickInFlight, blind} \subseteq BOOLEAN
  /\ run \in [Runs -> [pc : {"idle", "jitter", "fetch", "screen", "decide", "audit",
                             "insert", "cut", "enrich"},
                       n : Numbers, left : 0..Feeds, todo : SUBSET Offer,
                       cur : SUBSET Offer, recent : BOOLEAN,
                       kept : SUBSET Deals, items : SUBSET Numbers]]
  /\ starts \in Numbers
  /\ lost \subseteq [deal : Deals, obs : Observation]
  /\ met \subseteq Numbers
  /\ fails \in 0..MaxFails

(* "An observation captured in this tick must not influence this same tick's
   screen decision." *)
OwnPriceUnseen ==
  \A r \in Runs : run[r].pc = "decide" =>
    \A o \in run[r].cur : \A p \in store[o.deal] : p.by # run[r].n

(* A run enriches the items its own discovery found, unless it overlapped
   with a manual run: then items are another's, or made up. *)
OwnItem ==
  \A r \in Runs : run[r].pc = "enrich" /\ run[r].n \notin met => run[r].items \subseteq {run[r].n}

(* The flag is up exactly while one tick is at work, however it ended: a
   flag left up would drop every later tick. *)
FlagIsTick ==
  /\ tickInFlight <=> \E r \in Ticks : run[r].pc # "idle"
  /\ \A r, q \in Ticks : run[r].pc # "idle" /\ run[q].pc # "idle" => r = q

(* What decides about a deal outlives restarts, prunings and failing writes.
   Prices: what memory knows is in the table, on its way there or lost by a
   failing insert, and what the table keeps is in memory, unless the boot could
   not load it.  Posts: a run is never told that a deal was not posted lately
   when it was, though gc forgets old posts. *)
MemoryIsKept ==
  /\ [](\A k \in Deals :
          /\ \A p \in store[k] \ table[k] :
               [deal |-> k, obs |-> p] \in lost \union UNION {Unsaved(r) : r \in Runs}
          /\ blind \/ Retained(table[k]) \subseteq store[k])
  /\ [][\A r \in Runs : run[r].pc = "screen" /\ run'[r].pc = "decide" /\ ~run'[r].recent =>
           \A o \in run'[r].cur :
             lastPost[o.deal] # Never => day - lastPost[o.deal] >= Window]_vars

(* Ticks and manual runs stay apart, but for the items a manual run takes
   from a discovery it meets. *)
RunsApart == OwnItem /\ FlagIsTick
=============================================================================
