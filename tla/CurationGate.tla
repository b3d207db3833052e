---------------------------- MODULE CurationGate ----------------------------
(***************************************************************************)
(* CurationGateService.selectForDispatch with the verdict cache and the     *)
(* judge.  A run takes scored deals best first, steering away from the last *)
(* category; a deal that is not sure by itself needs the judge's approval,  *)
(* asked for at most so often in a run and remembered for a while.  Two runs *)
(* (the tick and a manual trigger, or an approval) share the cache and       *)
(* interleave wherever one waits for the judge.                              *)
(*                                                                         *)
(* The audit rows the gate writes on every exit are left out: nothing in the *)
(* gate reads them and a failing write is swallowed.                         *)
(***************************************************************************)
EXTENDS Integers, Sequences, FiniteSets, SequencesExt

CONSTANTS
  Deals,
  Runs,
  Category,         \* feedId of a deal
  WarmingUp,        \* deals of a source whose dispatch is still off
  TrustedRuns,      \* dispatches a curator decided
  Offers,           \* lists of scored deals a run may be given, best first
  ScoreTop,         \* DEAL_SCORE_TOP
  Cap,              \* `max`: deals a run may approve
  MaxJudgeCalls,    \* JUDGE_MAX_CALLS_PER_TICK
  MaxEntries,       \* of the verdict cache
  TTL,              \* of a verdict
  MaxDriftPercent,
  MaxNow,           \* bound on the clock
  MaxStarts         \* bound on runs started

(* In a scored deal `raised` is the factor price_raise_before_discount, `known`
   enough days of price history. *)
Scored == [deal : Deals, price : Nat, score : Nat, raised : BOOLEAN, known : BOOLEAN]

(* A run gets its deals sorted by score; the sort is stable, so any order of
   deals with equal scores is possible. *)
ASSUME OffersAssumption ==
  \A s \in Offers : /\ s \in Seq(Scored)
                    /\ \A i, j \in DOMAIN s : i < j => s[i].score >= s[j].score
                    /\ IsInjective([i \in DOMAIN s |-> s[i].deal])

ASSUME GateAssumption ==
  /\ ScoreTop \in Nat /\ Cap \in Nat /\ MaxJudgeCalls \in Nat
  /\ MaxEntries \in Nat \ {0} /\ TTL \in Nat /\ MaxDriftPercent \in Nat
  /\ MaxNow \in Nat /\ MaxStarts \in Nat
  /\ WarmingUp \subseteq Deals /\ TrustedRuns \subseteq Runs

VARIABLES
  phase,     \* of each run: idle, picking or asking
  pool,      \* deals a run has still to look at, best first
  hand,      \* the deal a run asks the judge about
  approved,  \* deals a run approved, in order, each with the time of the decision
  calls,     \* judgeCalls
  cache,     \* the verdict cache in insertion order
  now,
  asked,     \* ghost: requests a run really sent to the judge
  verdicts,  \* ghost: every verdict the judge gave
  starts     \* what is used up of the bound

vars == <<phase, pool, hand, approved, calls, cache, now, asked, verdicts, starts>>

Init == /\ phase = [r \in Runs |-> "idle"]
        /\ pool = [r \in Runs |-> << >>]
        /\ hand = [r \in Runs |-> << >>]
        /\ approved = [r \in Runs |-> << >>]
        /\ calls = [r \in Runs |-> 0]
        /\ cache = << >>
        /\ now = 0
        /\ asked = [r \in Runs |-> 0]
        /\ verdicts = {}
        /\ starts = 0

-----------------------------------------------------------------------------
(* The verdict cache, a Map in insertion order *)

Drifted(price, judged) ==
  LET off == IF price > judged THEN price - judged ELSE judged - price
  IN judged > 0 /\ off * 100 > MaxDriftPercent * judged

(* Mutant of Holds: a verdict holds for any price. *)
HoldsAnyPrice(e, d, price) == e.deal = d /\ now - e.at <= TTL

Holds(e, d, price) ==
  e.deal = d /\ now - e.at <= TTL /\ ~Drifted(price, e.price)

Cached(d) == {i \in DOMAIN cache : cache[i].deal = d}

Without(d) == IF Cached(d) = {} THEN cache ELSE RemoveAt(cache, CHOOSE i \in Cached(d) : TRUE)

Remember(e) ==
  IF Cached(e.deal) # {}
  THEN [i \in DOMAIN cache |-> IF cache[i].deal = e.deal THEN e ELSE cache[i]]
  ELSE Append(IF Len(cache) >= MaxEntries THEN Tail(cache) ELSE cache, e)

-----------------------------------------------------------------------------
(* A dispatch begins, with the scored deals sorted; a curator's has one deal. *)
Start(r) ==
  /\ phase[r] = "idle"
  /\ starts < MaxStarts
  /\ starts' = starts + 1
  /\ \E s \in Offers : /\ r \in TrustedRuns => Len(s) = 1
                      /\ pool' = [pool EXCEPT ![r] = s]
  /\ phase' = [phase EXCEPT ![r] = "picking"]
  /\ UNCHANGED <<hand, approved, calls, cache, now, asked, verdicts>>

LastCategory(r) == Category[Last(approved[r]).of.deal]

Others(r) == {i \in DOMAIN pool[r] : Category[pool[r][i].deal] # LastCategory(r)}

(* Mutant of Takes: the best deal always. *)
TakesBest(r, i) ==
  /\ phase[r] = "picking" /\ pool[r] # << >> /\ Len(approved[r]) < Cap
  /\ i = 1

(* The run goes on, and looks at the best deal, but at one of another category
   than the last one if there is one. *)
Takes(r, i) ==
  /\ phase[r] = "picking" /\ pool[r] # << >> /\ Len(approved[r]) < Cap
  /\ i \in DOMAIN pool[r]
  /\ IF approved[r] # << >> /\ Others(r) # {}
     THEN i \in Others(r) /\ \A j \in Others(r) : i <= j
     ELSE i = 1

Blocked(sd) == sd.deal \in WarmingUp \/ sd.raised

GrayZone(sd) == ~sd.known \/ sd.score < ScoreTop

NeedsJudge(r, sd) == GrayZone(sd) /\ r \notin TrustedRuns

Remembered(sd) == \E i \in DOMAIN cache : Holds(cache[i], sd.deal, sd.price)

Verdict(sd) == cache[CHOOSE i \in Cached(sd.deal) : TRUE]

(* The decision on a deal: it joins the approved ones or is dropped. *)
Decide(r, sd, ok) ==
  approved' = IF ok THEN [approved EXCEPT ![r] = Append(@, [of |-> sd, when |-> now])]
                    ELSE approved

(* Off the list with a source that warms up or a price raised before the
   discount. *)
Block(r, i) ==
  /\ Takes(r, i)
  /\ Blocked(pool[r][i])
  /\ pool' = [pool EXCEPT ![r] = RemoveAt(@, i)]
  /\ UNCHANGED <<phase, hand, approved, calls, cache, now, asked, verdicts, starts>>

(* Sure by itself, or a curator's. *)
AutoApprove(r, i) ==
  /\ Takes(r, i)
  /\ ~Blocked(pool[r][i])
  /\ ~NeedsJudge(r, pool[r][i])
  /\ pool' = [pool EXCEPT ![r] = RemoveAt(@, i)]
  /\ Decide(r, pool[r][i], TRUE)
  /\ UNCHANGED <<phase, hand, calls, cache, now, asked, verdicts, starts>>

(* A verdict that still holds is taken. *)
UseVerdict(r, i) ==
  /\ Takes(r, i)
  /\ ~Blocked(pool[r][i])
  /\ NeedsJudge(r, pool[r][i])
  /\ Remembered(pool[r][i])
  /\ pool' = [pool EXCEPT ![r] = RemoveAt(@, i)]
  /\ Decide(r, pool[r][i], Verdict(pool[r][i]).ok)
  /\ UNCHANGED <<phase, hand, calls, cache, now, asked, verdicts, starts>>

(* No verdict holds, and the run has asked often enough: the lookup has
   deleted what did not hold. *)
OverBudget(r, i) ==
  /\ Takes(r, i)
  /\ ~Blocked(pool[r][i])
  /\ NeedsJudge(r, pool[r][i])
  /\ ~Remembered(pool[r][i])
  /\ calls[r] >= MaxJudgeCalls
  /\ cache' = Without(pool[r][i].deal)
  /\ pool' = [pool EXCEPT ![r] = RemoveAt(@, i)]
  /\ UNCHANGED <<phase, hand, approved, calls, now, asked, verdicts, starts>>

AskJudge(r, i) ==
  /\ Takes(r, i)
  /\ ~Blocked(pool[r][i])
  /\ NeedsJudge(r, pool[r][i])
  /\ ~Remembered(pool[r][i])
  /\ calls[r] < MaxJudgeCalls
  /\ cache' = Without(pool[r][i].deal)
  /\ calls' = [calls EXCEPT ![r] = @ + 1]
  /\ asked' = [asked EXCEPT ![r] = @ + 1]
  /\ hand' = [hand EXCEPT ![r] = pool[r][i]]
  /\ pool' = [pool EXCEPT ![r] = RemoveAt(@, i)]
  /\ phase' = [phase EXCEPT ![r] = "asking"]
  /\ UNCHANGED <<approved, now, verdicts, starts>>

(* The verdict: `ok` is an approval with enough confidence.  Either way the
   cache remembers it. *)
JudgeAnswers(r) ==
  /\ phase[r] = "asking"
  /\ \E ok \in BOOLEAN :
       LET v == [deal |-> hand[r].deal, price |-> hand[r].price, ok |-> ok, at |-> now]
       IN /\ cache' = Remember(v)
          /\ verdicts' = verdicts \union {v}
          /\ Decide(r, hand[r], ok)
  /\ phase' = [phase EXCEPT ![r] = "picking"]
  /\ hand' = [hand EXCEPT ![r] = << >>]
  /\ UNCHANGED <<pool, calls, now, asked, starts>>

(* Mutant of JudgeFails: a failed call is not counted. *)
JudgeFailsFree(r) ==
  /\ phase[r] = "asking"
  /\ phase' = [phase EXCEPT ![r] = "picking"]
  /\ hand' = [hand EXCEPT ![r] = << >>]
  /\ calls' = [calls EXCEPT ![r] = @ - 1]
  /\ UNCHANGED <<pool, approved, cache, now, asked, verdicts, starts>>

(* Any failure of the judge drops the deal. *)
JudgeFails(r) ==
  /\ phase[r] = "asking"
  /\ phase' = [phase EXCEPT ![r] = "picking"]
  /\ hand' = [hand EXCEPT ![r] = << >>]
  /\ UNCHANGED <<pool, approved, calls, cache, now, asked, verdicts, starts>>

(* The run hands over what it approved. *)
Finish(r) ==
  /\ phase[r] = "picking"
  /\ pool[r] = << >> \/ Len(approved[r]) >= Cap
  /\ phase' = [phase EXCEPT ![r] = "idle"]
  /\ pool' = [pool EXCEPT ![r] = << >>]
  /\ approved' = [approved EXCEPT ![r] = << >>]
  /\ calls' = [calls EXCEPT ![r] = 0]
  /\ asked' = [asked EXCEPT ![r] = 0]
  /\ UNCHANGED <<hand, cache, now, verdicts, starts>>

Pass == /\ now < MaxNow
        /\ now' = now + 1
        /\ UNCHANGED <<phase, pool, hand, approved, calls, cache, asked, verdicts, starts>>

Look(r, i) == \/ Block(r, i) \/ AutoApprove(r, i) \/ UseVerdict(r, i)
              \/ OverBudget(r, i) \/ AskJudge(r, i)

Step(r) == \/ Start(r) \/ JudgeAnswers(r) \/ JudgeFails(r) \/ Finish(r)
           \/ \E i \in DOMAIN pool[r] : Look(r, i)

Next == Pass \/ \E r \in Runs : Step(r)

Spec == Init /\ [][Next]_vars

-----------------------------------------------------------------------------
Judged == [deal : Deals, price : Nat, ok : BOOLEAN, at : Nat]

RunsTyped ==
  /\ phase \in [Runs -> {"idle", "picking", "asking"}]
  /\ pool \in [Runs -> Seq(Scored)]
  /\ hand \in [Runs -> Scored \union {<< >>}]
  /\ approved \in [Runs -> Seq([of : Scored, when : Nat])]
  /\ calls \in [Runs -> Nat] /\ asked \in [Runs -> Nat]

(* The runs, and a cache that keeps one verdict for a deal, only verdicts the
   judge gave, and no more of them than its size. *)
CacheTyped ==
  /\ cache \in Seq(verdicts) /\ Len(cache) <= MaxEntries
  /\ \A i, j \in DOMAIN cache : cache[i].deal = cache[j].deal => i = j

(* Type correctness of the gate. *)
TypeOK == /\ RunsTyped
          /\ CacheTyped
          /\ verdicts \subseteq Judged /\ now \in Nat

(* What speaks for dispatching a deal: it is not blocked, and a curator wants
   it, or it is sure by itself, or the judge approved that very deal not long
   before for about that price. *)
Allowed(r, sd, at) ==
  /\ ~Blocked(sd)
  /\ \/ r \in TrustedRuns
     \/ ~GrayZone(sd)
     \/ \E v \in verdicts : /\ v.ok /\ v.deal = sd.deal
                            /\ at - v.at <= TTL /\ ~Drifted(sd.price, v.price)

(* Fail closed: everything a run dispatches was allowed when it was decided,
   whichever run asked the judge and whatever was in the cache. *)
FailClosed ==
  \A r \in Runs : \A i \in DOMAIN approved[r] :
    Allowed(r, approved[r][i].of, approved[r][i].when)

(* No run pays for more judge requests than its budget, failed ones included. *)
BudgetKept == \A r \in Runs : asked[r] <= MaxJudgeCalls

(* A run never follows a category by itself while another is to come, and
   takes the deals of one category best first. *)
Diverse ==
  \A r \in Runs : \A i, j \in DOMAIN approved[r] :
    LET cat(k) == Category[approved[r][k].of.deal]
    IN i < j /\ cat(i) = cat(j) =>
         /\ approved[r][i].of.score >= approved[r][j].of.score
         /\ j = i + 1 => \A k \in j..Len(approved[r]) : cat(k) = cat(i)

(* The gate neither lets a deal through on a judge's silence nor pays for
   more verdicts than it may. *)
GateIsSound == FailClosed /\ BudgetKept
=============================================================================
