--------------------------- MODULE CurationProofs ---------------------------
(***************************************************************************)
(* The gate fails closed and keeps its budget for any deals, runs, prices   *)
(* and limits: what a cached verdict allows was allowed by the judge.  And   *)
(* the approval queue decides each row once, or says where handlers met.     *)
(***************************************************************************)
EXTENDS CurationGate, ApprovalQueue, SequenceTheorems, FiniteSetTheorems, TLAPS

(* A run that waits for the judge asks about a deal that is not blocked, and
   has counted every request it sent. *)
Asking == \A r \in Runs :
            /\ phase[r] = "asking" => hand[r] \in Scored /\ ~Blocked(hand[r])
            /\ asked[r] = calls[r] /\ calls[r] <= MaxJudgeCalls

IInv == TypeOK /\ Asking /\ FailClosed

(* Taking one element out of a sequence leaves its other elements. *)
LEMMA Removal ==
  ASSUME NEW S, NEW s \in Seq(S), NEW i \in 1..Len(s)
  PROVE  /\ RemoveAt(s, i) \in Seq(S)
         /\ Len(RemoveAt(s, i)) = Len(s) - 1
         /\ \A j \in 1..Len(s) - 1 :
              RemoveAt(s, i)[j] = IF j < i THEN s[j] ELSE s[j + 1]
  <1>. DEFINE a == SubSeq(s, 1, i - 1)
              b == SubSeq(s, i + 1, Len(s))
  <1>1. /\ a \in Seq(S) /\ Len(a) = i - 1
        /\ \A j \in 1..i - 1 : a[j] = s[j]
    OBVIOUS
  <1>2. /\ b \in Seq(S) /\ Len(b) = Len(s) - i
        /\ \A j \in 1..Len(s) - i : b[j] = s[i + j]
    OBVIOUS
  <1>3. RemoveAt(s, i) = a \o b
    BY DEF RemoveAt
  <1>. HIDE DEF a, b
  <1>4. /\ a \o b \in Seq(S) /\ Len(a \o b) = Len(s) - 1
        /\ \A j \in 1..Len(s) - 1 :
             (a \o b)[j] = IF j <= Len(a) THEN a[j] ELSE b[j - Len(a)]
    <2>1. Len(a) + Len(b) = Len(s) - 1
      BY <1>1, <1>2
    <2>2. a \in Seq(S) /\ b \in Seq(S)
      BY <1>1, <1>2
    <2>3. /\ a \o b \in Seq(S) /\ Len(a \o b) = Len(a) + Len(b)
          /\ \A j \in 1..Len(a) + Len(b) :
               (a \o b)[j] = IF j <= Len(a) THEN a[j] ELSE b[j - Len(a)]
      BY <2>2, ConcatProperties, Zenon
    <2>4. QED
      BY <2>1, <2>3, Zenon
  <1>5. ASSUME NEW j \in 1..Len(s) - 1
        PROVE  (a \o b)[j] = IF j < i THEN s[j] ELSE s[j + 1]
    <2>1. CASE j < i
      BY <1>1, <1>4, <2>1
    <2>2. CASE ~(j < i)
      <3>1. j - Len(a) \in 1..Len(s) - i /\ i + (j - Len(a)) = j + 1
        BY <1>1, <2>2
      <3>2. (a \o b)[j] = b[j - Len(a)]
        BY <1>1, <1>4, <2>2
      <3>3. QED
        BY <1>2, <2>2, <3>1, <3>2
    <2>3. QED
      BY <2>1, <2>2
  <1>6. QED
    BY <1>3, <1>4, <1>5

(* Deleting a deal's verdict keeps the cache in order. *)
LEMMA WithoutKeeps ==
  ASSUME CacheTyped, NEW d, cache' = Without(d), UNCHANGED verdicts
  PROVE  CacheTyped'
  <1>1. CASE Cached(d) = {}
    BY <1>1 DEF Without, CacheTyped
  <1>2. CASE Cached(d) # {}
    <2>. DEFINE i == CHOOSE k \in Cached(d) : TRUE
    <2>1. i \in 1..Len(cache)
      BY <1>2 DEF Cached, CacheTyped
    <2>2. cache' = RemoveAt(cache, i)
      BY <1>2 DEF Without
    <2>. HIDE DEF i
    <2>3. /\ cache' \in Seq(verdicts) /\ Len(cache') = Len(cache) - 1
          /\ \A j \in 1..Len(cache) - 1 :
               cache'[j] = IF j < i THEN cache[j] ELSE cache[j + 1]
      <3>1. cache \in Seq(verdicts) /\ verdicts' = verdicts
        BY DEF CacheTyped
      <3>2. QED
        BY <2>1, <2>2, <3>1, Removal
    <2>4. ASSUME NEW j \in 1..Len(cache) - 1
          PROVE  /\ j < i => cache'[j] = cache[j]
                 /\ j >= i => cache'[j] = cache[j + 1]
                 /\ j \in 1..Len(cache) /\ j + 1 \in 1..Len(cache)
      BY <2>1, <2>3 DEF CacheTyped
    <2>5. ASSUME NEW j \in 1..Len(cache) - 1, NEW k \in 1..Len(cache) - 1,
                 cache'[j].deal = cache'[k].deal
          PROVE  j = k
      <3>. DEFINE at(n) == IF n < i THEN n ELSE n + 1
      <3>1. at(j) \in 1..Len(cache) /\ at(k) \in 1..Len(cache)
        BY <2>1, <2>4
      <3>2. cache'[j] = cache[at(j)] /\ cache'[k] = cache[at(k)]
        BY <2>1, <2>3
      <3>3. at(j) = at(k)
        BY <2>5, <3>1, <3>2 DEF CacheTyped
      <3>4. QED
        BY <2>1, <3>3
    <2>6. Len(cache') <= MaxEntries /\ DOMAIN cache' = 1..Len(cache) - 1
      <3>1. Len(cache) \in Nat /\ Len(cache) <= MaxEntries
        BY DEF CacheTyped
      <3>2. Len(cache) - 1 <= MaxEntries
        BY <3>1, GateAssumption
      <3>3. QED
        BY <2>3, <3>2
    <2>7. /\ cache' \in Seq(verdicts')
          /\ \A j, k \in DOMAIN cache' : cache'[j].deal = cache'[k].deal => j = k
      BY <2>3, <2>5, <2>6
    <2>8. QED
      BY <2>6, <2>7 DEF CacheTyped
  <1>3. QED
    BY <1>1, <1>2

(* Remembering a verdict of the judge keeps it in order too. *)
LEMMA RememberKeeps ==
  ASSUME CacheTyped, NEW v, cache' = Remember(v), verdicts' = verdicts \union {v}
  PROVE  CacheTyped'
  <1>1. CASE Cached(v.deal) # {}
    BY <1>1 DEF Remember, CacheTyped, Cached
  <1>2. CASE Cached(v.deal) = {} /\ Len(cache) < MaxEntries
    BY <1>2, GateAssumption DEF Remember, CacheTyped, Cached
  <1>3. CASE Cached(v.deal) = {} /\ Len(cache) >= MaxEntries
    BY <1>3, GateAssumption DEF Remember, CacheTyped, Cached
  <1>4. QED
    BY <1>1, <1>2, <1>3, GateAssumption DEF CacheTyped

-----------------------------------------------------------------------------
(* The facts about a run's place in the lists that every action needs. *)

LEMMA Initially == Init => IInv
  <1>. SUFFICES ASSUME Init PROVE IInv
    OBVIOUS
  <1>1. RunsTyped
    BY DEF Init, RunsTyped
  <1>2. CacheTyped
    BY GateAssumption DEF Init, CacheTyped
  <1>3. verdicts \subseteq Judged /\ now \in Nat
    BY DEF Init
  <1>4. Asking
    BY GateAssumption DEF Init, Asking
  <1>5. FailClosed
    BY DEF Init, FailClosed
  <1>6. QED
    BY <1>1, <1>2, <1>3, <1>4, <1>5 DEF IInv, TypeOK

(* Verdicts are only added, so what was allowed stays allowed. *)
LEMMA AllowedLasts ==
  ASSUME NEW r, NEW sd, NEW at, Allowed(r, sd, at), verdicts \subseteq verdicts'
  PROVE  Allowed(r, sd, at)'
  BY DEF Allowed, Blocked, GrayZone, Drifted

LEMMA NoApprovalKeeps ==
  ASSUME FailClosed, UNCHANGED approved, verdicts \subseteq verdicts'
  PROVE  FailClosed'
  BY AllowedLasts DEF FailClosed

Approvals == [of : Scored, when : Nat]

(* One more approval that is allowed keeps the gate closed. *)
LEMMA ApprovalKeeps ==
  ASSUME RunsTyped, FailClosed, NEW r \in Runs, NEW sd \in Scored, now \in Nat,
         Allowed(r, sd, now)', UNCHANGED now, verdicts \subseteq verdicts',
         Decide(r, sd, TRUE)
  PROVE  FailClosed' /\ approved' \in [Runs -> Seq(Approvals)]
  <1>. DEFINE e == [of |-> sd, when |-> now]
  <1>1. e \in Approvals /\ e.of = sd /\ e.when = now
    BY DEF Approvals
  <1>2. approved' = [approved EXCEPT ![r] = Append(approved[r], e)]
    BY DEF Decide
  <1>. HIDE DEF e
  <1>3. approved \in [Runs -> Seq(Approvals)]
    BY DEF RunsTyped, Approvals
  <1>4. Append(approved[r], e) \in Seq(Approvals)
    BY <1>1, <1>3
  <1>5. approved' \in [Runs -> Seq(Approvals)]
    BY <1>2, <1>3, <1>4
  <1>6. ASSUME NEW q \in Runs, NEW i \in DOMAIN approved'[q]
        PROVE  Allowed(q, approved[q][i].of, approved[q][i].when)'
    <2>1. CASE q = r
      <3>1. approved'[q] = Append(approved[r], e)
        BY <1>2, <1>3, <2>1
      <3>2. CASE i = Len(approved[r]) + 1
        <4>1. approved'[q][i] = e
          BY <1>1, <1>3, <3>1, <3>2
        <4>2. QED
          BY <1>1, <2>1, <4>1
      <3>3. CASE i # Len(approved[r]) + 1
        <4>1. i \in DOMAIN approved[r] /\ approved'[q][i] = approved[r][i]
          BY <1>1, <1>3, <3>1, <3>3
        <4>2. Allowed(r, approved[r][i].of, approved[r][i].when)
          BY <4>1 DEF FailClosed
        <4>3. QED
          BY <2>1, <4>1, <4>2, AllowedLasts
      <3>4. QED
        BY <3>2, <3>3
    <2>2. CASE q # r
      <3>1. approved'[q] = approved[q]
        BY <1>2, <1>3, <2>2
      <3>2. Allowed(q, approved[q][i].of, approved[q][i].when)
        BY <3>1 DEF FailClosed
      <3>3. QED
        BY <3>1, <3>2, AllowedLasts
    <2>3. QED
      BY <2>1, <2>2
  <1>7. QED
    BY <1>5, <1>6 DEF FailClosed

-----------------------------------------------------------------------------
(* The actions *)

(* The deal a run takes is one of its own, and so are the others. *)
LEMMA Taken ==
  ASSUME TypeOK, NEW r \in Runs, NEW i \in DOMAIN pool[r]
  PROVE  /\ pool[r][i] \in Scored
         /\ [pool EXCEPT ![r] = RemoveAt(@, i)] \in [Runs -> Seq(Scored)]
  <1>1. pool \in [Runs -> Seq(Scored)] /\ i \in 1..Len(pool[r])
    BY DEF TypeOK, RunsTyped
  <1>2. RemoveAt(pool[r], i) \in Seq(Scored)
    BY <1>1, Removal
  <1>3. QED
    BY <1>1, <1>2

LEMMA StartKeeps == ASSUME IInv, NEW r \in Runs, Start(r) PROVE IInv'
  <1>1. PICK s \in Offers : pool' = [pool EXCEPT ![r] = s]
    BY DEF Start
  <1>2. s \in Seq(Scored)
    BY OffersAssumption
  <1>3. RunsTyped'
    BY <1>1, <1>2 DEF Start, IInv, TypeOK, RunsTyped
  <1>4. TypeOK'
    BY <1>3 DEF Start, IInv, TypeOK, CacheTyped
  <1>5. Asking'
    BY DEF Start, IInv, TypeOK, RunsTyped, Asking, Blocked
  <1>6. FailClosed'
    BY NoApprovalKeeps DEF Start, IInv
  <1>7. QED
    BY <1>4, <1>5, <1>6 DEF IInv

LEMMA BlockKeeps ==
  ASSUME IInv, NEW r \in Runs, NEW i \in DOMAIN pool[r], Block(r, i) PROVE IInv'
  <1>1. pool' \in [Runs -> Seq(Scored)]
    BY Taken DEF Block, IInv
  <1>2. TypeOK'
    BY <1>1 DEF Block, IInv, TypeOK, RunsTyped, CacheTyped
  <1>3. Asking'
    BY DEF Block, IInv, Asking, Blocked
  <1>4. FailClosed'
    BY NoApprovalKeeps DEF Block, IInv
  <1>5. QED
    BY <1>2, <1>3, <1>4 DEF IInv

LEMMA AutoApproveKeeps ==
  ASSUME IInv, NEW r \in Runs, NEW i \in DOMAIN pool[r], AutoApprove(r, i) PROVE IInv'
  <1>1. pool[r][i] \in Scored /\ pool' \in [Runs -> Seq(Scored)]
    BY Taken DEF AutoApprove, IInv
  <1>2. Allowed(r, pool[r][i], now)
    BY DEF AutoApprove, NeedsJudge, Allowed
  <1>3. FailClosed' /\ approved' \in [Runs -> Seq(Approvals)]
    <2>. DEFINE sd == pool[r][i]
    <2>1. /\ UNCHANGED <<now, verdicts>> /\ Decide(r, sd, TRUE)
          /\ sd \in Scored /\ Allowed(r, sd, now)
      BY <1>1, <1>2 DEF AutoApprove
    <2>. HIDE DEF sd
    <2>2. QED
      BY <2>1, ApprovalKeeps, AllowedLasts DEF IInv, TypeOK
  <1>4. TypeOK'
    BY <1>1, <1>3 DEF AutoApprove, IInv, TypeOK, RunsTyped, CacheTyped, Approvals
  <1>5. Asking'
    BY DEF AutoApprove, IInv, Asking, Blocked
  <1>6. QED
    BY <1>3, <1>4, <1>5 DEF IInv

(* A verdict the cache gives out is one of the judge's, and it holds. *)
LEMMA RememberedHolds ==
  ASSUME TypeOK, NEW sd, Remembered(sd)
  PROVE  /\ Verdict(sd) \in verdicts
         /\ Holds(Verdict(sd), sd.deal, sd.price)
  <1>1. PICK j \in DOMAIN cache : Holds(cache[j], sd.deal, sd.price)
    BY DEF Remembered
  <1>2. j \in Cached(sd.deal)
    BY <1>1 DEF Holds, Cached
  <1>. DEFINE c == CHOOSE i \in Cached(sd.deal) : TRUE
  <1>3. c \in Cached(sd.deal)
    BY <1>2
  <1>. HIDE DEF c
  <1>4. c = j
    BY <1>2, <1>3 DEF Cached, TypeOK, CacheTyped
  <1>5. Verdict(sd) = cache[c]
    BY DEF Verdict, c
  <1>6. cache[j] \in verdicts
    BY DEF TypeOK, CacheTyped
  <1>7. QED
    BY <1>1, <1>4, <1>5, <1>6

LEMMA UseVerdictKeeps ==
  ASSUME IInv, NEW r \in Runs, NEW i \in DOMAIN pool[r], UseVerdict(r, i) PROVE IInv'
  <1>. DEFINE sd == pool[r][i]
  <1>1. sd \in Scored /\ pool' \in [Runs -> Seq(Scored)]
    BY Taken DEF UseVerdict, IInv
  <1>2. /\ UNCHANGED <<now, verdicts>> /\ ~Blocked(sd) /\ Remembered(sd)
        /\ Decide(r, sd, Verdict(sd).ok)
    BY DEF UseVerdict
  <1>3. FailClosed' /\ approved' \in [Runs -> Seq(Approvals)]
    <2>. HIDE DEF sd
    <2>1. Verdict(sd) \in verdicts /\ Holds(Verdict(sd), sd.deal, sd.price)
      BY <1>2, RememberedHolds DEF IInv
    <2>2. CASE Verdict(sd).ok
      <3>1. Allowed(r, sd, now)
        BY <1>2, <2>1, <2>2 DEF Allowed, Holds
      <3>2. Decide(r, sd, TRUE)
        BY <1>2, <2>2 DEF Decide
      <3>3. QED
        BY <1>1, <1>2, <3>1, <3>2, ApprovalKeeps, AllowedLasts DEF IInv, TypeOK
    <2>3. CASE ~Verdict(sd).ok
      <3>1. UNCHANGED approved
        BY <1>2, <2>3 DEF Decide
      <3>2. QED
        BY <1>2, <3>1, NoApprovalKeeps DEF IInv, TypeOK, RunsTyped, Approvals
    <2>4. QED
      BY <2>2, <2>3
  <1>4. TypeOK'
    BY <1>1, <1>3 DEF UseVerdict, IInv, TypeOK, RunsTyped, CacheTyped, Approvals
  <1>5. Asking'
    BY DEF UseVerdict, IInv, Asking, Blocked
  <1>6. QED
    BY <1>3, <1>4, <1>5 DEF IInv

LEMMA OverBudgetKeeps ==
  ASSUME IInv, NEW r \in Runs, NEW i \in DOMAIN pool[r], OverBudget(r, i) PROVE IInv'
  <1>1. pool' \in [Runs -> Seq(Scored)]
    BY Taken DEF OverBudget, IInv
  <1>2. CacheTyped'
    BY WithoutKeeps DEF OverBudget, IInv, TypeOK
  <1>3. TypeOK'
    BY <1>1, <1>2 DEF OverBudget, IInv, TypeOK, RunsTyped
  <1>4. Asking'
    BY DEF OverBudget, IInv, Asking, Blocked
  <1>5. FailClosed'
    BY NoApprovalKeeps DEF OverBudget, IInv
  <1>6. QED
    BY <1>3, <1>4, <1>5 DEF IInv

LEMMA AskJudgeKeeps ==
  ASSUME IInv, NEW r \in Runs, NEW i \in DOMAIN pool[r], AskJudge(r, i) PROVE IInv'
  <1>. DEFINE sd == pool[r][i]
  <1>1. sd \in Scored /\ pool' \in [Runs -> Seq(Scored)]
    BY Taken DEF AskJudge, IInv
  <1>2. CacheTyped'
    BY WithoutKeeps DEF AskJudge, IInv, TypeOK
  <1>3. /\ ~Blocked(sd) /\ calls[r] < MaxJudgeCalls
        /\ calls' = [calls EXCEPT ![r] = calls[r] + 1]
        /\ asked' = [asked EXCEPT ![r] = asked[r] + 1]
        /\ hand' = [hand EXCEPT ![r] = sd]
        /\ phase' = [phase EXCEPT ![r] = "asking"]
    BY DEF AskJudge
  <1>4. UNCHANGED <<approved, now, verdicts>>
    BY DEF AskJudge
  <1>. HIDE DEF sd
  <1>5. RunsTyped'
    <2>1. calls' \in [Runs -> Nat] /\ asked' \in [Runs -> Nat]
      BY <1>3 DEF IInv, TypeOK, RunsTyped
    <2>2. phase' \in [Runs -> {"idle", "picking", "asking"}]
      BY <1>3 DEF IInv, TypeOK, RunsTyped
    <2>3. hand' \in [Runs -> Scored \union {<< >>}]
      BY <1>1, <1>3 DEF IInv, TypeOK, RunsTyped
    <2>4. QED
      BY <1>1, <1>4, <2>1, <2>2, <2>3 DEF IInv, TypeOK, RunsTyped
  <1>6. TypeOK'
    BY <1>2, <1>4, <1>5 DEF IInv, TypeOK
  <1>7. Asking'
    <2>. SUFFICES ASSUME NEW q \in Runs
                  PROVE  /\ phase'[q] = "asking" => hand'[q] \in Scored /\ ~Blocked(hand'[q])
                         /\ asked'[q] = calls'[q] /\ calls'[q] <= MaxJudgeCalls
      BY DEF Asking, Blocked
    <2>1. phase'[q] = "asking" => hand'[q] \in Scored /\ ~Blocked(hand'[q])
      BY <1>1, <1>3 DEF IInv, TypeOK, RunsTyped, Asking
    <2>2. asked'[q] = calls'[q] /\ calls'[q] <= MaxJudgeCalls
      BY <1>3, GateAssumption DEF IInv, TypeOK, RunsTyped, Asking
    <2>3. QED
      BY <2>1, <2>2
  <1>8. FailClosed'
    BY <1>4, NoApprovalKeeps DEF IInv
  <1>9. QED
    BY <1>6, <1>7, <1>8 DEF IInv

LEMMA JudgeAnswersKeeps ==
  ASSUME IInv, NEW r \in Runs, JudgeAnswers(r) PROVE IInv'
  <1>1. hand[r] \in Scored /\ ~Blocked(hand[r]) /\ now \in Nat
    BY DEF JudgeAnswers, IInv, TypeOK, Asking
  <1>. PICK sd \in Scored : sd = hand[r]
    BY <1>1
  <1>. DEFINE V(ok) == [deal |-> sd.deal, price |-> sd.price, ok |-> ok, at |-> now]
  <1>2. PICK ok \in BOOLEAN : /\ cache' = Remember(V(ok))
                              /\ verdicts' = verdicts \union {V(ok)}
                              /\ Decide(r, sd, ok)
    BY DEF JudgeAnswers
  <1>3. V(ok) \in Judged
    BY <1>1, <1>2 DEF Scored, Judged
  <1>4. CacheTyped'
    BY <1>2, RememberKeeps DEF IInv, TypeOK
  <1>5. FailClosed' /\ approved' \in [Runs -> Seq(Approvals)]
    <2>1. UNCHANGED now
      BY DEF JudgeAnswers
    <2>2. CASE ok
      <3>1. V(ok) \in verdicts' /\ V(ok).ok /\ V(ok).deal = sd.deal
            /\ V(ok).at = now /\ V(ok).price = sd.price
        BY <1>2, <2>2
      <3>2. now - V(ok).at <= TTL
        BY <1>1, <3>1, GateAssumption
      <3>3. ~Drifted(sd.price, V(ok).price)
        BY <1>1, <3>1, GateAssumption DEF Drifted, Scored
      <3>. HIDE DEF V
      <3>4. Allowed(r, sd, now)'
        BY <1>1, <2>1, <3>1, <3>2, <3>3 DEF Allowed, Blocked, Drifted
      <3>5. Decide(r, sd, TRUE)
        BY <1>2, <2>2 DEF Decide
      <3>6. QED
        BY <1>1, <1>2, <2>1, <3>4, <3>5, ApprovalKeeps DEF IInv, TypeOK
    <2>3. CASE ~ok
      <3>1. UNCHANGED approved
        BY <1>2, <2>3 DEF Decide
      <3>2. QED
        BY <1>2, <3>1, NoApprovalKeeps DEF IInv, TypeOK, RunsTyped, Approvals
    <2>4. QED
      BY <1>2, <2>2, <2>3
  <1>6. TypeOK'
    BY <1>2, <1>3, <1>4, <1>5
    DEF JudgeAnswers, IInv, TypeOK, RunsTyped, Approvals
  <1>7. Asking'
    BY DEF JudgeAnswers, IInv, TypeOK, RunsTyped, Asking, Blocked
  <1>8. QED
    BY <1>5, <1>6, <1>7 DEF IInv

LEMMA JudgeFailsKeeps ==
  ASSUME IInv, NEW r \in Runs, JudgeFails(r) PROVE IInv'
  <1>1. TypeOK'
    BY DEF JudgeFails, IInv, TypeOK, RunsTyped, CacheTyped
  <1>2. Asking'
    BY DEF JudgeFails, IInv, TypeOK, RunsTyped, Asking, Blocked
  <1>3. FailClosed'
    BY NoApprovalKeeps DEF JudgeFails, IInv
  <1>4. QED
    BY <1>1, <1>2, <1>3 DEF IInv

LEMMA FinishKeeps ==
  ASSUME IInv, NEW r \in Runs, Finish(r) PROVE IInv'
  <1>1. TypeOK'
    <2>1. << >> \in Seq(Scored) /\ << >> \in Seq([of : Scored, when : Nat])
      OBVIOUS
    <2>2. /\ phase' \in [Runs -> {"idle", "picking", "asking"}]
          /\ calls' \in [Runs -> Nat] /\ asked' \in [Runs -> Nat]
      BY DEF Finish, IInv, TypeOK, RunsTyped
    <2>3. /\ pool' \in [Runs -> Seq(Scored)]
          /\ approved' \in [Runs -> Seq([of : Scored, when : Nat])]
      BY <2>1 DEF Finish, IInv, TypeOK, RunsTyped
    <2>4. RunsTyped'
      BY <2>2, <2>3 DEF Finish, IInv, TypeOK, RunsTyped
    <2>5. CacheTyped'
      BY DEF Finish, IInv, TypeOK, CacheTyped
    <2>6. QED
      BY <2>4, <2>5 DEF Finish, IInv, TypeOK
  <1>2. Asking'
    BY GateAssumption DEF Finish, IInv, TypeOK, RunsTyped, Asking, Blocked
  <1>3. FailClosed'
    BY DEF Finish, IInv, TypeOK, RunsTyped, FailClosed, Allowed, Blocked, GrayZone, Drifted
  <1>4. QED
    BY <1>1, <1>2, <1>3 DEF IInv

LEMMA PassKeeps == ASSUME IInv, Pass PROVE IInv'
  <1>1. TypeOK'
    <2>1. RunsTyped'
      BY DEF Pass, IInv, TypeOK, RunsTyped
    <2>2. CacheTyped'
      BY DEF Pass, IInv, TypeOK, CacheTyped
    <2>3. QED
      BY <2>1, <2>2 DEF Pass, IInv, TypeOK
  <1>2. Asking'
    BY DEF Pass, IInv, Asking, Blocked
  <1>3. FailClosed'
    BY NoApprovalKeeps DEF Pass, IInv
  <1>4. QED
    BY <1>1, <1>2, <1>3 DEF IInv

LEMMA Stuttering == ASSUME IInv, UNCHANGED vars PROVE IInv'
  <1>1. TypeOK'
    BY DEF vars, IInv, TypeOK, RunsTyped, CacheTyped
  <1>2. Asking'
    BY DEF vars, IInv, Asking, Blocked
  <1>3. FailClosed'
    BY NoApprovalKeeps DEF vars, IInv
  <1>4. QED
    BY <1>1, <1>2, <1>3 DEF IInv

LEMMA Inductive == IInv /\ [Next]_vars => IInv'
  BY StartKeeps, BlockKeeps, AutoApproveKeeps, UseVerdictKeeps, OverBudgetKeeps,
     AskJudgeKeeps, JudgeAnswersKeeps, JudgeFailsKeeps, FinishKeeps, PassKeeps,
     Stuttering
  DEF Next, Step, Look

(* The inductive invariant holds in every reachable state. *)
THEOREM Invariance == Spec => []IInv
  BY Initially, Inductive, PTL DEF Spec

(* The gate is well typed; the verdict cache keeps one verdict for a deal, only
   verdicts the judge gave, and no more than its size. *)
THEOREM TypeCorrect == Spec => []TypeOK
  BY Invariance, PTL DEF IInv

(* Every dispatch that no curator decided is sure by itself or was approved by
   the judge, for that deal, not long before and for about that price. *)
THEOREM GateFailsClosed == Spec => []FailClosed
  BY Invariance, PTL DEF IInv

(* No run sends the judge more requests than its budget. *)
THEOREM BudgetIsKept == Spec => []BudgetKept
  <1>1. IInv => BudgetKept
    BY DEF IInv, Asking, BudgetKept
  <1>2. QED
    BY <1>1, Invariance, PTL

(* No dispatch without an allowed verdict, no request beyond the budget. *)
THEOREM GateSoundness == Spec => []GateIsSound
  BY GateFailsClosed, BudgetIsKept, PTL DEF GateIsSound

-----------------------------------------------------------------------------
(* Diversity.  What a run has approved, what it asks about and what is still *)
(* to come are orderly: best first in each category, and a category follows  *)
(* itself only when nothing else is left.                                   *)

Cat(sd) == Category[sd.deal]

Orderly(p, a, asks) ==
  /\ \A i, j \in DOMAIN p : i < j => p[i].score >= p[j].score
  /\ \A i \in DOMAIN a, j \in DOMAIN p :
       Cat(a[i].of) = Cat(p[j]) => a[i].of.score >= p[j].score
  /\ \A i, j \in DOMAIN a :
       i < j /\ Cat(a[i].of) = Cat(a[j].of) => a[i].of.score >= a[j].of.score
  /\ \A sd \in asks :
       /\ \A j \in DOMAIN p : Cat(sd) = Cat(p[j]) => sd.score >= p[j].score
       /\ \A i \in DOMAIN a : Cat(a[i].of) = Cat(sd) => a[i].of.score >= sd.score
       /\ a # << >> /\ Cat(sd) = Cat(a[Len(a)].of) =>
            \A j \in DOMAIN p : Cat(p[j]) = Cat(sd)
  /\ \A i \in 1..Len(a) - 1 : Cat(a[i].of) = Cat(a[i + 1].of) =>
       /\ \A k \in i + 1..Len(a) : Cat(a[k].of) = Cat(a[i].of)
       /\ \A j \in DOMAIN p : Cat(p[j]) = Cat(a[i].of)
       /\ \A sd \in asks : Cat(sd) = Cat(a[i].of)

InHand(r) == IF phase[r] = "asking" THEN {hand[r]} ELSE {}

RunsOrderly ==
  \A r \in Runs : /\ Orderly(pool[r], approved[r], InHand(r))
                  /\ phase[r] = "idle" => approved[r] = << >>

(* The deal a run looks at is the best of its category, and of the last one
   only when all are. *)
LEMMA TakingIsOrderly ==
  ASSUME NEW p \in Seq(Scored), NEW a \in Seq(Approvals), Orderly(p, a, {}),
         NEW i \in DOMAIN p,
         NEW O, O = {j \in DOMAIN p : a # << >> /\ Cat(p[j]) # Cat(a[Len(a)].of)},
         IF O # {} THEN i \in O /\ \A j \in O : i <= j ELSE i = 1
  PROVE  Orderly(RemoveAt(p, i), a, {p[i]})
  <1>. DEFINE s == RemoveAt(p, i)
              at(j) == IF j < i THEN j ELSE j + 1
  <1>1. /\ i \in 1..Len(p) /\ DOMAIN p = 1..Len(p) /\ Len(p) \in Nat
        /\ DOMAIN s = 1..Len(p) - 1
        /\ \A j \in 1..Len(p) - 1 : s[j] = p[at(j)]
    <2>1. DOMAIN p = 1..Len(p) /\ Len(p) \in Nat
      OBVIOUS
    <2>2. i \in 1..Len(p)
      BY <2>1
    <2>3. /\ s \in Seq(Scored) /\ Len(s) = Len(p) - 1
          /\ \A j \in 1..Len(p) - 1 : s[j] = IF j < i THEN p[j] ELSE p[j + 1]
      BY <2>2, Removal
    <2>. HIDE DEF s
    <2>4. DOMAIN s = 1..Len(p) - 1
      BY <2>3
    <2>5. \A j \in 1..Len(p) - 1 : s[j] = p[at(j)]
      BY <2>3
    <2>6. QED
      BY <2>1, <2>2, <2>4, <2>5
  <1>2. \A j \in DOMAIN s : at(j) \in DOMAIN p /\ at(j) # i /\ s[j] = p[at(j)]
    BY <1>1
  <1>3. \A j, k \in DOMAIN s : j < k => at(j) < at(k)
    BY <1>1
  <1>. HIDE DEF s, at
  <1>4. \A j \in DOMAIN p : p[j].score \in Nat
    <2>1. \A j \in DOMAIN p : p[j] \in Scored
      BY <1>1
    <2>2. QED
      BY <2>1 DEF Scored
  <1>5. \A j \in DOMAIN p : Cat(p[i]) = Cat(p[j]) => p[i].score >= p[j].score
    <2>. SUFFICES ASSUME NEW j \in DOMAIN p, Cat(p[i]) = Cat(p[j])
                  PROVE  p[i].score >= p[j].score
      OBVIOUS
    <2>1. i <= j
      BY <1>1
    <2>2. CASE i = j
      BY <1>4, <2>2
    <2>3. CASE i < j
      BY <2>3 DEF Orderly
    <2>4. QED
      BY <1>1, <2>1, <2>2, <2>3
  <1>6. a # << >> /\ Cat(p[i]) = Cat(a[Len(a)].of) =>
          \A j \in DOMAIN p : Cat(p[j]) = Cat(p[i])
    OBVIOUS
  <1>7. \A j, k \in DOMAIN s : j < k => s[j].score >= s[k].score
    BY <1>2, <1>3 DEF Orderly
  <1>8. Orderly(s, a, {p[i]})
    BY <1>2, <1>5, <1>6, <1>7 DEF Orderly
  <1>9. QED
    BY <1>8 DEF s

LEMMA DroppingIsOrderly ==
  ASSUME NEW p, NEW a, NEW asks, Orderly(p, a, asks)
  PROVE  Orderly(p, a, {})
  BY DEF Orderly

LEMMA ApprovingIsOrderly ==
  ASSUME NEW p \in Seq(Scored), NEW a \in Seq(Approvals), NEW sd \in Scored,
         NEW when \in Nat, Orderly(p, a, {sd})
  PROVE  Orderly(p, Append(a, [of |-> sd, when |-> when]), {})
  <1>. DEFINE e == [of |-> sd, when |-> when]
              b == Append(a, e)
  <1>1. e \in Approvals /\ e.of = sd
    BY DEF Approvals
  <1>. HIDE DEF e
  <1>2. /\ Len(b) = Len(a) + 1 /\ Len(a) \in Nat
        /\ DOMAIN b = 1..Len(a) + 1 /\ DOMAIN a = 1..Len(a)
        /\ b[Len(a) + 1] = e
        /\ \A j \in DOMAIN a : b[j] = a[j]
        /\ a # << >> => Len(a) \in DOMAIN a
    BY <1>1
  <1>. HIDE DEF b
  <1>3. \A i \in DOMAIN b, j \in DOMAIN p :
          Cat(b[i].of) = Cat(p[j]) => b[i].of.score >= p[j].score
    <2>. SUFFICES ASSUME NEW i \in DOMAIN b, NEW j \in DOMAIN p, Cat(b[i].of) = Cat(p[j])
                  PROVE  b[i].of.score >= p[j].score
      OBVIOUS
    <2>1. CASE i \in DOMAIN a
      BY <1>2, <2>1 DEF Orderly
    <2>2. CASE i = Len(a) + 1
      BY <1>1, <1>2, <2>2 DEF Orderly
    <2>3. QED
      BY <1>2, <2>1, <2>2
  <1>4. ASSUME NEW i \in DOMAIN b, NEW j \in DOMAIN b, i < j, Cat(b[i].of) = Cat(b[j].of)
        PROVE  b[i].of.score >= b[j].of.score
    <2>1. i \in DOMAIN a /\ b[i] = a[i]
      BY <1>2, <1>4
    <2>2. CASE j \in DOMAIN a
      BY <1>2, <1>4, <2>1, <2>2 DEF Orderly
    <2>3. CASE j = Len(a) + 1
      BY <1>1, <1>2, <1>4, <2>1, <2>3 DEF Orderly
    <2>4. QED
      BY <1>2, <2>2, <2>3
  <1>5. ASSUME NEW i \in 1..Len(b) - 1, Cat(b[i].of) = Cat(b[i + 1].of)
        PROVE  /\ \A k \in i + 1..Len(b) : Cat(b[k].of) = Cat(b[i].of)
               /\ \A j \in DOMAIN p : Cat(p[j]) = Cat(b[i].of)
    <2>1. i \in DOMAIN a /\ b[i] = a[i] /\ i \in 1..Len(a)
      BY <1>2, <1>5
    <2>2. CASE i = Len(a)
      <3>1. b[i + 1] = e /\ a # << >>
        BY <1>2, <2>1, <2>2
      <3>2. Cat(sd) = Cat(a[Len(a)].of)
        BY <1>1, <1>5, <2>1, <2>2, <3>1
      <3>3. \A j \in DOMAIN p : Cat(p[j]) = Cat(sd)
        BY <3>1, <3>2 DEF Orderly
      <3>4. QED
        BY <1>2, <1>5, <2>1, <2>2, <3>2, <3>3
    <2>3. CASE i # Len(a)
      <3>1. i \in 1..Len(a) - 1 /\ i + 1 \in DOMAIN a
        BY <1>2, <2>1, <2>3
      <3>2. Cat(a[i].of) = Cat(a[i + 1].of)
        BY <1>2, <1>5, <2>1, <3>1
      <3>3. /\ \A k \in i + 1..Len(a) : Cat(a[k].of) = Cat(a[i].of)
            /\ \A j \in DOMAIN p : Cat(p[j]) = Cat(a[i].of)
            /\ Cat(sd) = Cat(a[i].of)
        BY <3>1, <3>2 DEF Orderly
      <3>4. ASSUME NEW k \in i + 1..Len(b) PROVE Cat(b[k].of) = Cat(b[i].of)
        <4>1. CASE k = Len(a) + 1
          BY <1>1, <1>2, <2>1, <3>3, <4>1
        <4>2. CASE k # Len(a) + 1
          <5>1. k \in i + 1..Len(a) /\ k \in DOMAIN a
            BY <1>2, <2>1, <4>2
          <5>2. QED
            BY <1>2, <2>1, <3>3, <5>1
        <4>3. QED
          BY <4>1, <4>2
      <3>5. QED
        BY <2>1, <3>3, <3>4
    <2>4. QED
      BY <2>2, <2>3
  <1>6. \A i, j \in DOMAIN p : i < j => p[i].score >= p[j].score
    BY DEF Orderly
  <1>7. Orderly(p, b, {})
    BY <1>3, <1>4, <1>5, <1>6 DEF Orderly
  <1>8. QED
    BY <1>7 DEF b, e

(* A run that looks at a deal has taken it in order. *)
LEMMA TakesInOrder ==
  ASSUME TypeOK, RunsOrderly, NEW r \in Runs, NEW i \in DOMAIN pool[r], Takes(r, i)
  PROVE  Orderly(RemoveAt(pool[r], i), approved[r], {pool[r][i]})
  <1>. DEFINE p == pool[r]
              a == approved[r]
              O == {j \in DOMAIN p : a # << >> /\ Cat(p[j]) # Cat(a[Len(a)].of)}
  <1>1. p \in Seq(Scored) /\ a \in Seq(Approvals) /\ i \in DOMAIN p
    BY DEF TypeOK, RunsTyped, Approvals
  <1>2. Orderly(p, a, {})
    BY DEF RunsOrderly, InHand, Takes
  <1>3. IF O # {} THEN i \in O /\ \A j \in O : i <= j ELSE i = 1
    BY DEF Takes, Others, LastCategory, Last, Cat
  <1>. HIDE DEF p, a, O
  <1>4. Orderly(RemoveAt(p, i), a, {p[i]})
    BY <1>1, <1>2, <1>3, TakingIsOrderly DEF O
  <1>5. QED
    BY <1>4 DEF p, a

(* A run that goes on with an orderly state, while the others stand still. *)
LEMMA OneRunMoves ==
  ASSUME TypeOK, RunsOrderly, NEW r \in Runs,
         NEW p, NEW a, NEW ph, NEW hd,
         pool' = [pool EXCEPT ![r] = p], approved' = [approved EXCEPT ![r] = a],
         phase' = [phase EXCEPT ![r] = ph], hand' = [hand EXCEPT ![r] = hd],
         Orderly(p, a, IF ph = "asking" THEN {hd} ELSE {}),
         ph = "idle" => a = << >>
  PROVE  RunsOrderly'
  <1>1. /\ pool'[r] = p /\ approved'[r] = a /\ phase'[r] = ph /\ hand'[r] = hd
        /\ \A q \in Runs : q # r => /\ pool'[q] = pool[q] /\ approved'[q] = approved[q]
                                    /\ phase'[q] = phase[q] /\ hand'[q] = hand[q]
    BY DEF TypeOK, RunsTyped
  <1>. SUFFICES ASSUME NEW q \in Runs
                PROVE  /\ Orderly(pool'[q], approved'[q],
                                  IF phase'[q] = "asking" THEN {hand'[q]} ELSE {})
                       /\ phase'[q] = "idle" => approved'[q] = << >>
    BY DEF RunsOrderly, InHand, Orderly, Cat
  <1>2. CASE q = r
    BY <1>1, <1>2
  <1>3. CASE q # r
    <2>1. /\ Orderly(pool[q], approved[q], IF phase[q] = "asking" THEN {hand[q]} ELSE {})
          /\ phase[q] = "idle" => approved[q] = << >>
      BY DEF RunsOrderly, InHand
    <2>2. /\ pool'[q] = pool[q] /\ approved'[q] = approved[q]
          /\ phase'[q] = phase[q] /\ hand'[q] = hand[q]
      BY <1>1, <1>3
    <2>3. QED
      BY <2>1, <2>2, Zenon
  <1>4. QED
    BY <1>2, <1>3

(* What a field of the runs is when it stays as it is. *)
LEMMA SameField ==
  ASSUME NEW f, NEW D, NEW R, f \in [D -> R], NEW r \in D
  PROVE  f = [f EXCEPT ![r] = f[r]]
  OBVIOUS

LEMMA LooksKeepOrder ==
  ASSUME IInv, RunsOrderly, NEW r \in Runs, NEW i \in DOMAIN pool[r], Look(r, i)
  PROVE  RunsOrderly'
  <1>. DEFINE p == RemoveAt(pool[r], i)
              a == approved[r]
              sd == pool[r][i]
  <1>1. Takes(r, i) /\ phase[r] = "picking" /\ TypeOK
    BY DEF IInv, Look, Block, AutoApprove, UseVerdict, OverBudget, AskJudge, Takes
  <1>2. /\ sd \in Scored /\ a \in Seq(Approvals) /\ p \in Seq(Scored)
        /\ now \in Nat
    <2>1. pool[r] \in Seq(Scored) /\ i \in 1..Len(pool[r])
      BY <1>1 DEF TypeOK, RunsTyped
    <2>2. p \in Seq(Scored) /\ sd \in Scored
      BY <2>1, Removal
    <2>3. QED
      BY <1>1, <2>2 DEF TypeOK, RunsTyped, Approvals
  <1>3. Orderly(p, a, {sd})
    BY <1>1, TakesInOrder
  <1>4. pool' = [pool EXCEPT ![r] = p]
    BY DEF Look, Block, AutoApprove, UseVerdict, OverBudget, AskJudge
  <1>5. /\ phase = [phase EXCEPT ![r] = "picking"] /\ hand = [hand EXCEPT ![r] = hand[r]]
        /\ approved = [approved EXCEPT ![r] = a]
    BY <1>1, SameField DEF TypeOK, RunsTyped
  <1>6. \/ UNCHANGED <<phase, hand, approved>>
        \/ UNCHANGED <<phase, hand>> /\ Decide(r, sd, TRUE)
        \/ /\ phase' = [phase EXCEPT ![r] = "asking"]
           /\ hand' = [hand EXCEPT ![r] = sd] /\ UNCHANGED approved
    BY DEF Look, Block, AutoApprove, UseVerdict, OverBudget, AskJudge, Decide
  <1>. HIDE DEF p, a, sd
  <1>7. Orderly(p, a, {})
    BY <1>3, DroppingIsOrderly
  <1>8. CASE UNCHANGED <<phase, hand, approved>>
    <2>1. /\ phase' = [phase EXCEPT ![r] = "picking"]
          /\ hand' = [hand EXCEPT ![r] = hand[r]]
          /\ approved' = [approved EXCEPT ![r] = a]
      BY <1>5, <1>8
    <2>2. QED
      BY <1>1, <1>4, <1>7, <2>1, OneRunMoves
  <1>9. CASE UNCHANGED <<phase, hand>> /\ Decide(r, sd, TRUE)
    <2>. DEFINE b == Append(a, [of |-> sd, when |-> now])
    <2>1. Orderly(p, b, {})
      BY <1>2, <1>3, ApprovingIsOrderly
    <2>2. approved' = [approved EXCEPT ![r] = b]
      BY <1>9 DEF Decide, a
    <2>. HIDE DEF b
    <2>3. QED
      BY <1>1, <1>4, <1>5, <1>9, <2>1, <2>2, OneRunMoves
  <1>10. CASE /\ phase' = [phase EXCEPT ![r] = "asking"]
              /\ hand' = [hand EXCEPT ![r] = sd] /\ UNCHANGED approved
    BY <1>1, <1>3, <1>4, <1>5, <1>10, OneRunMoves
  <1>11. QED
    BY <1>6, <1>8, <1>9, <1>10

LEMMA JudgeKeepsOrder ==
  ASSUME IInv, RunsOrderly, NEW r \in Runs, JudgeAnswers(r) \/ JudgeFails(r)
  PROVE  RunsOrderly'
  <1>. DEFINE p == pool[r]
              a == approved[r]
              sd == hand[r]
  <1>1. /\ phase[r] = "asking" /\ TypeOK /\ sd \in Scored /\ now \in Nat
        /\ p \in Seq(Scored) /\ a \in Seq(Approvals)
    BY DEF IInv, TypeOK, RunsTyped, Asking, Approvals, JudgeAnswers, JudgeFails
  <1>2. Orderly(p, a, {sd})
    BY <1>1 DEF RunsOrderly, InHand
  <1>3. /\ pool = [pool EXCEPT ![r] = p]
        /\ approved = [approved EXCEPT ![r] = a]
    BY <1>1, SameField DEF TypeOK, RunsTyped
  <1>4. /\ phase' = [phase EXCEPT ![r] = "picking"] /\ hand' = [hand EXCEPT ![r] = << >>]
        /\ UNCHANGED pool
        /\ UNCHANGED approved \/ Decide(r, sd, TRUE)
    BY DEF JudgeAnswers, JudgeFails, Decide
  <1>. HIDE DEF p, a, sd
  <1>5. CASE UNCHANGED approved
    BY <1>1, <1>2, <1>3, <1>4, <1>5, DroppingIsOrderly, OneRunMoves
  <1>6. CASE Decide(r, sd, TRUE)
    <2>. DEFINE b == Append(a, [of |-> sd, when |-> now])
    <2>1. Orderly(p, b, {})
      BY <1>1, <1>2, ApprovingIsOrderly
    <2>2. approved' = [approved EXCEPT ![r] = b]
      BY <1>6 DEF Decide, a
    <2>. HIDE DEF b
    <2>3. QED
      BY <1>1, <1>3, <1>4, <2>1, <2>2, OneRunMoves
  <1>7. QED
    BY <1>4, <1>5, <1>6

LEMMA StartAndFinishKeepOrder ==
  ASSUME IInv, RunsOrderly, NEW r \in Runs, Start(r) \/ Finish(r)
  PROVE  RunsOrderly'
  <1>1. TypeOK
    BY DEF IInv
  <1>2. CASE Start(r)
    <2>1. PICK s \in Offers : pool' = [pool EXCEPT ![r] = s]
      BY <1>2 DEF Start
    <2>2. approved[r] = << >>
      BY <1>2 DEF Start, RunsOrderly
    <2>3. Orderly(s, << >>, {})
      <3>1. \A i, j \in DOMAIN s : i < j => s[i].score >= s[j].score
        BY OffersAssumption
      <3>2. QED
        BY <3>1 DEF Orderly
    <2>4. /\ hand = [hand EXCEPT ![r] = hand[r]]
          /\ approved = [approved EXCEPT ![r] = << >>]
      BY <1>1, <2>2, SameField DEF TypeOK, RunsTyped
    <2>5. /\ phase' = [phase EXCEPT ![r] = "picking"]
          /\ hand' = [hand EXCEPT ![r] = hand[r]]
          /\ approved' = [approved EXCEPT ![r] = << >>]
      BY <1>2, <2>4 DEF Start
    <2>6. QED
      BY <1>1, <2>1, <2>3, <2>5, OneRunMoves
  <1>3. CASE Finish(r)
    <2>1. Orderly(<< >>, << >>, {})
      BY DEF Orderly
    <2>2. hand = [hand EXCEPT ![r] = hand[r]]
      BY <1>1, SameField DEF TypeOK, RunsTyped
    <2>3. QED
      BY <1>1, <1>3, <2>1, <2>2, OneRunMoves DEF Finish
  <1>4. QED
    BY <1>2, <1>3

(* A run never lets a category follow itself while another is to come, and
   takes the deals of a category best first (the pick of selectForDispatch),
   for any deals, runs and answers of the judge. *)
THEOREM DispatchIsDiverse == Spec => []Diverse
  <1>1. Init => RunsOrderly
    BY DEF Init, RunsOrderly, Orderly, InHand
  <1>2. IInv /\ RunsOrderly /\ [Next]_vars => RunsOrderly'
    <2>. SUFFICES ASSUME IInv, RunsOrderly, [Next]_vars PROVE RunsOrderly'
      OBVIOUS
    <2>1. CASE Pass \/ UNCHANGED vars
      <3>1. UNCHANGED <<pool, approved, phase, hand>>
        BY <2>1 DEF Pass, vars
      <3>2. QED
        BY <3>1 DEF RunsOrderly, InHand
    <2>2. QED
      BY <2>1, LooksKeepOrder, JudgeKeepsOrder, StartAndFinishKeepOrder DEF Next, Step
  <1>3. IInv /\ RunsOrderly => Diverse
    <2>. SUFFICES ASSUME IInv, RunsOrderly, NEW r \in Runs,
                         NEW i \in DOMAIN approved[r], NEW j \in DOMAIN approved[r],
                         i < j, Cat(approved[r][i].of) = Cat(approved[r][j].of)
                  PROVE  /\ approved[r][i].of.score >= approved[r][j].of.score
                         /\ j = i + 1 => \A k \in j..Len(approved[r]) :
                              Cat(approved[r][k].of) = Cat(approved[r][i].of)
      BY DEF Diverse, Cat
    <2>2. approved[r] \in Seq(Approvals) /\ j \in 1..Len(approved[r]) /\ i \in 1..Len(approved[r])
      <3>1. approved[r] \in Seq(Approvals)
        BY DEF IInv, TypeOK, RunsTyped, Approvals
      <3>2. QED
        BY <3>1
    <2>3. j = i + 1 => i \in 1..Len(approved[r]) - 1
      BY <2>2
    <2>4. QED
      BY <2>2, <2>3 DEF RunsOrderly, Orderly
  <1>4. QED
    BY <1>1, <1>2, <1>3, Invariance, PTL DEF Spec

-----------------------------------------------------------------------------
(* The approval queue.  A handler holds the rows it read as PENDING until it *)
(* decides them; two handlers that hold a row make it troubled.              *)

Deciding == {"lookup", "enqueue", "adding", "mark", "audit"}
Sent(x) == x.put /\ x.pc \in {"adding", "mark"}

(* What a handler in state x knows of the table. *)
Fits(x) ==
  /\ x.pc \notin Deciding => x.todo = {}
  /\ \A r \in x.todo : row[r].st # "none"
  /\ x.pc = "store" => x.key \in Keys
  /\ x.pc = "read" => x.cur \in Rows /\ row[x.cur].st # "none"
  /\ x.put => x.out = "APPROVED" /\ x.pc \in {"adding", "mark", "audit"}
  /\ x.pc \in {"lookup", "enqueue", "adding"} =>
       x.out = "APPROVED" /\ x.todo = {x.cur} /\ x.cur \in Rows
  /\ x.pc = "mark" => x.out \in Outcomes /\ (x.out = "APPROVED" => x.todo = {x.cur})
  /\ x.pc = "audit" => /\ x.out \in Outcomes
                       /\ x.cur \in Rows /\ row[x.cur].st # "none"
                       /\ x.out = "APPROVED" => x.todo = {}

HandlersFit == \A p \in Handlers : Fits(h[p])

(* A row no handlers met on is pending while one holds it, and one only. *)
OneHolder ==
  \A r \in Rows \ troubled : \A p \in Handlers : r \in h[p].todo =>
    row[r].st = "PENDING" /\ \A q \in Handlers : r \in h[q].todo => q = p

(* A deal that went out is marked or about to be. *)
SentIsMarked ==
  /\ \A p \in Handlers : Sent(h[p]) => \A r \in h[p].todo : handed[r] > 0
  /\ \A r \in Rows :
       /\ handed[r] > 0 => row[r].st # "none"
       /\ r \notin troubled =>
            /\ handed[r] <= 1
            /\ row[r].st \in {"REJECTED", "EXPIRED"} => handed[r] = 0
            /\ row[r].st = "PENDING" /\ handed[r] > 0 =>
                 \E p \in Handlers : Sent(h[p]) /\ r \in h[p].todo

(* What is audited, or about to be, is what the row says. *)
AuditFollows ==
  \A r \in Rows \ troubled :
    /\ \A p \in Handlers : h[p].pc = "audit" /\ h[p].cur = r => row[r].st = h[p].out
    /\ \A o \in Outcomes : <<r, o>> \in audited => row[r].st = o

(* A handler that found no row of a deal may create the only one. *)
OneRow ==
  \A k \in Keys \ met :
    /\ \A r, s \in PendingOf(k) : r = s
    /\ \A p \in Handlers : h[p].pc = "store" /\ h[p].key = k =>
         /\ h[p].cur = NoRow => PendingOf(k) = {}
         /\ \A q \in Handlers : h[q].pc = "store" /\ h[q].key = k => q = p

QueueIInv == /\ QueueTypeOK
             /\ HandlersFit
             /\ OneHolder
             /\ SentIsMarked
             /\ ApprovedIsQueuedOrTold
             /\ AuditFollows
             /\ OneRow

HandlerStates == [pc : {"idle", "find", "store", "confirm", "read", "lookup",
                        "enqueue", "adding", "mark", "audit"},
                  op : {"none", "hold", "card", "dispatch", "approve", "reject",
                        "preview", "sweep"},
                  deals : SUBSET Keys, key : Keys \union {NoKey},
                  cur : Rows \union {NoRow}, todo : SUBSET Rows,
                  out : Outcomes \union {"PENDING"}, put : BOOLEAN]

LEMMA IdleState ==
  Idle \in HandlerStates /\ Idle.pc = "idle" /\ Idle.todo = {} /\ ~ Idle.put
  BY DEF Idle, HandlerStates

(* Rows keep their deal and their status. *)
SameRows == /\ row' \in [Rows -> [key : Keys \union {NoKey},
                                  st : Outcomes \union {"none", "PENDING"},
                                  overdue : BOOLEAN]]
            /\ \A r \in Rows : row'[r].key = row[r].key /\ row'[r].st = row[r].st

(* A handler goes on to state x, and no row is decided by that. *)
LEMMA TurnKeeps ==
  ASSUME QueueIInv, SameRows,
         UNCHANGED <<ledger, handed, told, cut, audited>>,
         budget' \in [ops : Nat, fails : Nat],
         troubled \subseteq troubled', troubled' \subseteq Rows,
         met \subseteq met', met' \subseteq Keys,
         NEW p \in Handlers, NEW x \in HandlerStates,
         h' = [h EXCEPT ![p] = x],
         Fits(x),
         \A r \in x.todo \ troubled' :
           row[r].st = "PENDING" /\ \A q \in Handlers : r \in h[q].todo => q = p,
         Sent(x) => \A r \in x.todo : handed[r] > 0,
         Sent(h[p]) => h[p].todo \subseteq troubled' \/ (Sent(x) /\ x.todo = h[p].todo),
         x.pc # "audit", h[p].pc # "audit",
         x.pc = "store" /\ x.key \notin met' =>
           /\ x.cur = NoRow => PendingOf(x.key) = {}
           /\ \A q \in Handlers : h[q].pc = "store" /\ h[q].key = x.key => q = p
  PROVE  QueueIInv'
<1>1. /\ h \in [Handlers -> HandlerStates] /\ h' \in [Handlers -> HandlerStates]
      /\ h'[p] = x /\ \A q \in Handlers : q # p => h'[q] = h[q]
  BY DEF QueueIInv, QueueTypeOK, HandlerStates
<1>2. QueueTypeOK'
  BY <1>1 DEF QueueIInv, QueueTypeOK, SameRows, HandlerStates
<1>3. \A r \in Rows : row'[r].st = row[r].st
  BY DEF SameRows
<1>4. HandlersFit'
  BY <1>1, <1>3 DEF QueueIInv, HandlersFit, Fits, HandlerStates
<1>5. OneHolder'
  BY <1>1, <1>3 DEF QueueIInv, OneHolder
<1>6. SentIsMarked'
  BY <1>1, <1>3 DEF QueueIInv, SentIsMarked
<1>7. AuditFollows' /\ ApprovedIsQueuedOrTold'
  <2>1. \A q \in Handlers : Unanswered(q)' = Unanswered(q)
    BY <1>1 DEF Unanswered
  <2> QED BY <1>1, <1>3, <2>1 DEF QueueIInv, AuditFollows, ApprovedIsQueuedOrTold
<1>8. \A k : PendingOf(k)' = PendingOf(k)
  BY DEF SameRows, PendingOf
<1>9. OneRow'
  BY <1>1, <1>8 DEF QueueIInv, OneRow
<1> QED BY <1>2, <1>4, <1>5, <1>6, <1>7, <1>9 DEF QueueIInv

(* A handler that goes on to find, confirm or read holds no row. *)
LEMMA EmptyTurnKeeps ==
  ASSUME QueueIInv, SameRows, UNCHANGED <<ledger, handed, told, cut, audited>>,
         budget' \in [ops : Nat, fails : Nat],
         troubled \subseteq troubled', troubled' \subseteq Rows,
         met' = met,
         NEW p \in Handlers, NEW x \in HandlerStates,
         h' = [h EXCEPT ![p] = x],
         x.pc \in {"idle", "find", "confirm", "read"}, x.todo = {}, ~ x.put,
         h[p].pc # "audit",
         x.pc = "read" => x.cur \in Rows /\ row[x.cur].st # "none",
         Sent(h[p]) => h[p].todo \subseteq troubled'
  PROVE  QueueIInv'
<1>1. Fits(x) /\ ~ Sent(x)
  BY DEF Fits, Deciding, Sent
<1>2. met' \subseteq Keys /\ met \subseteq met'
  BY DEF QueueIInv, QueueTypeOK
<1>3. x.pc # "audit" /\ x.pc # "store" /\ x.todo \ troubled' = {}
  OBVIOUS
<1> QED BY <1>1, <1>2, <1>3, TurnKeeps

(* What every action may use. *)
LEMMA QueueFacts ==
  ASSUME QueueIInv
  PROVE  /\ h \in [Handlers -> HandlerStates]
         /\ budget \in [ops : Nat, fails : Nat]
         /\ row \in [Rows -> [key : Keys \union {NoKey},
                              st : Outcomes \union {"none", "PENDING"},
                              overdue : BOOLEAN]]
         /\ row' = row => SameRows
         /\ troubled \subseteq Rows /\ met \subseteq Keys
         /\ \A p \in Handlers : Held(p) = h[p].todo
         /\ Tick \in Handlers /\ Requests \subseteq Handlers /\ Cron \in Handlers
         /\ NoRow \notin Rows
<1>1. \A p \in Handlers : Held(p) = h[p].todo
  BY DEF QueueIInv, HandlersFit, Fits, Held, Deciding
<1> QED BY <1>1, NamesAssumption DEF QueueIInv, QueueTypeOK, HandlerStates, SameRows, Handlers

(* Spending keeps the budget. *)
LEMMA Spent ==
  ASSUME QueueIInv
  PROVE  /\ SpendOp => budget' \in [ops : Nat, fails : Nat]
         /\ budget.fails > 0 /\ budget' = [budget EXCEPT !.fails = @ - 1]
              => budget' \in [ops : Nat, fails : Nat]
         /\ budget' = budget => budget' \in [ops : Nat, fails : Nat]
  BY QueueFacts DEF SpendOp

LEMMA StartsKeep ==
  ASSUME QueueIInv,
         TickStarts \/ \E p \in Requests : ManualStarts(p) \/ RequestStarts(p)
  PROVE  QueueIInv'
<1>1. CASE TickStarts
  <2>1. PICK S \in SUBSET Keys :
          h' = [h EXCEPT ![Tick] = [Idle EXCEPT !.pc = "find", !.op = "hold", !.deals = S]]
    BY <1>1 DEF TickStarts
  <2> DEFINE x == [Idle EXCEPT !.pc = "find", !.op = "hold", !.deals = S]
  <2>2. x \in HandlerStates /\ x.pc = "find" /\ x.todo = {} /\ ~ x.put
    BY DEF Idle, HandlerStates
  <2>3. ~ Sent(h[Tick]) /\ h[Tick].pc # "audit"
    BY <1>1 DEF TickStarts, Sent
  <2> HIDE DEF x
  <2> QED BY <1>1, <2>1, <2>2, <2>3, QueueFacts, Spent, EmptyTurnKeeps DEF TickStarts, x
<1>2. ASSUME NEW p \in Requests, ManualStarts(p) PROVE QueueIInv'
  <2>1. PICK k \in Keys, op \in {"card", "dispatch"} :
          h' = [h EXCEPT ![p] = [Idle EXCEPT !.pc = "find", !.op = op, !.deals = {k}]]
    BY <1>2 DEF ManualStarts
  <2> DEFINE x == [Idle EXCEPT !.pc = "find", !.op = op, !.deals = {k}]
  <2>2. x \in HandlerStates /\ x.pc = "find" /\ x.todo = {} /\ ~ x.put
    BY DEF Idle, HandlerStates
  <2>3. ~ Sent(h[p]) /\ h[p].pc # "audit"
    BY <1>2 DEF ManualStarts, Sent
  <2> HIDE DEF x
  <2> QED BY <1>2, <2>1, <2>2, <2>3, QueueFacts, Spent, EmptyTurnKeeps DEF ManualStarts, x
<1>3. ASSUME NEW p \in Requests, RequestStarts(p) PROVE QueueIInv'
  <2>1. PICK r \in Rows, op \in {"approve", "reject", "preview"} :
          /\ row[r].st # "none"
          /\ h' = [h EXCEPT ![p] = [Idle EXCEPT !.pc = "read", !.op = op, !.cur = r]]
    BY <1>3 DEF RequestStarts
  <2> DEFINE x == [Idle EXCEPT !.pc = "read", !.op = op, !.cur = r]
  <2>2. x \in HandlerStates /\ x.pc = "read" /\ x.todo = {} /\ x.cur = r /\ ~ x.put
    BY DEF Idle, HandlerStates
  <2>3. ~ Sent(h[p]) /\ h[p].pc # "audit"
    BY <1>3 DEF RequestStarts, Sent
  <2>4. h' = [h EXCEPT ![p] = x]
    BY <2>1
  <2>5. /\ UNCHANGED <<row, ledger, handed, told, cut, audited, troubled, met>>
        /\ budget' \in [ops : Nat, fails : Nat]
    BY <1>3, Spent DEF RequestStarts
  <2>6. SameRows /\ p \in Handlers /\ troubled \subseteq Rows
    BY <2>5, QueueFacts
  <2>7. x.cur \in Rows /\ row[x.cur].st # "none"
    BY <2>1, <2>2
  <2> HIDE DEF x
  <2> QED BY <2>2, <2>3, <2>4, <2>5, <2>6, <2>7, EmptyTurnKeeps
<1> QED BY <1>1, <1>2, <1>3

LEMMA FindKeeps == ASSUME QueueIInv, NEW p \in Handlers, Find(p) PROVE QueueIInv'
<1>1. PICK k \in h[p].deals, r \in Rows \union {NoRow} :
        /\ r = NoRow <=> PendingOf(k) = {}
        /\ r # NoRow => r \in PendingOf(k)
        /\ h' = [h EXCEPT ![p].pc = "store", ![p].deals = @ \ {k},
                          ![p].cur = r, ![p].key = k]
        /\ met' = IF \E q \in Handlers \ {p} : h[q].pc = "store" /\ h[q].key = k
                  THEN met \union {k} ELSE met
  <2>1. PICK k \in h[p].deals :
          \E r \in IF PendingOf(k) = {} THEN {NoRow} ELSE PendingOf(k) :
            /\ h' = [h EXCEPT ![p].pc = "store", ![p].deals = @ \ {k},
                              ![p].cur = r, ![p].key = k]
            /\ met' = IF \E q \in Handlers \ {p} : h[q].pc = "store" /\ h[q].key = k
                      THEN met \union {k} ELSE met
    BY DEF Find
  <2>2. PendingOf(k) \subseteq Rows /\ NoRow \notin Rows
    BY QueueFacts DEF PendingOf
  <2>3. PICK r \in IF PendingOf(k) = {} THEN {NoRow} ELSE PendingOf(k) :
          /\ h' = [h EXCEPT ![p].pc = "store", ![p].deals = @ \ {k},
                            ![p].cur = r, ![p].key = k]
          /\ met' = IF \E q \in Handlers \ {p} : h[q].pc = "store" /\ h[q].key = k
                    THEN met \union {k} ELSE met
    BY <2>1
  <2>4. r \in Rows \union {NoRow} /\ (r = NoRow <=> PendingOf(k) = {})
        /\ (r # NoRow => r \in PendingOf(k))
    BY <2>2
  <2> QED BY <2>3, <2>4
<1> DEFINE x == [h[p] EXCEPT !.pc = "store", !.deals = @ \ {k}, !.cur = r, !.key = k]
<1>2. /\ h[p] \in HandlerStates /\ h[p].pc = "find" /\ h[p].todo = {}
      /\ k \in Keys /\ ~ h[p].put
  BY QueueFacts DEF Find, QueueIInv, HandlersFit, Fits, Deciding, HandlerStates
<1>3. /\ x \in HandlerStates /\ x.pc = "store" /\ x.key = k /\ x.cur = r /\ x.todo = {}
      /\ ~ x.put /\ h' = [h EXCEPT ![p] = x]
  BY <1>1, <1>2, QueueFacts DEF HandlerStates
<1> HIDE DEF x
<1>4. /\ UNCHANGED <<row, ledger, handed, told, cut, audited, troubled, budget>>
      /\ SameRows /\ troubled \subseteq Rows /\ budget \in [ops : Nat, fails : Nat]
  BY QueueFacts DEF Find
<1>5. Fits(x) /\ ~ Sent(x) /\ ~ Sent(h[p])
  BY <1>2, <1>3 DEF Fits, Sent, Deciding
<1>6. met \subseteq met' /\ met' \subseteq Keys
  BY <1>1, <1>2, QueueFacts
<1>7. k \notin met' =>
        /\ r = NoRow => PendingOf(k) = {}
        /\ \A q \in Handlers : h[q].pc = "store" /\ h[q].key = k => q = p
  BY <1>1
<1> QED BY <1>2, <1>3, <1>4, <1>5, <1>6, <1>7, TurnKeeps

(* What a hold leaves its handler with. *)
LEMMA AfterHoldState ==
  ASSUME QueueIInv, NEW p \in Handlers, h[p].pc = "store", AfterHold(p)
  PROVE  \E x \in HandlerStates :
           /\ h' = [h EXCEPT ![p] = x]
           /\ x.pc \in {"idle", "find", "confirm"} /\ x.todo = {} /\ ~ x.put
<1> DEFINE x == IF h[p].op # "hold" THEN [h[p] EXCEPT !.pc = "confirm", !.cur = NoRow]
                ELSE IF h[p].deals # {} THEN [h[p] EXCEPT !.pc = "find"] ELSE Idle
<1>1. h[p] \in HandlerStates /\ h[p].todo = {} /\ ~ h[p].put
  BY QueueFacts DEF QueueIInv, HandlersFit, Fits, Deciding
<1>2. /\ x \in HandlerStates /\ x.pc \in {"idle", "find", "confirm"}
      /\ x.todo = {} /\ ~ x.put
  BY <1>1, IdleState, ZenonT(30) DEF HandlerStates
<1>3. h' = [h EXCEPT ![p] = x]
  BY DEF AfterHold
<1> QED BY <1>2, <1>3

LEMMA RefreshKeeps == ASSUME QueueIInv, NEW p \in Handlers, Refresh(p) PROVE QueueIInv'
<1>1. PICK x \in HandlerStates :
        /\ h' = [h EXCEPT ![p] = x]
        /\ x.pc \in {"idle", "find", "confirm"} /\ x.todo = {} /\ ~ x.put
  BY AfterHoldState DEF Refresh
<1>2. SameRows
  BY QueueFacts, ZenonT(30) DEF Refresh, SameRows
<1>3. /\ UNCHANGED <<ledger, handed, told, cut, audited, troubled, met, budget>>
      /\ troubled \subseteq Rows /\ budget \in [ops : Nat, fails : Nat]
      /\ ~ Sent(h[p]) /\ h[p].pc # "audit"
  BY QueueFacts DEF Refresh, Sent
<1> QED BY <1>1, <1>2, <1>3, EmptyTurnKeeps

LEMMA ConfirmKeeps == ASSUME QueueIInv, NEW p \in Handlers, Confirm(p) PROVE QueueIInv'
<1>1. PICK r \in IF PendingOf(h[p].key) = {} THEN {NoRow} ELSE PendingOf(h[p].key) :
        h' = [h EXCEPT ![p] =
                IF r = NoRow \/ h[p].op = "card" THEN Idle
                ELSE [Idle EXCEPT !.pc = "read", !.op = "approve", !.cur = r]]
  BY DEF Confirm
<1> DEFINE x == IF r = NoRow \/ h[p].op = "card" THEN Idle
                ELSE [Idle EXCEPT !.pc = "read", !.op = "approve", !.cur = r]
<1>2. r # NoRow => r \in Rows /\ row[r].st = "PENDING"
  BY <1>1 DEF PendingOf
<1>3. /\ x \in HandlerStates /\ x.todo = {} /\ x.pc \in {"idle", "read"}
      /\ x.pc = "read" => x.cur \in Rows /\ row[x.cur].st # "none"
      /\ ~ x.put
  BY <1>2 DEF Idle, HandlerStates
<1>4. h' = [h EXCEPT ![p] = x]
  BY <1>1
<1> HIDE DEF x
<1>5. /\ UNCHANGED <<row, ledger, handed, told, cut, audited, troubled, met, budget>>
      /\ SameRows /\ troubled \subseteq Rows /\ budget \in [ops : Nat, fails : Nat]
      /\ ~ Sent(h[p]) /\ h[p].pc # "audit"
  BY QueueFacts DEF Confirm, Sent
<1> QED BY <1>3, <1>4, <1>5, EmptyTurnKeeps

(* A handler that reads a row as pending holds it, or goes on without. *)
LEMMA RulingState ==
  ASSUME QueueIInv, NEW p \in Handlers, h[p].pc = "read"
  PROVE  /\ Ruling(p) \in HandlerStates
         /\ Fits(Ruling(p)) /\ ~ Sent(Ruling(p))
         /\ Ruling(p).pc \in {"idle", "lookup", "mark"}
         /\ Ruling(p).todo # {} => /\ Ruling(p).todo = {h[p].cur}
                                   /\ row[h[p].cur].st = "PENDING"
<1>1. /\ h[p] \in HandlerStates /\ h[p].cur \in Rows
      /\ row[h[p].cur].st # "none" /\ ~ h[p].put
  BY QueueFacts DEF QueueIInv, HandlersFit, Fits
<1>2. CASE row[h[p].cur].st # "PENDING"
  BY <1>2, IdleState DEF Ruling, Fits, Sent, Deciding
<1>3. CASE row[h[p].cur].st = "PENDING"
  <2> DEFINE On(pc, out) == [h[p] EXCEPT !.pc = pc, !.todo = {h[p].cur}, !.out = out]
  <2>1. \A pc \in {"lookup", "mark"}, out \in Outcomes :
          /\ On(pc, out) \in HandlerStates
          /\ On(pc, out).pc = pc /\ On(pc, out).todo = {h[p].cur}
          /\ On(pc, out).out = out /\ On(pc, out).cur = h[p].cur
          /\ ~ On(pc, out).put
    BY <1>1 DEF HandlerStates
  <2>2. \/ Ruling(p) = Idle
        \/ Ruling(p) = On("lookup", "APPROVED")
        \/ Ruling(p) = On("mark", "EXPIRED")
        \/ Ruling(p) = On("mark", "REJECTED")
    BY <1>3 DEF Ruling
  <2> HIDE DEF On
  <2>3. {"APPROVED", "EXPIRED", "REJECTED"} = Outcomes
    BY DEF Outcomes
  <2>4. CASE Ruling(p) = Idle
    BY <2>4, IdleState DEF Fits, Sent, Deciding
  <2>5. CASE Ruling(p) = On("lookup", "APPROVED")
    BY <1>1, <1>3, <2>1, <2>3, <2>5 DEF Fits, Sent, Deciding
  <2>6. ASSUME NEW out \in {"EXPIRED", "REJECTED"}, Ruling(p) = On("mark", out)
        PROVE  /\ Ruling(p) \in HandlerStates
               /\ Fits(Ruling(p)) /\ ~ Sent(Ruling(p))
               /\ Ruling(p).pc = "mark"
               /\ Ruling(p).todo = {h[p].cur}
    BY <1>1, <1>3, <2>1, <2>3, <2>6 DEF Fits, Sent, Deciding
  <2> QED BY <1>3, <2>2, <2>4, <2>5, <2>6
<1> QED BY <1>2, <1>3

LEMMA ReadKeeps == ASSUME QueueIInv, NEW p \in Handlers, Read(p) PROVE QueueIInv'
<1> DEFINE x == Ruling(p)
<1>1. /\ h[p].pc = "read" /\ h' = [h EXCEPT ![p] = x]
      /\ troubled' = troubled \union Contested(p, x.todo)
      /\ UNCHANGED <<row, ledger, handed, told, cut, audited, met, budget>>
  BY DEF Read
<1>2. /\ x \in HandlerStates /\ Fits(x) /\ ~ Sent(x)
      /\ x.pc \in {"idle", "lookup", "mark"}
      /\ x.todo # {} => x.todo = {h[p].cur} /\ row[h[p].cur].st = "PENDING"
  BY <1>1, RulingState
<1> HIDE DEF x
<1>3. troubled \subseteq troubled' /\ troubled' \subseteq Rows
  BY <1>1, <1>2, QueueFacts DEF Contested, HandlerStates
<1>4. \A r \in x.todo \ troubled' :
        row[r].st = "PENDING" /\ \A q \in Handlers : r \in h[q].todo => q = p
  BY <1>1, <1>2, QueueFacts DEF Contested
<1>5. /\ ~ Sent(h[p]) /\ h[p].pc # "audit" /\ SameRows /\ budget' \in [ops : Nat, fails : Nat]
      /\ met \subseteq met' /\ met' \subseteq Keys
  BY <1>1, QueueFacts DEF Sent
<1> QED BY <1>1, <1>2, <1>3, <1>4, <1>5, TurnKeeps

LEMMA LookupKeeps == ASSUME QueueIInv, NEW p \in Handlers, Lookup(p) PROVE QueueIInv'
<1>1. /\ h[p].pc = "lookup" /\ h[p] \in HandlerStates /\ ~ Sent(h[p]) /\ Fits(h[p])
      /\ UNCHANGED <<row, ledger, handed, told, cut, audited, troubled, met, budget>>
      /\ SameRows /\ troubled \subseteq Rows /\ met \subseteq Keys
      /\ budget \in [ops : Nat, fails : Nat]
  BY QueueFacts DEF Lookup, Sent, QueueIInv, HandlersFit
<1>2. CASE h' = [h EXCEPT ![p] = Idle]
  BY <1>1, <1>2, IdleState, EmptyTurnKeeps
<1>3. CASE h' = [h EXCEPT ![p] = [@ EXCEPT !.pc = "enqueue"]]
  <2> DEFINE x == [h[p] EXCEPT !.pc = "enqueue"]
  <2>1. /\ x \in HandlerStates /\ x.pc = "enqueue" /\ x.todo = h[p].todo
        /\ x.out = h[p].out /\ x.cur = h[p].cur /\ x.put = h[p].put
        /\ h' = [h EXCEPT ![p] = x]
    BY <1>1, <1>3, QueueFacts DEF HandlerStates
  <2> HIDE DEF x
  <2>2. Fits(x) /\ ~ Sent(x)
    BY <1>1, <2>1 DEF Fits, Sent, Deciding
  <2>3. \A r \in x.todo \ troubled' :
          row[r].st = "PENDING" /\ \A q \in Handlers : r \in h[q].todo => q = p
    BY <1>1, <2>1 DEF QueueIInv, OneHolder, HandlerStates
  <2> QED BY <1>1, <2>1, <2>2, <2>3, TurnKeeps
<1> QED BY <1>2, <1>3 DEF Lookup

LEMMA SweepKeeps == ASSUME QueueIInv, NEW p \in Handlers, SweepStarts(p) PROVE QueueIInv'
<1> DEFINE x == [Idle EXCEPT !.pc = "mark", !.op = "sweep", !.todo = Overdue,
                             !.out = "EXPIRED"]
<1>1. /\ h[p].pc = "idle" /\ h' = [h EXCEPT ![p] = x]
      /\ troubled' = troubled \union Contested(p, Overdue)
      /\ UNCHANGED <<row, ledger, handed, told, cut, audited, met>>
      /\ budget' \in [ops : Nat, fails : Nat]
  BY Spent DEF SweepStarts
<1>2. /\ x \in HandlerStates /\ x.pc = "mark" /\ x.out = "EXPIRED"
      /\ x.todo = Overdue /\ Overdue \subseteq Rows /\ ~ x.put
  BY DEF Idle, HandlerStates, Overdue, Outcomes
<1> HIDE DEF x
<1>3. Fits(x) /\ ~ Sent(x) /\ ~ Sent(h[p])
  BY <1>1, <1>2 DEF Fits, Sent, Deciding, Overdue, Outcomes
<1>4. \A r \in x.todo \ troubled' :
        row[r].st = "PENDING" /\ \A q \in Handlers : r \in h[q].todo => q = p
  BY <1>1, <1>2, QueueFacts DEF Contested, Overdue
<1>5. /\ troubled \subseteq troubled' /\ troubled' \subseteq Rows /\ SameRows
      /\ met \subseteq met' /\ met' \subseteq Keys
  BY <1>1, <1>2, QueueFacts DEF Contested
<1> QED BY <1>1, <1>2, <1>3, <1>4, <1>5, TurnKeeps

(* A handler that breaks off leaves what it sent and did not mark troubled. *)
LEMMA FailKeeps == ASSUME QueueIInv, NEW p \in Handlers, Fail(p) PROVE QueueIInv'
<1>1. /\ h' = [h EXCEPT ![p] = Idle]
      /\ troubled' = troubled \union Dangling(p)
      /\ UNCHANGED <<row, ledger, handed, told, cut, audited, met>>
      /\ budget' \in [ops : Nat, fails : Nat] /\ h[p].pc # "audit"
  BY Spent DEF Fail
<1>2. SameRows /\ h[p] \in HandlerStates /\ troubled \subseteq Rows
  BY <1>1, QueueFacts
<1>3. /\ troubled' \subseteq Rows /\ troubled \subseteq troubled'
      /\ Sent(h[p]) => h[p].todo \subseteq troubled'
  BY <1>1, <1>2 DEF Dangling, Sent, HandlerStates
<1> QED BY <1>1, <1>2, <1>3, IdleState, EmptyTurnKeeps

(* The process dies: every handler breaks off. *)
LEMMA CrashKeeps == ASSUME QueueIInv, Crash PROVE QueueIInv'
<1>1. /\ h' = [p \in Handlers |-> Idle]
      /\ UNCHANGED <<row, ledger, handed, told, audited, met>>
      /\ cut' = cut \union UNION {Unanswered(p) : p \in Handlers}
      /\ budget' \in [ops : Nat, fails : Nat]
  BY Spent DEF Crash
<1>2. /\ troubled \subseteq troubled' /\ troubled' \subseteq Rows
      /\ \A p \in Handlers : Sent(h[p]) => h[p].todo \subseteq troubled'
  BY QueueFacts DEF Crash, Dangling, Sent, HandlerStates
<1>3. QueueTypeOK'
  <2>1. \A p \in Handlers : Unanswered(p) \subseteq Rows
    BY DEF Unanswered, QueueIInv, HandlersFit, Fits
  <2>2. cut' \subseteq Rows
    BY <1>1, <2>1 DEF QueueIInv, QueueTypeOK
  <2> QED BY <1>1, <1>2, <2>2, IdleState DEF QueueIInv, QueueTypeOK, HandlerStates
<1>4. \A p \in Handlers : h'[p].pc = "idle" /\ h'[p].todo = {} /\ ~ h'[p].put
  BY <1>1, IdleState
<1>5. HandlersFit'
  BY <1>4 DEF HandlersFit, Fits, Deciding
<1>6. OneHolder'
  BY <1>4 DEF OneHolder
<1>7. SentIsMarked'
  BY <1>1, <1>2, <1>4 DEF QueueIInv, SentIsMarked, Sent
<1>8. AuditFollows'
  BY <1>1, <1>2, <1>4 DEF QueueIInv, AuditFollows
<1>9. OneRow'
  BY <1>1, <1>4 DEF QueueIInv, OneRow, PendingOf
<1>10. ApprovedIsQueuedOrTold'
  BY <1>1 DEF QueueIInv, ApprovedIsQueuedOrTold
<1> QED BY <1>3, <1>5, <1>6, <1>7, <1>8, <1>9, <1>10 DEF QueueIInv

LEMMA AgesKeep == ASSUME QueueIInv, NEW r \in Rows, Ages(r) PROVE QueueIInv'
<1>1. /\ SameRows
      /\ UNCHANGED <<h, ledger, handed, told, cut, audited, troubled, met, budget>>
  BY QueueFacts DEF Ages, SameRows
<1>2. \A s \in Rows : row'[s].st = row[s].st
  BY <1>1 DEF SameRows
<1>3. QueueTypeOK'
  BY <1>1 DEF QueueIInv, QueueTypeOK, SameRows
<1>4. HandlersFit'
  BY <1>1, <1>2, QueueFacts DEF QueueIInv, HandlersFit, Fits, HandlerStates
<1>5. OneHolder'
  BY <1>1, <1>2 DEF QueueIInv, OneHolder
<1>6. SentIsMarked'
  BY <1>1, <1>2 DEF QueueIInv, SentIsMarked
<1>7. AuditFollows' /\ ApprovedIsQueuedOrTold'
  BY <1>1, <1>2 DEF QueueIInv, AuditFollows, ApprovedIsQueuedOrTold, Unanswered
<1>8. \A k : PendingOf(k)' = PendingOf(k)
  BY <1>1 DEF SameRows, PendingOf
<1>9. OneRow'
  BY <1>1, <1>8 DEF QueueIInv, OneRow
<1> QED BY <1>3, <1>4, <1>5, <1>6, <1>7, <1>9 DEF QueueIInv

(* A new row is the deal's only one, or its holds overlapped. *)
LEMMA CreateKeeps == ASSUME QueueIInv, NEW p \in Handlers, Create(p) PROVE QueueIInv'
<1>1. PICK x \in HandlerStates :
        /\ h' = [h EXCEPT ![p] = x]
        /\ x.pc \in {"idle", "find", "confirm"} /\ x.todo = {} /\ ~ x.put
  BY AfterHoldState DEF Create
<1>2. PICK r \in Rows :
        /\ row[r].st = "none"
        /\ row' = [row EXCEPT ![r] = [key |-> h[p].key, st |-> "PENDING",
                                      overdue |-> FALSE]]
  BY DEF Create
<1>3. /\ h[p].pc = "store" /\ h[p].cur = NoRow /\ h[p].key \in Keys
      /\ UNCHANGED <<ledger, handed, told, cut, audited, troubled, met, budget>>
  BY DEF Create, QueueIInv, HandlersFit, Fits
<1>4. /\ row'[r].st = "PENDING" /\ row'[r].key = h[p].key
      /\ \A s \in Rows \ {r} : row'[s] = row[s]
  BY <1>2, QueueFacts
<1>5. /\ h'[p] = x /\ \A q \in Handlers : q # p => h'[q] = h[q]
  BY <1>1, QueueFacts
<1>6. \A q \in Handlers : r \notin h[q].todo
  BY <1>2 DEF QueueIInv, HandlersFit, Fits
<1>7. QueueTypeOK'
  <2>1. h' \in [Handlers -> HandlerStates]
    BY <1>1, QueueFacts
  <2>2. row' \in [Rows -> [key : Keys \union {NoKey},
                           st : Outcomes \union {"none", "PENDING"},
                           overdue : BOOLEAN]]
    BY <1>2, <1>3, QueueFacts
  <2>3. \A s \in Rows : row'[s].st = "none" <=> row'[s].key = NoKey
    BY <1>3, <1>4, NamesAssumption DEF QueueIInv, QueueTypeOK
  <2> QED BY <1>3, <2>1, <2>2, <2>3 DEF QueueIInv, QueueTypeOK, HandlerStates
<1>8. \A s \in Rows : row[s].st # "none" => row'[s].st = row[s].st
  BY <1>2, <1>4
<1>9. HandlersFit'
  <2>1. Fits(x)'
    BY <1>1 DEF Fits, Deciding
  <2>2. ASSUME NEW q \in Handlers, q # p PROVE Fits(h[q])'
    BY <1>4, <1>5, <1>8, <2>2, QueueFacts DEF QueueIInv, HandlersFit, Fits, HandlerStates
  <2> QED BY <1>5, <2>1, <2>2 DEF HandlersFit
<1>10. OneHolder'
  BY <1>1, <1>3, <1>4, <1>5, <1>6 DEF QueueIInv, OneHolder
<1>11. SentIsMarked'
  <2>1. handed[r] = 0
    BY <1>2 DEF QueueIInv, SentIsMarked, QueueTypeOK
  <2>2. ~ Sent(h[p]) /\ ~ Sent(x)
    BY <1>1, <1>3 DEF Sent
  <2> QED BY <1>3, <1>4, <1>5, <2>1, <2>2 DEF QueueIInv, SentIsMarked
<1>12. AuditFollows'
  <2>1. \A o \in Outcomes : r \notin troubled => <<r, o>> \notin audited
    BY <1>2 DEF QueueIInv, AuditFollows, Outcomes
  <2>2. \A q \in Handlers : ~ (h[q].pc = "audit" /\ h[q].cur = r)
    BY <1>2 DEF QueueIInv, HandlersFit, Fits
  <2>3. ASSUME NEW s \in Rows \ troubled
        PROVE  /\ \A q \in Handlers :
                    h'[q].pc = "audit" /\ h'[q].cur = s => row'[s].st = h'[q].out
               /\ \A o \in Outcomes : <<s, o>> \in audited => row'[s].st = o
    <3>1. CASE s = r
      BY <1>1, <1>5, <2>1, <2>2, <2>3, <3>1
    <3>2. CASE s # r
      BY <1>1, <1>4, <1>5, <2>3, <3>2 DEF QueueIInv, AuditFollows
    <3> QED BY <3>1, <3>2
  <2> QED BY <1>3, <2>3 DEF AuditFollows
<1>13. OneRow'
  <2>1. SUFFICES ASSUME NEW k \in Keys \ met
                 PROVE  /\ \A s, t \in PendingOf(k)' : s = t
                        /\ \A q \in Handlers : h'[q].pc = "store" /\ h'[q].key = k =>
                             /\ h'[q].cur = NoRow => PendingOf(k)' = {}
                             /\ \A u \in Handlers :
                                  h'[u].pc = "store" /\ h'[u].key = k => u = q
    BY <1>3 DEF OneRow
  <2>2. CASE k = h[p].key
    <3>1. PendingOf(k) = {}
      BY <1>3, <2>2 DEF QueueIInv, OneRow
    <3>2. PendingOf(k)' = {r}
      BY <1>3, <1>4, <2>2, <3>1 DEF PendingOf
    <3>3. \A q \in Handlers : ~ (h'[q].pc = "store" /\ h'[q].key = k)
      BY <1>1, <1>3, <1>5, <2>2 DEF QueueIInv, OneRow
    <3> QED BY <3>2, <3>3
  <2>3. CASE k # h[p].key
    <3>1. PendingOf(k)' = PendingOf(k)
      BY <1>2, <1>4, <2>3 DEF PendingOf
    <3> QED BY <1>1, <1>5, <3>1 DEF QueueIInv, OneRow
  <2> QED BY <2>2, <2>3
<1>14. ApprovedIsQueuedOrTold'
  <2>1. \A q \in Handlers : Unanswered(q)' = Unanswered(q)
    BY <1>1, <1>3, <1>5 DEF Unanswered
  <2> QED BY <1>2, <1>3, <1>4, <2>1 DEF QueueIInv, ApprovedIsQueuedOrTold
<1> QED BY <1>7, <1>9, <1>10, <1>11, <1>12, <1>13, <1>14 DEF QueueIInv

(* The gate's verdict and the end of the adds move the handler on. *)
LEMMA AddsMoveKeeps ==
  ASSUME QueueIInv, NEW p \in Handlers, Select(p) \/ AddsDone(p)
  PROVE  QueueIInv'
<1>1. /\ h[p] \in HandlerStates /\ Fits(h[p])
      /\ h[p].pc \in {"enqueue", "adding"}
      /\ UNCHANGED <<row, ledger, handed, told, cut, audited, troubled, met, budget>>
      /\ SameRows /\ troubled \subseteq Rows /\ met \subseteq Keys
      /\ budget \in [ops : Nat, fails : Nat]
  BY QueueFacts DEF Select, AddsDone, QueueIInv, HandlersFit
<1>2. PICK pc \in {"adding", "mark"} :
        h' = [h EXCEPT ![p] = [h[p] EXCEPT !.pc = pc]] /\ (h[p].pc = "adding" => pc = "mark")
  BY QueueFacts DEF Select, AddsDone
<1> DEFINE x == [h[p] EXCEPT !.pc = pc]
<1>3. /\ x \in HandlerStates /\ x.pc = pc /\ x.todo = h[p].todo
      /\ x.out = h[p].out /\ x.cur = h[p].cur /\ x.put = h[p].put
      /\ h' = [h EXCEPT ![p] = x]
  BY <1>1, <1>2 DEF HandlerStates
<1> HIDE DEF x
<1>4. Fits(x)
  BY <1>1, <1>3 DEF Fits, Deciding, Outcomes
<1>5. \A r \in x.todo \ troubled' :
        row[r].st = "PENDING" /\ \A q \in Handlers : r \in h[q].todo => q = p
  BY <1>1, <1>3 DEF QueueIInv, OneHolder, HandlerStates
<1>6. Sent(x) <=> Sent(h[p])
  BY <1>1, <1>3 DEF Sent, Fits
<1>7. Sent(x) => \A r \in x.todo : handed[r] > 0
  BY <1>3, <1>6 DEF QueueIInv, SentIsMarked
<1> QED BY <1>1, <1>2, <1>3, <1>4, <1>5, <1>6, <1>7, TurnKeeps

(* The first add that works puts the deal on the queue. *)
LEMMA AddJobKeeps == ASSUME QueueIInv, NEW p \in Handlers, AddJob(p) PROVE QueueIInv'
<1> DEFINE x == [h[p] EXCEPT !.put = TRUE]
           r == h[p].cur
<1>1. /\ h[p] \in HandlerStates /\ h[p].pc = "adding" /\ ~ h[p].put
      /\ h[p].out = "APPROVED" /\ h[p].todo = {r} /\ r \in Rows
      /\ row[r].st # "none"
  BY QueueFacts DEF AddJob, QueueIInv, HandlersFit, Fits
<1>2. /\ x \in HandlerStates /\ x.pc = "adding" /\ x.todo = {r} /\ x.put
      /\ x.out = "APPROVED" /\ x.cur = r
      /\ h'[p] = x /\ \A q \in Handlers : q # p => h'[q] = h[q]
      /\ h' \in [Handlers -> HandlerStates]
  BY <1>1, QueueFacts DEF AddJob, HandlerStates
<1>3. /\ UNCHANGED <<row, ledger, told, cut, audited, troubled, met, budget>>
      /\ handed \in [Rows -> Nat] /\ handed' \in [Rows -> Nat]
      /\ handed'[r] = handed[r] + 1
      /\ \A s \in Rows \ {r} : handed'[s] = handed[s]
  BY <1>1 DEF AddJob, QueueIInv, QueueTypeOK
<1> HIDE DEF x
<1>4. QueueTypeOK'
  BY <1>2, <1>3 DEF QueueIInv, QueueTypeOK, HandlerStates
<1>5. HandlersFit'
  BY <1>1, <1>2, <1>3, QueueFacts DEF QueueIInv, HandlersFit, Fits, Deciding, HandlerStates, Outcomes
<1>6. OneHolder'
  BY <1>1, <1>2, <1>3 DEF QueueIInv, OneHolder
<1>7. r \notin troubled => handed[r] = 0 /\ row[r].st = "PENDING"
  <2> SUFFICES ASSUME r \notin troubled PROVE handed[r] = 0 /\ row[r].st = "PENDING"
    OBVIOUS
  <2>1. row[r].st = "PENDING" /\ \A q \in Handlers : r \in h[q].todo => q = p
    BY <1>1 DEF QueueIInv, OneHolder
  <2>2. ~ Sent(h[p])
    BY <1>1 DEF Sent
  <2>3. ~ (handed[r] > 0)
    BY <1>1, <2>1, <2>2 DEF QueueIInv, SentIsMarked
  <2> QED BY <1>1, <1>3, <2>1, <2>3
<1>8. SentIsMarked'
  <2>1. Sent(x) /\ ~ Sent(h[p])
    BY <1>1, <1>2 DEF Sent
  <2>2. ASSUME NEW q \in Handlers, Sent(h'[q]), NEW s \in h'[q].todo PROVE handed'[s] > 0
    <3>1. CASE q = p
      BY <1>1, <1>2, <1>3, <3>1
    <3>2. CASE q # p
      BY <1>1, <1>2, <1>3, <2>2, <3>2 DEF QueueIInv, SentIsMarked, HandlerStates
    <3> QED BY <3>1, <3>2
  <2>3. ASSUME NEW s \in Rows
        PROVE  /\ handed'[s] > 0 => row[s].st # "none"
               /\ s \notin troubled =>
                    /\ handed'[s] <= 1
                    /\ row[s].st \in {"REJECTED", "EXPIRED"} => handed'[s] = 0
                    /\ row[s].st = "PENDING" /\ handed'[s] > 0 =>
                         \E q \in Handlers : Sent(h'[q]) /\ s \in h'[q].todo
    <3>1. CASE s = r
      BY <1>1, <1>2, <1>3, <1>7, <2>1, <3>1
    <3>2. CASE s # r
      BY <1>1, <1>2, <1>3, <2>1, <3>2 DEF QueueIInv, SentIsMarked
    <3> QED BY <3>1, <3>2
  <2>4. \A q \in Handlers : Sent(h[q])' = Sent(h'[q])
    BY DEF Sent
  <2> QED BY <1>3, <2>2, <2>3, <2>4 DEF SentIsMarked
<1>9. AuditFollows'
  BY <1>2, <1>3 DEF QueueIInv, AuditFollows
<1>10. OneRow'
  <2>1. \A k : PendingOf(k)' = PendingOf(k)
    BY <1>3 DEF PendingOf
  <2> QED BY <1>1, <1>2, <1>3, <2>1 DEF QueueIInv, OneRow
<1>11. ApprovedIsQueuedOrTold'
  <2>1. \A q \in Handlers : Unanswered(q)' = Unanswered(q)
    BY <1>1, <1>2 DEF Unanswered
  <2>2. \A s \in Rows : handed'[s] = 0 => handed[s] = 0
    BY <1>3
  <2> QED BY <1>3, <2>1, <2>2 DEF QueueIInv, ApprovedIsQueuedOrTold
<1> QED BY <1>4, <1>5, <1>6, <1>8, <1>9, <1>10, <1>11 DEF QueueIInv

(* Marking decides the row, which nobody else holds. *)
LEMMA MarkKeeps == ASSUME QueueIInv, NEW p \in Handlers, Mark(p) PROVE QueueIInv'
<1>1. PICK r \in h[p].todo :
        /\ row' = [row EXCEPT ![r].st = h[p].out]
        /\ h' = [h EXCEPT ![p].pc = "audit", ![p].cur = r, ![p].todo = @ \ {r}]
  BY DEF Mark
<1> DEFINE x == [h[p] EXCEPT !.pc = "audit", !.cur = r, !.todo = @ \ {r}]
<1>2. /\ h[p] \in HandlerStates /\ h[p].pc = "mark" /\ r \in Rows
      /\ h[p].out \in Outcomes /\ row[r].st # "none"
      /\ h[p].out = "APPROVED" => h[p].todo = {r}
      /\ h[p].put => h[p].out = "APPROVED"
      /\ UNCHANGED <<ledger, handed, told, cut, audited, troubled, met, budget>>
  BY <1>1, QueueFacts DEF Mark, QueueIInv, HandlersFit, Fits, HandlerStates
<1>3. /\ x \in HandlerStates /\ x.pc = "audit" /\ x.todo = h[p].todo \ {r}
      /\ x.out = h[p].out /\ x.cur = r /\ x.put = h[p].put
      /\ h'[p] = x /\ \A q \in Handlers : q # p => h'[q] = h[q]
      /\ h' \in [Handlers -> HandlerStates]
  BY <1>1, <1>2, QueueFacts DEF HandlerStates
<1>4. /\ row'[r].st = h[p].out /\ row'[r].key = row[r].key
      /\ \A s \in Rows \ {r} : row'[s] = row[s]
      /\ row' \in [Rows -> [key : Keys \union {NoKey},
                            st : Outcomes \union {"none", "PENDING"},
                            overdue : BOOLEAN]]
  BY <1>1, <1>2, QueueFacts
<1> HIDE DEF x
<1>5. \A s \in Rows : row[s].st # "none" => row'[s].st # "none"
  BY <1>2, <1>4 DEF Outcomes
<1>6. QueueTypeOK'
  <2>1. \A s \in Rows : row'[s].st = "none" <=> row'[s].key = NoKey
    BY <1>2, <1>4 DEF QueueIInv, QueueTypeOK, Outcomes
  <2> QED BY <1>2, <1>3, <1>4, <2>1 DEF QueueIInv, QueueTypeOK, HandlerStates
<1>7. HandlersFit'
  <2>1. Fits(h[p])'
    BY <1>2, <1>3, <1>4, <1>5 DEF QueueIInv, HandlersFit, Fits, Deciding, HandlerStates
  <2>2. ASSUME NEW q \in Handlers, q # p PROVE Fits(h[q])'
    BY <1>3, <1>4, <1>5, <2>2, QueueFacts DEF QueueIInv, HandlersFit, Fits, HandlerStates
  <2> QED BY <1>3, <2>1, <2>2 DEF HandlersFit
<1>8. r \notin troubled =>
        /\ row[r].st = "PENDING" /\ \A q \in Handlers : r \in h[q].todo => q = p
        /\ handed[r] <= 1
        /\ h[p].out # "APPROVED" => handed[r] = 0
  <2> SUFFICES ASSUME r \notin troubled
               PROVE  /\ row[r].st = "PENDING"
                      /\ \A q \in Handlers : r \in h[q].todo => q = p
                      /\ handed[r] <= 1
                      /\ h[p].out # "APPROVED" => handed[r] = 0
    OBVIOUS
  <2>1. row[r].st = "PENDING" /\ \A q \in Handlers : r \in h[q].todo => q = p
    BY <1>1, <1>2 DEF QueueIInv, OneHolder
  <2>2. handed[r] <= 1 /\ handed[r] \in Nat
    BY <1>2 DEF QueueIInv, SentIsMarked, QueueTypeOK
  <2>3. h[p].out # "APPROVED" => ~ (handed[r] > 0)
    BY <1>2, <2>1 DEF QueueIInv, SentIsMarked, Sent
  <2> QED BY <2>1, <2>2, <2>3
<1>9. OneHolder'
  BY <1>2, <1>3, <1>4, <1>8 DEF QueueIInv, OneHolder, HandlerStates
<1>10. SentIsMarked'
  <2>1. ~ Sent(x)
    BY <1>3 DEF Sent
  <2>3. ASSUME NEW s \in Rows
        PROVE  /\ handed[s] > 0 => row'[s].st # "none"
               /\ s \notin troubled =>
                    /\ handed[s] <= 1
                    /\ row'[s].st \in {"REJECTED", "EXPIRED"} => handed[s] = 0
                    /\ row'[s].st = "PENDING" /\ handed[s] > 0 =>
                         \E q \in Handlers : Sent(h'[q]) /\ s \in h'[q].todo
    <3>1. CASE s = r
      BY <1>2, <1>4, <1>8, <3>1 DEF Outcomes
    <3>2. CASE s # r
      <4>1. Sent(h[p]) => s \notin h[p].todo
        BY <1>2, <3>2 DEF Sent
      <4> QED BY <1>3, <1>4, <3>2, <4>1 DEF QueueIInv, SentIsMarked
    <3> QED BY <3>1, <3>2
  <2>4. \A q \in Handlers : Sent(h[q])' = Sent(h'[q])
    BY DEF Sent
  <2>5. \A q \in Handlers : Sent(h'[q]) => \A s \in h'[q].todo : handed[s] > 0
    BY <1>3, <2>1 DEF QueueIInv, SentIsMarked
  <2> QED BY <1>2, <2>3, <2>4, <2>5 DEF SentIsMarked
<1>11. AuditFollows'
  <2>1. ASSUME NEW s \in Rows \ troubled
        PROVE  /\ \A q \in Handlers :
                    h'[q].pc = "audit" /\ h'[q].cur = s => row'[s].st = h'[q].out
               /\ \A o \in Outcomes : <<s, o>> \in audited => row'[s].st = o
    <3>1. CASE s = r
      <4>1. row[r].st = "PENDING"
        BY <1>8, <2>1, <3>1
      <4>2. \A o \in Outcomes : <<s, o>> \notin audited
        BY <1>2, <2>1, <3>1, <4>1 DEF QueueIInv, AuditFollows, Outcomes
      <4>3. \A q \in Handlers : ~ (h[q].pc = "audit" /\ h[q].cur = s)
        BY <1>2, <2>1, <3>1, <4>1 DEF QueueIInv, AuditFollows, HandlersFit, Fits, Outcomes
      <4> QED BY <1>3, <1>4, <3>1, <4>2, <4>3
    <3>2. CASE s # r
      BY <1>2, <1>3, <1>4, <2>1, <3>2 DEF QueueIInv, AuditFollows
    <3> QED BY <3>1, <3>2
  <2> QED BY <1>2, <2>1 DEF AuditFollows
<1>12. OneRow'
  <2>1. \A k : PendingOf(k)' \subseteq PendingOf(k)
    <3> SUFFICES ASSUME NEW k, NEW s \in PendingOf(k)' PROVE s \in PendingOf(k)
      OBVIOUS
    <3>1. s \in Rows /\ row'[s].key = k /\ row'[s].st = "PENDING"
      BY DEF PendingOf
    <3>2. s # r
      BY <1>2, <1>4, <3>1 DEF Outcomes
    <3> QED BY <1>4, <3>1, <3>2 DEF PendingOf
  <2>2. ASSUME NEW k \in Keys \ met
        PROVE  /\ \A s, t \in PendingOf(k)' : s = t
               /\ \A q \in Handlers : h'[q].pc = "store" /\ h'[q].key = k =>
                    /\ h'[q].cur = NoRow => PendingOf(k)' = {}
                    /\ \A u \in Handlers :
                         h'[u].pc = "store" /\ h'[u].key = k => u = q
    BY <1>3, <2>1, <2>2 DEF QueueIInv, OneRow
  <2> QED BY <1>2, <2>2 DEF OneRow
<1>13. ApprovedIsQueuedOrTold'
  <2>1. ASSUME NEW s \in Rows, row'[s].st = "APPROVED", handed[s] = 0
        PROVE  s \in told \union cut \/ \E q \in Handlers : s \in Unanswered(q)'
    <3>1. CASE s = r
      <4>1. h[p].out = "APPROVED" /\ ~ h[p].put
        BY <1>1, <1>2, <1>4, <2>1, <3>1 DEF QueueIInv, SentIsMarked, Sent
      <4>2. s \in Unanswered(p)'
        BY <1>3, <3>1, <4>1 DEF Unanswered
      <4> QED BY <4>2
    <3>2. CASE s # r
      <4>1. \A q \in Handlers : Unanswered(q) \subseteq Unanswered(q)'
        BY <1>2, <1>3 DEF Unanswered
      <4> QED BY <1>4, <2>1, <3>2, <4>1 DEF QueueIInv, ApprovedIsQueuedOrTold
    <3> QED BY <3>1, <3>2
  <2> QED BY <1>2, <2>1 DEF ApprovedIsQueuedOrTold
<1> QED BY <1>6, <1>7, <1>9, <1>10, <1>11, <1>12, <1>13 DEF QueueIInv

LEMMA AuditKeeps == ASSUME QueueIInv, NEW p \in Handlers, Audit(p) PROVE QueueIInv'
<1> DEFINE x == IF h[p].todo = {} THEN Idle ELSE [h[p] EXCEPT !.pc = "mark"]
           r == h[p].cur
<1>1. /\ h[p] \in HandlerStates /\ h[p].pc = "audit"
      /\ h[p].out \in Outcomes /\ r \in Rows /\ row[r].st # "none"
      /\ h[p].out = "APPROVED" => h[p].todo = {}
      /\ h[p].put => h[p].out = "APPROVED"
      /\ UNCHANGED <<row, handed, cut, troubled, met, budget>>
      /\ told' = told \union Unanswered(p)
  BY QueueFacts DEF Audit, QueueIInv, HandlersFit, Fits
<1>2. /\ x \in HandlerStates /\ x.todo = h[p].todo
      /\ \/ x.pc = "idle" /\ x.todo = {} /\ ~ x.put
         \/ x.pc = "mark" /\ x.out = h[p].out /\ x.out # "APPROVED" /\ ~ x.put
      /\ h'[p] = x /\ \A q \in Handlers : q # p => h'[q] = h[q]
      /\ h' \in [Handlers -> HandlerStates]
  <2>1. /\ x \in HandlerStates /\ x.todo = h[p].todo
        /\ \/ x.pc = "idle" /\ x.todo = {} /\ ~ x.put
           \/ x.pc = "mark" /\ x.out = h[p].out /\ x.out # "APPROVED" /\ ~ x.put
    <3>1. CASE h[p].todo = {}
      BY <3>1, IdleState
    <3>2. CASE h[p].todo # {}
      BY <1>1, <3>2 DEF HandlerStates
    <3> QED BY <3>1, <3>2
  <2>2. h' = [h EXCEPT ![p] = x] /\ h \in [Handlers -> HandlerStates]
    BY QueueFacts DEF Audit
  <2> HIDE DEF x
  <2> QED BY <2>1, <2>2
<1>3. audited \subseteq audited' /\ audited' \subseteq audited \union {<<r, h[p].out>>}
  BY DEF Audit
<1> HIDE DEF x
<1>4. ledger' \in [Keys -> [out : Outcomes \union {"none"}, n : Nat]]
  <2>1. row[r].key \in Keys
    BY <1>1 DEF QueueIInv, QueueTypeOK
  <2> QED BY <1>1, <2>1 DEF Audit, QueueIInv, QueueTypeOK
<1>5. QueueTypeOK'
  <2>1. told' \subseteq Rows
    BY <1>1 DEF Unanswered, QueueIInv, QueueTypeOK
  <2> QED BY <1>1, <1>2, <1>3, <1>4, <2>1 DEF QueueIInv, QueueTypeOK, HandlerStates
<1>6. HandlersFit'
  <2>1. Fits(h[p])'
    BY <1>1, <1>2 DEF QueueIInv, HandlersFit, Fits, Deciding, HandlerStates
  <2>2. ASSUME NEW q \in Handlers, q # p PROVE Fits(h[q])'
    BY <1>1, <1>2, <2>2 DEF QueueIInv, HandlersFit, Fits
  <2> QED BY <2>1, <2>2 DEF HandlersFit
<1>7. OneHolder'
  BY <1>1, <1>2 DEF QueueIInv, OneHolder
<1>8. SentIsMarked'
  <2>1. ~ Sent(x) /\ ~ Sent(h[p])
    BY <1>1, <1>2 DEF Sent
  <2>2. \A q \in Handlers : Sent(h[q])' = Sent(h[q])
    BY <1>2, <2>1 DEF Sent
  <2> QED BY <1>1, <1>2, <2>1, <2>2 DEF QueueIInv, SentIsMarked
<1>9. AuditFollows'
  <2>1. ASSUME NEW s \in Rows \ troubled
        PROVE  /\ \A q \in Handlers :
                    h'[q].pc = "audit" /\ h'[q].cur = s => row[s].st = h'[q].out
               /\ \A o \in Outcomes : <<s, o>> \in audited' => row[s].st = o
    <3>1. \A q \in Handlers : h[q].pc = "audit" /\ h[q].cur = s => row[s].st = h[q].out
      BY <2>1 DEF QueueIInv, AuditFollows
    <3>2. ASSUME NEW o \in Outcomes, <<s, o>> \in audited' PROVE row[s].st = o
      <4>1. CASE <<s, o>> \in audited
        BY <2>1, <4>1 DEF QueueIInv, AuditFollows
      <4>2. CASE <<s, o>> = <<r, h[p].out>>
        BY <1>1, <3>1, <4>2
      <4> QED BY <1>3, <3>2, <4>1, <4>2
    <3> QED BY <1>2, <3>1, <3>2
  <2> QED BY <1>1, <2>1 DEF AuditFollows
<1>10. OneRow'
  <2>1. \A k : PendingOf(k)' = PendingOf(k)
    BY <1>1 DEF PendingOf
  <2> QED BY <1>1, <1>2, <2>1 DEF QueueIInv, OneRow
<1>11. ApprovedIsQueuedOrTold'
  <2>1. \A q \in Handlers \ {p} : Unanswered(q)' = Unanswered(q)
    BY <1>2 DEF Unanswered
  <2> QED BY <1>1, <2>1 DEF QueueIInv, ApprovedIsQueuedOrTold
<1> QED BY <1>5, <1>6, <1>7, <1>8, <1>9, <1>10, <1>11 DEF QueueIInv

LEMMA QueueInductive == QueueIInv /\ [QueueNext]_queueVars => QueueIInv'
<1> SUFFICES ASSUME QueueIInv, [QueueNext]_queueVars PROVE QueueIInv'
  OBVIOUS
<1>1. ASSUME NEW p \in Handlers, Progress(p) \/ Fail(p) PROVE QueueIInv'
  BY <1>1, FindKeeps, RefreshKeeps, CreateKeeps, ConfirmKeeps, ReadKeeps, LookupKeeps,
     AddsMoveKeeps, AddJobKeeps, MarkKeeps, AuditKeeps, FailKeeps DEF Progress
<1>2. ASSUME NEW p \in Requests \union {Cron}, SweepStarts(p) PROVE QueueIInv'
  BY <1>2, QueueFacts, SweepKeeps
<1>3. CASE UNCHANGED queueVars
  BY <1>3 DEF queueVars, QueueIInv, QueueTypeOK, HandlersFit, Fits, OneHolder, SentIsMarked,
     AuditFollows, OneRow, PendingOf, ApprovedIsQueuedOrTold, Unanswered
<1> QED BY <1>1, <1>2, <1>3, StartsKeep, CrashKeeps, AgesKeep DEF QueueNext

LEMMA QueueStarts == QueueInit => QueueIInv
<1> SUFFICES ASSUME QueueInit PROVE QueueIInv
  OBVIOUS
<1>1. QueueTypeOK
  BY IdleState, BoundsAssumption DEF QueueInit, QueueTypeOK, NoDeal, HandlerStates
<1>2. \A p \in Handlers : h[p].pc = "idle" /\ h[p].todo = {} /\ ~ h[p].put
  BY IdleState DEF QueueInit
<1>3. \A r \in Rows : row[r].st = "none" /\ handed[r] = 0
  BY DEF QueueInit, NoDeal
<1>4. audited = {}
  BY DEF QueueInit
<1>5. \A k : PendingOf(k) = {}
  BY <1>3 DEF PendingOf
<1> QED BY <1>1, <1>2, <1>3, <1>4, <1>5
  DEF QueueIInv, HandlersFit, Fits, Deciding, OneHolder, SentIsMarked, Sent, AuditFollows, OneRow,
      ApprovedIsQueuedOrTold

(* The inductive invariant of the approval queue holds in every reachable state. *)
THEOREM QueueInvariance == QueueSpec => []QueueIInv
  BY QueueStarts, QueueInductive, PTL DEF QueueSpec

(* However requests, sweep, tick, failing adds and crashes interleave: a row
   marked APPROVED has its deal on the send queue or an approval of it answers
   enqueued 0, unless a crash takes that answer, and a rejected or expired one
   was not put on the queue, unless two handlers held it at once or one broke
   off in between (approve, reject and expireOverdue of ApprovalQueueService,
   enqueueScored of PipelineService). *)
THEOREM DecisionsAreHonest == QueueSpec => []DecisionsHold
<1>1. QueueIInv => DecisionsHold
  <2> SUFFICES ASSUME QueueIInv PROVE DecisionsHold
    OBVIOUS
  <2>1. ApprovedIsQueuedOrTold
    BY DEF QueueIInv
  <2>2. DiscardedWasNotSent
    BY DEF QueueIInv, SentIsMarked, DiscardedWasNotSent
  <2> QED BY <2>1, <2>2 DEF DecisionsHold
<1> QED BY <1>1, QueueInvariance, PTL

(* A row goes out once and a deal has one pending row, unless handlers met on
   the row, or holds of the deal overlapped (holdPending, approve). *)
THEOREM OneOfEachRow == QueueSpec => []OneOfEach
<1>1. QueueIInv => OneOfEach
  <2> SUFFICES ASSUME QueueIInv PROVE OneOfEach
    OBVIOUS
  <2>1. SentOnce
    BY DEF QueueIInv, SentIsMarked, SentOnce
  <2>2. ASSUME NEW k \in Keys \ met PROVE ~ (Cardinality(PendingOf(k)) > 1)
    <3>1. CASE PendingOf(k) = {}
      BY <3>1, FS_EmptySet
    <3>2. ASSUME NEW r \in PendingOf(k) PROVE ~ (Cardinality(PendingOf(k)) > 1)
      <4>1. PendingOf(k) = {r}
        BY <2>2, <3>2 DEF QueueIInv, OneRow
      <4>2. Cardinality(PendingOf(k)) = 1
        BY <4>1, FS_Singleton, Zenon
      <4> QED BY <4>2
    <3> QED BY <3>1, <3>2
  <2> QED BY <2>1, <2>2 DEF OneOfEach, DuplicateNeedsOverlap
<1> QED BY <1>1, QueueInvariance, PTL

(* Without such a meeting the audit of decisions says what became of the row. *)
THEOREM AuditIsTrue == QueueSpec => []AuditAgrees
<1>1. QueueIInv => AuditAgrees
  <2> SUFFICES ASSUME QueueIInv, NEW a \in audited, a[1] \notin troubled
               PROVE  row[a[1]].st = a[2]
    BY DEF AuditAgrees
  <2>1. a[1] \in Rows /\ a[2] \in Outcomes /\ a = <<a[1], a[2]>>
    BY DEF QueueIInv, QueueTypeOK
  <2> QED BY <2>1 DEF QueueIInv, AuditFollows
<1> QED BY <1>1, QueueInvariance, PTL
==============================================================================
