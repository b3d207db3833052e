-------------------------- MODULE MercadoLivreProofs --------------------------
(***************************************************************************)
(* Proofs about the two clients of Mercado Livre, for any number of callers, *)
(* reloads, tokens and failures: the OAuth token survives its renewals, and *)
(* the affiliate adapter has one start and one browser.                     *)
(***************************************************************************)
EXTENDS MlAuth, Affiliate, FiniteSetTheorems, TLAPS

-----------------------------------------------------------------------------
(* The token. *)

Working == {"request", "persist", "assign"}

CallStates == [pc : {"idle", "wait", "request", "persist", "assign"}, tok : Tokens]

(* SingleFlight, of pairs of calls. *)
Refreshes ==
  /\ \A p, q \in TokenCallers : call[p].pc \in Working /\ call[q].pc \in Working => p = q
  /\ inflight <=> \E p \in TokenCallers : call[p].pc \in Working
  /\ \A p \in TokenCallers : call[p].pc = "wait" => inflight

Overlaps == inflight /\ x.pc # "idle" => raced

(* What a callback writes is the server's latest token. *)
CallbackHolds ==
  ~raced => /\ x.pc # "idle" => x.tok = issued
            /\ x.pc = "assign" => db = x.tok

(* What a refresh asks with, writes and assigns. *)
RefreshHolds ==
  ~raced => \A p \in TokenCallers :
    /\ call[p].pc = "assign" => db = call[p].tok
    /\ ~broke /\ call[p].pc \in {"persist", "assign"} => call[p].tok = issued
    /\ ~broke /\ call[p].pc = "request" => mem = issued

FileIsOld == issued = 0 => file = 0

AuthIInv == /\ AuthTypeOK
            /\ Refreshes
            /\ Overlaps
            /\ CallbackHolds
            /\ RefreshHolds
            /\ FileIsOld
            /\ MemoryIsDurable
            /\ TokenStaysAlive

LEMMA AuthTyped ==
  ASSUME AuthTypeOK
  PROVE  /\ issued \in Tokens /\ file \in Tokens /\ db \in Tokens /\ mem \in Tokens
         /\ call \in [TokenCallers -> CallStates]
         /\ inflight \in BOOLEAN /\ raced \in BOOLEAN /\ broke \in BOOLEAN
         /\ x \in [pc : {"idle", "persist", "assign"}, tok : Tokens]
         /\ MaxTokens \in Nat /\ \A t \in Tokens : t \in Nat /\ (t < MaxTokens => t + 1 \in Tokens)
  BY BoundsAssumption DEF AuthTypeOK, CallStates, Tokens

LEMMA NoRefreshFits == NoRefresh \in CallStates /\ NoRefresh.pc = "idle"
  BY BoundsAssumption DEF NoRefresh, CallStates, Tokens

(* A call goes on, the others stay where they are. *)
LEMMA CallTurn ==
  ASSUME AuthTypeOK, NEW p \in TokenCallers, NEW y \in CallStates,
         call' = [call EXCEPT ![p] = y]
  PROVE  /\ call' \in [TokenCallers -> CallStates]
         /\ call'[p] = y /\ \A q \in TokenCallers : q # p => call'[q] = call[q]
  BY AuthTyped

(* A refresh ends: nobody refreshes or waits. *)
LEMMA SettledEnds ==
  ASSUME AuthIInv, NEW p \in TokenCallers, call[p].pc \in Working
  PROVE  /\ Settled(p) \in [TokenCallers -> CallStates]
         /\ \A q \in TokenCallers : Settled(p)[q].pc = "idle"
         /\ \A q \in TokenCallers : q # p => call[q].pc \in {"idle", "wait"}
         /\ inflight
<1>1. \A q \in TokenCallers : q # p => call[q].pc \in {"idle", "wait"}
  <2>1. \A q \in TokenCallers : call[q].pc \in {"idle", "wait"} \union Working
    BY AuthTyped DEF AuthIInv, CallStates, Working
  <2> QED BY <2>1 DEF AuthIInv, Refreshes
<1>2. Settled(p) \in [TokenCallers -> CallStates]
  BY AuthTyped, NoRefreshFits DEF AuthIInv, Settled
<1>3. \A q \in TokenCallers : Settled(p)[q].pc = "idle"
  BY <1>1, NoRefreshFits DEF Settled
<1>4. inflight
  BY DEF AuthIInv, Refreshes
<1> QED BY <1>1, <1>2, <1>3, <1>4

LEMMA IssueCounts ==
  ASSUME AuthTypeOK, Issue
  PROVE  /\ issued' = issued + 1 /\ issued' \in Tokens /\ issued' # 0
         /\ renewable' \subseteq Tokens \ {0}
<1>1. issued \in Nat /\ issued + 1 \in Tokens /\ issued + 1 # 0
  BY AuthTyped DEF Issue
<1>2. renewable \subseteq Tokens \ {0}
  BY DEF AuthTypeOK
<1> QED BY <1>1, <1>2 DEF Issue

(* What follows when nobody refreshes. *)
LEMMA QuietCalls ==
  ASSUME NEW f \in [TokenCallers -> CallStates], \A q \in TokenCallers : f[q].pc = "idle",
         call' = f, inflight' = FALSE
  PROVE  Refreshes' /\ Overlaps' /\ RefreshHolds'
<1>1. \A q \in TokenCallers : call'[q].pc = "idle"
  OBVIOUS
<1> QED BY <1>1 DEF Refreshes, Overlaps, RefreshHolds, Working

LEMMA AskTokenKeeps == ASSUME AuthIInv, NEW p \in TokenCallers, AskToken(p) PROVE AuthIInv'
<1>1. /\ call[p].pc = "idle"
      /\ UNCHANGED <<issued, renewable, age, file, db, mem, x, broke, fails>>
      /\ call[p] \in CallStates /\ mem \in Tokens
  BY AuthTyped DEF AskToken, AuthIInv
<1>2. CASE inflight /\ call' = [call EXCEPT ![p].pc = "wait"] /\ UNCHANGED <<inflight, raced>>
  <2> DEFINE y == [call[p] EXCEPT !.pc = "wait"]
  <2>1. y \in CallStates /\ y.pc = "wait"
    BY <1>1 DEF CallStates
  <2>2. call' = [call EXCEPT ![p] = y]
    BY <1>2, AuthTyped DEF AuthIInv
  <2> HIDE DEF y
  <2>3. /\ call' \in [TokenCallers -> CallStates]
        /\ call'[p] = y /\ \A q \in TokenCallers : q # p => call'[q] = call[q]
    BY <2>1, <2>2, CallTurn DEF AuthIInv
  <2>4. AuthTypeOK'
    BY <1>1, <1>2, <2>3 DEF AuthIInv, AuthTypeOK, CallStates
  <2>5. Refreshes'
    BY <1>1, <1>2, <2>1, <2>3 DEF AuthIInv, Refreshes, Working
  <2>6. RefreshHolds' /\ CallbackHolds' /\ Overlaps' /\ FileIsOld'
    BY <1>1, <1>2, <2>1, <2>3
    DEF AuthIInv, RefreshHolds, CallbackHolds, Overlaps, FileIsOld
  <2>7. MemoryIsDurable' /\ TokenStaysAlive'
    BY <1>1, <1>2, <2>1, <2>3 DEF AuthIInv, MemoryIsDurable, TokenStaysAlive
  <2> QED BY <2>4, <2>5, <2>6, <2>7 DEF AuthIInv
<1>3. CASE /\ ~inflight /\ call' = [call EXCEPT ![p] = [pc |-> "request", tok |-> mem]]
           /\ inflight' = TRUE /\ raced' = (raced \/ x.pc # "idle")
  <2> DEFINE y == [pc |-> "request", tok |-> mem]
  <2>1. y \in CallStates /\ y.pc = "request"
    BY <1>1 DEF CallStates
  <2> HIDE DEF y
  <2>2. /\ call' \in [TokenCallers -> CallStates]
        /\ call'[p] = y /\ \A q \in TokenCallers : q # p => call'[q] = call[q]
    BY <1>3, <2>1, CallTurn DEF AuthIInv, y
  <2>3. \A q \in TokenCallers : call[q].pc \notin Working /\ call[q].pc # "wait"
    BY <1>3 DEF AuthIInv, Refreshes
  <2>4. AuthTypeOK'
    BY <1>1, <1>3, <2>2 DEF AuthIInv, AuthTypeOK, CallStates
  <2>5. Refreshes'
    BY <1>3, <2>1, <2>2, <2>3 DEF Refreshes, Working
  <2>6. ~raced' /\ ~broke => mem = issued
    BY <1>3 DEF AuthIInv, TokenStaysAlive
  <2>7. RefreshHolds'
    BY <1>1, <2>1, <2>2, <2>3, <2>6 DEF RefreshHolds, Working
  <2>8. CallbackHolds' /\ Overlaps' /\ FileIsOld' /\ TokenStaysAlive'
    BY <1>1, <1>3 DEF AuthIInv, CallbackHolds, Overlaps, FileIsOld, TokenStaysAlive
  <2>9. MemoryIsDurable'
    BY <1>1, <1>3, <2>3 DEF AuthIInv, MemoryIsDurable, Working
  <2> QED BY <2>4, <2>5, <2>7, <2>8, <2>9 DEF AuthIInv
<1> QED BY <1>2, <1>3 DEF AskToken

LEMMA RotateKeeps == ASSUME AuthIInv, NEW p \in TokenCallers, Rotate(p) PROVE AuthIInv'
<1> DEFINE y == [pc |-> "persist", tok |-> issued + 1]
<1>1. /\ call[p].pc = "request" /\ Issue /\ call' = [call EXCEPT ![p] = y]
      /\ UNCHANGED <<age, file, db, mem, inflight, x, raced, broke, fails>>
  BY DEF Rotate
<1>2. /\ issued' = issued + 1 /\ issued' \in Tokens /\ issued' # 0
      /\ renewable' \subseteq Tokens \ {0}
  BY <1>1, IssueCounts DEF AuthIInv
<1>3. y \in CallStates /\ y.pc = "persist" /\ y.tok = issued'
  BY <1>2 DEF CallStates
<1> HIDE DEF y
<1>4. /\ call' \in [TokenCallers -> CallStates]
      /\ call'[p] = y /\ \A q \in TokenCallers : q # p => call'[q] = call[q]
  BY <1>1, <1>3, CallTurn DEF AuthIInv
<1>5. /\ \A q \in TokenCallers : q # p => call[q].pc \in {"idle", "wait"}
      /\ inflight
  BY <1>1, SettledEnds DEF Working
<1>6. AuthTypeOK'
  BY <1>1, <1>2, <1>4 DEF AuthIInv, AuthTypeOK, CallStates
<1>7. Refreshes'
  BY <1>1, <1>3, <1>4, <1>5 DEF AuthIInv, Refreshes, Working
<1>8. RefreshHolds'
  BY <1>3, <1>4, <1>5 DEF RefreshHolds
<1>9. Overlaps' /\ CallbackHolds' /\ FileIsOld' /\ TokenStaysAlive'
  BY <1>1, <1>2, <1>5 DEF AuthIInv, Overlaps, CallbackHolds, FileIsOld, TokenStaysAlive
<1>10. MemoryIsDurable'
  BY <1>1, <1>3, <1>4, <1>5 DEF AuthIInv, MemoryIsDurable
<1> QED BY <1>6, <1>7, <1>8, <1>9, <1>10 DEF AuthIInv

(* A refresh that ends without a token of its own. *)
LEMMA EndedKeeps ==
  ASSUME AuthIInv, NEW p \in TokenCallers,
         RotateLost(p) \/ Refused(p) \/ PersistFails(p)
  PROVE  AuthIInv'
<1>1. /\ call[p].pc \in {"request", "persist"} /\ call' = Settled(p) /\ inflight' = FALSE
      /\ UNCHANGED <<age, file, db, mem, x, raced>>
      /\ broke' = TRUE \/ (call[p].pc = "request" /\ UNCHANGED <<broke, issued>>)
      /\ Issue \/ UNCHANGED <<issued, renewable>>
      /\ fails' \in Nat
  BY DEF RotateLost, Refused, PersistFails, SpendFail, AuthIInv, AuthTypeOK
<1>2. /\ Settled(p) \in [TokenCallers -> CallStates]
      /\ \A q \in TokenCallers : Settled(p)[q].pc = "idle"
      /\ \A q \in TokenCallers : q # p => call[q].pc \in {"idle", "wait"}
      /\ inflight
  BY <1>1, SettledEnds DEF Working
<1>3. Refreshes' /\ Overlaps' /\ RefreshHolds'
  BY <1>1, <1>2, QuietCalls
<1>4. issued' \in Tokens /\ renewable' \subseteq Tokens \ {0} /\ (issued' = 0 => issued = 0)
  BY <1>1, IssueCounts, AuthTyped DEF AuthIInv, AuthTypeOK
<1>5. AuthTypeOK'
  BY <1>1, <1>2, <1>4 DEF AuthIInv, AuthTypeOK, CallStates
<1>6. ~raced => x.pc = "idle"
  BY <1>2 DEF AuthIInv, Overlaps
<1>7. CallbackHolds' /\ FileIsOld'
  BY <1>1, <1>4, <1>6 DEF AuthIInv, CallbackHolds, FileIsOld
<1>8. MemoryIsDurable'
  BY <1>1, <1>2, <1>6 DEF AuthIInv, MemoryIsDurable
<1>9. TokenStaysAlive'
  BY <1>1 DEF AuthIInv, RefreshHolds, TokenStaysAlive
<1> QED BY <1>3, <1>5, <1>7, <1>8, <1>9 DEF AuthIInv

LEMMA PersistKeeps == ASSUME AuthIInv, NEW p \in TokenCallers, Persist(p) PROVE AuthIInv'
<1> DEFINE y == [call[p] EXCEPT !.pc = "assign"]
<1>1. /\ call[p].pc = "persist" /\ call[p] \in CallStates /\ db' = call[p].tok
      /\ UNCHANGED <<issued, renewable, age, file, mem, inflight, x, raced, broke, fails>>
  BY AuthTyped DEF Persist, AuthIInv
<1>2. y \in CallStates /\ y.pc = "assign" /\ y.tok = call[p].tok /\ call[p].tok \in Tokens
  BY <1>1 DEF CallStates
<1>3. call' = [call EXCEPT ![p] = y]
  BY AuthTyped DEF Persist, AuthIInv
<1> HIDE DEF y
<1>4. /\ call' \in [TokenCallers -> CallStates]
      /\ call'[p] = y /\ \A q \in TokenCallers : q # p => call'[q] = call[q]
  BY <1>2, <1>3, CallTurn DEF AuthIInv
<1>5. /\ \A q \in TokenCallers : q # p => call[q].pc \in {"idle", "wait"}
      /\ inflight
  BY <1>1, SettledEnds DEF Working
<1>6. AuthTypeOK'
  BY <1>1, <1>2, <1>4 DEF AuthIInv, AuthTypeOK, CallStates
<1>7. Refreshes'
  BY <1>1, <1>2, <1>4, <1>5 DEF AuthIInv, Refreshes, Working
<1>8. RefreshHolds'
  BY <1>1, <1>2, <1>4, <1>5 DEF AuthIInv, RefreshHolds
<1>9. Overlaps' /\ CallbackHolds' /\ FileIsOld' /\ TokenStaysAlive'
  BY <1>1, <1>5 DEF AuthIInv, Overlaps, CallbackHolds, FileIsOld, TokenStaysAlive
<1>10. MemoryIsDurable'
  BY <1>2, <1>4 DEF MemoryIsDurable
<1> QED BY <1>6, <1>7, <1>8, <1>9, <1>10 DEF AuthIInv

LEMMA AssignKeeps == ASSUME AuthIInv, NEW p \in TokenCallers, Assign(p) PROVE AuthIInv'
<1>1. /\ call[p].pc = "assign" /\ mem' = call[p].tok /\ call' = Settled(p) /\ inflight' = FALSE
      /\ UNCHANGED <<issued, renewable, age, file, db, x, raced, broke, fails>>
      /\ call[p].tok \in Tokens
  BY AuthTyped DEF Assign, AuthIInv, CallStates
<1>2. /\ Settled(p) \in [TokenCallers -> CallStates]
      /\ \A q \in TokenCallers : Settled(p)[q].pc = "idle"
      /\ inflight
  BY <1>1, SettledEnds DEF Working
<1>3. Refreshes' /\ Overlaps' /\ RefreshHolds'
  BY <1>1, <1>2, QuietCalls
<1>4. AuthTypeOK'
  BY <1>1, <1>2 DEF AuthIInv, AuthTypeOK, CallStates
<1>5. CallbackHolds' /\ FileIsOld'
  BY <1>1 DEF AuthIInv, CallbackHolds, FileIsOld
<1>6. MemoryIsDurable' /\ TokenStaysAlive'
  BY <1>1 DEF AuthIInv, RefreshHolds, MemoryIsDurable, TokenStaysAlive
<1> QED BY <1>3, <1>4, <1>5, <1>6 DEF AuthIInv

LEMMA CallbackKeeps == ASSUME AuthIInv, Callback PROVE AuthIInv'
<1>1. UNCHANGED <<age, file, inflight, call>> /\ fails' \in Nat
  BY DEF Callback, Exchange, ExchangePersist, ExchangeFails, ExchangeAssign, SpendFail,
         AuthIInv, AuthTypeOK
<1>2. Refreshes'
  BY <1>1 DEF AuthIInv, Refreshes
<1>3. ASSUME ~inflight \/ (~raced /\ x.pc # "idle") PROVE \A q \in TokenCallers : call[q].pc = "idle"
  <2>1. ~inflight
    BY <1>3 DEF AuthIInv, Overlaps
  <2> QED BY <2>1, AuthTyped DEF AuthIInv, Refreshes, Working, CallStates
<1>4. CASE Exchange
  <2>1. /\ issued' = issued + 1 /\ issued' \in Tokens /\ issued' # 0
        /\ renewable' \subseteq Tokens \ {0}
    BY <1>4, IssueCounts DEF AuthIInv, Exchange
  <2>2. /\ x' = [pc |-> "persist", tok |-> issued'] /\ raced' = (raced \/ inflight)
        /\ UNCHANGED <<db, mem, broke>> /\ x.pc = "idle"
    BY <1>4, <2>1 DEF Exchange
  <2>3. AuthTypeOK'
    BY <1>1, <2>1, <2>2 DEF AuthIInv, AuthTypeOK
  <2>4. RefreshHolds'
    <3>1. CASE inflight
      BY <2>2, <3>1 DEF RefreshHolds
    <3>2. CASE ~inflight
      <4>1. \A q \in TokenCallers : call'[q].pc = "idle"
        BY <1>1, <1>3, <3>2
      <4> QED BY <4>1 DEF RefreshHolds
    <3> QED BY <3>1, <3>2
  <2>5. Overlaps' /\ CallbackHolds' /\ FileIsOld' /\ TokenStaysAlive'
    BY <1>1, <2>1, <2>2 DEF AuthIInv, Overlaps, CallbackHolds, FileIsOld, TokenStaysAlive
  <2>6. MemoryIsDurable'
    BY <1>1, <2>2 DEF AuthIInv, MemoryIsDurable
  <2> QED BY <1>2, <2>3, <2>4, <2>5, <2>6 DEF AuthIInv
<1>5. CASE ExchangePersist
  <2>1. /\ x.pc = "persist" /\ db' = x.tok /\ x' = [x EXCEPT !.pc = "assign"]
        /\ UNCHANGED <<issued, renewable, mem, raced, broke>>
    BY <1>5 DEF ExchangePersist
  <2>2. x'.pc = "assign" /\ x'.tok = x.tok /\ x.tok \in Tokens
        /\ x' \in [pc : {"idle", "persist", "assign"}, tok : Tokens]
    BY <2>1, AuthTyped DEF AuthIInv
  <2>3. AuthTypeOK'
    BY <1>1, <2>1, <2>2 DEF AuthIInv, AuthTypeOK
  <2>4. RefreshHolds'
    BY <1>1, <1>3, <2>1 DEF RefreshHolds
  <2>5. Overlaps' /\ CallbackHolds' /\ FileIsOld' /\ TokenStaysAlive' /\ MemoryIsDurable'
    BY <1>1, <2>1, <2>2
    DEF AuthIInv, Overlaps, CallbackHolds, FileIsOld, TokenStaysAlive, MemoryIsDurable
  <2> QED BY <1>2, <2>3, <2>4, <2>5 DEF AuthIInv
<1>6. CASE ExchangeFails
  <2>1. /\ x.pc = "persist" /\ x' = NoRefresh /\ broke' = TRUE
        /\ UNCHANGED <<issued, renewable, db, mem, raced>>
    BY <1>6 DEF ExchangeFails
  <2>2. x'.pc = "idle" /\ x' \in [pc : {"idle", "persist", "assign"}, tok : Tokens]
    BY <2>1, BoundsAssumption DEF NoRefresh, Tokens
  <2>3. AuthTypeOK'
    BY <1>1, <2>1, <2>2 DEF AuthIInv, AuthTypeOK
  <2>4. RefreshHolds'
    BY <1>1, <1>3, <2>1 DEF RefreshHolds
  <2>5. MemoryIsDurable'
    BY <1>1, <1>3, <2>1 DEF AuthIInv, MemoryIsDurable
  <2>6. Overlaps' /\ CallbackHolds' /\ FileIsOld' /\ TokenStaysAlive'
    BY <1>1, <2>1, <2>2 DEF AuthIInv, Overlaps, CallbackHolds, FileIsOld, TokenStaysAlive
  <2> QED BY <1>2, <2>3, <2>4, <2>5, <2>6 DEF AuthIInv
<1>7. CASE ExchangeAssign
  <2>1. /\ x.pc = "assign" /\ mem' = x.tok /\ x' = NoRefresh /\ broke' = (broke /\ raced)
        /\ UNCHANGED <<issued, renewable, db, raced>>
    BY <1>7 DEF ExchangeAssign
  <2>2. /\ x'.pc = "idle" /\ x' \in [pc : {"idle", "persist", "assign"}, tok : Tokens]
        /\ x.tok \in Tokens
    BY <2>1, BoundsAssumption, AuthTyped DEF AuthIInv, NoRefresh, Tokens
  <2>3. AuthTypeOK'
    BY <1>1, <2>1, <2>2 DEF AuthIInv, AuthTypeOK
  <2>4. RefreshHolds'
    BY <1>1, <1>3, <2>1 DEF RefreshHolds
  <2>5. Overlaps' /\ CallbackHolds' /\ FileIsOld' /\ TokenStaysAlive' /\ MemoryIsDurable'
    BY <1>1, <2>1, <2>2
    DEF AuthIInv, Overlaps, CallbackHolds, FileIsOld, TokenStaysAlive, MemoryIsDurable
  <2> QED BY <1>2, <2>3, <2>4, <2>5 DEF AuthIInv
<1> QED BY <1>4, <1>5, <1>6, <1>7 DEF Callback

LEMMA AgesKeep == ASSUME AuthIInv, NEW t \in Tokens, Ages(t) PROVE AuthIInv'
<1>1. /\ age' = [age EXCEPT ![t] = IF @ = "fresh" THEN "soon" ELSE "due"]
      /\ UNCHANGED <<issued, renewable, file, db, mem, inflight, call, x, raced, broke, fails>>
  BY DEF Ages
<1>2. AuthTypeOK'
  BY <1>1 DEF AuthIInv, AuthTypeOK
<1> QED BY <1>1, <1>2 DEF AuthIInv, Refreshes, Overlaps, CallbackHolds, RefreshHolds, FileIsOld,
                          MemoryIsDurable, TokenStaysAlive

LEMMA AuthRestartKeeps ==
  ASSUME AuthIInv, NEW loads \in BOOLEAN, NEW writes \in BOOLEAN, Restart(loads, writes)
  PROVE  AuthIInv'
<1>1. /\ Boot(loads, writes) /\ inflight' = FALSE /\ x' = NoRefresh /\ raced' = FALSE
      /\ call' = [p \in TokenCallers |-> NoRefresh]
      /\ broke' = (broke \/ ~loads \/ db # issued)
      /\ UNCHANGED <<issued, renewable, age, file>>
      /\ fails' \in Nat
  BY DEF Restart, SpendFail, AuthIInv, AuthTypeOK
<1>2. /\ call' \in [TokenCallers -> CallStates]
      /\ \A q \in TokenCallers : call'[q].pc = "idle"
      /\ x'.pc = "idle" /\ x' \in [pc : {"idle", "persist", "assign"}, tok : Tokens]
  BY <1>1, NoRefreshFits, BoundsAssumption DEF NoRefresh, Tokens
<1>3. mem' \in {0, db'} /\ mem' \in Tokens /\ db' \in Tokens
  BY <1>1, AuthTyped, BoundsAssumption DEF AuthIInv, Boot, Tokens
<1>4. Refreshes' /\ Overlaps' /\ RefreshHolds'
  BY <1>1, <1>2, QuietCalls
<1>5. AuthTypeOK'
  BY <1>1, <1>2, <1>3 DEF AuthIInv, AuthTypeOK, CallStates
<1>6. CallbackHolds' /\ FileIsOld' /\ MemoryIsDurable'
  BY <1>1, <1>2, <1>3 DEF AuthIInv, CallbackHolds, FileIsOld, MemoryIsDurable
<1>7. TokenStaysAlive'
  <2>1. ASSUME loads, db = issued PROVE mem' = issued
    BY <1>1, <2>1 DEF Boot, AuthIInv, FileIsOld
  <2> QED BY <1>1, <2>1 DEF TokenStaysAlive
<1> QED BY <1>4, <1>5, <1>6, <1>7 DEF AuthIInv

LEMMA AuthStarts == AuthInit => AuthIInv
<1> SUFFICES ASSUME AuthInit PROVE AuthIInv
  OBVIOUS
<1>1. PICK t \in {0, 1} : /\ issued = t /\ file = t /\ db = t /\ mem = t
                          /\ \E R \in SUBSET {t} : renewable = R \ {0}
  BY DEF AuthInit
<1>2. /\ \A p \in TokenCallers : call[p].pc = "idle"
      /\ call \in [TokenCallers -> CallStates] /\ x = NoRefresh /\ x.pc = "idle"
      /\ ~inflight /\ ~raced /\ ~broke /\ fails \in Nat
      /\ inflight \in BOOLEAN /\ raced \in BOOLEAN /\ broke \in BOOLEAN
  BY NoRefreshFits, BoundsAssumption DEF AuthInit
<1>3. t \in Tokens /\ renewable \subseteq Tokens \ {0}
  BY <1>1, BoundsAssumption DEF Tokens
<1>4. AuthTypeOK
  <2>1. age \in [Tokens -> {"fresh", "soon", "due"}]
    BY DEF AuthInit
  <2>2. x \in [pc : {"idle", "persist", "assign"}, tok : Tokens]
    BY <1>2, BoundsAssumption DEF NoRefresh, Tokens
  <2> QED BY <1>1, <1>2, <1>3, <2>1, <2>2 DEF AuthTypeOK, CallStates
<1>5. Refreshes /\ Overlaps /\ CallbackHolds /\ RefreshHolds
  BY <1>2 DEF Refreshes, Overlaps, CallbackHolds, RefreshHolds, Working
<1>6. FileIsOld /\ MemoryIsDurable /\ TokenStaysAlive
  BY <1>1 DEF FileIsOld, MemoryIsDurable, TokenStaysAlive
<1> QED BY <1>4, <1>5, <1>6 DEF AuthIInv

LEMMA AuthInductive == AuthIInv /\ [AuthNext]_authVars => AuthIInv'
<1> SUFFICES ASSUME AuthIInv, [AuthNext]_authVars PROVE AuthIInv'
  OBVIOUS
<1>1. ASSUME NEW p \in TokenCallers, AskToken(p) \/ Refresh(p) PROVE AuthIInv'
  BY <1>1, AskTokenKeeps, RotateKeeps, EndedKeeps, PersistKeeps, AssignKeeps DEF Refresh
<1>2. CASE UNCHANGED authVars
  <2>1. AuthTypeOK'
    BY <1>2 DEF AuthIInv, AuthTypeOK, authVars
  <2> QED BY <1>2, <2>1 DEF AuthIInv, authVars, Refreshes, Overlaps, CallbackHolds, RefreshHolds,
                            FileIsOld, MemoryIsDurable, TokenStaysAlive
<1> QED BY <1>1, <1>2, CallbackKeeps, AgesKeep, AuthRestartKeeps DEF AuthNext

(* The inductive invariant of the token service: one refresh at a time, and,
   unless a callback overlapped with it, what it asks with is what memory
   holds, what it assigns is what the table holds. *)
THEOREM TokenInvariance == AuthSpec => []AuthIInv
  BY AuthStarts, AuthInductive, PTL DEF AuthSpec

LEMMA OneRefreshCounted == AuthIInv => SingleFlight
<1> SUFFICES ASSUME AuthIInv PROVE SingleFlight
  OBVIOUS
<1>1. Refreshing = {p \in TokenCallers : call[p].pc \in Working}
  BY DEF Refreshing, Working
<1>2. inflight = (Refreshing # {})
  BY <1>1, AuthTyped DEF AuthIInv, Refreshes
<1>3. Cardinality(Refreshing) <= 1
  <2>1. CASE Refreshing = {}
    BY <2>1, FS_EmptySet
  <2>2. CASE Refreshing # {}
    <3>1. PICK p : p \in Refreshing
      BY <2>2
    <3>2. Refreshing = {p}
      BY <1>1, <3>1 DEF AuthIInv, Refreshes
    <3>3. Cardinality({p}) = 1
      BY FS_Singleton, Zenon
    <3> QED BY <3>2, <3>3
  <2> QED BY <2>1, <2>2
<1> QED BY <1>2, <1>3 DEF AuthIInv, Refreshes, SingleFlight

(* refreshToken is single flight, persists before it uses, and never leaves
   in memory a token that the server no longer renews, for any number of
   concurrent getAccessToken calls, callbacks, failures and restarts. *)
THEOREM TokenSurvives == AuthSpec => []TokenIsKept
<1>1. AuthIInv => TokenIsKept
  BY OneRefreshCounted DEF AuthIInv, TokenIsKept
<1> QED BY <1>1, TokenInvariance, PTL

-----------------------------------------------------------------------------
(* The browser. *)

AffCalls == [pc : Starts \union {"idle", "wait", "page", "drive", "save"},
             url : Urls \union {NoUrl}, b : Browsers \union {0}]
AffReloads == [pc : {"idle", "context", "browser", "read", "load"},
               b : Browsers \union {0}, seen : SUBSET Urls]

(* A reload that closes a browser closes the one that runs. *)
ClosesTheOne ==
  clean => \A r \in Reloaders : rl[r].pc = "browser" => running \subseteq {rl[r].b}

(* A link is saved for its url, and a context that is closed was one. *)
SavesUrls == \A p \in Callers : c[p].pc = "save" => c[p].url # NoUrl
ClosesContexts == \A r \in Reloaders : rl[r].pc = "context" => rl[r].b # 0

AffIInv == /\ TypeOK
           /\ SavesUrls
           /\ ClosesContexts
           /\ OneStart
           /\ SingleBrowser
           /\ ClosesTheOne

LEMMA AffTyped ==
  ASSUME TypeOK
  PROVE  /\ browser \in Browsers \union {0} /\ context \in Browsers \union {0}
         /\ running \subseteq Browsers /\ shut \subseteq Browsers
         /\ c \in [Callers -> AffCalls] /\ rl \in [Reloaders -> AffReloads]
         /\ links \in SUBSET Urls /\ table \in SUBSET Urls
         /\ state \in [saved : BOOLEAN, valid : BOOLEAN]
         /\ starting \in BOOLEAN /\ disabled \in BOOLEAN /\ clean \in BOOLEAN
         /\ budget \in [browsers : Nat, calls : Nat, faults : Nat]
         /\ MaxBrowsers \in Nat /\ 0 \notin Browsers
  BY LimitsAssumption DEF TypeOK, AffCalls, AffReloads, Browsers

LEMMA IdlesFit ==
  /\ Idle \in AffCalls /\ Idle.pc = "idle"
  /\ IdleReload \in AffReloads /\ IdleReload.pc = "idle"
  BY DEF Idle, IdleReload, AffCalls, AffReloads

LEMMA FaultSpends ==
  ASSUME TypeOK, Fault \/ UNCHANGED budget
  PROVE  budget' \in [browsers : Nat, calls : Nat, faults : Nat]
  BY AffTyped DEF Fault

(* A call goes on without starting or ending a start. *)
LEMMA CallGoesOn ==
  ASSUME AffIInv, NEW p \in Callers, NEW y \in AffCalls, c' = [c EXCEPT ![p] = y],
         UNCHANGED starting, (y.pc \in Starts <=> c[p].pc \in Starts), y.pc # "wait",
         y.pc = "save" => y.url # NoUrl
  PROVE  c' \in [Callers -> AffCalls] /\ OneStart' /\ SavesUrls'
<1>1. /\ c' \in [Callers -> AffCalls]
      /\ c'[p] = y /\ \A q \in Callers : q # p => c'[q] = c[q]
  BY AffTyped DEF AffIInv
<1>2. \A q \in Callers : (c'[q].pc \in Starts <=> c[q].pc \in Starts)
  BY <1>1
<1>3. (\E q \in Callers : c'[q].pc \in Starts) <=> (\E q \in Callers : c[q].pc \in Starts)
  BY <1>2
<1>4. (\E q \in Callers : c'[q].pc = "wait") => (\E q \in Callers : c[q].pc = "wait")
  BY <1>1
<1>5. SavesUrls'
  BY <1>1 DEF AffIInv, SavesUrls
<1> QED BY <1>1, <1>2, <1>3, <1>4, <1>5 DEF AffIInv, OneStart

(* A start ends and lets go whoever waits for it. *)
LEMMA StartEnds ==
  ASSUME AffIInv, NEW p \in Callers, c[p].pc \in Starts, starting' = FALSE,
         c' \in [Callers -> AffCalls],
         \A q \in Callers : IF q \in Sharing(p) THEN c'[q].pc \in {"idle", "page"}
                                                ELSE c'[q] = c[q]
  PROVE  OneStart' /\ SavesUrls'
<1>1. \A q \in Callers : c'[q].pc \notin Starts /\ c'[q].pc # "wait"
  <2> SUFFICES ASSUME NEW q \in Callers PROVE c'[q].pc \notin Starts /\ c'[q].pc # "wait"
    OBVIOUS
  <2>1. CASE q \in Sharing(p)
    BY <2>1 DEF Starts
  <2>2. CASE q \notin Sharing(p)
    <3>1. c'[q] = c[q] /\ q # p /\ c[q].pc # "wait"
      BY <2>2 DEF Sharing
    <3> QED BY <3>1 DEF AffIInv, OneStart
  <2> QED BY <2>1, <2>2
<1>2. SavesUrls'
  BY DEF AffIInv, SavesUrls
<1> QED BY <1>1, <1>2 DEF OneStart

LEMMA StartFailsEnds ==
  ASSUME AffIInv, NEW p \in Callers, c[p].pc \in Starts, StartFails(p)
  PROVE  c' \in [Callers -> AffCalls] /\ starting' = FALSE /\ OneStart' /\ SavesUrls'
<1>1. starting' = FALSE /\ c' = [q \in Callers |-> IF q \in Sharing(p) THEN Idle ELSE c[q]]
  BY DEF StartFails
<1>2. c' \in [Callers -> AffCalls]
  BY <1>1, AffTyped, IdlesFit DEF AffIInv
<1>3. \A q \in Callers : IF q \in Sharing(p) THEN c'[q].pc \in {"idle", "page"}
                                             ELSE c'[q] = c[q]
  BY <1>1, IdlesFit
<1> QED BY <1>1, <1>2, <1>3, StartEnds

LEMMA StartSucceedsEnds ==
  ASSUME AffIInv, NEW p \in Callers, c[p].pc \in Starts, StartSucceeds(p), UNCHANGED context
  PROVE  /\ c' \in [Callers -> AffCalls] /\ starting' = FALSE /\ disabled' \in BOOLEAN
         /\ OneStart' /\ SavesUrls'
<1>1. starting' = FALSE /\ disabled' \in BOOLEAN
  BY AffTyped DEF StartSucceeds, AffIInv
<1>2. DOMAIN c' = Callers /\ c' = [q \in Callers |-> c'[q]]
  BY DEF StartSucceeds
<1>3. ASSUME NEW q \in Callers
      PROVE  /\ c'[q] \in AffCalls
             /\ IF q \in Sharing(p) THEN c'[q].pc \in {"idle", "page"} ELSE c'[q] = c[q]
  <2>1. c[q] \in AffCalls /\ context \in Browsers \union {0}
    BY AffTyped DEF AffIInv
  <2>2. CASE q \notin Sharing(p)
    BY <2>1, <2>2 DEF StartSucceeds
  <2>3. CASE q \in Sharing(p) /\ context = 0
    BY <2>3, IdlesFit DEF StartSucceeds
  <2>4. CASE q \in Sharing(p) /\ context # 0
    <3>1. c'[q] = [c[q] EXCEPT !.pc = "page", !.b = context]
      BY <2>4 DEF StartSucceeds
    <3> QED BY <2>1, <2>4, <3>1 DEF AffCalls
  <2> QED BY <2>2, <2>3, <2>4
<1>4. c' \in [Callers -> AffCalls]
  BY <1>2, <1>3
<1> QED BY <1>1, <1>3, <1>4, StartEnds

(* A step that launches no browser and leaves the reloads alone. *)
LEMMA BrowserStands ==
  ASSUME AffIInv, UNCHANGED <<browser, rl, clean>>, running' \subseteq running
  PROVE  SingleBrowser' /\ ClosesTheOne' /\ ClosesContexts'
  BY DEF AffIInv, SingleBrowser, ClosesTheOne, ClosesContexts

LEMMA AskKeeps ==
  ASSUME AffIInv, NEW p \in Callers, NEW u \in Urls \union {NoUrl}, Ask(p, u)
  PROVE  AffIInv'
<1> DEFINE y == IF context # 0 THEN [pc |-> "page", url |-> u, b |-> context]
                ELSE [pc |-> IF starting THEN "wait" ELSE "state", url |-> u, b |-> 0]
<1>1. /\ c[p].pc = "idle" /\ c' = [c EXCEPT ![p] = y]
      /\ starting' = (starting \/ context = 0)
      /\ budget.calls > 0 /\ budget' = [budget EXCEPT !.calls = @ - 1]
      /\ UNCHANGED <<browser, context, running, shut, rl, links, table, state, disabled, clean>>
  BY DEF Ask
<1>2. /\ y \in AffCalls
      /\ context # 0 => y.pc = "page"
      /\ context = 0 /\ starting => y.pc = "wait"
      /\ context = 0 /\ ~starting => y.pc = "state"
  BY AffTyped DEF AffIInv, AffCalls, Starts
<1> HIDE DEF y
<1>3. /\ c' \in [Callers -> AffCalls]
      /\ c'[p] = y /\ \A q \in Callers : q # p => c'[q] = c[q]
  BY <1>1, <1>2, AffTyped DEF AffIInv
<1>4. TypeOK'
  <2>1. budget' \in [browsers : Nat, calls : Nat, faults : Nat] /\ starting' \in BOOLEAN
    BY <1>1, AffTyped DEF AffIInv
  <2> QED BY <1>1, <1>3, <2>1 DEF AffIInv, TypeOK, AffCalls
<1>5. OneStart'
  <2>1. CASE context # 0
    <3>1. (y.pc \in Starts <=> c[p].pc \in Starts) /\ y.pc # "wait" /\ starting' = starting
      BY <1>1, <1>2, <2>1, AffTyped DEF AffIInv, Starts
    <3> QED BY <1>1, <1>2, <3>1, CallGoesOn
  <2>2. CASE context = 0 /\ starting
    <3>1. /\ starting' /\ y.pc \notin Starts
          /\ \A q \in Callers : (c'[q].pc \in Starts <=> c[q].pc \in Starts)
      BY <1>1, <1>2, <1>3, <2>2 DEF Starts
    <3>2. \E q \in Callers : c'[q].pc \in Starts
      BY <2>2, <3>1 DEF AffIInv, OneStart
    <3> QED BY <3>1, <3>2 DEF AffIInv, OneStart
  <2>3. CASE context = 0 /\ ~starting
    <3>1. \A q \in Callers : c[q].pc \notin Starts /\ c[q].pc # "wait"
      BY <2>3 DEF AffIInv, OneStart
    <3>2. y.pc = "state" /\ starting' /\ "state" \in Starts
      BY <1>1, <1>2, <2>3 DEF Starts
    <3> QED BY <1>3, <3>1, <3>2 DEF OneStart
  <2> QED BY <2>1, <2>2, <2>3
<1>6. SingleBrowser' /\ ClosesTheOne' /\ ClosesContexts'
  BY <1>1, BrowserStands
<1>7. SavesUrls'
  BY <1>2, <1>3 DEF AffIInv, SavesUrls
<1> QED BY <1>4, <1>5, <1>6, <1>7 DEF AffIInv

(* The steps of a start but the launch and its ends, and those of a page. *)
LEMMA CallStepsKeep ==
  ASSUME AffIInv, NEW p \in Callers,
         \/ Probe(p) \/ Login(p) \/ NewContext(p)
         \/ Page(p) \/ PageFails(p) \/ Redirected(p) \/ Driven(p) \/ Save(p)
  PROVE  AffIInv'
<1>1. /\ UNCHANGED <<browser, starting, running, shut, rl, clean>>
      /\ Fault \/ UNCHANGED budget
      /\ c[p] \in AffCalls
  BY AffTyped
  DEF Probe, Login, NewContext, Page, PageFails, Redirected, Driven, Save, AffIInv
<1>2. SingleBrowser' /\ ClosesTheOne' /\ ClosesContexts'
  BY <1>1, BrowserStands
<1>3. PICK y \in AffCalls :
        /\ c' = [c EXCEPT ![p] = y]
        /\ (y.pc \in Starts <=> c[p].pc \in Starts) /\ y.pc # "wait"
        /\ y.pc = "save" => y.url # NoUrl
  <2>1. ASSUME NEW q \in {"launch", "headed", "script", "drive", "save"},
               c' = [c EXCEPT ![p].pc = q]
        PROVE  \E y \in AffCalls : c' = [c EXCEPT ![p] = y] /\ y.pc = q /\ y.url = c[p].url
    <3> DEFINE y == [c[p] EXCEPT !.pc = q]
    <3>1. y \in AffCalls /\ y.pc = q /\ y.url = c[p].url
      BY <1>1 DEF AffCalls, Starts
    <3>2. c' = [c EXCEPT ![p] = y]
      BY <2>1, AffTyped DEF AffIInv
    <3> QED BY <3>1, <3>2
  <2>2. CASE Probe(p)
    <3>1. PICK q \in {"launch", "headed"} : c' = [c EXCEPT ![p].pc = q]
      BY <2>2 DEF Probe
    <3> QED BY <2>1, <2>2, <3>1 DEF Probe, Starts
  <2>3. CASE Login(p)
    BY <2>1, <2>3 DEF Login, Starts
  <2>4. CASE NewContext(p)
    BY <2>1, <2>4 DEF NewContext, Starts
  <2>5. CASE Page(p)
    BY <2>1, <2>5 DEF Page, Starts
  <2>6. CASE c' = [c EXCEPT ![p] = Idle] /\ c[p].pc \in {"page", "drive", "save"}
    BY <2>6, IdlesFit DEF Starts
  <2>7. CASE Driven(p)
    <3>1. CASE c[p].url = NoUrl
      BY <2>6, <2>7, <3>1 DEF Driven
    <3>2. CASE c[p].url # NoUrl
      BY <2>1, <2>7, <3>2 DEF Driven, Starts
    <3> QED BY <3>1, <3>2
  <2> QED BY <2>2, <2>3, <2>4, <2>5, <2>6, <2>7 DEF PageFails, Redirected, Save
<1>4. c' \in [Callers -> AffCalls] /\ OneStart' /\ SavesUrls'
  BY <1>1, <1>3, CallGoesOn
<1>5. TypeOK'
  <2>1. context' \in Browsers \union {0}
    BY <1>1, AffTyped
    DEF Probe, Login, NewContext, Page, PageFails, Redirected, Driven, Save, AffIInv, AffCalls
  <2>2. links' \in SUBSET Urls
    <3>1. CASE Driven(p)
      BY <1>1, <3>1, AffTyped DEF Driven, AffIInv, AffCalls
    <3>2. CASE ~Driven(p)
      BY <3>2, AffTyped DEF Probe, Login, NewContext, Page, PageFails, Redirected, Save, AffIInv
    <3> QED BY <3>1, <3>2
  <2>3. disabled' \in BOOLEAN
    BY AffTyped
    DEF Probe, Login, NewContext, Page, PageFails, Redirected, Driven, Save, AffIInv
  <2>4. state' \in [saved : BOOLEAN, valid : BOOLEAN]
    BY AffTyped
    DEF Probe, Login, NewContext, Page, PageFails, Redirected, Driven, Save, AffIInv
  <2>5. budget' \in [browsers : Nat, calls : Nat, faults : Nat]
    BY <1>1, FaultSpends DEF AffIInv
  <2>6. CASE ~Save(p)
    <3>1. UNCHANGED table
      BY <2>6 DEF Probe, Login, NewContext, Page, PageFails, Redirected, Driven
    <3> QED BY <1>1, <1>4, <2>1, <2>2, <2>3, <2>4, <2>5, <3>1 DEF AffIInv, TypeOK, AffCalls
  <2>7. CASE Save(p)
    <3>1. table' \in SUBSET Urls
      <4>1. c[p].pc = "save" /\ c[p].url \in Urls \union {NoUrl}
        BY <1>1, <2>7 DEF Save, AffCalls
      <4>2. c[p].url \in Urls
        BY <4>1 DEF AffIInv, SavesUrls
      <4> QED BY <2>7, <4>2, AffTyped DEF Save, AffIInv
    <3> QED BY <1>1, <1>4, <2>1, <2>2, <2>3, <2>4, <2>5, <3>1 DEF AffIInv, TypeOK, AffCalls
  <2> QED BY <2>6, <2>7
<1> QED BY <1>2, <1>4, <1>5 DEF AffIInv

(* Nobody holds a browser that runs when another comes up. *)
LEMMA LaunchKeeps == ASSUME AffIInv, NEW p \in Callers, Launch(p) PROVE AffIInv'
<1>1. PICK b \in Browsers :
        /\ browser' = b /\ running' = running \union {b}
        /\ c' = [c EXCEPT ![p].pc = "context", ![p].b = b]
  BY DEF Launch
<1> DEFINE y == [c[p] EXCEPT !.pc = "context", !.b = b]
<1>2. /\ c[p].pc = "launch" /\ c[p] \in AffCalls
      /\ clean' = (clean /\ ~Reloading /\ browser \notin running)
      /\ budget' = [budget EXCEPT !.browsers = @ - 1] /\ budget.browsers = MaxBrowsers + 1 - b
      /\ UNCHANGED <<context, starting, shut, rl, links, table, state, disabled>>
  <2>1. PICK e \in Browsers : budget.browsers = MaxBrowsers + 1 - e /\ browser' = e
    BY DEF Launch
  <2>2. e = b
    BY <1>1, <2>1
  <2> QED BY <2>1, <2>2, AffTyped DEF Launch, AffIInv
<1>3. y \in AffCalls /\ y.pc = "context" /\ c' = [c EXCEPT ![p] = y]
  <2>1. y \in AffCalls /\ y.pc = "context"
    BY <1>2 DEF AffCalls, Starts
  <2> QED BY <1>1, <2>1, AffTyped DEF AffIInv
<1> HIDE DEF y
<1>4. c' \in [Callers -> AffCalls] /\ OneStart' /\ SavesUrls'
  BY <1>2, <1>3, CallGoesOn DEF Starts
<1>5. budget' \in [browsers : Nat, calls : Nat, faults : Nat]
  <2>1. b \in 1..MaxBrowsers /\ MaxBrowsers \in Nat
    BY AffTyped DEF AffIInv, Browsers
  <2>2. budget.browsers - 1 \in Nat
    BY <1>2, <2>1
  <2> QED BY <1>2, <2>2, AffTyped DEF AffIInv
<1>6. TypeOK'
  <2>1. clean' \in BOOLEAN
    BY <1>2, AffTyped DEF AffIInv, Reloading
  <2> QED BY <1>1, <1>2, <1>4, <1>5, <2>1 DEF AffIInv, TypeOK, AffCalls
<1>7. SingleBrowser'
  BY <1>1, <1>2 DEF AffIInv, SingleBrowser
<1>8. ClosesTheOne' /\ ClosesContexts'
  BY <1>2 DEF AffIInv, ClosesTheOne, ClosesContexts, Reloading
<1> QED BY <1>4, <1>6, <1>7, <1>8 DEF AffIInv

LEMMA StartsEndKeep ==
  ASSUME AffIInv, NEW p \in Callers,
         LaunchFails(p) \/ NewContextFails(p) \/ Ready(p) \/ ScriptFails(p)
  PROVE  AffIInv'
<1>1. /\ c[p].pc \in Starts
      /\ UNCHANGED <<browser, context, running, shut, rl, links, table, state, clean>>
      /\ Fault \/ UNCHANGED budget
      /\ StartSucceeds(p) \/ (StartFails(p) /\ UNCHANGED disabled)
  BY DEF LaunchFails, NewContextFails, Ready, ScriptFails, Starts
<1>2. c' \in [Callers -> AffCalls] /\ starting' = FALSE /\ disabled' \in BOOLEAN
      /\ OneStart' /\ SavesUrls'
  BY <1>1, StartFailsEnds, StartSucceedsEnds, AffTyped DEF AffIInv
<1>3. budget' \in [browsers : Nat, calls : Nat, faults : Nat]
  BY <1>1, FaultSpends DEF AffIInv
<1>4. TypeOK'
  BY <1>1, <1>2, <1>3 DEF AffIInv, TypeOK, AffCalls
<1> QED BY <1>1, <1>2, <1>4, BrowserStands DEF AffIInv

(* A reload goes on without touching the browser, or asks to close the one
   there is. *)
LEMMA ReloadGoesOn ==
  ASSUME AffIInv, NEW r \in Reloaders, NEW y \in AffReloads, rl' = [rl EXCEPT ![r] = y],
         UNCHANGED <<browser, running, clean, c, starting>>,
         y.pc = "browser" => y.b = browser,
         y.pc = "context" => y.b # 0
  PROVE  /\ rl' \in [Reloaders -> AffReloads]
         /\ OneStart' /\ SingleBrowser' /\ ClosesTheOne' /\ ClosesContexts' /\ SavesUrls'
<1>1. /\ rl' \in [Reloaders -> AffReloads]
      /\ rl'[r] = y /\ \A q \in Reloaders : q # r => rl'[q] = rl[q]
  BY AffTyped DEF AffIInv
<1>2. OneStart' /\ SingleBrowser'
  BY DEF AffIInv, OneStart, SingleBrowser
<1>3. ClosesTheOne'
  BY <1>1 DEF AffIInv, SingleBrowser, ClosesTheOne
<1>4. ClosesContexts' /\ SavesUrls'
  BY <1>1 DEF AffIInv, ClosesContexts, SavesUrls
<1> QED BY <1>1, <1>2, <1>3, <1>4

LEMMA ReloadKeeps == ASSUME AffIInv, NEW r \in Reloaders, Reload(r) PROVE AffIInv'
<1>1. /\ budget.calls > 0 /\ budget' = [budget EXCEPT !.calls = @ - 1] /\ disabled' = FALSE
      /\ UNCHANGED <<browser, context, starting, running, shut, c, links, table, state, clean>>
  BY DEF Reload
<1>2. PICK y \in AffReloads : /\ rl' = [rl EXCEPT ![r] = y]
                              /\ y.pc = "browser" => y.b = browser
                              /\ y.pc = "context" => y.b # 0
  <2>1. browser \in Browsers \union {0} /\ context \in Browsers \union {0}
    BY AffTyped DEF AffIInv
  <2>2. CASE context # 0
    <3> DEFINE y == [IdleReload EXCEPT !.pc = "context", !.b = context]
    <3>1. y \in AffReloads /\ y.pc = "context" /\ y.b = context
      BY <2>1 DEF IdleReload, AffReloads
    <3>2. rl' = [rl EXCEPT ![r] = y]
      BY <2>2 DEF Reload
    <3> QED BY <2>2, <3>1, <3>2
  <2>3. CASE context = 0 /\ browser # 0
    <3> DEFINE y == [IdleReload EXCEPT !.pc = "browser", !.b = browser]
    <3>1. y \in AffReloads /\ y.pc = "browser" /\ y.b = browser
      BY <2>1 DEF IdleReload, AffReloads
    <3>2. rl' = [rl EXCEPT ![r] = y]
      BY <2>3 DEF Reload
    <3> QED BY <3>1, <3>2
  <2>4. CASE context = 0 /\ browser = 0
    <3> DEFINE y == [IdleReload EXCEPT !.pc = "read"]
    <3>1. y \in AffReloads /\ y.pc = "read"
      BY <2>1 DEF IdleReload, AffReloads
    <3>2. rl' = [rl EXCEPT ![r] = y]
      BY <2>4 DEF Reload
    <3> QED BY <3>1, <3>2
  <2> QED BY <2>2, <2>3, <2>4
<1>3. rl' \in [Reloaders -> AffReloads]
      /\ OneStart' /\ SingleBrowser' /\ ClosesTheOne' /\ ClosesContexts' /\ SavesUrls'
  BY <1>1, <1>2, ReloadGoesOn
<1>4. TypeOK'
  <2>1. budget' \in [browsers : Nat, calls : Nat, faults : Nat]
    BY <1>1, AffTyped DEF AffIInv
  <2> QED BY <1>1, <1>3, <2>1 DEF AffIInv, TypeOK, AffReloads
<1> QED BY <1>3, <1>4 DEF AffIInv

LEMMA ContextClosedKeeps == ASSUME AffIInv, NEW r \in Reloaders, ContextClosed(r) PROVE AffIInv'
<1>1. /\ rl[r].pc = "context" /\ shut' = shut \union {rl[r].b} /\ rl[r] \in AffReloads
      /\ UNCHANGED <<starting, running, c, links, table, state, disabled, clean, budget>>
  BY AffTyped DEF ContextClosed, AffIInv
<1>2. PICK y \in AffReloads : /\ rl' = [rl EXCEPT ![r] = y]
                              /\ y.pc = "browser" => y.b = browser
                              /\ y.pc = "context" => y.b # 0
  <2>1. CASE browser # 0
    <3> DEFINE y == [rl[r] EXCEPT !.pc = "browser", !.b = browser]
    <3>1. y \in AffReloads /\ y.pc = "browser" /\ y.b = browser
      BY <1>1, AffTyped DEF AffIInv, AffReloads
    <3>2. rl' = [rl EXCEPT ![r] = y]
      BY <2>1, AffTyped DEF ContextClosed, AffIInv
    <3> QED BY <3>1, <3>2
  <2>2. CASE browser = 0
    <3> DEFINE y == [rl[r] EXCEPT !.pc = "read"]
    <3>1. y \in AffReloads /\ y.pc = "read"
      BY <1>1 DEF AffReloads
    <3>2. rl' = [rl EXCEPT ![r] = y]
      BY <2>2, AffTyped DEF ContextClosed, AffIInv
    <3> QED BY <3>1, <3>2
  <2> QED BY <2>1, <2>2
<1>3. UNCHANGED browser /\ context' \in {0, context}
  BY DEF ContextClosed
<1>4. rl' \in [Reloaders -> AffReloads]
      /\ OneStart' /\ SingleBrowser' /\ ClosesTheOne' /\ ClosesContexts' /\ SavesUrls'
  BY <1>1, <1>2, <1>3, ReloadGoesOn
<1>5. TypeOK'
  <2>1. rl[r].b \in Browsers
    BY <1>1 DEF AffIInv, AffReloads, ClosesContexts
  <2>2. context' \in Browsers \union {0} /\ shut' \subseteq Browsers
    BY <1>1, <1>3, <2>1, AffTyped DEF AffIInv
  <2> QED BY <1>1, <1>3, <1>4, <2>2 DEF AffIInv, TypeOK, AffReloads
<1> QED BY <1>4, <1>5 DEF AffIInv

(* The fields are cleared whatever they hold: with one browser that runs,
   nothing is forgotten. *)
LEMMA BrowserClosedKeeps == ASSUME AffIInv, NEW r \in Reloaders, BrowserClosed(r) PROVE AffIInv'
<1> DEFINE y == [rl[r] EXCEPT !.pc = "read"]
<1>1. /\ rl[r].pc = "browser" /\ running' = running \ {rl[r].b} /\ browser' = 0 /\ context' = 0
      /\ UNCHANGED <<starting, shut, c, links, table, state, disabled, clean, budget>>
      /\ rl[r] \in AffReloads /\ rl' = [rl EXCEPT ![r] = y]
  BY AffTyped DEF BrowserClosed, AffIInv
<1>2. y \in AffReloads /\ y.pc = "read"
  BY <1>1 DEF AffReloads
<1> HIDE DEF y
<1>3. rl' \in [Reloaders -> AffReloads]
  BY <1>1, <1>2, AffTyped DEF AffIInv
<1>4. clean => running' = {}
  BY <1>1 DEF AffIInv, ClosesTheOne
<1>5. TypeOK'
  BY <1>1, <1>3 DEF AffIInv, TypeOK, AffReloads
<1>6. OneStart'
  BY <1>1 DEF AffIInv, OneStart
<1>7. SingleBrowser' /\ ClosesTheOne'
  BY <1>1, <1>4 DEF SingleBrowser, ClosesTheOne
<1>8. SavesUrls' /\ ClosesContexts'
  <2>1. rl'[r] = y /\ \A q \in Reloaders : q # r => rl'[q] = rl[q]
    BY <1>1, <1>2, AffTyped DEF AffIInv
  <2> QED BY <1>1, <1>2, <2>1 DEF AffIInv, SavesUrls, ClosesContexts
<1> QED BY <1>5, <1>6, <1>7, <1>8 DEF AffIInv

LEMMA CacheLoadsKeep ==
  ASSUME AffIInv, NEW r \in Reloaders, ReadTable(r) \/ LoadCache(r) PROVE AffIInv'
<1>1. /\ UNCHANGED <<browser, context, starting, running, shut, c, table, state, disabled, clean>>
      /\ Fault \/ UNCHANGED budget
      /\ links' \in {links, rl[r].seen} /\ rl[r] \in AffReloads
  BY AffTyped DEF ReadTable, LoadCache, AffIInv
<1>2. PICK y \in AffReloads : rl' = [rl EXCEPT ![r] = y] /\ y.pc \notin {"browser", "context"}
  <2>1. ASSUME NEW S \in SUBSET Urls
        PROVE  /\ [pc |-> "load", b |-> 0, seen |-> S] \in AffReloads
               /\ [pc |-> "load", b |-> 0, seen |-> S].pc = "load"
    BY DEF AffReloads
  <2>2. table \in SUBSET Urls /\ {} \in SUBSET Urls
    BY AffTyped DEF AffIInv
  <2> QED BY <2>1, <2>2, IdlesFit DEF ReadTable, LoadCache
<1>3. rl' \in [Reloaders -> AffReloads]
      /\ OneStart' /\ SingleBrowser' /\ ClosesTheOne' /\ ClosesContexts' /\ SavesUrls'
  BY <1>1, <1>2, ReloadGoesOn
<1>4. TypeOK'
  <2>1. budget' \in [browsers : Nat, calls : Nat, faults : Nat]
    BY <1>1, FaultSpends DEF AffIInv
  <2>2. links' \in SUBSET Urls
    BY <1>1, AffTyped DEF AffIInv, AffReloads
  <2> QED BY <1>1, <1>3, <2>1, <2>2 DEF AffIInv, TypeOK, AffReloads
<1> QED BY <1>3, <1>4 DEF AffIInv

LEMMA WorldKeeps == ASSUME AffIInv, (\E b \in Browsers : Dies(b)) \/ Expires PROVE AffIInv'
<1>1. /\ UNCHANGED <<browser, context, starting, shut, c, rl, links, table, disabled, clean>>
      /\ Fault /\ running' \subseteq running
      /\ state' \in [saved : BOOLEAN, valid : BOOLEAN]
  BY AffTyped DEF Dies, Expires, AffIInv
<1>2. TypeOK'
  <2>1. budget' \in [browsers : Nat, calls : Nat, faults : Nat]
    BY <1>1, FaultSpends DEF AffIInv
  <2> QED BY <1>1, <2>1 DEF AffIInv, TypeOK
<1>3. OneStart' /\ SavesUrls'
  BY <1>1 DEF AffIInv, OneStart, SavesUrls
<1> QED BY <1>1, <1>2, <1>3, BrowserStands DEF AffIInv

LEMMA AffStarts == Init => AffIInv
<1> SUFFICES ASSUME Init PROVE AffIInv
  OBVIOUS
<1>1. /\ \A p \in Callers : c[p] = Idle
      /\ \A r \in Reloaders : rl[r] = IdleReload
      /\ browser = 0 /\ context = 0 /\ starting = FALSE /\ running = {} /\ shut = {}
      /\ c \in [Callers -> AffCalls] /\ rl \in [Reloaders -> AffReloads]
      /\ table \in SUBSET Urls /\ links = table
      /\ state \in [saved : BOOLEAN, valid : BOOLEAN] /\ disabled = FALSE /\ clean = TRUE
  BY IdlesFit DEF Init
<1>2. budget \in [browsers : Nat, calls : Nat, faults : Nat]
  BY LimitsAssumption DEF Init
<1>3. TypeOK
  BY <1>1, <1>2 DEF TypeOK, AffCalls, AffReloads
<1>4. OneStart
  BY <1>1, IdlesFit DEF OneStart, Starts
<1>5. SingleBrowser /\ ClosesTheOne /\ SavesUrls /\ ClosesContexts
  BY <1>1, IdlesFit DEF SingleBrowser, ClosesTheOne, SavesUrls, ClosesContexts
<1> QED BY <1>3, <1>4, <1>5 DEF AffIInv

LEMMA AffInductive == AffIInv /\ [Next]_vars => AffIInv'
<1> SUFFICES ASSUME AffIInv, [Next]_vars PROVE AffIInv'
  OBVIOUS
<1>1. ASSUME NEW p \in Callers, Progress(p) PROVE AffIInv'
  BY <1>1, CallStepsKeep, LaunchKeeps, StartsEndKeep DEF Progress
<1>2. ASSUME NEW r \in Reloaders, Reload(r) \/ ReloadStep(r) PROVE AffIInv'
  BY <1>2, ReloadKeeps, ContextClosedKeeps, BrowserClosedKeeps, CacheLoadsKeep DEF ReloadStep
<1>3. CASE UNCHANGED vars
  <2>1. TypeOK'
    BY <1>3 DEF AffIInv, TypeOK, vars
  <2> QED BY <1>3, <2>1 DEF AffIInv, OneStart, SingleBrowser, ClosesTheOne, SavesUrls,
                            ClosesContexts, vars
<1> QED BY <1>1, <1>2, <1>3, AskKeeps, WorldKeeps DEF Next

(* The inductive invariant of the adapter: beside the property, a reload that
   is closing a browser is closing the one that runs. *)
THEOREM BrowserInvariance == Spec => []AffIInv
  BY AffStarts, AffInductive, PTL DEF Spec

(* However calls, reloads, failures and deaths of the browser meet, the calls
   share one start, and, while nothing is launched during a reload or over a
   start that failed, the adapter holds the only browser. *)
THEOREM OneBrowserForAll == Spec => []OneBrowser
<1>1. AffIInv => OneBrowser
  BY DEF AffIInv, OneBrowser
<1> QED BY <1>1, BrowserInvariance, PTL
==============================================================================
