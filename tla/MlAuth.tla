-------------------------------- MODULE MlAuth --------------------------------
(***************************************************************************)
(* The Mercado Livre OAuth token: MercadoLivreAuthService keeps it in       *)
(* memory and in the MlToken row, and renews it with a refresh token that   *)
(* the server honours once.  Requests and the 30-minute cron share one      *)
(* refresh at a time; an authorization callback may arrive at any moment.   *)
(*                                                                         *)
(* A token is its number in the order the server issued them, 0 being none. *)
(* Its age is abstracted to what the guards ask: more than 30 minutes from  *)
(* expiry, less than that, less than five minutes.                          *)
(***************************************************************************)
EXTENDS Integers, FiniteSets

CONSTANTS Readers,    \* concurrent getAccessToken calls
          Cron,       \* the scheduled proactiveRefresh
          MaxTokens,  \* bound: tokens the server issues
          MaxFails    \* bound: crashes, lost answers, failing writes

ASSUME CallersAssumption == Cron \notin Readers
ASSUME BoundsAssumption == MaxTokens \in Nat \ {0} /\ MaxFails \in Nat

TokenCallers == Readers \union {Cron}
Tokens == 0..MaxTokens

VARIABLES
  issued,     \* the server's latest token: the one it still renews
  renewable,  \* tokens that came with a refresh token
  age,        \* of each token
  file,       \* the token of the legacy file
  db,         \* the MlToken row
  mem,        \* this.token
  inflight,   \* this.inflight is set
  call,       \* each caller: the refresh it runs, or waits for
  x,          \* the authorization callback being served
  raced,      \* ghost: a callback and a refresh overlapped
  broke,      \* ghost: a token the server issued did not get here
  fails       \* what is left of the bound

authVars == <<issued, renewable, age, file, db, mem, inflight, call, x,
          raced, broke, fails>>

NoRefresh == [pc |-> "idle", tok |-> 0]

(* Just booted: with no token yet, or with the legacy file imported. *)
AuthInit == /\ \E t \in {0, 1} :
                 /\ issued = t /\ file = t /\ db = t /\ mem = t
                 /\ \E R \in SUBSET {t} : renewable = R \ {0}
            /\ age = [t \in Tokens |-> "fresh"]
            /\ inflight = FALSE
            /\ call = [p \in TokenCallers |-> NoRefresh]
            /\ x = NoRefresh
            /\ raced = FALSE /\ broke = FALSE
            /\ fails = MaxFails

SpendFail == fails > 0 /\ fails' = fails - 1
Refreshing == {p \in TokenCallers : call[p].pc \in {"request", "persist", "assign"}}

-----------------------------------------------------------------------------
(* Asking for the token. *)

(* getAccessToken renews in the last five minutes, proactiveRefresh in the
   last thirty.  Otherwise the token in memory is returned. *)
Due(p) == /\ mem # 0
          /\ age[mem] \in IF p = Cron THEN {"soon", "due"} ELSE {"due"}

(* Mutant of AskToken: every call starts a refresh of its own. *)
AskTokenUncoalesced(p) ==
  /\ call[p].pc = "idle"
  /\ Due(p)
  /\ mem \in renewable
  /\ call' = [call EXCEPT ![p] = [pc |-> "request", tok |-> mem]]
  /\ inflight' = TRUE
  /\ raced' = (raced \/ x.pc # "idle")
  /\ UNCHANGED <<issued, renewable, age, file, db, mem, x, broke, fails>>

(* A renewal is waited for if one is in flight, and started otherwise; with
   no refresh token it throws at once. *)
AskToken(p) ==
  /\ call[p].pc = "idle"
  /\ Due(p)
  /\ \/ /\ inflight
        /\ call' = [call EXCEPT ![p].pc = "wait"]
        /\ UNCHANGED <<inflight, raced>>
     \/ /\ ~inflight
        /\ mem \in renewable
        /\ call' = [call EXCEPT ![p] = [pc |-> "request", tok |-> mem]]
        /\ inflight' = TRUE
        /\ raced' = (raced \/ x.pc # "idle")
  /\ UNCHANGED <<issued, renewable, age, file, db, mem, x, broke, fails>>

(* The shared promise settles: everyone waiting for it gets its answer. *)
Settled(p) == [q \in TokenCallers |->
                 IF q = p \/ call[q].pc = "wait" THEN NoRefresh ELSE call[q]]

(* The server issues a token, in general with a refresh token. *)
Issue ==
  /\ issued < MaxTokens
  /\ issued' = issued + 1
  /\ renewable' \in {renewable, renewable \union {issued + 1}}

(* The server honours the refresh token; its answer gets through, or is
   lost to the 15 s timeout. *)
Rotate(p) ==
  /\ call[p].pc = "request"
  /\ call[p].tok = issued
  /\ Issue
  /\ call' = [call EXCEPT ![p] = [pc |-> "persist", tok |-> issued + 1]]
  /\ UNCHANGED <<age, file, db, mem, inflight, x, raced, broke, fails>>

RotateLost(p) ==
  /\ call[p].pc = "request"
  /\ call[p].tok = issued
  /\ SpendFail
  /\ Issue
  /\ call' = Settled(p)
  /\ inflight' = FALSE
  /\ broke' = TRUE
  /\ UNCHANGED <<age, file, db, mem, x, raced>>

(* Mutant of Refused: `inflight` is only cleared by a refresh that succeeds. *)
RefusedStaysInflight(p) ==
  /\ call[p].pc = "request"
  /\ call' = Settled(p)
  /\ UNCHANGED <<issued, renewable, age, file, db, mem, inflight, x, raced, broke, fails>>

(* The request fails, or the server refuses the token. *)
Refused(p) ==
  /\ call[p].pc = "request"
  /\ call' = Settled(p)
  /\ inflight' = FALSE
  /\ UNCHANGED <<issued, renewable, age, file, db, mem, x, raced, broke, fails>>

Persist(p) ==
  /\ call[p].pc = "persist"
  /\ db' = call[p].tok
  /\ call' = [call EXCEPT ![p].pc = "assign"]
  /\ UNCHANGED <<issued, renewable, age, file, mem, inflight, x, raced, broke, fails>>

(* Mutant of PersistFails: the error is swallowed and memory goes ahead. *)
PersistSwallowed(p) ==
  /\ call[p].pc = "persist"
  /\ SpendFail
  /\ mem' = call[p].tok
  /\ call' = Settled(p)
  /\ inflight' = FALSE
  /\ broke' = TRUE
  /\ UNCHANGED <<issued, renewable, age, file, db, x, raced>>

(* The write throws: the new token is dropped, the old one was used up. *)
PersistFails(p) ==
  /\ call[p].pc = "persist"
  /\ SpendFail
  /\ call' = Settled(p)
  /\ inflight' = FALSE
  /\ broke' = TRUE
  /\ UNCHANGED <<issued, renewable, age, file, db, mem, x, raced>>

(* Mutant of Assign: the renewed token only reaches the table. *)
AssignNothing(p) ==
  /\ call[p].pc = "assign"
  /\ call' = Settled(p)
  /\ inflight' = FALSE
  /\ UNCHANGED <<issued, renewable, age, file, db, mem, x, raced, broke, fails>>

Assign(p) ==
  /\ call[p].pc = "assign"
  /\ mem' = call[p].tok
  /\ call' = Settled(p)
  /\ inflight' = FALSE
  /\ UNCHANGED <<issued, renewable, age, file, db, x, raced, broke, fails>>

-----------------------------------------------------------------------------
(* exchangeCode, once an operator has authorized the application. *)

Exchange ==
  /\ x.pc = "idle"
  /\ Issue
  /\ x' = [pc |-> "persist", tok |-> issued + 1]
  /\ raced' = (raced \/ inflight)
  /\ UNCHANGED <<age, file, db, mem, inflight, call, broke, fails>>

ExchangePersist ==
  /\ x.pc = "persist"
  /\ db' = x.tok
  /\ x' = [x EXCEPT !.pc = "assign"]
  /\ UNCHANGED <<issued, renewable, age, file, mem, inflight, call, raced, broke, fails>>

ExchangeFails ==
  /\ x.pc = "persist"
  /\ SpendFail
  /\ x' = NoRefresh
  /\ broke' = TRUE
  /\ UNCHANGED <<issued, renewable, age, file, db, mem, inflight, call, raced>>

ExchangeAssign ==
  /\ x.pc = "assign"
  /\ mem' = x.tok
  /\ x' = NoRefresh
  /\ broke' = (broke /\ raced)
  /\ UNCHANGED <<issued, renewable, age, file, db, inflight, call, raced, fails>>

-----------------------------------------------------------------------------
(* Time and restarts. *)

Ages(t) ==
  /\ t \in 1..issued
  /\ age[t] # "due"
  /\ age' = [age EXCEPT ![t] = IF @ = "fresh" THEN "soon" ELSE "due"]
  /\ UNCHANGED <<issued, renewable, file, db, mem, inflight, call, x, raced, broke, fails>>

(* onModuleInit: the row is loaded; with no token in memory after that,
   whether the table has none or could not be read, the legacy file is
   imported into the table, when that can be written. *)
Boot(loads, writes) ==
  IF loads /\ db # 0 THEN mem' = db /\ db' = db
  ELSE IF file # 0 /\ writes THEN mem' = file /\ db' = file
  ELSE mem' = 0 /\ db' = db

Restart(loads, writes) ==
  /\ SpendFail
  /\ Boot(loads, writes)
  /\ inflight' = FALSE
  /\ call' = [p \in TokenCallers |-> NoRefresh]
  /\ x' = NoRefresh
  /\ raced' = FALSE
  /\ broke' = (broke \/ ~loads \/ db # issued)
  /\ UNCHANGED <<issued, renewable, age, file>>

-----------------------------------------------------------------------------
Refresh(p) == \/ Rotate(p) \/ RotateLost(p) \/ Refused(p)
              \/ Persist(p) \/ PersistFails(p) \/ Assign(p)

Callback == Exchange \/ ExchangePersist \/ ExchangeFails \/ ExchangeAssign

AuthNext == \/ \E p \in TokenCallers : AskToken(p) \/ Refresh(p)
            \/ Callback
            \/ \E t \in Tokens : Ages(t)
            \/ \E loads, writes \in BOOLEAN : Restart(loads, writes)

AuthSpec == AuthInit /\ [][AuthNext]_authVars

(* The HTTP client times out, a write ends. *)
AuthFairness == \A p \in TokenCallers : WF_authVars(Refresh(p))

AuthFairSpec == AuthSpec /\ AuthFairness

-----------------------------------------------------------------------------
(* Type correctness of the tokens and the calls. *)
AuthTypeOK ==
  /\ {issued, file, db, mem} \subseteq Tokens
  /\ renewable \subseteq Tokens \ {0}
  /\ age \in [Tokens -> {"fresh", "soon", "due"}]
  /\ inflight \in BOOLEAN
  /\ call \in [TokenCallers -> [pc : {"idle", "wait", "request", "persist", "assign"},
                        tok : Tokens]]
  /\ x \in [pc : {"idle", "persist", "assign"}, tok : Tokens]
  /\ {raced, broke} \subseteq BOOLEAN
  /\ fails \in Nat

(* Refreshes are single flight: the refresh token, which the server honours
   once, is never presented by two calls at a time, and whoever waits does
   so for a refresh that runs. *)
SingleFlight ==
  /\ Cardinality(Refreshing) <= 1
  /\ inflight = (Refreshing # {})
  /\ \A p \in TokenCallers : call[p].pc = "wait" => inflight

(* Persist before use: the token in memory is the one in the table, unless a
   write that is done is about to reach memory, or a callback and a refresh
   have overlapped.  What else goes wrong, a token given out is durable. *)
MemoryIsDurable ==
  \/ raced
  \/ mem \in {0, db}
  \/ x.pc = "assign"
  \/ \E p \in TokenCallers : call[p].pc = "assign"

(* Until a token is lost, and again from the next authorization on, the one
   in memory is the one the server still renews whenever nothing is in
   flight: no order of calls loses it, unless a callback and a refresh
   overlapped. *)
TokenStaysAlive ==
  raced \/ broke \/ inflight \/ x.pc # "idle" \/ mem = issued

(* Every call that waits for a refresh, its own or another's, gets an answer. *)
EveryCallAnswered == \A p \in TokenCallers : call[p].pc # "idle" ~> call[p].pc = "idle"

(* The token survives: refreshes are single flight, what is used was written
   first, and the one in memory is the one the server renews. *)
TokenIsKept == SingleFlight /\ MemoryIsDurable /\ TokenStaysAlive
=============================================================================
