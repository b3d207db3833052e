--------------------------- MODULE SendQueueProofs ---------------------------
(***************************************************************************)
(* The safety of the send path for every number of deals, targets, callers, *)
(* attempts and crashes, the order in which urgent jobs are taken, and that *)
(* the send path implements Delivery: every step is a step of Delivery, or  *)
(* leaves its variables alone.                                              *)
(***************************************************************************)
EXTENDS SendQueue, FiniteSetTheorems, TLAPS

-----------------------------------------------------------------------------
(* What the producers put on the queue. *)

(* Integer division by a positive number rounds down. *)
LEMMA DivisionBounds ==
  ASSUME NEW a \in Nat, NEW b \in Nat \ {0}
  PROVE  /\ a \div b \in Nat
         /\ b * (a \div b) <= a
         /\ a < b * (a \div b) + b
  BY Z3

(* A smaller quotient: a < c * b puts a in one of the first c blocks of b. *)
LEMMA BlockIndex ==
  ASSUME NEW a \in Nat, NEW b \in Nat \ {0}, NEW c \in Nat, a < c * b
  PROVE  a \div b < c
  <1>1. b * (a \div b) <= a /\ a \div b \in Nat
    BY DivisionBounds
  <1>2. SUFFICES ASSUME a \div b >= c PROVE FALSE
    BY <1>1
  <1>. DEFINE q == a \div b
  <1>3. q \in Nat /\ q >= c /\ b * q <= a
    BY <1>1, <1>2
  <1>. HIDE DEF q
  <1>4. b * c <= b * q
    BY <1>3, Z3
  <1>5. QED
    BY <1>3, <1>4, Z3

(* One element makes a list, and a list within a smaller limit is a list
   within a larger one. *)
LEMMA ListsProps ==
  ASSUME NEW n \in Nat \ {0}, NEW s \in Lists(n)
  PROVE  /\ s \in Seq(Keys)
         /\ Len(s) \in 1..n
         /\ DOMAIN s = 1..Len(s)
         /\ \A x, y \in 1..Len(s) : s[x] = s[y] => x = y
  <1>1. PICK m \in 1..n : s \in [1..m -> Keys]
    BY DEF Lists
  <1>2. m \in Nat /\ DOMAIN s = 1..m
    BY <1>1
  <1>3. Len(s) = m /\ s \in Seq(Keys)
    BY <1>1, <1>2
  <1>4. \A x, y \in DOMAIN s : s[x] = s[y] => x = y
    BY DEF Lists
  <1>5. QED
    BY <1>1, <1>2, <1>3, <1>4

LEMMA ListsIntro ==
  ASSUME NEW n \in Nat \ {0}, NEW m \in 1..n, NEW s \in [1..m -> Keys],
         \A x, y \in 1..m : s[x] = s[y] => x = y
  PROVE  s \in Lists(n)
  BY DEF Lists

LEMMA ListsGrow ==
  ASSUME NEW n \in Nat \ {0}, NEW s, s \in Lists(1)
  PROVE  s \in Lists(n)
  <1>1. s \in [1..1 -> Keys] /\ \A x, y \in 1..1 : s[x] = s[y] => x = y
    BY DEF Lists
  <1>2. 1 \in 1..n
    OBVIOUS
  <1>3. QED
    BY <1>1, <1>2, ListsIntro

(* A function on 1..k is a sequence; sequences can be joined. *)
LEMMA FunctionIsSeq ==
  ASSUME NEW S, NEW k \in Nat, NEW f \in [1..k -> S]
  PROVE  f \in Seq(S)
  OBVIOUS

LEMMA JoinIsSeq ==
  ASSUME NEW S, NEW s \in Seq(S), NEW t \in Seq(S)
  PROVE  s \o t \in Seq(S)
  OBVIOUS

(* A sequence over a set is one over every larger set. *)
LEMMA SeqGrow ==
  ASSUME NEW A, NEW B, A \subseteq B, NEW s \in Seq(A)
  PROVE  s \in Seq(B)
  <1>1. Len(s) \in Nat /\ s \in [1..Len(s) -> A]
    OBVIOUS
  <1>2. s \in [1..Len(s) -> B]
    BY <1>1
  <1>3. QED
    BY <1>1, <1>2

(* A contiguous part of a list of distinct deals is one too. *)
LEMMA ChunkIsList ==
  ASSUME NEW N \in Nat \ {0}, NEW sel \in Lists(N), NEW size \in Nat \ {0},
         NEW lo \in Nat \ {0}, NEW hi \in Nat,
         lo <= hi, hi <= Len(sel), hi < lo + size
  PROVE  SubSeq(sel, lo, hi) \in Lists(size)
  <1>1. /\ sel \in Seq(Keys)
        /\ Len(sel) \in Nat
        /\ \A x, y \in 1..Len(sel) : sel[x] = sel[y] => x = y
    BY ListsProps
  <1>. DEFINE m == hi - lo + 1
              t == [x \in 1..m |-> sel[x + lo - 1]]
  <1>2. m \in 1..size
    OBVIOUS
  <1>3. SubSeq(sel, lo, hi) = t
    BY <1>1
  <1>4. \A x \in 1..m : x + lo - 1 \in 1..Len(sel)
    BY <1>1, <1>2
  <1>5. t \in [1..m -> Keys]
    BY <1>1, <1>4
  <1>6. \A x, y \in 1..m : t[x] = t[y] => x = y
    <2>1. SUFFICES ASSUME NEW x \in 1..m, NEW y \in 1..m, t[x] = t[y]
                   PROVE  x = y
      OBVIOUS
    <2>2. sel[x + lo - 1] = sel[y + lo - 1]
      BY <2>1
    <2>3. x + lo - 1 = y + lo - 1
      BY <1>1, <1>4, <2>2
    <2>4. QED
      BY <2>3
  <1>. HIDE DEF m, t
  <1>7. QED
    BY <1>2, <1>3, <1>5, <1>6, ListsIntro

LEMMA AddsForTyped ==
  ASSUME NEW N \in Nat \ {0}, NEW sel \in Lists(N), NEW cap \in Nat \ {0},
         NEW size \in Nat \ {0}, NEW targets \in Seq(Jids)
  PROVE  AddsFor(sel, cap, size, targets) \in Seq([keys : Lists(size), jid : Jids])
  <1>. DEFINE n == Least(cap, Len(sel))
              chunks == (n + size - 1) \div size
              T == Len(targets)
              Chunk(c) == SubSeq(sel, c * size + 1, Least((c + 1) * size, n))
  <1>1. n \in Nat \ {0} /\ n <= Len(sel) /\ Len(sel) \in Nat
    BY ListsProps DEF Least
  <1>2. T \in Nat
    OBVIOUS
  <1>. HIDE DEF n, T
  <1>3. chunks \in Nat /\ size * chunks <= n + size - 1
    BY <1>1, DivisionBounds
  <1>. HIDE DEF chunks
  <1>4. chunks * T \in Nat
    BY <1>2, <1>3, Z3
  <1>5. ASSUME NEW m \in 1..chunks * T
        PROVE  /\ Chunk((m - 1) \div T) \in Lists(size)
               /\ targets[((m - 1) % T) + 1] \in Jids
    <2>1. T \in Nat \ {0} /\ m - 1 \in Nat /\ m - 1 < chunks * T
      <3>1. CASE T = 0
        BY <1>3, <1>4, <3>1, Z3
      <3>2. CASE T # 0
        BY <1>2, <1>4, <3>2
      <3>3. QED
        BY <3>1, <3>2
    <2>2. (m - 1) \div T \in Nat /\ (m - 1) \div T < chunks
      BY <1>3, <2>1, BlockIndex, DivisionBounds
    <2>3. (m - 1) % T \in 0..T - 1
      BY <2>1, Z3
    <2>4. ((m - 1) % T) + 1 \in 1..T
      BY <1>2, <2>3
    <2>5. targets[((m - 1) % T) + 1] \in Jids
      BY <2>4 DEF T
    <2>. DEFINE c == (m - 1) \div T
    <2>6. c \in Nat /\ c + 1 <= chunks
      BY <1>3, <2>2
    <2>. HIDE DEF c
    <2>7. c * size \in Nat /\ (c + 1) * size = c * size + size
      BY <2>6, Z3
    <2>8. (c + 1) * size <= size * chunks
      BY <1>3, <2>6, Z3
    <2>9. c * size + 1 <= n
      BY <1>1, <1>3, <2>7, <2>8
    <2>. DEFINE lo == c * size + 1
                hi == Least((c + 1) * size, n)
    <2>10. /\ lo \in Nat \ {0} /\ hi \in Nat /\ lo <= hi
           /\ hi <= Len(sel) /\ hi < lo + size
      BY <1>1, <2>7, <2>9 DEF Least
    <2>. HIDE DEF lo, hi
    <2>11. SubSeq(sel, lo, hi) \in Lists(size)
      BY <2>10, ChunkIsList
    <2>12. Chunk((m - 1) \div T) \in Lists(size)
      BY <2>11 DEF lo, hi, c
    <2>13. QED
      BY <2>5, <2>12
  <1>. HIDE DEF Chunk
  <1>6. AddsFor(sel, cap, size, targets)
          = [m \in 1..chunks * T |-> [keys |-> Chunk((m - 1) \div T),
                                      jid |-> targets[((m - 1) % T) + 1]]]
    BY DEF AddsFor, n, chunks, T, Chunk
  <1>. DEFINE k == chunks * T
              Adds == [m \in 1..k |-> [keys |-> Chunk((m - 1) \div T),
                                      jid |-> targets[((m - 1) % T) + 1]]]
  <1>7. k \in Nat /\ \A m \in 1..k : Adds[m] \in [keys : Lists(size), jid : Jids]
    BY <1>4, <1>5
  <1>8. AddsFor(sel, cap, size, targets) = Adds
    BY <1>6
  <1>9. Adds \in [1..k -> [keys : Lists(size), jid : Jids]]
    BY <1>7
  <1>. HIDE DEF k, Adds
  <1>10. QED
    BY <1>7, <1>8, <1>9, FunctionIsSeq

(* Everything an activation asks of the queue is well formed. *)
LEMMA PlanTyped ==
  ASSUME NEW N \in Nat \ {0}, NEW sel \in Lists(N)
  PROVE  Plan(sel) \in Seq(AddRec)
  <1>0. 1 \in Nat \ {0} /\ {TgCap, WaCap, DigestSize} \subseteq Nat \ {0}
    BY LimitsAssumption
  <1>. DEFINE Single == [keys : Lists(1), jid : Jids]
              tg == AddsFor(sel, TgCap, 1, TgTargets)
              wa == AddsFor(sel, WaCap, DigestSize, WaTargets)
  <1>1. tg \in Seq(Single)
    BY <1>0, AddsForTyped, TargetsAssumption
  <1>2. Single \subseteq AddRec
    BY ListsGrow, LimitsAssumption DEF AddRec
  <1>3. wa \in Seq(AddRec)
    BY <1>0, AddsForTyped, TargetsAssumption DEF AddRec
  <1>4. Plan(sel) = tg \o wa
    BY DEF Plan
  <1>. HIDE DEF Single, tg, wa
  <1>5. tg \in Seq(AddRec)
    BY <1>1, <1>2, SeqGrow
  <1>6. QED
    BY <1>3, <1>4, <1>5, JoinIsSeq

-----------------------------------------------------------------------------
(* The deals of a job. *)
LEMMA JobIdKeys ==
  ASSUME NEW i \in JobIds
  PROVE  KeysOf(i) \in SUBSET Keys /\ KeysOf(i) # {}
  <1>1. 1 \in Nat \ {0} /\ DigestSize \in Nat \ {0}
    BY LimitsAssumption
  <1>2. i.keys \in Lists(DigestSize) \/ i.keys \in Lists(1)
    BY DEF JobIds
  <1>3. i.keys \in Seq(Keys) /\ Len(i.keys) > 0
    BY <1>1, <1>2, ListsProps
  <1>4. 1 \in DOMAIN i.keys /\ \A x \in DOMAIN i.keys : i.keys[x] \in Keys
    BY <1>3
  <1>5. i.keys[1] \in KeysOf(i)
    BY <1>4 DEF KeysOf
  <1>6. QED
    BY <1>4, <1>5 DEF KeysOf

(* How a job's record changes: its status; its delivery; its failure. *)

Statuses == Live \union {"absent", "completed", "failed"}

(* All fields but the status, the attempts and the ghosts are kept. *)
SameFlags(r, j) == /\ r.stalls = j.stalls
                   /\ r.urgent = j.urgent
                   /\ r.edited = j.edited

SameGhosts(r, j) == r.out = j.out /\ r.pubs = j.pubs /\ r.faults = j.faults

LEMMA JobFields ==
  ASSUME NEW j \in JobRec
  PROVE  /\ j.st \in Statuses /\ j.att \in Nat /\ j.stalls \in Nat
         /\ j.urgent \in BOOLEAN /\ j.edited \in BOOLEAN
         /\ j.out \in SUBSET Keys /\ j.pubs \in Nat /\ j.faults \in Nat
  BY LimitsAssumption DEF JobRec, Statuses

LEMMA NoJobIsNone == NoJob \notin JobIds
  BY TargetsAssumption

LEMMA SetStatus ==
  ASSUME NEW j \in JobRec, NEW s \in Statuses,
         NEW r, r = [j EXCEPT !.st = s]
  PROVE  /\ r \in JobRec /\ r.st = s /\ r.att = j.att
         /\ SameFlags(r, j) /\ SameGhosts(r, j)
  BY DEF JobRec, Statuses, SameFlags, SameGhosts

(* Changing one job changes nothing else. *)
LEMMA OneJobChanges ==
  ASSUME NEW f \in [JobIds -> JobRec], NEW i \in JobIds, NEW r \in JobRec,
         NEW g, g = [f EXCEPT ![i] = r]
  PROVE  /\ g \in [JobIds -> JobRec]
         /\ g[i] = r
         /\ \A k \in JobIds : k # i => g[k] = f[k]
  OBVIOUS

(* The head of a wait list leaves; a job joins the tail, or the head. *)
LEMMA WaitPop ==
  ASSUME NEW q \in Seq(JobIds), q # <<>>, NEW r, r = Tail(q)
  PROVE  /\ Head(q) \in JobIds /\ Head(q) = q[1]
         /\ Len(q) \in Nat \ {0} /\ DOMAIN q = 1..Len(q)
         /\ r \in Seq(JobIds) /\ DOMAIN r = 1..Len(q) - 1
         /\ \A n \in 1..Len(q) - 1 : r[n] = q[n + 1]
  OBVIOUS

LEMMA WaitAppend ==
  ASSUME NEW q \in Seq(JobIds), NEW i \in JobIds, NEW r, r = Append(q, i)
  PROVE  /\ Len(q) \in Nat /\ DOMAIN q = 1..Len(q)
         /\ r \in Seq(JobIds) /\ DOMAIN r = 1..Len(q) + 1
         /\ \A n \in 1..Len(q) : r[n] = q[n]
         /\ r[Len(q) + 1] = i
  OBVIOUS

LEMMA WaitPush ==
  ASSUME NEW q \in Seq(JobIds), NEW i \in JobIds, NEW r, r = <<i>> \o q
  PROVE  /\ Len(q) \in Nat /\ DOMAIN q = 1..Len(q)
         /\ r \in Seq(JobIds) /\ DOMAIN r = 1..Len(q) + 1
         /\ \A n \in 1..Len(q) : r[n + 1] = q[n]
         /\ r[1] = i
  OBVIOUS

LEMMA RetriedJob ==
  ASSUME NEW j \in JobRec, j.att < MaxAttempts
  PROVE  /\ Retried(j) \in JobRec
         /\ Retried(j).att = j.att + 1
         /\ \/ Retried(j).st = "delayed" /\ j.att + 1 < MaxAttempts
            \/ Retried(j).st = "failed" /\ j.att + 1 = MaxAttempts
         /\ SameFlags(Retried(j), j) /\ SameGhosts(Retried(j), j)
  <1>1. MaxAttempts \in Nat \ {0}
    BY LimitsAssumption
  <1>2. j.att \in Nat /\ j.att + 1 \in 0..MaxAttempts
    BY <1>1 DEF JobRec
  <1>. DEFINE s == IF j.att + 1 < MaxAttempts THEN "delayed" ELSE "failed"
  <1>3. Retried(j) = [j EXCEPT !.att = @ + 1, !.st = s]
    BY DEF Retried
  <1>4. s \in Statuses
    BY DEF Statuses, Live
  <1>5. /\ \/ s = "delayed" /\ j.att + 1 < MaxAttempts
           \/ s = "failed" /\ j.att + 1 = MaxAttempts
    BY <1>1, <1>2
  <1>. HIDE DEF s
  <1>6. /\ Retried(j) \in JobRec /\ Retried(j).att = j.att + 1 /\ Retried(j).st = s
        /\ SameFlags(Retried(j), j) /\ SameGhosts(Retried(j), j)
    BY <1>2, <1>3, <1>4 DEF JobRec, Statuses, SameFlags, SameGhosts
  <1>7. QED
    BY <1>5, <1>6

-----------------------------------------------------------------------------
(* The wait list. *)

(* Nothing enters or leaves the wait list. *)
LEMMA WaitListKept ==
  ASSUME TypeOK, WaitListExact, wait' = wait,
         \A k \in JobIds : (job'[k].st = "wait") <=> (job[k].st = "wait")
  PROVE  WaitListExact'
  <1>1. wait \in Seq(JobIds)
    BY DEF TypeOK
  <1>2. \A n \in DOMAIN wait : wait[n] \in JobIds
    BY <1>1
  <1>3. QED
    BY <1>2 DEF WaitListExact

(* One job that was not waiting joins the wait list, at either end. *)
LEMMA WaitListJoined ==
  ASSUME TypeOK, WaitListExact, NEW i \in JobIds,
         job[i].st # "wait", job'[i].st = "wait",
         \A k \in JobIds : k # i => job'[k].st = job[k].st,
         wait' = Append(wait, i) \/ wait' = <<i>> \o wait
  PROVE  WaitListExact' /\ wait' \in Seq(JobIds)
  <1>. DEFINE L == Len(wait)
  <1>1. wait \in Seq(JobIds) /\ L \in Nat /\ DOMAIN wait = 1..L
    BY DEF TypeOK
  <1>2. /\ \A n \in 1..L : wait[n] \in JobIds /\ wait[n] # i /\ job'[wait[n]].st = "wait"
        /\ \A m, n \in 1..L : wait[m] = wait[n] => m = n
        /\ \A k \in JobIds : job[k].st = "wait" => \E n \in 1..L : wait[n] = k
    BY <1>1, SMTT(30) DEF WaitListExact
  <1>3. CASE wait' = Append(wait, i)
    <2>1. /\ wait' \in Seq(JobIds) /\ DOMAIN wait' = 1..L + 1
          /\ \A n \in 1..L : wait'[n] = wait[n]
          /\ wait'[L + 1] = i
      BY <1>1, <1>3, WaitAppend
    <2>. HIDE DEF L
    <2>2. \A n \in 1..L + 1 : n \in 1..L \/ n = L + 1
      BY <1>1
    <2>3. \A n \in DOMAIN wait' : job'[wait'[n]].st = "wait"
      BY <1>2, <2>1, <2>2
    <2>4. \A m, n \in DOMAIN wait' : wait'[m] = wait'[n] => m = n
      BY <1>2, <2>1, <2>2
    <2>5. ASSUME NEW k \in JobIds, job'[k].st = "wait"
          PROVE  \E n \in DOMAIN wait' : wait'[n] = k
      <3>1. CASE k = i
        BY <1>1, <2>1, <3>1
      <3>2. CASE k # i
        <4>1. PICK n \in 1..L : wait[n] = k
          BY <1>2, <2>5, <3>2
        <4>2. n \in 1..L + 1
          BY <1>1
        <4>3. QED
          BY <2>1, <4>1, <4>2
      <3>3. QED
        BY <3>1, <3>2
    <2>6. QED
      BY <2>1, <2>3, <2>4, <2>5 DEF WaitListExact
  <1>4. CASE wait' = <<i>> \o wait
    <2>1. /\ wait' \in Seq(JobIds) /\ DOMAIN wait' = 1..L + 1
          /\ \A n \in 1..L : wait'[n + 1] = wait[n]
          /\ wait'[1] = i
      BY <1>1, <1>4, WaitPush
    <2>. HIDE DEF L
    <2>2. \A n \in 1..L + 1 : n = 1 \/ (n - 1 \in 1..L /\ n = (n - 1) + 1)
      BY <1>1
    <2>3. \A n \in DOMAIN wait' : n = 1 \/ (n - 1 \in 1..L /\ wait'[n] = wait[n - 1])
      BY <2>1, <2>2
    <2>4. \A n \in DOMAIN wait' : job'[wait'[n]].st = "wait"
      BY <1>2, <2>1, <2>3
    <2>5. \A m, n \in DOMAIN wait' : wait'[m] = wait'[n] => m = n
      <3>1. SUFFICES ASSUME NEW m \in DOMAIN wait', NEW n \in DOMAIN wait',
                            wait'[m] = wait'[n]
                     PROVE  m = n
        OBVIOUS
      <3>2. m \in Nat /\ n \in Nat
        BY <1>1, <2>1
      <3>3. CASE m = 1
        BY <1>2, <2>1, <2>3, <3>1, <3>3
      <3>4. CASE n = 1
        BY <1>2, <2>1, <2>3, <3>1, <3>4
      <3>5. CASE m # 1 /\ n # 1
        <4>1. m - 1 = n - 1
          BY <1>2, <2>3, <3>1, <3>5
        <4>2. QED
          BY <3>2, <4>1
      <3>6. QED
        BY <3>3, <3>4, <3>5
    <2>6. ASSUME NEW k \in JobIds, job'[k].st = "wait"
          PROVE  \E n \in DOMAIN wait' : wait'[n] = k
      <3>1. CASE k = i
        BY <1>1, <2>1, <3>1
      <3>2. CASE k # i
        <4>1. PICK n \in 1..L : wait[n] = k
          BY <1>2, <2>6, <3>2
        <4>2. n + 1 \in 1..L + 1
          BY <1>1
        <4>3. QED
          BY <2>1, <4>1, <4>2
      <3>3. QED
        BY <3>1, <3>2
    <2>7. QED
      BY <2>1, <2>4, <2>5, <2>6 DEF WaitListExact
  <1>5. QED
    BY <1>3, <1>4
-----------------------------------------------------------------------------
(* The inductive invariant, one lemma for each action. *)

(* Taking a job keeps the invariant. *)
LEMMA TakeStep ==
  ASSUME IInv, Take
  PROVE  IInv'
  <1>. DEFINE i == Head(wait)
              r == [job[i] EXCEPT !.st = "active"]
  <1>0. TypeOK /\ QueueConsistent /\ JobInv /\ WorkerInv
    BY DEF IInv, Bookkeeping
  <1>1. /\ i \in JobIds /\ i = wait[1]
        /\ Len(wait) \in Nat \ {0} /\ DOMAIN wait = 1..Len(wait)
        /\ wait' \in Seq(JobIds) /\ DOMAIN wait' = 1..Len(wait) - 1
        /\ \A n \in 1..Len(wait) - 1 : wait'[n] = wait[n + 1]
    BY <1>0, WaitPop DEF Take, TypeOK
  <1>2. i # NoJob /\ job[i].st = "wait" /\ job[i] \in JobRec
    <2>1. job[wait[1]].st = "wait"
      BY <1>0, <1>1 DEF QueueConsistent, WaitListExact
    <2>2. QED
      BY <1>0, <1>1, <2>1, NoJobIsNone DEF TypeOK
  <1>3. /\ r \in JobRec /\ r.st = "active" /\ r.att = job[i].att
        /\ SameFlags(r, job[i]) /\ SameGhosts(r, job[i])
    BY <1>2, SetStatus DEF Statuses, Live
  <1>4. job' = [job EXCEPT ![i] = r]
    BY DEF Take
  <1>. HIDE DEF i, r
  <1>5. /\ job' \in [JobIds -> JobRec] /\ job'[i] = r
        /\ \A k \in JobIds : k # i => job'[k] = job[k]
    BY <1>0, <1>1, <1>3, <1>4, OneJobChanges DEF TypeOK
  <1>6. /\ worker' = [pc |-> "start", id |-> i, left |-> {}]
        /\ UNCHANGED <<posted, recorded, call, quiet, budget>>
        /\ worker.pc = "idle"
    BY DEF Take, i
  <1>7. TypeOK'
    BY <1>0, <1>1, <1>5, <1>6 DEF TypeOK
  <1>8. QueueConsistent'
    <2>1. /\ \A n \in 1..Len(wait) : job[wait[n]].st = "wait" /\ wait[n] \in JobIds
          /\ \A m, n \in 1..Len(wait) : wait[m] = wait[n] => m = n
      <3>1. wait \in Seq(JobIds) /\ WaitListExact
        BY <1>0 DEF TypeOK, QueueConsistent
      <3>2. \A n \in 1..Len(wait) : wait[n] \in JobIds
        BY <3>1
      <3>3. DOMAIN wait = 1..Len(wait)
        BY <1>1
      <3>4. QED
        BY <3>1, <3>2, <3>3 DEF WaitListExact
    <2>2. \A n \in DOMAIN wait' : /\ wait'[n] = wait[n + 1]
                                  /\ wait'[n] # i
                                  /\ wait'[n] \in JobIds
      BY <1>1, <2>1
    <2>3. \A n \in DOMAIN wait' : job'[wait'[n]].st = "wait"
      BY <1>1, <1>5, <2>1, <2>2
    <2>4. \A m, n \in DOMAIN wait' : wait'[m] = wait'[n] => m = n
      BY <1>1, <2>1, <2>2
    <2>5. ASSUME NEW k \in JobIds, job'[k].st = "wait"
          PROVE  \E n \in DOMAIN wait' : wait'[n] = k
      <3>1. k # i /\ job[k].st = "wait"
        BY <1>3, <1>5, <2>5
      <3>2. PICK n \in 1..Len(wait) : wait[n] = k
        BY <1>0, <1>1, <3>1 DEF QueueConsistent, WaitListExact
      <3>3. n - 1 \in DOMAIN wait' /\ wait'[n - 1] = k
        BY <1>1, <3>1, <3>2
      <3>4. QED
        BY <3>3
    <2>6. QED
      BY <1>2, <1>3, <1>5, <1>6, <2>3, <2>4, <2>5 DEF QueueConsistent, WaitListExact, WorkerHolds
  <1>9. JobInv'
    BY <1>0, <1>1, <1>2, <1>3, <1>5, <1>6 DEF JobInv, SameFlags, SameGhosts, Live
  <1>10. WorkerInv'
    BY <1>6 DEF WorkerInv
  <1>11. QED
    BY <1>7, <1>8, <1>9, <1>10 DEF IInv, Bookkeeping

(* The facts every step of the worker starts from. *)
LEMMA AtWork ==
  ASSUME IInv, worker.pc # "idle"
  PROVE  /\ worker.id \in JobIds
         /\ job[worker.id] \in JobRec
         /\ job[worker.id].st = "active"
         /\ job[worker.id].att < MaxAttempts
         /\ job \in [JobIds -> JobRec]
         /\ worker.left \in SUBSET Keys
  <1>1. worker.id \in JobIds \union {NoJob} /\ worker.id # NoJob
        /\ job \in [JobIds -> JobRec] /\ worker.left \in SUBSET Keys
    BY DEF IInv, TypeOK, QueueConsistent, WorkerHolds
  <1>2. job[worker.id].st = "active"
    BY DEF IInv, QueueConsistent, WorkerHolds
  <1>3. QED
    BY <1>1, <1>2 DEF IInv, Bookkeeping, JobInv, Live

(* The worker lets go of its job, whose new record r is not waiting. *)
LEMMA LetGo ==
  ASSUME IInv, worker.pc # "idle", NEW r \in JobRec,
         job' = [job EXCEPT ![worker.id] = r],
         worker' = IdleWorker,
         UNCHANGED <<wait, posted, recorded, call, quiet, budget>>,
         r.st \notin {"wait", "absent"},
         r.st \in Live => /\ r.att < MaxAttempts /\ r.stalls <= MaxStalls
                          /\ r.pubs <= r.faults,
         r.st = "failed" => r.att = MaxAttempts \/ r.stalls > MaxStalls,
         r.pubs = 0 => r.out = {},
         r.pubs <= 1 + r.faults,
         r.st = "completed" /\ r.edited => r.pubs > 0,
         r.st = "completed" /\ r.faults = 0 => r.out \subseteq posted
  PROVE  IInv'
  <1>. DEFINE i == worker.id
  <1>0. TypeOK /\ QueueConsistent /\ JobInv /\ WorkerInv
    BY DEF IInv, Bookkeeping
  <1>1. /\ i \in JobIds /\ job[i].st = "active" /\ job \in [JobIds -> JobRec]
    BY AtWork
  <1>. HIDE DEF i
  <1>2. job' = [job EXCEPT ![i] = r]
    BY DEF i
  <1>3. /\ job' \in [JobIds -> JobRec] /\ job'[i] = r
        /\ \A k \in JobIds : k # i => job'[k] = job[k]
    BY <1>1, <1>2
  <1>4. worker'.pc = "idle" /\ worker'.id = NoJob /\ worker'.left = {}
        /\ worker' \in [pc : {"idle"}, id : {NoJob}, left : {{}}]
    BY DEF IdleWorker
  <1>5. TypeOK'
    BY <1>0, <1>3, <1>4 DEF TypeOK
  <1>6. WaitListExact'
    BY <1>0, <1>1, <1>3, WaitListKept DEF QueueConsistent
  <1>7. QueueConsistent'
    BY <1>4, <1>6 DEF QueueConsistent, WorkerHolds
  <1>8. JobInv'
    <2>1. SUFFICES ASSUME NEW k \in JobIds PROVE JobInv!(k)'
      BY DEF JobInv
    <2>2. QED
      BY <1>0, <1>1, <1>3, <1>4 DEF JobInv, i
  <1>9. WorkerInv'
    BY <1>4 DEF WorkerInv
  <1>10. QED
    BY <1>5, <1>7, <1>8, <1>9 DEF IInv, Bookkeeping

LEMMA HoldStep ==
  ASSUME IInv, Hold
  PROVE  IInv'
  <1>. DEFINE j == job[worker.id]
              r == [[j EXCEPT !.st = "delayed"] EXCEPT !.held = TRUE]
  <1>0. worker.pc = "start" /\ JobInv /\ worker.pc # "idle"
    BY DEF Hold, IInv, Bookkeeping
  <1>1. /\ worker.id \in JobIds /\ j \in JobRec /\ j.st = "active"
        /\ job \in [JobIds -> JobRec]
    BY <1>0, AtWork
  <1>2. /\ j.att < MaxAttempts /\ j.stalls <= MaxStalls
        /\ j.pubs <= j.faults /\ (j.pubs = 0 => j.out = {})
    BY <1>0, <1>1 DEF JobInv, Live
  <1>3. job' = [job EXCEPT ![worker.id] = r]
    BY <1>1 DEF Hold
  <1>. HIDE DEF j
  <1>4. /\ r \in JobRec /\ r.st = "delayed" /\ r.att = j.att
        /\ SameFlags(r, j) /\ SameGhosts(r, j)
    BY <1>1 DEF JobRec, Live, SameFlags, SameGhosts
  <1>5. /\ worker' = IdleWorker
        /\ UNCHANGED <<wait, posted, recorded, call, quiet, budget>>
    BY DEF Hold
  <1>6. r.pubs \in Nat /\ r.faults \in Nat
    BY <1>4, JobFields
  <1>. HIDE DEF r
  <1>7. /\ r.st \notin {"wait", "absent"}
        /\ r.st \in Live => /\ r.att < MaxAttempts /\ r.stalls <= MaxStalls
                            /\ r.pubs <= r.faults
        /\ r.st = "failed" => r.att = MaxAttempts \/ r.stalls > MaxStalls
        /\ r.pubs = 0 => r.out = {}
        /\ r.pubs <= 1 + r.faults
        /\ r.st = "completed" /\ r.edited => r.pubs > 0
        /\ r.st = "completed" /\ r.faults = 0 => r.out \subseteq posted
    BY <1>2, <1>4, <1>6 DEF SameFlags, SameGhosts, Live
  <1>8. QED
    BY <1>0, <1>3, <1>4, <1>5, <1>7, LetGo

(* A job that ends without a delivery: nobody edited its price. *)
LEMMA DiscardStep ==
  ASSUME IInv, Discard
  PROVE  IInv'
  <1>. DEFINE j == job[worker.id]
              r == [j EXCEPT !.st = "completed"]
  <1>0. worker.pc = "scrape" /\ JobInv /\ WorkerInv /\ worker.pc # "idle"
    BY DEF Discard, IInv, Bookkeeping
  <1>1. /\ worker.id \in JobIds /\ j \in JobRec /\ j.st = "active"
        /\ job \in [JobIds -> JobRec]
    BY <1>0, AtWork
  <1>2. /\ j.pubs <= j.faults /\ (j.pubs = 0 => j.out = {})
        /\ ~j.edited /\ j.pubs \in Nat /\ j.faults \in Nat
    BY <1>0, <1>1, JobFields DEF JobInv, WorkerInv, Live
  <1>3. job' = [job EXCEPT ![worker.id] = r]
    BY DEF Discard
  <1>. HIDE DEF j
  <1>4. /\ r \in JobRec /\ r.st = "completed" /\ r.att = j.att
        /\ SameFlags(r, j) /\ SameGhosts(r, j)
    BY <1>1, SetStatus DEF Statuses
  <1>5. /\ worker' = IdleWorker
        /\ UNCHANGED <<wait, posted, recorded, call, quiet, budget>>
    BY DEF Discard
  <1>. HIDE DEF r
  <1>6. /\ r.st # "wait"
        /\ r.st \in Live => /\ r.att < MaxAttempts /\ r.stalls <= MaxStalls
                            /\ r.pubs <= r.faults
        /\ r.st = "failed" => r.att = MaxAttempts \/ r.stalls > MaxStalls
        /\ r.pubs = 0 => r.out = {}
        /\ r.pubs <= 1 + r.faults
        /\ r.st = "completed" /\ r.edited => r.pubs > 0
        /\ r.st = "completed" /\ r.faults = 0 => r.out \subseteq posted
    BY <1>2, <1>4 DEF SameFlags, SameGhosts, Live
  <1>7. QED
    BY <1>0, <1>3, <1>4, <1>5, <1>6, LetGo

(* A job that ends with every delivered deal marked. *)
LEMMA CompleteStep ==
  ASSUME IInv, Complete
  PROVE  IInv'
  <1>. DEFINE j == job[worker.id]
              r == [j EXCEPT !.st = "completed"]
  <1>0. worker.pc = "mark" /\ worker.left = {} /\ JobInv /\ WorkerInv
        /\ worker.pc # "idle"
    BY DEF Complete, IInv, Bookkeeping
  <1>1. /\ worker.id \in JobIds /\ j \in JobRec /\ j.st = "active"
        /\ job \in [JobIds -> JobRec]
    BY <1>0, AtWork
  <1>2. /\ j.pubs <= 1 + j.faults /\ (j.pubs = 0 => j.out = {})
        /\ j.pubs > 0 /\ (j.faults = 0 => j.out \subseteq posted)
    BY <1>0, <1>1 DEF JobInv, WorkerInv
  <1>3. job' = [job EXCEPT ![worker.id] = r]
    BY DEF Complete
  <1>. HIDE DEF j
  <1>4. /\ r \in JobRec /\ r.st = "completed" /\ r.att = j.att
        /\ SameFlags(r, j) /\ SameGhosts(r, j)
    BY <1>1, SetStatus DEF Statuses
  <1>5. /\ worker' = IdleWorker
        /\ UNCHANGED <<wait, posted, recorded, call, quiet, budget>>
    BY DEF Complete
  <1>. HIDE DEF r
  <1>6. /\ r.st # "wait"
        /\ r.st \in Live => /\ r.att < MaxAttempts /\ r.stalls <= MaxStalls
                            /\ r.pubs <= r.faults
        /\ r.st = "failed" => r.att = MaxAttempts \/ r.stalls > MaxStalls
        /\ r.pubs = 0 => r.out = {}
        /\ r.pubs <= 1 + r.faults
        /\ r.st = "completed" /\ r.edited => r.pubs > 0
        /\ r.st = "completed" /\ r.faults = 0 => r.out \subseteq posted
    BY <1>2, <1>4 DEF SameFlags, SameGhosts, Live
  <1>7. QED
    BY <1>0, <1>3, <1>4, <1>5, <1>6, LetGo

(* An attempt that fails before a delivery uses up one attempt. *)
LEMMA FailBeforeStep ==
  ASSUME IInv, FailBefore
  PROVE  IInv'
  <1>. DEFINE j == job[worker.id]
              r == Retried(j)
  <1>0. worker.pc # "mark" /\ JobInv /\ worker.pc # "idle"
    BY DEF FailBefore, IInv, Bookkeeping
  <1>1. /\ worker.id \in JobIds /\ j \in JobRec /\ j.st = "active"
        /\ j.att < MaxAttempts /\ job \in [JobIds -> JobRec]
    BY <1>0, AtWork
  <1>2. /\ j.pubs <= j.faults /\ (j.pubs = 0 => j.out = {})
        /\ j.stalls <= MaxStalls /\ j.pubs \in Nat /\ j.faults \in Nat
    BY <1>0, <1>1, JobFields DEF JobInv, Live
  <1>3. job' = [job EXCEPT ![worker.id] = r]
    BY DEF FailBefore
  <1>. HIDE DEF j
  <1>4. /\ r \in JobRec /\ r.att = j.att + 1
        /\ \/ r.st = "delayed" /\ j.att + 1 < MaxAttempts
           \/ r.st = "failed" /\ j.att + 1 = MaxAttempts
        /\ SameFlags(r, j) /\ SameGhosts(r, j)
    BY <1>1, RetriedJob
  <1>5. /\ worker' = IdleWorker
        /\ UNCHANGED <<wait, posted, recorded, call, quiet, budget>>
    BY DEF FailBefore
  <1>. HIDE DEF r
  <1>6. /\ r.st # "wait"
        /\ r.st \in Live => /\ r.att < MaxAttempts /\ r.stalls <= MaxStalls
                            /\ r.pubs <= r.faults
        /\ r.st = "failed" => r.att = MaxAttempts \/ r.stalls > MaxStalls
        /\ r.pubs = 0 => r.out = {}
        /\ r.pubs <= 1 + r.faults
        /\ r.st = "completed" /\ r.edited => r.pubs > 0
        /\ r.st = "completed" /\ r.faults = 0 => r.out \subseteq posted
    BY <1>2, <1>4 DEF SameFlags, SameGhosts, Live
  <1>7. QED
    BY <1>0, <1>3, <1>4, <1>5, <1>6, LetGo

(* An attempt that fails after a delivery also pays for the next one. *)
LEMMA FailAfterStep ==
  ASSUME IInv, FailAfter
  PROVE  IInv'
  <1>. DEFINE j == job[worker.id]
              q == Retried(j)
              r == [q EXCEPT !.faults = j.faults + 1]
  <1>0. worker.pc = "mark" /\ JobInv /\ WorkerInv /\ worker.pc # "idle"
    BY DEF FailAfter, IInv, Bookkeeping
  <1>1. /\ worker.id \in JobIds /\ j \in JobRec /\ j.st = "active"
        /\ j.att < MaxAttempts /\ job \in [JobIds -> JobRec]
    BY <1>0, AtWork
  <1>2. /\ j.pubs <= 1 + j.faults /\ (j.pubs = 0 => j.out = {})
        /\ j.stalls <= MaxStalls /\ j.pubs \in Nat /\ j.faults \in Nat
    BY <1>0, <1>1, JobFields DEF JobInv, Live
  <1>3. job' = [job EXCEPT ![worker.id] = r]
    BY <1>1 DEF FailAfter, Faulted
  <1>. HIDE DEF j
  <1>4. /\ q \in JobRec /\ q.att = j.att + 1
        /\ \/ q.st = "delayed" /\ j.att + 1 < MaxAttempts
           \/ q.st = "failed" /\ j.att + 1 = MaxAttempts
        /\ SameFlags(q, j) /\ SameGhosts(q, j)
    BY <1>1, RetriedJob
  <1>. HIDE DEF q
  <1>5. /\ r \in JobRec /\ r.st = q.st /\ r.att = q.att /\ r.stalls = q.stalls
        /\ r.edited = q.edited /\ r.out = q.out /\ r.pubs = q.pubs
        /\ r.faults = j.faults + 1
    BY <1>2, <1>4 DEF JobRec
  <1>6. /\ worker' = IdleWorker
        /\ UNCHANGED <<wait, posted, recorded, call, quiet, budget>>
    BY DEF FailAfter
  <1>. HIDE DEF r
  <1>7. /\ r.st \notin {"wait", "absent"}
        /\ r.st \in Live => /\ r.att < MaxAttempts /\ r.stalls <= MaxStalls
                            /\ r.pubs <= r.faults
        /\ r.st = "failed" => r.att = MaxAttempts \/ r.stalls > MaxStalls
        /\ r.pubs = 0 => r.out = {}
        /\ r.pubs <= 1 + r.faults
        /\ r.st = "completed" /\ r.edited => r.pubs > 0
        /\ r.st = "completed" /\ r.faults = 0 => r.out \subseteq posted
    BY <1>2, <1>4, <1>5 DEF SameFlags, SameGhosts, Live
  <1>8. QED
    BY <1>0, <1>3, <1>5, <1>6, <1>7, LetGo

(* Steps of the worker that keep its job: the staleness test, the re-scrape,
   and marking. *)
LEMMA CheckStep ==
  ASSUME IInv, Check
  PROVE  IInv'
  <1>0. /\ TypeOK /\ QueueConsistent /\ JobInv /\ worker.pc = "start"
        /\ worker.id \in JobIds /\ job[worker.id] \in JobRec
    BY AtWork DEF IInv, Bookkeeping, Check
  <1>1. KeysOf(worker.id) \in SUBSET Keys /\ KeysOf(worker.id) # {}
    BY <1>0, JobIdKeys
  <1>2. UNCHANGED <<job, wait, posted, recorded, call, quiet, budget>>
    BY DEF Check
  <1>3. /\ worker' \in [pc : {"scrape", "send"}, id : {worker.id}, left : SUBSET Keys]
        /\ worker'.pc = "scrape" => ~job[worker.id].edited
        /\ worker'.pc = "send" => worker'.left = KeysOf(worker.id)
    BY <1>0, <1>1 DEF Check, TypeOK
  <1>4. TypeOK'
    BY <1>0, <1>2, <1>3 DEF TypeOK
  <1>5. QueueConsistent'
    BY <1>0, <1>2, <1>3, NoJobIsNone DEF QueueConsistent, WaitListExact, WorkerHolds
  <1>6. JobInv'
    BY <1>0, <1>2, <1>3 DEF JobInv
  <1>7. WorkerInv'
    BY <1>1, <1>2, <1>3 DEF WorkerInv
  <1>8. QED
    BY <1>4, <1>5, <1>6, <1>7 DEF IInv, Bookkeeping

LEMMA RescrapeStep ==
  ASSUME IInv, Rescrape
  PROVE  IInv'
  <1>0. /\ TypeOK /\ QueueConsistent /\ JobInv /\ worker.pc = "scrape"
        /\ worker.id \in JobIds /\ job[worker.id] \in JobRec
    BY AtWork DEF IInv, Bookkeeping, Rescrape
  <1>1. KeysOf(worker.id) \in SUBSET Keys /\ KeysOf(worker.id) # {}
    BY <1>0, JobIdKeys
  <1>2. UNCHANGED <<job, wait, posted, recorded, call, quiet, budget>>
    BY DEF Rescrape
  <1>3. /\ worker' \in [pc : {"send"}, id : {worker.id}, left : SUBSET Keys]
        /\ worker'.left # {} /\ worker'.left \subseteq KeysOf(worker.id)
    BY <1>0, <1>1 DEF Rescrape, TypeOK
  <1>4. TypeOK'
    BY <1>0, <1>2, <1>3 DEF TypeOK
  <1>5. QueueConsistent'
    BY <1>0, <1>2, <1>3, NoJobIsNone DEF QueueConsistent, WaitListExact, WorkerHolds
  <1>6. JobInv'
    BY <1>0, <1>2, <1>3 DEF JobInv
  <1>7. WorkerInv'
    BY <1>2, <1>3 DEF WorkerInv
  <1>8. QED
    BY <1>4, <1>5, <1>6, <1>7 DEF IInv, Bookkeeping

LEMMA MarkStep ==
  ASSUME IInv, Mark
  PROVE  IInv'
  <1>0. /\ TypeOK /\ QueueConsistent /\ JobInv /\ WorkerInv /\ worker.pc = "mark"
        /\ worker.id \in JobIds /\ job[worker.id] \in JobRec
        /\ worker.left \in SUBSET Keys
    BY AtWork DEF IInv, Bookkeeping, Mark
  <1>1. PICK k \in worker.left : /\ posted' = posted \union {k}
                                 /\ worker' = [worker EXCEPT !.left = @ \ {k}]
    BY DEF Mark
  <1>2. UNCHANGED <<job, wait, recorded, call, quiet, budget>>
    BY DEF Mark
  <1>3. /\ worker' \in [pc : {"mark"}, id : {worker.id}, left : SUBSET Keys]
        /\ worker'.left = worker.left \ {k}
    BY <1>0, <1>1 DEF TypeOK
  <1>4. TypeOK'
    BY <1>0, <1>1, <1>2, <1>3 DEF TypeOK
  <1>5. QueueConsistent'
    BY <1>0, <1>2, <1>3, NoJobIsNone DEF QueueConsistent, WaitListExact, WorkerHolds
  <1>6. JobInv'
    BY <1>0, <1>1, <1>2, <1>3 DEF JobInv
  <1>7. WorkerInv'
    BY <1>0, <1>1, <1>2, <1>3 DEF WorkerInv
  <1>8. QED
    BY <1>4, <1>5, <1>6, <1>7 DEF IInv, Bookkeeping

(* The one step that delivers: only a job that owes no failure gets here. *)
LEMMA PublishStep ==
  ASSUME IInv, Publish
  PROVE  IInv'
  <1>. DEFINE j == job[worker.id]
              o == j.out \union worker.left
              n == j.pubs + 1
              r == [[j EXCEPT !.out = o] EXCEPT !.pubs = n]
  <1>0. /\ TypeOK /\ QueueConsistent /\ JobInv /\ worker.pc = "send"
        /\ worker.id \in JobIds /\ j \in JobRec /\ j.st = "active"
        /\ worker.left \in SUBSET Keys /\ job \in [JobIds -> JobRec]
        /\ worker.left # {}
    BY AtWork DEF IInv, Bookkeeping, WorkerInv, Publish
  <1>1. /\ j.pubs <= j.faults /\ (j.pubs = 0 => j.out = {})
        /\ j.att < MaxAttempts /\ j.stalls <= MaxStalls
        /\ j.pubs \in Nat /\ j.faults \in Nat /\ j.out \in SUBSET Keys
    BY <1>0, JobFields DEF JobInv, Live
  <1>2. job' = [job EXCEPT ![worker.id] = r]
    BY <1>0 DEF Publish
  <1>. HIDE DEF j
  <1>3. o \in SUBSET Keys /\ n \in Nat /\ n = j.pubs + 1
    BY <1>0, <1>1
  <1>. HIDE DEF o, n
  <1>4. /\ r \in JobRec /\ r.st = "active" /\ r.att = j.att /\ r.stalls = j.stalls
        /\ r.edited = j.edited /\ r.out = o /\ r.pubs = n
        /\ r.faults = j.faults
    BY <1>0, <1>3 DEF JobRec
  <1>. HIDE DEF r
  <1>5. /\ job' \in [JobIds -> JobRec] /\ job'[worker.id] = r
        /\ \A k \in JobIds : k # worker.id => job'[k] = job[k]
    BY <1>0, <1>2, <1>4
  <1>6. /\ worker' \in [pc : {"mark"}, id : {worker.id}, left : {worker.left}]
        /\ UNCHANGED <<wait, posted, recorded, call, quiet, budget>>
    BY <1>0 DEF Publish, TypeOK
  <1>7. TypeOK'
    BY <1>0, <1>5, <1>6 DEF TypeOK
  <1>8. WaitListExact'
    BY <1>0, <1>4, <1>5, <1>6, WaitListKept DEF QueueConsistent, j
  <1>9. QueueConsistent'
    BY <1>0, <1>4, <1>5, <1>6, <1>8, NoJobIsNone DEF QueueConsistent, WorkerHolds
  <1>10. JobInv'
    <2>1. SUFFICES ASSUME NEW k \in JobIds PROVE JobInv!(k)'
      BY DEF JobInv
    <2>2. CASE k = worker.id
      BY <1>1, <1>3, <1>4, <1>5, <1>6, <2>2 DEF Live
    <2>3. CASE k # worker.id
      BY <1>0, <1>5, <1>6, <2>3 DEF JobInv
    <2>4. QED
      BY <2>2, <2>3
  <1>11. WorkerInv'
    <2>1. o # {} /\ worker.left \subseteq o
          /\ (j.pubs = 0 => o \subseteq posted \union worker.left)
      BY <1>0, <1>1 DEF o
    <2>2. j.faults = 0 => j.pubs = 0
      BY <1>1
    <2>3. worker'.pc = "mark" /\ worker'.id = worker.id /\ worker'.left = worker.left
          /\ job'[worker'.id] = r /\ posted' = posted
      BY <1>5, <1>6
    <2>4. QED
      BY <1>1, <1>3, <1>4, <2>1, <2>2, <2>3 DEF WorkerInv
  <1>12. QED
    BY <1>7, <1>9, <1>10, <1>11 DEF IInv, Bookkeeping

(* Redis changes the record of one job the worker does not hold, or changes
   nothing the worker depends on: r is the job's new record. *)
LEMMA RedisTouches ==
  ASSUME IInv, NEW i \in JobIds, NEW r \in JobRec,
         job' = [job EXCEPT ![i] = r],
         WaitListExact' /\ wait' \in Seq(JobIds),
         UNCHANGED <<posted, recorded, worker, call, quiet, budget>>,
         worker.id = i => /\ r.st = job[i].st /\ r.edited = job[i].edited
                          /\ SameGhosts(r, job[i]),
         r.st \in Live => /\ r.att < MaxAttempts /\ r.stalls <= MaxStalls
                          /\ ~(worker.pc = "mark" /\ worker.id = i)
                               => r.pubs <= r.faults,
         r.st = "failed" => r.att = MaxAttempts \/ r.stalls > MaxStalls,
         r.st = "absent" => r.out = {} /\ r.faults = 0,
         r.pubs = 0 => r.out = {},
         r.pubs <= 1 + r.faults,
         r.st # "completed"
  PROVE  IInv'
  <1>0. TypeOK /\ QueueConsistent /\ JobInv /\ WorkerInv
    BY DEF IInv, Bookkeeping
  <1>1. /\ job' \in [JobIds -> JobRec] /\ job'[i] = r
        /\ \A k \in JobIds : k # i => job'[k] = job[k]
    BY <1>0 DEF TypeOK
  <1>2. TypeOK'
    BY <1>0, <1>1 DEF TypeOK
  <1>3. worker.pc # "idle" => worker.id \in JobIds
    BY <1>0 DEF TypeOK, QueueConsistent, WorkerHolds
  <1>4. QueueConsistent'
    BY <1>0, <1>1, <1>3 DEF QueueConsistent, WorkerHolds
  <1>5. JobInv'
    <2>1. SUFFICES ASSUME NEW k \in JobIds PROVE JobInv!(k)'
      BY DEF JobInv
    <2>2. CASE k = i
      BY <1>1, <2>2
    <2>3. CASE k # i
      BY <1>0, <1>1, <2>3 DEF JobInv
    <2>4. QED
      BY <2>2, <2>3
  <1>6. WorkerInv'
    BY <1>0, <1>1, <1>3 DEF WorkerInv, SameGhosts
  <1>7. QED
    BY <1>2, <1>4, <1>5, <1>6 DEF IInv, Bookkeeping

(* What is known of a job the worker does not hold. *)
LEMMA Unheld ==
  ASSUME IInv, NEW i \in JobIds
  PROVE  /\ job[i] \in JobRec /\ job \in [JobIds -> JobRec]
         /\ wait \in Seq(JobIds) /\ WaitListExact /\ TypeOK
         /\ job[i].pubs \in Nat /\ job[i].faults \in Nat
         /\ job[i].pubs = 0 => job[i].out = {}
         /\ job[i].pubs <= 1 + job[i].faults
         /\ job[i].st \in Live => /\ job[i].att < MaxAttempts
                                  /\ job[i].stalls <= MaxStalls
                                  /\ ~(worker.pc = "mark" /\ worker.id = i)
                                       => job[i].pubs <= job[i].faults
         /\ worker.id = i => job[i].st = "active"
  <1>0. TypeOK /\ QueueConsistent /\ JobInv /\ WorkerInv
    BY DEF IInv, Bookkeeping
  <1>1. job[i] \in JobRec /\ job \in [JobIds -> JobRec] /\ wait \in Seq(JobIds)
    BY <1>0 DEF TypeOK
  <1>2. worker.id = i => job[i].st = "active"
    BY <1>0, NoJobIsNone DEF QueueConsistent, WorkerHolds
  <1>3. job[i].pubs \in Nat /\ job[i].faults \in Nat
    BY <1>1, JobFields
  <1>4. QED
    BY <1>0, <1>1, <1>2, <1>3 DEF QueueConsistent, JobInv

LEMMA PromoteStep ==
  ASSUME IInv, NEW i \in JobIds, Promote(i)
  PROVE  IInv'
  <1>. DEFINE j == job[i]
              r == [j EXCEPT !.st = "wait"]
  <1>1. j.st = "delayed" /\ job' = [job EXCEPT ![i] = r] /\ wait' = Append(wait, i)
    BY DEF Promote
  <1>2. j \in JobRec /\ job \in [JobIds -> JobRec] /\ worker.id # i
    BY <1>1, Unheld
  <1>3. /\ r \in JobRec /\ r.st = "wait" /\ r.att = j.att
        /\ SameFlags(r, j) /\ SameGhosts(r, j)
    BY <1>2, SetStatus DEF Statuses, Live
  <1>. HIDE DEF r
  <1>4. /\ job'[i] = r /\ \A k \in JobIds : k # i => job'[k].st = job[k].st
    BY <1>1, <1>2
  <1>5. WaitListExact' /\ wait' \in Seq(JobIds)
    BY <1>1, <1>3, <1>4, Unheld, WaitListJoined
  <1>6. /\ r.att < MaxAttempts /\ r.stalls <= MaxStalls /\ r.pubs <= r.faults
        /\ (r.pubs = 0 => r.out = {}) /\ r.pubs <= 1 + r.faults
    BY <1>1, <1>2, <1>3, Unheld DEF SameFlags, SameGhosts, Live
  <1>7. UNCHANGED <<posted, recorded, worker, call, quiet, budget>>
    BY DEF Promote
  <1>8. QED
    BY <1>1, <1>2, <1>3, <1>5, <1>6, <1>7, RedisTouches DEF SameFlags

LEMMA RecoverStalledStep ==
  ASSUME IInv, NEW i \in JobIds, RecoverStalled(i)
  PROVE  IInv'
  <1>. DEFINE j == job[i]
              s == IF j.stalls + 1 > MaxStalls THEN "failed" ELSE "wait"
              n == j.stalls + 1
              r == [[j EXCEPT !.st = s] EXCEPT !.stalls = n]
  <1>1. /\ j.st = "active" /\ worker.id # i
        /\ UNCHANGED <<posted, recorded, worker, call, quiet, budget>>
    BY DEF RecoverStalled
  <1>2. /\ j \in JobRec /\ job \in [JobIds -> JobRec]
        /\ j.att < MaxAttempts /\ j.stalls <= MaxStalls /\ j.pubs <= j.faults
        /\ j.pubs \in Nat /\ j.faults \in Nat
    BY <1>1, Unheld DEF Live
  <1>3. j.stalls \in Nat /\ MaxStalls \in Nat
    BY <1>2, JobFields, LimitsAssumption
  <1>4. /\ n \in 0..MaxStalls + 1 /\ s \in Statuses /\ n = j.stalls + 1
        /\ \/ s = "failed" /\ n > MaxStalls
           \/ s = "wait" /\ n <= MaxStalls
    BY <1>2, <1>3 DEF Statuses, Live
  <1>5. job' = [job EXCEPT ![i] = r]
    BY <1>2 DEF RecoverStalled
  <1>6. s = "failed" => wait' = wait
    BY DEF RecoverStalled
  <1>7. s = "wait" => wait' = <<i>> \o wait
    BY DEF RecoverStalled
  <1>. HIDE DEF s, n
  <1>8. /\ r \in JobRec /\ r.st = s /\ r.att = j.att /\ r.stalls = n
        /\ r.edited = j.edited /\ SameGhosts(r, j)
    BY <1>2, <1>4 DEF JobRec, Statuses, SameGhosts
  <1>. HIDE DEF r
  <1>9. /\ job'[i] = r /\ \A k \in JobIds : k # i => job'[k] = job[k]
    BY <1>2, <1>5
  <1>10. WaitListExact' /\ wait' \in Seq(JobIds)
    <2>1. CASE s = "failed"
      BY <1>1, <1>6, <1>8, <1>9, <2>1, Unheld, WaitListKept
    <2>2. CASE s = "wait"
      BY <1>1, <1>7, <1>8, <1>9, <2>2, Unheld, WaitListJoined
    <2>3. QED
      BY <1>4, <2>1, <2>2
  <1>11. /\ r.st # "completed" /\ r.st # "absent"
         /\ r.st \in Live => /\ r.att < MaxAttempts /\ r.stalls <= MaxStalls
                             /\ r.pubs <= r.faults
         /\ r.st = "failed" => r.stalls > MaxStalls
         /\ (r.pubs = 0 => r.out = {}) /\ r.pubs <= 1 + r.faults
    BY <1>2, <1>4, <1>8, Unheld DEF SameGhosts, Live
  <1>12. QED
    BY <1>1, <1>5, <1>8, <1>10, <1>11, RedisTouches

LEMMA AbsentIsJob == AbsentJob \in JobRec
  <1>1. 0 \in 0..MaxAttempts /\ 0 \in 0..MaxStalls + 1
    BY LimitsAssumption
  <1>2. QED
    BY <1>1 DEF AbsentJob, JobRec, Live

(* Forgetting a finished job. *)
LEMMA PruneStep ==
  ASSUME IInv, NEW i \in JobIds, Prune(i)
  PROVE  IInv'
  <1>. DEFINE r == AbsentJob
  <1>1. /\ job[i].st \in {"completed", "failed"}
        /\ job' = [job EXCEPT ![i] = r]
        /\ UNCHANGED <<posted, recorded, worker, call, quiet, budget>>
        /\ wait' = wait
    BY DEF Prune
  <1>2. worker.id # i /\ job \in [JobIds -> JobRec]
    BY <1>1, Unheld
  <1>3. r \in JobRec
    BY AbsentIsJob
  <1>5. r.st = "absent" /\ r.pubs = 0 /\ r.faults = 0 /\ r.out = {}
    BY DEF AbsentJob
  <1>. HIDE DEF r
  <1>4. /\ job'[i] = r /\ \A k \in JobIds : k # i => job'[k] = job[k]
    BY <1>1, <1>2
  <1>6. WaitListExact' /\ wait' \in Seq(JobIds)
    BY <1>1, <1>4, <1>5, Unheld, WaitListKept
  <1>7. /\ r.st # "completed" /\ r.st \notin Live /\ r.st # "failed"
        /\ (r.st = "absent" => r.out = {} /\ r.faults = 0)
        /\ (r.pubs = 0 => r.out = {}) /\ r.pubs <= 1 + r.faults
    BY <1>5 DEF Live
  <1>8. QED
    BY <1>1, <1>2, <1>3, <1>6, <1>7, RedisTouches

LEMMA AgeStep ==
  ASSUME IInv, NEW i \in JobIds, Age(i)
  PROVE  IInv'
  <1>. DEFINE j == job[i]
              r == [j EXCEPT !.stale = TRUE]
  <1>1. /\ j.st \in Live /\ job' = [job EXCEPT ![i] = r] /\ wait' = wait
        /\ UNCHANGED <<posted, recorded, worker, call, quiet, budget>>
    BY DEF Age
  <1>2. j \in JobRec /\ job \in [JobIds -> JobRec]
    BY Unheld
  <1>3. /\ r \in JobRec /\ r.st = j.st /\ r.att = j.att
        /\ SameFlags(r, j) /\ SameGhosts(r, j)
    BY <1>2 DEF JobRec, SameFlags, SameGhosts
  <1>. HIDE DEF r
  <1>4. /\ job'[i] = r /\ \A k \in JobIds : k # i => job'[k] = job[k]
    BY <1>1, <1>2
  <1>5. WaitListExact' /\ wait' \in Seq(JobIds)
    BY <1>1, <1>3, <1>4, Unheld, WaitListKept
  <1>6. /\ r.att < MaxAttempts /\ r.stalls <= MaxStalls
        /\ ~(worker.pc = "mark" /\ worker.id = i) => r.pubs <= r.faults
        /\ (r.pubs = 0 => r.out = {}) /\ r.pubs <= 1 + r.faults
    BY <1>1, <1>3, Unheld DEF SameFlags, SameGhosts
  <1>7. r.st \in Live /\ r.st \notin {"completed", "failed", "absent"}
    BY <1>1, <1>3 DEF Live
  <1>8. QED
    BY <1>1, <1>3, <1>5, <1>6, <1>7, RedisTouches DEF SameFlags

(* A crash: the job being marked is charged with a failure. *)
LEMMA CrashStep ==
  ASSUME IInv, Crash
  PROVE  IInv'
  <1>0. TypeOK /\ QueueConsistent /\ JobInv /\ WorkerInv
    BY DEF IInv, Bookkeeping
  <1>1. /\ job' = IF worker.pc = "mark"
                  THEN [job EXCEPT ![worker.id].faults = @ + 1] ELSE job
        /\ worker' = IdleWorker /\ call' = [c \in Callers |-> IdleCall]
        /\ budget' = [budget EXCEPT !.crashes = @ - 1] /\ budget.crashes > 0
        /\ UNCHANGED <<wait, posted, recorded, quiet>>
    BY DEF Crash
  <1>2. worker'.pc = "idle" /\ worker'.id = NoJob /\ worker'.left = {}
        /\ worker' \in [pc : {"idle"}, id : {NoJob}, left : {{}}]
    BY <1>1 DEF IdleWorker
  <1>3. budget' \in [calls : Nat, crashes : Nat, nights : Nat]
    BY <1>0, <1>1 DEF TypeOK
  <1>4. IdleCall \in [pc : {"idle", "add"}, adds : Seq(AddRec), urgent : BOOLEAN,
                      unique : BOOLEAN, edited : BOOLEAN, sent : SUBSET Keys]
    BY DEF IdleCall
  <1>5. /\ job' \in [JobIds -> JobRec]
        /\ \A k \in JobIds :
             /\ job'[k].st = job[k].st /\ job'[k].att = job[k].att
             /\ SameFlags(job'[k], job[k])
             /\ job'[k].out = job[k].out /\ job'[k].pubs = job[k].pubs
             /\ job'[k].faults = IF worker.pc = "mark" /\ k = worker.id
                                 THEN job[k].faults + 1 ELSE job[k].faults
    <2>1. CASE worker.pc = "mark"
      <3>. DEFINE j == job[worker.id]
                  n == j.faults + 1
                  r == [j EXCEPT !.faults = n]
      <3>1. worker.id \in JobIds /\ j \in JobRec /\ job \in [JobIds -> JobRec]
        BY <2>1, AtWork
      <3>2. n \in Nat /\ n = j.faults + 1
        BY <3>1, JobFields
      <3>3. job' = [job EXCEPT ![worker.id] = r]
        BY <1>1, <2>1
      <3>. HIDE DEF n
      <3>4. /\ r \in JobRec /\ r.st = j.st /\ r.att = j.att /\ SameFlags(r, j)
            /\ r.out = j.out /\ r.pubs = j.pubs /\ r.faults = n
        BY <3>1, <3>2 DEF JobRec, SameFlags
      <3>. HIDE DEF r
      <3>5. /\ job' \in [JobIds -> JobRec] /\ job'[worker.id] = r
            /\ \A k \in JobIds : k # worker.id => job'[k] = job[k]
        BY <3>1, <3>3, <3>4
      <3>6. QED
        BY <2>1, <3>2, <3>4, <3>5 DEF SameFlags
    <2>2. CASE worker.pc # "mark"
      BY <1>0, <1>1, <2>2 DEF TypeOK, SameFlags
    <2>3. QED
      BY <2>1, <2>2
  <1>6. TypeOK'
    BY <1>0, <1>1, <1>2, <1>3, <1>4, <1>5 DEF TypeOK
  <1>7. WaitListExact'
    BY <1>0, <1>1, <1>5, WaitListKept DEF QueueConsistent
  <1>8. QueueConsistent'
    BY <1>2, <1>7 DEF QueueConsistent, WorkerHolds
  <1>9. JobInv'
    <2>1. SUFFICES ASSUME NEW k \in JobIds PROVE JobInv!(k)'
      BY DEF JobInv
    <2>2. job[k].pubs \in Nat /\ job[k].faults \in Nat
      BY Unheld
    <2>3. worker.pc = "mark" /\ k = worker.id => job[k].st = "active"
      BY AtWork
    <2>4. QED
      BY <1>0, <1>1, <1>2, <1>5, <2>2, <2>3 DEF JobInv, SameFlags, Live
  <1>10. WorkerInv'
    BY <1>2 DEF WorkerInv
  <1>11. QED
    BY <1>6, <1>8, <1>9, <1>10 DEF IInv, Bookkeeping

(* The quiet window opens and closes; closing frees the parked jobs. *)
LEMMA QuietStartStep ==
  ASSUME IInv, QuietStart
  PROVE  IInv'
  <1>1. /\ UNCHANGED <<job, wait, posted, recorded, worker, call>>
        /\ quiet' = TRUE /\ budget' = [budget EXCEPT !.nights = @ - 1]
        /\ budget.nights > 0
    BY DEF QuietStart
  <1>2. budget' \in [calls : Nat, crashes : Nat, nights : Nat]
    BY <1>1 DEF IInv, TypeOK
  <1>3. TypeOK'
    BY <1>1, <1>2 DEF IInv, TypeOK
  <1>4. QueueConsistent' /\ JobInv' /\ WorkerInv'
    BY <1>1 DEF IInv, Bookkeeping, QueueConsistent, WaitListExact, WorkerHolds,
                JobInv, WorkerInv
  <1>5. QED
    BY <1>3, <1>4 DEF IInv, Bookkeeping

LEMMA QuietEndStep ==
  ASSUME IInv, QuietEnd
  PROVE  IInv'
  <1>0. TypeOK /\ QueueConsistent /\ JobInv /\ WorkerInv
    BY DEF IInv, Bookkeeping
  <1>1. /\ UNCHANGED <<wait, posted, recorded, worker, call, budget>>
        /\ quiet' = FALSE
        /\ job' = [i \in JobIds |-> [job[i] EXCEPT !.held = FALSE]]
    BY DEF QuietEnd
  <1>2. ASSUME NEW i \in JobIds
        PROVE  /\ job'[i] \in JobRec /\ job'[i].st = job[i].st
               /\ job'[i].att = job[i].att /\ job'[i].stalls = job[i].stalls
               /\ job'[i].edited = job[i].edited /\ SameGhosts(job'[i], job[i])
    <2>1. job'[i] = [job[i] EXCEPT !.held = FALSE] /\ job[i] \in JobRec
      BY <1>0, <1>1 DEF TypeOK
    <2>2. QED
      BY <2>1 DEF JobRec, SameGhosts
  <1>3. job' \in [JobIds -> JobRec]
    <2>1. DOMAIN job' = JobIds /\ job' = [i \in JobIds |-> job'[i]]
      BY <1>1
    <2>2. QED
      BY <1>2, <2>1
  <1>4. TypeOK'
    BY <1>0, <1>1, <1>3 DEF TypeOK
  <1>5. WaitListExact'
    BY <1>0, <1>1, <1>2, WaitListKept DEF TypeOK, QueueConsistent
  <1>6. worker.pc # "idle" => worker.id \in JobIds
    BY <1>0 DEF TypeOK, QueueConsistent, WorkerHolds
  <1>7. QueueConsistent'
    BY <1>0, <1>1, <1>2, <1>5, <1>6 DEF QueueConsistent, WorkerHolds
  <1>8. JobInv'
    <2>1. SUFFICES ASSUME NEW k \in JobIds PROVE JobInv!(k)'
      BY DEF JobInv
    <2>2. QED
      BY <1>0, <1>1, <1>2 DEF JobInv, SameGhosts
  <1>9. WorkerInv'
    BY <1>0, <1>1, <1>2, <1>6 DEF WorkerInv, SameGhosts
  <1>10. QED
    BY <1>4, <1>7, <1>8, <1>9 DEF IInv, Bookkeeping

-----------------------------------------------------------------------------
(* The callers. *)

(* A step that leaves jobs, wait list, dedup table and worker alone. *)
LEMMA CallerTouches ==
  ASSUME IInv, UNCHANGED <<job, wait, posted, worker, quiet>>,
         recorded' \subseteq Keys,
         call' \in [Callers -> [pc : {"idle", "add"}, adds : Seq(AddRec),
                                urgent : BOOLEAN, unique : BOOLEAN,
                                edited : BOOLEAN, sent : SUBSET Keys]],
         budget' \in [calls : Nat, crashes : Nat, nights : Nat]
  PROVE  IInv'
  <1>1. TypeOK'
    BY DEF IInv, TypeOK
  <1>2. QueueConsistent' /\ JobInv' /\ WorkerInv'
    BY DEF IInv, Bookkeeping, QueueConsistent, WaitListExact, WorkerHolds,
           JobInv, WorkerInv
  <1>3. QED
    BY <1>1, <1>2 DEF IInv, Bookkeeping

LEMMA StartStep ==
  ASSUME IInv, NEW c \in Callers, NEW N \in Nat \ {0}, NEW sel \in Lists(N),
         NEW urgent \in BOOLEAN, NEW unique \in BOOLEAN, NEW edited \in BOOLEAN,
         Start(c, sel, urgent, unique, edited)
  PROVE  IInv'
  <1>1. /\ UNCHANGED <<job, wait, posted, recorded, worker, quiet>>
        /\ call' = [call EXCEPT ![c] = [pc |-> "add", adds |-> Plan(sel),
                          urgent |-> urgent, unique |-> unique,
                          edited |-> edited, sent |-> {}]]
        /\ budget' = [budget EXCEPT !.calls = @ - 1] /\ budget.calls > 0
    BY DEF Start
  <1>2. Plan(sel) \in Seq(AddRec)
    BY PlanTyped
  <1>3. budget' \in [calls : Nat, crashes : Nat, nights : Nat]
    BY <1>1, SMTT(30) DEF IInv, TypeOK
  <1>4. call' \in [Callers -> [pc : {"idle", "add"}, adds : Seq(AddRec),
                               urgent : BOOLEAN, unique : BOOLEAN,
                               edited : BOOLEAN, sent : SUBSET Keys]]
    BY <1>1, <1>2 DEF IInv, TypeOK
  <1>5. recorded' \subseteq Keys
    BY <1>1 DEF IInv, TypeOK
  <1>6. QED
    BY <1>1, <1>3, <1>4, <1>5, CallerTouches

LEMMA DispatchStep ==
  ASSUME IInv, NEW c \in Callers, Dispatch(c)
  PROVE  IInv'
  <1>. DEFINE N == Cardinality(Keys)
  <1>1. N \in Nat
    BY KeysAssumption, FS_CardinalityType
  <1>2. PICK sel \in Lists(N) : Start(c, sel, FALSE, FALSE, FALSE)
    BY DEF Dispatch
  <1>. HIDE DEF N
  <1>3. N # 0
    BY <1>2 DEF Lists
  <1>4. N \in Nat \ {0} /\ FALSE \in BOOLEAN
    BY <1>1, <1>3
  <1>5. QED
    BY <1>2, <1>4, StartStep

LEMMA ApproveStep ==
  ASSUME IInv, NEW c \in Callers, Approve(c)
  PROVE  IInv'
  <1>1. PICK k \in Keys, urgent \in BOOLEAN, override \in BOOLEAN,
             edited \in BOOLEAN :
          \E recent \in {FALSE, (k \in posted)} :
            Start(c, <<k>>, urgent, urgent \/ recent, edited)
    BY DEF Approve
  <1>2. PICK recent \in {FALSE, (k \in posted)} :
          Start(c, <<k>>, urgent, urgent \/ recent, edited)
    BY <1>1
  <1>3. <<k>> \in Lists(1)
    <2>1. <<k>> \in [1..1 -> Keys] /\ 1 \in 1..1 /\ 1 \in Nat \ {0}
          /\ \A x, y \in 1..1 : <<k>>[x] = <<k>>[y] => x = y
      OBVIOUS
    <2>2. QED
      BY <2>1, ListsIntro
  <1>4. (urgent \/ recent) \in BOOLEAN /\ 1 \in Nat \ {0}
    OBVIOUS
  <1>5. QED
    BY <1>2, <1>3, <1>4, StartStep

(* What an activation that still has adds to make holds. *)
LEMMA CallHolds ==
  ASSUME TypeOK, NEW c \in Callers, call[c].adds # <<>>
  PROVE  /\ Head(call[c].adds) \in AddRec
         /\ Tail(call[c].adds) \in Seq(AddRec)
         /\ call[c].urgent \in BOOLEAN /\ call[c].edited \in BOOLEAN
         /\ \A S \in SUBSET Keys :
              [call EXCEPT ![c].adds = Tail(@), ![c].sent = @ \union S]
                \in [Callers -> [pc : {"idle", "add"}, adds : Seq(AddRec),
                                 urgent : BOOLEAN, unique : BOOLEAN,
                                 edited : BOOLEAN, sent : SUBSET Keys]]
  <1>. DEFINE R == [pc : {"idle", "add"}, adds : Seq(AddRec),
                    urgent : BOOLEAN, unique : BOOLEAN,
                    edited : BOOLEAN, sent : SUBSET Keys]
  <1>1. call \in [Callers -> R] /\ call[c] \in R
    BY DEF TypeOK
  <1>2. call[c].adds \in Seq(AddRec)
    BY <1>1
  <1>3. Head(call[c].adds) \in AddRec /\ Tail(call[c].adds) \in Seq(AddRec)
    BY <1>2
  <1>4. ASSUME NEW S \in SUBSET Keys
        PROVE  [call EXCEPT ![c].adds = Tail(@), ![c].sent = @ \union S]
                 \in [Callers -> R]
    <2>. DEFINE t == Tail(call[c].adds)
                u == call[c].sent \union S
    <2>1. t \in Seq(AddRec) /\ u \in SUBSET Keys
      BY <1>1, <1>3
    <2>. HIDE DEF t, u
    <2>2. [call[c] EXCEPT !.adds = t, !.sent = u] \in R
      BY <1>1, <2>1
    <2>3. [call EXCEPT ![c].adds = Tail(@), ![c].sent = @ \union S]
            = [call EXCEPT ![c] = [call[c] EXCEPT !.adds = t, !.sent = u]]
      BY <1>1 DEF t, u
    <2>4. QED
      BY <1>1, <2>2, <2>3
  <1>5. QED
    BY <1>1, <1>3, <1>4

(* The ids an add may choose are job ids. *)
LEMMA AddIds ==
  ASSUME NEW a \in AddRec, NEW unique,
         NEW s \in IF unique /\ Len(a.keys) = 1 THEN Stamps ELSE {0}
  PROVE  [keys |-> a.keys, jid |-> a.jid, stamp |-> s] \in JobIds
  <1>1. a.keys \in Lists(DigestSize) /\ a.jid \in Jids
    BY DEF AddRec
  <1>2. CASE unique /\ Len(a.keys) = 1
    <2>1. DigestSize \in Nat \ {0}
      BY LimitsAssumption
    <2>2. /\ a.keys \in Seq(Keys)
          /\ \A x, y \in 1..Len(a.keys) : a.keys[x] = a.keys[y] => x = y
      BY <1>1, <2>1, ListsProps
    <2>3. a.keys \in [1..1 -> Keys]
      BY <1>2, <2>2
    <2>4. a.keys \in Lists(1)
      <3>1. 1 \in 1..1 /\ 1 \in Nat \ {0}
            /\ \A x, y \in 1..1 : a.keys[x] = a.keys[y] => x = y
        OBVIOUS
      <3>2. QED
        BY <2>3, <3>1, ListsIntro
    <2>5. QED
      BY <1>1, <1>2, <2>4 DEF JobIds
  <1>3. CASE ~(unique /\ Len(a.keys) = 1)
    BY <1>1, <1>3 DEF JobIds
  <1>4. QED
    BY <1>2, <1>3

LEMMA AddStep ==
  ASSUME IInv, NEW c \in Callers, Add(c)
  PROVE  IInv'
  <1>0. TypeOK /\ QueueConsistent /\ JobInv /\ WorkerInv
    BY DEF IInv, Bookkeeping
  <1>. DEFINE a == Head(call[c].adds)
              r == [AbsentJob EXCEPT !.st = "wait", !.urgent = call[c].urgent,
                                     !.edited = call[c].edited]
  <1>1. a \in AddRec /\ call[c].urgent \in BOOLEAN /\ call[c].edited \in BOOLEAN
    BY <1>0, CallHolds DEF Add
  <1>2. PICK s \in IF call[c].unique /\ Len(a.keys) = 1 THEN Stamps ELSE {0} :
          LET i == [keys |-> a.keys, jid |-> a.jid, stamp |-> s] IN
            IF job[i].st = "absent"
            THEN /\ job' = [job EXCEPT ![i] = r]
                 /\ wait' = IF call[c].urgent THEN <<i>> \o wait
                                              ELSE Append(wait, i)
            ELSE UNCHANGED <<job, wait>>
    BY DEF Add
  <1>. DEFINE i == [keys |-> a.keys, jid |-> a.jid, stamp |-> s]
  <1>3. i \in JobIds
    BY <1>1, <1>2, AddIds
  <1>4. KeysOf(a) \in SUBSET Keys
    <2>1. KeysOf(a) = KeysOf(i)
      BY DEF KeysOf
    <2>2. QED
      BY <1>3, <2>1, JobIdKeys
  <1>5. call' \in [Callers -> [pc : {"idle", "add"}, adds : Seq(AddRec),
                               urgent : BOOLEAN, unique : BOOLEAN,
                               edited : BOOLEAN, sent : SUBSET Keys]]
    BY <1>0, <1>4, CallHolds DEF Add
  <1>6. UNCHANGED <<posted, recorded, worker, quiet, budget>>
    BY DEF Add
  <1>7. /\ r \in JobRec /\ r.st = "wait" /\ r.att = 0 /\ r.stalls = 0
        /\ r.out = {} /\ r.pubs = 0 /\ r.faults = 0
    <2>1. AbsentJob \in JobRec
      BY AbsentIsJob
    <2>2. /\ AbsentJob.att = 0 /\ AbsentJob.stalls = 0 /\ AbsentJob.out = {}
          /\ AbsentJob.pubs = 0 /\ AbsentJob.faults = 0
      BY DEF AbsentJob
    <2>3. QED
      BY <1>1, <2>1, <2>2 DEF JobRec, Live
  <1>8. /\ \/ job[i].st # "absent" /\ UNCHANGED <<job, wait>>
           \/ /\ job[i].st = "absent" /\ job' = [job EXCEPT ![i] = r]
              /\ wait' = Append(wait, i) \/ wait' = <<i>> \o wait
    BY <1>2
  <1>. HIDE DEF a, i, r
  <1>9. CASE UNCHANGED <<job, wait>>
    BY <1>0, <1>5, <1>6, <1>9, CallerTouches DEF TypeOK
  <1>10. CASE /\ job[i].st = "absent" /\ job' = [job EXCEPT ![i] = r]
              /\ wait' = Append(wait, i) \/ wait' = <<i>> \o wait
    <2>1. /\ job' \in [JobIds -> JobRec] /\ job'[i] = r
          /\ \A k \in JobIds : k # i => job'[k] = job[k]
      BY <1>0, <1>3, <1>7, <1>10 DEF TypeOK
    <2>2. WaitListExact' /\ wait' \in Seq(JobIds)
      BY <1>0, <1>3, <1>7, <1>10, <2>1, WaitListJoined DEF QueueConsistent
    <2>3. TypeOK'
      BY <1>0, <1>5, <1>6, <2>1, <2>2 DEF TypeOK
    <2>4. worker.pc # "idle" => worker.id \in JobIds /\ worker.id # i
      BY <1>0, <1>10 DEF TypeOK, QueueConsistent, WorkerHolds
    <2>5. QueueConsistent'
      BY <1>0, <1>6, <2>1, <2>2, <2>4 DEF QueueConsistent, WorkerHolds
    <2>6. JobInv'
      <3>1. SUFFICES ASSUME NEW k \in JobIds PROVE JobInv!(k)'
        BY DEF JobInv
      <3>2. CASE k = i
        BY <1>7, <2>1, <3>2, LimitsAssumption
      <3>3. CASE k # i
        BY <1>0, <1>6, <2>1, <3>3 DEF JobInv
      <3>4. QED
        BY <3>2, <3>3
    <2>7. WorkerInv'
      BY <1>0, <1>6, <2>1, <2>4 DEF WorkerInv
    <2>8. QED
      BY <2>3, <2>5, <2>6, <2>7 DEF IInv, Bookkeeping
  <1>11. QED
    BY <1>8, <1>9, <1>10

LEMMA AddFailsStep ==
  ASSUME IInv, NEW c \in Callers, AddFails(c)
  PROVE  IInv'
  <1>1. TypeOK
    BY DEF IInv
  <1>2. /\ UNCHANGED <<job, wait, posted, recorded, worker, quiet, budget>>
        /\ call' = [call EXCEPT ![c].adds = Tail(@)]
        /\ call[c].adds # <<>>
    BY DEF AddFails
  <1>3. call[c] \in [pc : {"idle", "add"}, adds : Seq(AddRec), urgent : BOOLEAN,
                     unique : BOOLEAN, edited : BOOLEAN, sent : SUBSET Keys]
    BY <1>1 DEF TypeOK
  <1>4. call' \in [Callers -> [pc : {"idle", "add"}, adds : Seq(AddRec),
                               urgent : BOOLEAN, unique : BOOLEAN,
                               edited : BOOLEAN, sent : SUBSET Keys]]
    <2>. DEFINE t == Tail(call[c].adds)
    <2>1. t \in Seq(AddRec)
      BY <1>1, <1>2, CallHolds
    <2>2. call' = [call EXCEPT ![c] = [call[c] EXCEPT !.adds = t]]
      BY <1>1, <1>2 DEF TypeOK
    <2>. HIDE DEF t
    <2>3. [call[c] EXCEPT !.adds = t]
            \in [pc : {"idle", "add"}, adds : Seq(AddRec), urgent : BOOLEAN,
                 unique : BOOLEAN, edited : BOOLEAN, sent : SUBSET Keys]
      BY <1>3, <2>1
    <2>4. QED
      BY <1>1, <2>2, <2>3 DEF TypeOK
  <1>5. QED
    BY <1>1, <1>2, <1>4, CallerTouches DEF IInv, TypeOK

LEMMA RecordPostedStep ==
  ASSUME IInv, NEW c \in Callers, RecordPosted(c)
  PROVE  IInv'
  <1>1. TypeOK
    BY DEF IInv
  <1>2. /\ UNCHANGED <<job, wait, posted, worker, quiet, budget>>
        /\ recorded' = recorded \union call[c].sent
        /\ call' = [call EXCEPT ![c] = IdleCall]
    BY DEF RecordPosted
  <1>3. IdleCall \in [pc : {"idle", "add"}, adds : Seq(AddRec), urgent : BOOLEAN,
                      unique : BOOLEAN, edited : BOOLEAN, sent : SUBSET Keys]
    BY DEF IdleCall
  <1>4. recorded' \subseteq Keys
    BY <1>1, <1>2 DEF TypeOK
  <1>5. call' \in [Callers -> [pc : {"idle", "add"}, adds : Seq(AddRec),
                               urgent : BOOLEAN, unique : BOOLEAN,
                               edited : BOOLEAN, sent : SUBSET Keys]]
    BY <1>1, <1>2, <1>3 DEF TypeOK
  <1>6. QED
    BY <1>1, <1>2, <1>4, <1>5, CallerTouches DEF TypeOK

-----------------------------------------------------------------------------
(* The inductive invariant holds. *)

LEMMA InitInv == Init => IInv
  <1>1. SUFFICES ASSUME Init PROVE IInv
    OBVIOUS
  <1>2. /\ job = [i \in JobIds |-> AbsentJob] /\ wait = <<>> /\ posted = {}
        /\ recorded = {} /\ worker = IdleWorker /\ quiet = FALSE
        /\ call = [c \in Callers |-> IdleCall]
        /\ budget = [calls |-> MaxCalls, crashes |-> MaxCrashes,
                     nights |-> MaxNights]
    BY <1>1 DEF Init
  <1>3. AbsentJob.st = "absent" /\ AbsentJob.pubs = 0 /\ AbsentJob.faults = 0
        /\ AbsentJob.out = {}
    BY DEF AbsentJob
  <1>4. TypeOK
    <2>1. job \in [JobIds -> JobRec] /\ wait \in Seq(JobIds)
      BY <1>2, AbsentIsJob
    <2>2. worker \in [pc : {"idle", "start", "scrape", "send", "mark"},
                      id : JobIds \union {NoJob}, left : SUBSET Keys]
      BY <1>2 DEF IdleWorker
    <2>3. IdleCall \in [pc : {"idle", "add"}, adds : Seq(AddRec),
                        urgent : BOOLEAN, unique : BOOLEAN,
                        edited : BOOLEAN, sent : SUBSET Keys]
      BY DEF IdleCall
    <2>4. budget \in [calls : Nat, crashes : Nat, nights : Nat]
      BY <1>2, LimitsAssumption
    <2>5. QED
      BY <1>2, <2>1, <2>2, <2>3, <2>4 DEF TypeOK
  <1>5. QueueConsistent
    BY <1>2, <1>3 DEF QueueConsistent, WaitListExact, WorkerHolds, IdleWorker
  <1>6. JobInv
    BY <1>2, <1>3 DEF JobInv, Live
  <1>7. WorkerInv
    BY <1>2 DEF WorkerInv, IdleWorker
  <1>8. QED
    BY <1>4, <1>5, <1>6, <1>7 DEF IInv, Bookkeeping

LEMMA StutterStep ==
  ASSUME IInv, UNCHANGED vars
  PROVE  IInv'
  BY DEF vars, IInv, TypeOK, QueueConsistent, WaitListExact, WorkerHolds,
         Bookkeeping, JobInv, WorkerInv

LEMMA StepInv == IInv /\ [Next]_vars => IInv'
  <1>1. SUFFICES ASSUME IInv, [Next]_vars PROVE IInv'
    OBVIOUS
  <1>2. ASSUME NEW c \in Callers,
               \/ Dispatch(c) \/ Approve(c) \/ Add(c)
               \/ AddFails(c) \/ RecordPosted(c)
        PROVE  IInv'
    BY <1>1, <1>2, DispatchStep, ApproveStep, AddStep, AddFailsStep,
       RecordPostedStep
  <1>3. CASE Take
    BY <1>1, <1>3, TakeStep
  <1>4. CASE Process
    BY <1>1, <1>4, HoldStep, CheckStep, RescrapeStep, DiscardStep, PublishStep,
       MarkStep, CompleteStep, FailBeforeStep, FailAfterStep DEF Process
  <1>5. ASSUME NEW i \in JobIds,
               Promote(i) \/ RecoverStalled(i) \/ Prune(i) \/ Age(i)
        PROVE  IInv'
    BY <1>1, <1>5, PromoteStep, RecoverStalledStep, PruneStep, AgeStep
  <1>6. CASE ClockStep
    BY <1>1, <1>6, QuietStartStep, QuietEndStep DEF ClockStep
  <1>7. CASE Crash
    BY <1>1, <1>7, CrashStep
  <1>8. CASE UNCHANGED vars
    BY <1>1, <1>8, StutterStep
  <1>9. QED
    BY <1>1, <1>2, <1>3, <1>4, <1>5, <1>6, <1>7, <1>8
       DEF Next, CallerStep, RedisStep

(* IInv, the conjunction of the type invariant, the agreement of queue and
   worker, and the accounting of deliveries and failures, always holds. *)
THEOREM Invariance == Spec => []IInv
  <1>1. Init => IInv
    BY InitInv
  <1>2. IInv /\ [Next]_vars => IInv'
    BY StepInv
  <1>3. QED
    BY <1>1, <1>2, PTL DEF Spec

(* The queue, the worker and the callers keep their types. *)
THEOREM TypeCorrect == Spec => []TypeOK
  <1>1. IInv => TypeOK
    BY DEF IInv
  <1>2. QED
    BY <1>1, Invariance, PTL

(* The wait list holds each waiting job once, and the worker's job is active:
   no job is handed to two attempts. *)
THEOREM OneAttemptAtATime == Spec => []QueueConsistent
  <1>1. IInv => QueueConsistent
    BY DEF IInv
  <1>2. QED
    BY <1>1, Invariance, PTL

(* A job delivers again only after a failure that followed a delivery. *)
THEOREM DuplicatesAreFaults == Spec => []DuplicateNeedsFault
  <1>1. IInv => DuplicateNeedsFault
    BY DEF IInv, Bookkeeping, JobInv, DuplicateNeedsFault
  <1>2. QED
    BY <1>1, Invariance, PTL

(* A job that completed without a late failure left its deals marked. *)
THEOREM CompletedIsMarked == Spec => []SettledIsMarked
  <1>1. IInv => SettledIsMarked
    BY DEF IInv, Bookkeeping, JobInv, SettledIsMarked
  <1>2. QED
    BY <1>1, Invariance, PTL

(* A deal with a curator's price is never dropped as stale. *)
THEOREM EditedIsNeverDropped == Spec => []EditedIsPublished
  <1>1. IInv => EditedIsPublished
    BY DEF IInv, Bookkeeping, JobInv, EditedIsPublished
  <1>2. QED
    BY <1>1, Invariance, PTL

(* The dead-letter set only holds jobs that ran out of attempts or stalls. *)
THEOREM DeadIsExhausted == Spec => []FailedIsExhausted
  <1>1. IInv => FailedIsExhausted
    BY DEF IInv, Bookkeeping, JobInv, FailedIsExhausted
  <1>2. QED
    BY <1>1, Invariance, PTL

-----------------------------------------------------------------------------
(* What a step may do. *)

(* Only Mark changes the dedup table, and the worker's job delivered what is
   marked. *)
LEMMA MarkedWasDelivered ==
  ASSUME IInv, [Next]_vars
  PROVE  \A k \in posted' \ posted :
           worker.id # NoJob /\ k \in job[worker.id].out
  <1>1. CASE Mark
    <2>1. /\ worker.pc = "mark" /\ worker.id \in JobIds
          /\ worker.left \subseteq job[worker.id].out
      BY <1>1, AtWork DEF Mark, IInv, Bookkeeping, WorkerInv
    <2>2. PICK k \in worker.left : posted' = posted \union {k}
      BY <1>1 DEF Mark
    <2>3. QED
      BY <2>1, <2>2, NoJobIsNone
  <1>2. CASE CallerStep
    BY <1>2 DEF CallerStep, Dispatch, Approve, Start, Add, AddFails, RecordPosted
  <1>3. CASE RedisStep
    BY <1>3 DEF RedisStep, Promote, RecoverStalled, Prune, Age
  <1>4. CASE Take \/ Crash \/ ClockStep \/ UNCHANGED vars
    BY <1>4 DEF Take, Crash, ClockStep, QuietStart, QuietEnd, vars
  <1>5. CASE Hold \/ Check \/ Rescrape \/ Discard \/ Publish \/ Complete
             \/ FailBefore \/ FailAfter
    BY <1>5 DEF Hold, Check, Rescrape, Discard, Publish, Complete, FailBefore,
                FailAfter
  <1>6. QED
    BY <1>1, <1>2, <1>3, <1>4, <1>5 DEF Next, Process

(* A deal enters the dedup table only while the job that delivered it is in
   the worker's hands. *)
THEOREM MarksFollowDeliveries == Spec => MarkFollowsDelivery
  <1>1. IInv /\ [Next]_vars
          => [\A k \in posted' \ posted :
                worker.id # NoJob /\ k \in job[worker.id].out]_vars
    BY MarkedWasDelivered
  <1>2. QED
    BY <1>1, Invariance, PTL DEF Spec, MarkFollowsDelivery

(* In every reachable state each job is in one place, repeats its message only
   after a fault, and leaves what it delivered marked. *)
THEOREM SendPathIsSound == Spec => []JobsAreSound
  BY OneAttemptAtATime, DuplicatesAreFaults, CompletedIsMarked, PTL DEF JobsAreSound

-----------------------------------------------------------------------------
(* The order of the wait list. *)

(* A job may be ahead of another: it is urgent or was put back by the stalled
   check, or the other is not urgent or was attempted before. *)
MayPrecede(a, b) == a.urgent \/ a.stalls > 0 \/ ~b.urgent \/ b.att > 0

(* The wait list is in such an order; it stays so because an urgent job is
   delayed only by a back-off, that is after an attempt. *)
InOrder == /\ \A m, n \in DOMAIN wait : m < n => MayPrecede(job[wait[m]], job[wait[n]])
           /\ \A i \in JobIds : job[i].st = "delayed" /\ job[i].urgent => job[i].att > 0

(* What the order looks at stays as it is. *)
SameRank(r, j) == (r.urgent <=> j.urgent) /\ r.stalls = j.stalls /\ r.att = j.att

(* One job changes: in place, keeping its rank or while it is not waiting; or
   it leaves the head, or joins the tail or the head as its rank allows. *)
LEMMA OrderTouched ==
  ASSUME TypeOK, WaitListExact, InOrder, NEW i \in JobIds, NEW r \in JobRec,
         job' = [job EXCEPT ![i] = r],
         r.st = "delayed" /\ r.urgent => r.att > 0,
         \/ wait' = wait /\ (SameRank(r, job[i]) \/ job[i].st # "wait")
         \/ wait # <<>> /\ wait' = Tail(wait) /\ SameRank(r, job[i])
         \/ wait' = Append(wait, i) /\ job[i].st # "wait" /\ (r.urgent => r.att > 0)
         \/ wait' = <<i>> \o wait /\ job[i].st # "wait" /\ (r.urgent \/ r.stalls > 0)
  PROVE  InOrder'
  <1>1. /\ job \in [JobIds -> JobRec] /\ job'[i] = r /\ wait \in Seq(JobIds)
        /\ \A k \in JobIds : k # i => job'[k] = job[k]
    BY DEF TypeOK
  <1>2. \A k \in JobIds : job'[k].st = "delayed" /\ job'[k].urgent => job'[k].att > 0
    BY <1>1 DEF InOrder
  <1>3. /\ Len(wait) \in Nat /\ DOMAIN wait = 1..Len(wait)
        /\ \A n \in 1..Len(wait) : wait[n] \in JobIds /\ job[wait[n]].st = "wait"
    BY <1>1 DEF WaitListExact
  <1>4. ASSUME SameRank(r, job[i]) \/ job[i].st # "wait"
        PROVE  \A m, n \in 1..Len(wait) : m < n => MayPrecede(job'[wait[m]], job'[wait[n]])
    <2>1. SUFFICES ASSUME NEW m \in 1..Len(wait), NEW n \in 1..Len(wait), m < n
                   PROVE  MayPrecede(job'[wait[m]], job'[wait[n]])
      OBVIOUS
    <2>2. MayPrecede(job[wait[m]], job[wait[n]])
      BY <1>3, <2>1 DEF InOrder
    <2>3. SameRank(job'[wait[m]], job[wait[m]]) /\ SameRank(job'[wait[n]], job[wait[n]])
      BY <1>1, <1>3, <1>4 DEF SameRank
    <2>4. QED
      BY <2>2, <2>3 DEF MayPrecede, SameRank
  <1>5. CASE wait' = wait /\ (SameRank(r, job[i]) \/ job[i].st # "wait")
    BY <1>2, <1>3, <1>4, <1>5 DEF InOrder
  <1>6. CASE wait # <<>> /\ wait' = Tail(wait) /\ SameRank(r, job[i])
    <2>1. /\ DOMAIN wait' = 1..Len(wait) - 1
          /\ \A n \in 1..Len(wait) - 1 : wait'[n] = wait[n + 1]
      BY <1>1, <1>6, WaitPop
    <2>2. ASSUME NEW m \in 1..Len(wait) - 1, NEW n \in 1..Len(wait) - 1, m < n
          PROVE  MayPrecede(job'[wait'[m]], job'[wait'[n]])
      <3>1. m + 1 \in 1..Len(wait) /\ n + 1 \in 1..Len(wait) /\ m + 1 < n + 1
        BY <1>3, <2>2
      <3>2. MayPrecede(job'[wait[m + 1]], job'[wait[n + 1]])
        BY <1>4, <1>6, <3>1
      <3>3. QED
        BY <2>1, <3>2
    <2>3. QED
      BY <1>2, <2>1, <2>2 DEF InOrder
  <1>7. CASE wait' = Append(wait, i) /\ job[i].st # "wait" /\ (r.urgent => r.att > 0)
    <2>1. /\ DOMAIN wait' = 1..Len(wait) + 1 /\ wait'[Len(wait) + 1] = i
          /\ \A n \in 1..Len(wait) : wait'[n] = wait[n]
      BY <1>1, <1>7, WaitAppend
    <2>2. ASSUME NEW m \in 1..Len(wait) + 1, NEW n \in 1..Len(wait) + 1, m < n
          PROVE  MayPrecede(job'[wait'[m]], job'[wait'[n]])
      <3>1. m \in 1..Len(wait) /\ (n \in 1..Len(wait) \/ n = Len(wait) + 1)
        BY <1>3, <2>2
      <3>2. CASE n \in 1..Len(wait)
        BY <1>4, <1>7, <2>1, <2>2, <3>1, <3>2
      <3>3. CASE n = Len(wait) + 1
        BY <1>1, <1>7, <2>1, <3>3 DEF MayPrecede
      <3>4. QED
        BY <3>1, <3>2, <3>3
    <2>3. QED
      BY <1>2, <2>1, <2>2 DEF InOrder
  <1>8. CASE wait' = <<i>> \o wait /\ job[i].st # "wait" /\ (r.urgent \/ r.stalls > 0)
    <2>1. /\ DOMAIN wait' = 1..Len(wait) + 1 /\ wait'[1] = i
          /\ \A n \in 1..Len(wait) : wait'[n + 1] = wait[n]
      BY <1>1, <1>8, WaitPush
    <2>2. ASSUME NEW m \in 1..Len(wait) + 1, NEW n \in 1..Len(wait) + 1, m < n
          PROVE  MayPrecede(job'[wait'[m]], job'[wait'[n]])
      <3>1. CASE m = 1
        BY <1>1, <1>8, <2>1, <3>1 DEF MayPrecede
      <3>2. CASE m # 1
        <4>1. m - 1 \in 1..Len(wait) /\ n - 1 \in 1..Len(wait) /\ m - 1 < n - 1
          BY <1>3, <2>2, <3>2
        <4>2. wait'[m] = wait[m - 1] /\ wait'[n] = wait[n - 1]
          <5>1. wait'[m - 1 + 1] = wait[m - 1] /\ wait'[n - 1 + 1] = wait[n - 1]
            BY <2>1, <4>1
          <5>2. m - 1 + 1 = m /\ n - 1 + 1 = n
            OBVIOUS
          <5>3. QED
            BY <5>1, <5>2
        <4>3. QED
          BY <1>4, <1>8, <4>1, <4>2
      <3>3. QED
        BY <3>1, <3>2
    <2>3. QED
      BY <1>2, <2>1, <2>2 DEF InOrder
  <1>9. QED
    BY <1>5, <1>6, <1>7, <1>8

LEMMA OrderStarts == Init => InOrder
  BY DEF Init, InOrder, AbsentJob

(* Each step keeps the order. *)
LEMMA TakeOrder == ASSUME IInv, InOrder, Take PROVE InOrder'
  <1>0. TypeOK /\ WaitListExact
    BY DEF IInv, QueueConsistent
  <1>. DEFINE i == Head(wait)
              r == [job[i] EXCEPT !.st = "active"]
  <1>1. wait # <<>> /\ wait' = Tail(wait) /\ job' = [job EXCEPT ![i] = r]
    BY DEF Take
  <1>2. i \in JobIds
    BY <1>0, <1>1, WaitPop DEF TypeOK
  <1>3. r \in JobRec /\ r.st = "active" /\ SameRank(r, job[i])
    BY <1>0, <1>2, SetStatus DEF TypeOK, Statuses, Live, SameFlags, SameRank
  <1>. HIDE DEF i, r
  <1>4. QED
    BY <1>0, <1>1, <1>2, <1>3, OrderTouched

(* The worker's job is not waiting, so that it may change as it likes: only
   if it is delayed it was attempted. *)
LEMMA WorkOrder ==
  ASSUME IInv, InOrder, worker.pc # "idle", wait' = wait,
         \/ job' = job
         \/ \E r \in JobRec : /\ job' = [job EXCEPT ![worker.id] = r]
                              /\ r.st = "delayed" /\ r.urgent => r.att > 0
  PROVE  InOrder'
  <1>0. TypeOK /\ WaitListExact /\ worker.id \in JobIds /\ job[worker.id].st = "active"
    BY DEF IInv, QueueConsistent, WorkerHolds, TypeOK
  <1>1. CASE job' = job
    BY <1>1 DEF InOrder
  <1>2. CASE \E r \in JobRec : /\ job' = [job EXCEPT ![worker.id] = r]
                               /\ r.st = "delayed" /\ r.urgent => r.att > 0
    <2>1. PICK r \in JobRec : /\ job' = [job EXCEPT ![worker.id] = r]
                              /\ r.st = "delayed" /\ r.urgent => r.att > 0
      BY <1>2
    <2>2. QED
      <3>. DEFINE i == worker.id
      <3>1. i \in JobIds /\ job[i].st # "wait" /\ job' = [job EXCEPT ![i] = r] /\ wait' = wait
        BY <1>0, <2>1
      <3>. HIDE DEF i
      <3>2. QED
        BY <1>0, <2>1, <3>1, OrderTouched
  <1>3. QED
    BY <1>1, <1>2

LEMMA ProcessOrder == ASSUME IInv, InOrder, Process PROVE InOrder'
  <1>0. worker.pc # "idle" /\ wait' = wait
    BY DEF Process, Hold, Check, Rescrape, Discard, Publish, Mark, Complete, FailBefore,
           FailAfter
  <1>1. /\ worker.id \in JobIds /\ job[worker.id] \in JobRec /\ job[worker.id].st = "active"
        /\ job[worker.id].att < MaxAttempts /\ job \in [JobIds -> JobRec]
        /\ job[worker.id].faults \in Nat /\ job[worker.id].pubs \in Nat
        /\ job[worker.id].out \in SUBSET Keys
    <2>1. worker.id \in JobIds
      BY <1>0 DEF IInv, TypeOK, QueueConsistent, WorkerHolds
    <2>2. QED
      BY <1>0, <2>1, Unheld, JobFields DEF IInv, QueueConsistent, WorkerHolds, Live
  <1>2. CASE Check \/ Rescrape \/ Mark
    <2>1. job' = job
      BY <1>2 DEF Check, Rescrape, Mark
    <2>2. QED
      BY <1>0, <2>1, WorkOrder
  <1>3. CASE Hold
    <2>. DEFINE r == [job[worker.id] EXCEPT !.st = "delayed", !.held = TRUE]
    <2>1. r \in JobRec /\ (r.urgent <=> job[worker.id].urgent)
      BY <1>1 DEF JobRec, Live
    <2>2. job' = [job EXCEPT ![worker.id] = r] /\ ~job[worker.id].urgent
      BY <1>1, <1>3 DEF Hold
    <2>. HIDE DEF r
    <2>3. QED
      BY <1>0, <2>1, <2>2, WorkOrder
  <1>4. CASE Discard \/ Complete
    <2>. DEFINE r == [job[worker.id] EXCEPT !.st = "completed"]
    <2>1. r \in JobRec /\ r.st = "completed"
      BY <1>1, SetStatus DEF Statuses
    <2>2. job' = [job EXCEPT ![worker.id] = r]
      BY <1>4 DEF Discard, Complete
    <2>. HIDE DEF r
    <2>3. QED
      BY <1>0, <2>1, <2>2, WorkOrder
  <1>5. CASE Publish
    <2>. DEFINE r == [job[worker.id] EXCEPT !.out = @ \union worker.left, !.pubs = @ + 1]
    <2>1. worker.left \in SUBSET Keys
      BY DEF IInv, TypeOK
    <2>2. r \in JobRec /\ r.st = "active"
      <3>1. job[worker.id].out \union worker.left \in SUBSET Keys /\ job[worker.id].pubs + 1 \in Nat
        BY <1>1, <2>1
      <3>2. QED
        BY <1>1, <3>1 DEF JobRec
    <2>3. job' = [job EXCEPT ![worker.id] = r]
      BY <1>1, <1>5 DEF Publish
    <2>. HIDE DEF r
    <2>4. QED
      BY <1>0, <2>2, <2>3, WorkOrder
  <1>6. CASE FailBefore \/ FailAfter
    <2>1. /\ Retried(job[worker.id]) \in JobRec
          /\ Retried(job[worker.id]).att = job[worker.id].att + 1
          /\ Retried(job[worker.id]).st \in {"delayed", "failed"}
      BY <1>1, RetriedJob
    <2>2. job[worker.id].att + 1 > 0
      BY <1>1, JobFields
    <2>3. /\ Faulted(job[worker.id]) \in JobRec
          /\ Faulted(job[worker.id]).att = job[worker.id].att + 1
      BY <1>1, <2>1 DEF Faulted, JobRec
    <2>4. \/ job' = [job EXCEPT ![worker.id] = Retried(job[worker.id])]
          \/ job' = [job EXCEPT ![worker.id] = Faulted(job[worker.id])]
      BY <1>6 DEF FailBefore, FailAfter
    <2>5. QED
      BY <1>0, <2>1, <2>2, <2>3, <2>4, WorkOrder
  <1>7. QED
    BY <1>2, <1>3, <1>4, <1>5, <1>6 DEF Process

LEMMA RedisOrder ==
  ASSUME IInv, InOrder, NEW i \in JobIds,
         Promote(i) \/ RecoverStalled(i) \/ Prune(i) \/ Age(i)
  PROVE  InOrder'
  <1>0. /\ TypeOK /\ WaitListExact /\ job[i] \in JobRec
        /\ job[i].stalls \in Nat /\ job[i].att \in Nat
        /\ job[i].st = "active" => job[i].stalls <= MaxStalls
    BY Unheld, JobFields DEF Live
  <1>1. CASE Promote(i)
    <2>. DEFINE r == [job[i] EXCEPT !.st = "wait"]
    <2>1. r \in JobRec /\ r.st = "wait" /\ SameRank(r, job[i])
      BY <1>0, SetStatus DEF Statuses, Live, SameFlags, SameRank
    <2>2. job' = [job EXCEPT ![i] = r] /\ wait' = Append(wait, i) /\ job[i].st = "delayed"
      BY <1>1 DEF Promote
    <2>. HIDE DEF r
    <2>3. r.urgent => r.att > 0
      BY <2>1, <2>2 DEF InOrder, SameRank
    <2>4. QED
      BY <1>0, <2>1, <2>2, <2>3, OrderTouched
  <1>2. CASE RecoverStalled(i)
    <2>. DEFINE s == IF job[i].stalls + 1 > MaxStalls THEN "failed" ELSE "wait"
                r == [job[i] EXCEPT !.st = s, !.stalls = @ + 1]
    <2>1. s \in {"failed", "wait"} /\ job[i].stalls + 1 \in 0..MaxStalls + 1
      <3>1. MaxStalls \in Nat /\ job[i].stalls <= MaxStalls
        BY <1>0, <1>2, LimitsAssumption DEF RecoverStalled
      <3>2. QED
        BY <1>0, <3>1
    <2>2. job' = [job EXCEPT ![i] = r] /\ job[i].st = "active"
          /\ (wait' = wait \/ wait' = <<i>> \o wait)
      BY <1>0, <1>2 DEF RecoverStalled
    <2>. HIDE DEF s
    <2>3. r \in JobRec /\ r.st # "delayed" /\ r.stalls > 0
      <3>1. job[i].stalls + 1 > 0
        BY <1>0
      <3>2. s \in Live \union {"absent", "completed", "failed"}
        BY <2>1 DEF Live
      <3>3. r \in JobRec /\ r.st = s /\ r.stalls = job[i].stalls + 1
        BY <1>0, <2>1, <3>2 DEF JobRec
      <3>4. QED
        BY <2>1, <3>1, <3>3
    <2>. HIDE DEF r
    <2>4. QED
      BY <1>0, <2>2, <2>3, OrderTouched
  <1>3. CASE Prune(i)
    <2>1. AbsentJob \in JobRec /\ AbsentJob.st = "absent"
      BY AbsentIsJob DEF AbsentJob
    <2>2. QED
      BY <1>0, <1>3, <2>1, OrderTouched DEF Prune
  <1>4. CASE Age(i)
    <2>. DEFINE r == [job[i] EXCEPT !.stale = TRUE]
    <2>1. r \in JobRec /\ SameRank(r, job[i]) /\ r.st = job[i].st
      BY <1>0 DEF JobRec, SameRank
    <2>2. job' = [job EXCEPT ![i] = r] /\ wait' = wait
      BY <1>4 DEF Age
    <2>. HIDE DEF r
    <2>3. r.st = "delayed" /\ r.urgent => r.att > 0
      BY <2>1 DEF InOrder, SameRank
    <2>4. QED
      BY <1>0, <2>1, <2>2, <2>3, OrderTouched
  <1>5. QED
    BY <1>1, <1>2, <1>3, <1>4

LEMMA AddOrder == ASSUME IInv, InOrder, NEW c \in Callers, Add(c) PROVE InOrder'
  <1>0. TypeOK /\ WaitListExact
    BY DEF IInv, QueueConsistent
  <1>. DEFINE a == Head(call[c].adds)
              r == [AbsentJob EXCEPT !.st = "wait", !.urgent = call[c].urgent,
                                     !.edited = call[c].edited]
  <1>1. a \in AddRec /\ call[c].urgent \in BOOLEAN /\ call[c].edited \in BOOLEAN
    BY <1>0, CallHolds DEF Add
  <1>2. PICK s \in IF call[c].unique /\ Len(a.keys) = 1 THEN Stamps ELSE {0} :
          LET i == [keys |-> a.keys, jid |-> a.jid, stamp |-> s] IN
            IF job[i].st = "absent"
            THEN /\ job' = [job EXCEPT ![i] = r]
                 /\ wait' = IF call[c].urgent THEN <<i>> \o wait
                                              ELSE Append(wait, i)
            ELSE UNCHANGED <<job, wait>>
    BY DEF Add
  <1>. DEFINE i == [keys |-> a.keys, jid |-> a.jid, stamp |-> s]
  <1>3. i \in JobIds
    BY <1>1, <1>2, AddIds
  <1>4. r \in JobRec /\ r.st = "wait" /\ (r.urgent <=> call[c].urgent)
    <2>1. AbsentJob \in JobRec
      BY AbsentIsJob
    <2>2. QED
      BY <1>1, <2>1 DEF JobRec, Live
  <1>5. \/ UNCHANGED <<job, wait>>
        \/ /\ job[i].st = "absent" /\ job' = [job EXCEPT ![i] = r]
           /\ \/ wait' = Append(wait, i) /\ ~r.urgent
              \/ wait' = <<i>> \o wait /\ r.urgent
    <2>1. \/ UNCHANGED <<job, wait>>
          \/ /\ job[i].st = "absent" /\ job' = [job EXCEPT ![i] = r]
             /\ \/ wait' = Append(wait, i) /\ ~call[c].urgent
                \/ wait' = <<i>> \o wait /\ call[c].urgent
      BY <1>2
    <2>. HIDE DEF i, r, a
    <2>2. QED
      BY <1>4, <2>1
  <1>. HIDE DEF a, i, r
  <1>6. CASE UNCHANGED <<job, wait>>
    BY <1>6 DEF InOrder
  <1>7. QED
    BY <1>0, <1>3, <1>4, <1>5, <1>6, OrderTouched

LEMMA CrashOrder == ASSUME IInv, InOrder, Crash PROVE InOrder'
  <1>1. CASE worker.pc = "mark"
    <2>. DEFINE i == worker.id
                r == [job[i] EXCEPT !.faults = @ + 1]
    <2>1. TypeOK /\ WaitListExact /\ i \in JobIds /\ job[i].st = "active"
      BY <1>1 DEF IInv, TypeOK, QueueConsistent, WorkerHolds
    <2>2. job[i] \in JobRec /\ job[i].faults \in Nat
      BY <2>1, JobFields DEF TypeOK
    <2>3. r \in JobRec /\ r.st = job[i].st
      BY <2>2 DEF JobRec
    <2>4. job' = [job EXCEPT ![i] = r] /\ wait' = wait
      BY <1>1 DEF Crash
    <2>. HIDE DEF i, r
    <2>5. QED
      BY <2>1, <2>3, <2>4, OrderTouched
  <1>2. CASE worker.pc # "mark"
    BY <1>2 DEF Crash, InOrder
  <1>3. QED
    BY <1>1, <1>2

LEMMA QuietEndOrder == ASSUME IInv, InOrder, QuietEnd PROVE InOrder'
  <1>1. TypeOK /\ \A n \in DOMAIN wait : wait[n] \in JobIds
    BY DEF IInv, TypeOK
  <1>2. \A i \in JobIds : /\ SameRank(job'[i], job[i]) /\ job'[i].st = job[i].st
    <2>1. SUFFICES ASSUME NEW i \in JobIds
                   PROVE  SameRank(job'[i], job[i]) /\ job'[i].st = job[i].st
      OBVIOUS
    <2>2. job'[i] = [job[i] EXCEPT !.held = FALSE] /\ job[i] \in JobRec
      BY <1>1 DEF QuietEnd, TypeOK
    <2>3. QED
      BY <2>2 DEF JobRec, SameRank
  <1>3. wait' = wait
    BY DEF QuietEnd
  <1>4. QED
    BY <1>1, <1>2, <1>3 DEF InOrder, MayPrecede, SameRank

LEMMA StepOrder == IInv /\ InOrder /\ [Next]_vars => InOrder'
  <1>1. SUFFICES ASSUME IInv, InOrder, [Next]_vars PROVE InOrder'
    OBVIOUS
  <1>2. ASSUME NEW c \in Callers, Dispatch(c) \/ Approve(c) \/ AddFails(c) \/ RecordPosted(c)
        PROVE  InOrder'
    <2>1. UNCHANGED <<job, wait>>
      BY <1>2 DEF Dispatch, Approve, Start, AddFails, RecordPosted
    <2>2. QED
      BY <1>1, <2>1 DEF InOrder
  <1>3. CASE QuietStart \/ UNCHANGED vars
    BY <1>1, <1>3 DEF QuietStart, vars, InOrder
  <1>4. QED
    BY <1>1, <1>2, <1>3, AddOrder, TakeOrder, ProcessOrder, RedisOrder, QuietEndOrder, CrashOrder
       DEF Next, CallerStep, RedisStep, ClockStep

(* Only Take gives the worker another job. *)
LEMMA TakenIsFirst ==
  ASSUME IInv, [Next]_vars, NEW i \in JobIds, worker.id # i, worker'.id = i
  PROVE  wait # <<>> /\ i = wait[1]
  <1>1. CASE Take
    BY <1>1, WaitPop DEF Take, IInv, TypeOK
  <1>2. CASE CallerStep
    BY <1>2 DEF CallerStep, Dispatch, Approve, Start, Add, AddFails, RecordPosted
  <1>3. CASE RedisStep \/ ClockStep \/ UNCHANGED vars
    BY <1>3 DEF RedisStep, Promote, RecoverStalled, Prune, Age, ClockStep, QuietStart,
                QuietEnd, vars
  <1>4. CASE Hold \/ Discard \/ Complete \/ FailBefore \/ FailAfter \/ Crash
    BY <1>4, NoJobIsNone DEF Hold, Discard, Complete, FailBefore, FailAfter, Crash, IdleWorker
  <1>5. CASE Check \/ Rescrape \/ Publish \/ Mark
    <2>1. worker'.id = worker.id
      BY <1>5 DEF Check, Rescrape, Publish, Mark, IInv, TypeOK
    <2>2. QED
      BY <2>1
  <1>6. QED
    BY <1>1, <1>2, <1>3, <1>4, <1>5 DEF Next, Process

(* An urgent job overtakes everything that was queued before it and never
   attempted nor put back by the stalled check (the lifo of
   pipeline.service.ts). *)
THEOREM UrgentGoesFirst == Spec => UrgentOvertakes
  <1>1. ASSUME IInv, InOrder, [Next]_vars, NEW i \in JobIds,
               worker.id # i, worker'.id = i, ~job[i].urgent, job[i].stalls = 0,
               NEW n \in DOMAIN wait, job[wait[n]].urgent
        PROVE  job[wait[n]].att > 0
    <2>1. wait # <<>> /\ i = wait[1] /\ wait \in Seq(JobIds)
      BY <1>1, TakenIsFirst DEF IInv, TypeOK
    <2>2. 1 \in DOMAIN wait /\ (n = 1 \/ 1 < n)
      BY <1>1, <2>1
    <2>3. CASE n = 1
      BY <1>1, <2>1, <2>3
    <2>4. CASE 1 < n
      BY <1>1, <2>1, <2>2, <2>4 DEF InOrder, MayPrecede
    <2>5. QED
      BY <2>2, <2>3, <2>4
  <1>2. IInv /\ InOrder /\ [Next]_vars
          => [\A i \in JobIds :
                worker.id # i /\ worker'.id = i /\ ~job[i].urgent /\ job[i].stalls = 0
                  => \A n \in DOMAIN wait :
                       job[wait[n]].urgent => job[wait[n]].att > 0]_vars
    BY <1>1
  <1>3. QED
    BY <1>2, OrderStarts, StepOrder, Invariance, PTL DEF Spec, UrgentOvertakes

-----------------------------------------------------------------------------
(* The refinement mapping, and what changing one job does to it. *)

StageOf(s) == CASE s = "absent" -> "none"
                [] s \in Live -> "pending"
                [] s = "completed" -> "done"
                [] s = "failed" -> "dead"

AStage == [i \in JobIds |-> Stage(i)]
AOut == [i \in JobIds |-> job[i].out]
ATrouble == [i \in JobIds |-> job[i].faults > 0]

LEMMA StageOfJob == \A i \in JobIds : Stage(i) = StageOf(job[i].st)
  BY DEF Stage, StageOf

LEMMA StageOfJobNext == \A i \in JobIds : Stage(i)' = StageOf(job'[i].st)
  BY DEF Stage, StageOf

LEMMA StageCases ==
  /\ StageOf("absent") = "none"
  /\ \A s \in Live : StageOf(s) = "pending"
  /\ StageOf("completed") = "done"
  /\ StageOf("failed") = "dead"
  BY DEF StageOf, Live

(* The mapping reads only the status, the deliveries and the failures. *)
LEMMA Unmoved ==
  ASSUME posted' = posted,
         \A k \in JobIds : /\ StageOf(job'[k].st) = StageOf(job[k].st)
                           /\ job'[k].out = job[k].out
                           /\ (job'[k].faults > 0) = (job[k].faults > 0)
  PROVE  UNCHANGED Promise!dvars
  <1>1. AStage' = AStage
    BY StageOfJob, StageOfJobNext DEF AStage
  <1>2. AOut' = AOut /\ ATrouble' = ATrouble
    BY DEF AOut, ATrouble
  <1>3. QED
    BY <1>1, <1>2 DEF Promise!dvars, AStage, AOut, ATrouble

LEMMA Moved ==
  ASSUME NEW i \in JobIds,
         \A k \in JobIds : k # i => job'[k] = job[k]
  PROVE  /\ AStage' = [AStage EXCEPT ![i] = StageOf(job'[i].st)]
         /\ AOut' = [AOut EXCEPT ![i] = job'[i].out]
         /\ ATrouble' = [ATrouble EXCEPT ![i] = job'[i].faults > 0]
  <1>1. AStage' = [AStage EXCEPT ![i] = StageOf(job'[i].st)]
    BY StageOfJob, StageOfJobNext DEF AStage
  <1>2. QED
    BY <1>1 DEF AOut, ATrouble

-----------------------------------------------------------------------------
(* How a changed job is a step of Delivery. *)

LEMMA IsSubmit ==
  ASSUME NEW i \in JobIds, AStage[i] = "none",
         AStage' = [AStage EXCEPT ![i] = "pending"],
         AOut' = AOut, ATrouble' = ATrouble, posted' = posted
  PROVE  Promise!DNext
  BY DEF Promise!DNext, Promise!Submit, AStage, AOut, ATrouble

LEMMA IsDeliver ==
  ASSUME NEW i \in JobIds, AStage[i] = "pending", AOut[i] = {} \/ ATrouble[i],
         NEW S \in SUBSET KeysOf(i), S # {},
         AOut' = [AOut EXCEPT ![i] = AOut[i] \union S],
         AStage' = AStage, ATrouble' = ATrouble, posted' = posted
  PROVE  Promise!DNext
  <1>1. Promise!Deliver(i)
    BY DEF Promise!Deliver, AStage, AOut, ATrouble
  <1>2. QED
    BY <1>1 DEF Promise!DNext

LEMMA IsMarkPosted ==
  ASSUME NEW i \in JobIds, AStage[i] = "pending",
         NEW k \in AOut[i], posted' = posted \union {k},
         AStage' = AStage, AOut' = AOut, ATrouble' = ATrouble
  PROVE  Promise!DNext
  <1>1. Promise!MarkPosted(i)
    BY DEF Promise!MarkPosted, AStage, AOut, ATrouble
  <1>2. QED
    BY <1>1 DEF Promise!DNext

LEMMA IsStumble ==
  ASSUME NEW i \in JobIds, AStage[i] = "pending", AOut[i] # {},
         ATrouble' = [ATrouble EXCEPT ![i] = TRUE],
         AOut' = AOut, posted' = posted,
         AStage' = AStage \/ AStage' = [AStage EXCEPT ![i] = "dead"]
  PROVE  Promise!DNext
  <1>1. Promise!Stumble(i)
    BY DEF Promise!Stumble, AStage, AOut, ATrouble
  <1>2. QED
    BY <1>1 DEF Promise!DNext

LEMMA IsFinish ==
  ASSUME NEW i \in JobIds, AStage[i] = "pending",
         ATrouble[i] \/ AOut[i] \subseteq posted,
         AStage' = [AStage EXCEPT ![i] = "done"],
         AOut' = AOut, ATrouble' = ATrouble, posted' = posted
  PROVE  Promise!DNext
  <1>1. Promise!Finish(i)
    BY DEF Promise!Finish, AStage, AOut, ATrouble
  <1>2. QED
    BY <1>1 DEF Promise!DNext

LEMMA IsGiveUp ==
  ASSUME NEW i \in JobIds, AStage[i] = "pending",
         AStage' = [AStage EXCEPT ![i] = "dead"],
         AOut' = AOut, ATrouble' = ATrouble, posted' = posted
  PROVE  Promise!DNext
  <1>1. Promise!GiveUp(i)
    BY DEF Promise!GiveUp, AStage, AOut, ATrouble
  <1>2. QED
    BY <1>1 DEF Promise!DNext

LEMMA IsForget ==
  ASSUME NEW i \in JobIds, AStage[i] \in {"done", "dead"},
         AStage' = [AStage EXCEPT ![i] = "none"],
         AOut' = [AOut EXCEPT ![i] = {}],
         ATrouble' = [ATrouble EXCEPT ![i] = FALSE], posted' = posted
  PROVE  Promise!DNext
  <1>1. Promise!Forget(i)
    BY DEF Promise!Forget, AStage, AOut, ATrouble
  <1>2. QED
    BY <1>1 DEF Promise!DNext

-----------------------------------------------------------------------------
(* The steps. *)

Refines == Promise!DNext \/ UNCHANGED Promise!dvars

LEMMA Mapped ==
  ASSUME NEW i \in JobIds
  PROVE  /\ AStage[i] = StageOf(job[i].st)
         /\ AOut[i] = job[i].out
         /\ ATrouble[i] = (job[i].faults > 0)
  BY StageOfJob DEF AStage, AOut, ATrouble

(* A job gets another status and nothing else. *)
LEMMA StatusMoves ==
  ASSUME TypeOK, NEW i \in JobIds, NEW s, job' = [job EXCEPT ![i].st = s]
  PROVE  /\ job'[i].st = s /\ job'[i].out = job[i].out
         /\ job'[i].faults = job[i].faults
         /\ \A k \in JobIds : k # i => job'[k] = job[k]
  <1>1. job \in [JobIds -> JobRec] /\ job[i] \in JobRec
    BY DEF TypeOK
  <1>2. job' = [job EXCEPT ![i] = [job[i] EXCEPT !.st = s]]
    BY <1>1
  <1>3. /\ job'[i] = [job[i] EXCEPT !.st = s]
        /\ \A k \in JobIds : k # i => job'[k] = job[k]
    BY <1>1, <1>2
  <1>4. QED
    BY <1>1, <1>3 DEF JobRec

(* A live job that stays live, with the same deliveries and failures. *)
LEMMA StaysLive ==
  ASSUME NEW i \in JobIds, job[i].st \in Live, job'[i].st \in Live,
         job'[i].out = job[i].out, job'[i].faults = job[i].faults,
         \A k \in JobIds : k # i => job'[k] = job[k], posted' = posted
  PROVE  Refines
  <1>1. StageOf(job[i].st) = "pending" /\ StageOf(job'[i].st) = "pending"
    BY StageCases
  <1>2. QED
    BY <1>1, Unmoved DEF Refines

(* A live job that fails, with the same deliveries and failures. *)
LEMMA GivesUp ==
  ASSUME NEW i \in JobIds, job[i].st \in Live, job'[i].st = "failed",
         job'[i].out = job[i].out, job'[i].faults = job[i].faults,
         \A k \in JobIds : k # i => job'[k] = job[k], posted' = posted
  PROVE  Refines
  <1>1. AStage[i] = "pending" /\ StageOf(job'[i].st) = "dead"
    BY StageCases, Mapped
  <1>2. /\ AStage' = [AStage EXCEPT ![i] = "dead"]
        /\ AOut' = [AOut EXCEPT ![i] = AOut[i]]
        /\ ATrouble' = [ATrouble EXCEPT ![i] = ATrouble[i]]
    BY <1>1, Moved, Mapped
  <1>3. AOut' = AOut /\ ATrouble' = ATrouble
    BY <1>2 DEF AOut, ATrouble
  <1>4. QED
    BY <1>1, <1>2, <1>3, IsGiveUp DEF Refines

(* The worker's job completes: what it delivered without a failure is
   marked. *)
LEMMA Finishes ==
  ASSUME TypeOK, NEW i \in JobIds, job[i].st = "active",
         job' = [job EXCEPT ![i].st = "completed"], posted' = posted,
         job[i].faults > 0 \/ job[i].out \subseteq posted
  PROVE  Refines
  <1>1. /\ job'[i].st = "completed" /\ job'[i].out = job[i].out
        /\ job'[i].faults = job[i].faults
        /\ \A k \in JobIds : k # i => job'[k] = job[k]
    BY StatusMoves
  <1>2. AStage[i] = "pending" /\ StageOf(job'[i].st) = "done"
    BY <1>1, StageCases, Mapped DEF Live
  <1>3. /\ AStage' = [AStage EXCEPT ![i] = "done"]
        /\ AOut' = [AOut EXCEPT ![i] = AOut[i]]
        /\ ATrouble' = [ATrouble EXCEPT ![i] = ATrouble[i]]
    BY <1>1, <1>2, Moved, Mapped
  <1>4. AOut' = AOut /\ ATrouble' = ATrouble
    BY <1>3 DEF AOut, ATrouble
  <1>5. ATrouble[i] \/ AOut[i] \subseteq posted
    BY Mapped
  <1>6. QED
    BY <1>2, <1>3, <1>4, <1>5, IsFinish DEF Refines

LEMMA TakeRefines == ASSUME IInv, Take PROVE Refines
  <1>. DEFINE i == Head(wait)
  <1>1. /\ TypeOK /\ WaitListExact /\ wait \in Seq(JobIds) /\ wait # <<>>
        /\ job' = [job EXCEPT ![i].st = "active"] /\ posted' = posted
    BY DEF Take, IInv, QueueConsistent, TypeOK
  <1>2. i \in JobIds /\ i = wait[1] /\ 1 \in DOMAIN wait
    BY <1>1
  <1>3. job[i].st = "wait"
    BY <1>1, <1>2 DEF WaitListExact
  <1>. HIDE DEF i
  <1>4. QED
    BY <1>1, <1>2, <1>3, StatusMoves, StaysLive DEF Live

LEMMA HoldRefines == ASSUME IInv, Hold PROVE Refines
  <1>. DEFINE i == worker.id
              r == [[job[i] EXCEPT !.st = "delayed"] EXCEPT !.held = TRUE]
  <1>1. /\ TypeOK /\ i \in JobIds /\ job[i] \in JobRec /\ job[i].st = "active"
        /\ job \in [JobIds -> JobRec] /\ posted' = posted
    BY AtWork DEF Hold, IInv
  <1>2. job' = [job EXCEPT ![i] = r]
    BY <1>1 DEF Hold
  <1>3. r.st = "delayed" /\ r.out = job[i].out /\ r.faults = job[i].faults
    BY <1>1 DEF JobRec
  <1>. HIDE DEF r, i
  <1>4. job'[i] = r /\ \A k \in JobIds : k # i => job'[k] = job[k]
    BY <1>1, <1>2
  <1>5. QED
    BY <1>1, <1>3, <1>4, StaysLive DEF Live

LEMMA DiscardRefines == ASSUME IInv, Discard PROVE Refines
  <1>. DEFINE i == worker.id
  <1>1. /\ TypeOK /\ i \in JobIds /\ job[i] \in JobRec /\ job[i].st = "active"
        /\ worker.pc # "mark" /\ posted' = posted /\ JobInv
        /\ job' = [job EXCEPT ![i].st = "completed"]
    BY AtWork DEF Discard, IInv, Bookkeeping
  <1>2. /\ job[i].pubs <= job[i].faults /\ (job[i].pubs = 0 => job[i].out = {})
        /\ job[i].pubs \in Nat /\ job[i].faults \in Nat
    BY <1>1, JobFields DEF JobInv, Live
  <1>3. job[i].faults > 0 \/ job[i].out \subseteq posted
    BY <1>2
  <1>. HIDE DEF i
  <1>4. QED
    BY <1>1, <1>3, Finishes

LEMMA CompleteRefines == ASSUME IInv, Complete PROVE Refines
  <1>. DEFINE i == worker.id
  <1>1. /\ TypeOK /\ i \in JobIds /\ job[i] \in JobRec /\ job[i].st = "active"
        /\ worker.pc = "mark" /\ worker.left = {} /\ posted' = posted /\ WorkerInv
        /\ job' = [job EXCEPT ![i].st = "completed"]
    BY AtWork DEF Complete, IInv, Bookkeeping
  <1>2. job[i].faults \in Nat
    BY <1>1, JobFields
  <1>3. job[i].faults > 0 \/ job[i].out \subseteq posted
    BY <1>1, <1>2 DEF WorkerInv
  <1>. HIDE DEF i
  <1>4. QED
    BY <1>1, <1>3, Finishes

LEMMA PublishRefines == ASSUME IInv, Publish PROVE Refines
  <1>. DEFINE i == worker.id
              o == job[i].out \union worker.left
              n == job[i].pubs + 1
              r == [[job[i] EXCEPT !.out = o] EXCEPT !.pubs = n]
  <1>1. /\ TypeOK /\ i \in JobIds /\ job[i] \in JobRec /\ job[i].st = "active"
        /\ worker.pc = "send" /\ posted' = posted /\ JobInv /\ WorkerInv
        /\ job \in [JobIds -> JobRec]
    BY AtWork DEF Publish, IInv, Bookkeeping
  <1>2. /\ worker.left # {} /\ worker.left \in SUBSET KeysOf(i)
        /\ job[i].pubs <= job[i].faults /\ (job[i].pubs = 0 => job[i].out = {})
        /\ job[i].pubs \in Nat /\ job[i].faults \in Nat
    BY <1>1, JobFields DEF WorkerInv, JobInv, Live
  <1>3. job' = [job EXCEPT ![i] = r]
    BY <1>1 DEF Publish
  <1>. HIDE DEF o, n
  <1>4. r.st = "active" /\ r.out = o /\ r.faults = job[i].faults
    BY <1>1 DEF JobRec
  <1>. HIDE DEF r, i
  <1>5. job'[i] = r /\ \A k \in JobIds : k # i => job'[k] = job[k]
    BY <1>1, <1>3
  <1>6. /\ AStage[i] = "pending" /\ StageOf(r.st) = "pending"
        /\ AOut[i] = job[i].out /\ ATrouble[i] = (job[i].faults > 0)
    BY <1>1, <1>4, StageCases, Mapped DEF Live
  <1>7. /\ AStage' = [AStage EXCEPT ![i] = AStage[i]]
        /\ AOut' = [AOut EXCEPT ![i] = AOut[i] \union worker.left]
        /\ ATrouble' = [ATrouble EXCEPT ![i] = ATrouble[i]]
    BY <1>1, <1>4, <1>5, <1>6, Moved DEF o
  <1>8. AStage' = AStage /\ ATrouble' = ATrouble
    BY <1>7 DEF AStage, ATrouble
  <1>9. AOut[i] = {} \/ ATrouble[i]
    <2>1. job[i].out = {} \/ job[i].faults > 0
      BY <1>2
    <2>2. QED
      BY <1>6, <2>1
  <1>10. QED
    BY <1>1, <1>2, <1>6, <1>7, <1>8, <1>9, IsDeliver DEF Refines

LEMMA MarkRefines == ASSUME IInv, Mark PROVE Refines
  <1>. DEFINE i == worker.id
  <1>1. /\ i \in JobIds /\ job[i].st = "active"
        /\ worker.left \subseteq job[i].out /\ job' = job
    BY AtWork DEF Mark, IInv, Bookkeeping, WorkerInv
  <1>2. PICK k \in worker.left : posted' = posted \union {k}
    BY DEF Mark
  <1>3. AStage[i] = "pending" /\ k \in AOut[i]
    BY <1>1, <1>2, StageCases, Mapped DEF Live
  <1>4. AStage' = AStage /\ AOut' = AOut /\ ATrouble' = ATrouble
    <2>1. \A j \in JobIds : Stage(j)' = Stage(j)
      BY <1>1, StageOfJob, StageOfJobNext
    <2>2. AStage' = AStage
      BY <2>1 DEF AStage
    <2>3. QED
      BY <1>1, <2>2 DEF AOut, ATrouble
  <1>5. QED
    BY <1>1, <1>2, <1>3, <1>4, IsMarkPosted DEF Refines

LEMMA FailBeforeRefines == ASSUME IInv, FailBefore PROVE Refines
  <1>. DEFINE i == worker.id
              r == Retried(job[i])
  <1>1. /\ i \in JobIds /\ job[i] \in JobRec /\ job[i].st = "active"
        /\ job[i].att < MaxAttempts /\ job \in [JobIds -> JobRec]
        /\ posted' = posted /\ job' = [job EXCEPT ![i] = r]
    BY AtWork DEF FailBefore
  <1>2. /\ r.st = "delayed" \/ r.st = "failed"
        /\ r.out = job[i].out /\ r.faults = job[i].faults
    BY <1>1, RetriedJob DEF SameGhosts
  <1>. HIDE DEF r, i
  <1>3. job'[i] = r /\ \A k \in JobIds : k # i => job'[k] = job[k]
    BY <1>1
  <1>4. QED
    BY <1>1, <1>2, <1>3, StaysLive, GivesUp DEF Live

LEMMA Stumbles ==
  ASSUME NEW i \in JobIds, job[i].st = "active", job[i].out # {},
         job'[i].st \in Live \union {"failed"}, job'[i].out = job[i].out,
         job'[i].faults > 0, posted' = posted,
         \A k \in JobIds : k # i => job'[k] = job[k]
  PROVE  Refines
  <1>1. /\ AStage[i] = "pending" /\ AOut[i] = job[i].out
        /\ StageOf(job'[i].st) = "pending" \/ StageOf(job'[i].st) = "dead"
    BY StageCases, Mapped DEF Live
  <1>2. /\ AStage' = [AStage EXCEPT ![i] = AStage[i]]
             \/ AStage' = [AStage EXCEPT ![i] = "dead"]
        /\ AOut' = [AOut EXCEPT ![i] = AOut[i]]
        /\ ATrouble' = [ATrouble EXCEPT ![i] = TRUE]
    <2>1. (job'[i].faults > 0) = TRUE
      OBVIOUS
    <2>2. ATrouble' = [ATrouble EXCEPT ![i] = job'[i].faults > 0]
      BY Moved
    <2>3. /\ AStage' = [AStage EXCEPT ![i] = StageOf(job'[i].st)]
          /\ AOut' = [AOut EXCEPT ![i] = job'[i].out]
      BY Moved
    <2>4. ATrouble' = [ATrouble EXCEPT ![i] = TRUE]
      BY <2>1, <2>2
    <2>5. QED
      BY <1>1, <2>3, <2>4
  <1>3. AOut' = AOut
    BY <1>2 DEF AOut
  <1>4. AStage' = AStage \/ AStage' = [AStage EXCEPT ![i] = "dead"]
    BY <1>2 DEF AStage
  <1>5. QED
    BY <1>1, <1>2, <1>3, <1>4, IsStumble DEF Refines

LEMMA FailAfterRefines == ASSUME IInv, FailAfter PROVE Refines
  <1>. DEFINE i == worker.id
              n == job[i].faults + 1
              q == Retried(job[i])
              r == [q EXCEPT !.faults = n]
  <1>1. /\ i \in JobIds /\ job[i] \in JobRec /\ job[i].st = "active"
        /\ job[i].att < MaxAttempts /\ job \in [JobIds -> JobRec]
        /\ job[i].out # {} /\ posted' = posted /\ job' = [job EXCEPT ![i] = r]
    BY AtWork DEF FailAfter, Faulted, IInv, Bookkeeping, WorkerInv
  <1>2. /\ q \in JobRec /\ (q.st = "delayed" \/ q.st = "failed")
        /\ q.out = job[i].out
    BY <1>1, RetriedJob DEF SameGhosts
  <1>3. n > 0
    BY <1>1, JobFields
  <1>. HIDE DEF n, q, i
  <1>4. r.st \in Live \union {"failed"} /\ r.out = job[i].out /\ r.faults = n
    BY <1>2 DEF JobRec, Live
  <1>. HIDE DEF r
  <1>5. job'[i] = r /\ \A k \in JobIds : k # i => job'[k] = job[k]
    BY <1>1
  <1>6. QED
    BY <1>1, <1>3, <1>4, <1>5, Stumbles

LEMMA CrashRefines == ASSUME IInv, Crash PROVE Refines
  <1>1. posted' = posted
    BY DEF Crash
  <1>2. CASE worker.pc = "mark"
    <2>. DEFINE i == worker.id
                n == job[i].faults + 1
                r == [job[i] EXCEPT !.faults = n]
    <2>1. /\ i \in JobIds /\ job[i] \in JobRec /\ job[i].st = "active"
          /\ job \in [JobIds -> JobRec] /\ job[i].out # {}
          /\ job' = [job EXCEPT ![i] = r]
      BY <1>2, AtWork DEF Crash, IInv, Bookkeeping, WorkerInv
    <2>2. n > 0
      BY <2>1, JobFields
    <2>. HIDE DEF n
    <2>3. r.st = "active" /\ r.out = job[i].out /\ r.faults = n
      BY <2>1 DEF JobRec
    <2>. HIDE DEF r, i
    <2>4. job'[i] = r /\ \A k \in JobIds : k # i => job'[k] = job[k]
      BY <2>1
    <2>5. QED
      BY <1>1, <2>1, <2>2, <2>3, <2>4, Stumbles DEF Live
  <1>3. CASE worker.pc # "mark"
    BY <1>1, <1>3, Unmoved DEF Crash, Refines
  <1>4. QED
    BY <1>2, <1>3

LEMMA PromoteRefines ==
  ASSUME IInv, NEW i \in JobIds, Promote(i) PROVE Refines
  <1>1. /\ TypeOK /\ job[i].st \in Live /\ posted' = posted
        /\ job' = [job EXCEPT ![i].st = "wait"]
    BY DEF Promote, IInv, Live
  <1>2. QED
    BY <1>1, StatusMoves, StaysLive DEF Live

LEMMA RecoverStalledRefines ==
  ASSUME IInv, NEW i \in JobIds, RecoverStalled(i) PROVE Refines
  <1>. DEFINE s == IF job[i].stalls + 1 > MaxStalls THEN "failed" ELSE "wait"
              n == job[i].stalls + 1
              r == [[job[i] EXCEPT !.st = s] EXCEPT !.stalls = n]
  <1>1. /\ job \in [JobIds -> JobRec] /\ job[i] \in JobRec /\ job[i].st = "active"
        /\ posted' = posted
    BY DEF RecoverStalled, IInv, TypeOK
  <1>2. job' = [job EXCEPT ![i] = r]
    BY <1>1 DEF RecoverStalled
  <1>3. s = "failed" \/ s = "wait"
    OBVIOUS
  <1>. HIDE DEF s, n
  <1>4. r.st = s /\ r.out = job[i].out /\ r.faults = job[i].faults
    BY <1>1 DEF JobRec
  <1>. HIDE DEF r
  <1>5. job'[i] = r /\ \A k \in JobIds : k # i => job'[k] = job[k]
    BY <1>1, <1>2
  <1>6. QED
    BY <1>1, <1>3, <1>4, <1>5, StaysLive, GivesUp DEF Live

LEMMA PruneRefines ==
  ASSUME IInv, NEW i \in JobIds, Prune(i) PROVE Refines
  <1>. DEFINE r == AbsentJob
  <1>1. /\ job[i].st \in {"completed", "failed"} /\ job \in [JobIds -> JobRec]
        /\ job' = [job EXCEPT ![i] = r] /\ posted' = posted
    BY DEF Prune, IInv, TypeOK
  <1>2. r.st = "absent" /\ r.out = {} /\ (r.faults > 0) = FALSE
    BY DEF AbsentJob
  <1>. HIDE DEF r
  <1>3. job'[i] = r /\ \A k \in JobIds : k # i => job'[k] = job[k]
    BY <1>1
  <1>4. AStage[i] \in {"done", "dead"} /\ StageOf(r.st) = "none"
    BY <1>1, <1>2, StageCases, Mapped
  <1>5. /\ AStage' = [AStage EXCEPT ![i] = StageOf(job'[i].st)]
        /\ AOut' = [AOut EXCEPT ![i] = job'[i].out]
        /\ ATrouble' = [ATrouble EXCEPT ![i] = job'[i].faults > 0]
    BY <1>3, Moved
  <1>6. QED
    BY <1>1, <1>2, <1>3, <1>4, <1>5, IsForget DEF Refines

LEMMA AgeRefines ==
  ASSUME IInv, NEW i \in JobIds, Age(i) PROVE Refines
  <1>. DEFINE r == [job[i] EXCEPT !.stale = TRUE]
  <1>1. /\ job[i].st \in Live /\ job \in [JobIds -> JobRec] /\ job[i] \in JobRec
        /\ job' = [job EXCEPT ![i] = r] /\ posted' = posted
    BY DEF Age, IInv, TypeOK
  <1>2. r.st = job[i].st /\ r.out = job[i].out /\ r.faults = job[i].faults
    BY <1>1 DEF JobRec
  <1>. HIDE DEF r
  <1>3. job'[i] = r /\ \A k \in JobIds : k # i => job'[k] = job[k]
    BY <1>1
  <1>4. QED
    BY <1>1, <1>2, <1>3, StaysLive

LEMMA QuietEndRefines == ASSUME IInv, QuietEnd PROVE Refines
  <1>1. ASSUME NEW i \in JobIds
        PROVE  /\ job'[i].st = job[i].st /\ job'[i].out = job[i].out
               /\ job'[i].faults = job[i].faults
    <2>1. job'[i] = [job[i] EXCEPT !.held = FALSE] /\ job[i] \in JobRec
      BY DEF QuietEnd, IInv, TypeOK
    <2>2. QED
      BY <2>1 DEF JobRec
  <1>2. posted' = posted
    BY DEF QuietEnd
  <1>3. QED
    BY <1>1, <1>2, Unmoved DEF Refines

LEMMA AddRefines ==
  ASSUME IInv, NEW c \in Callers, Add(c) PROVE Refines
  <1>. DEFINE a == Head(call[c].adds)
              r == [AbsentJob EXCEPT !.st = "wait", !.urgent = call[c].urgent,
                                     !.edited = call[c].edited]
  <1>1. a \in AddRec /\ job \in [JobIds -> JobRec] /\ posted' = posted
    BY CallHolds DEF Add, IInv, TypeOK
  <1>2. PICK s \in IF call[c].unique /\ Len(a.keys) = 1 THEN Stamps ELSE {0} :
          LET i == [keys |-> a.keys, jid |-> a.jid, stamp |-> s] IN
            IF job[i].st = "absent"
            THEN /\ job' = [job EXCEPT ![i] = r]
                 /\ wait' = IF call[c].urgent THEN <<i>> \o wait
                                              ELSE Append(wait, i)
            ELSE UNCHANGED <<job, wait>>
    BY DEF Add
  <1>. DEFINE i == [keys |-> a.keys, jid |-> a.jid, stamp |-> s]
  <1>3. i \in JobIds
    BY <1>1, <1>2, AddIds
  <1>4. \/ UNCHANGED job
        \/ job[i].st = "absent" /\ job' = [job EXCEPT ![i] = r]
    BY <1>2
  <1>5. r.st = "wait" /\ r.out = {} /\ r.faults = 0
    BY DEF AbsentJob
  <1>. HIDE DEF a, i, r
  <1>6. CASE UNCHANGED job
    BY <1>1, <1>6, Unmoved DEF Refines
  <1>7. CASE job[i].st = "absent" /\ job' = [job EXCEPT ![i] = r]
    <2>1. job'[i] = r /\ \A k \in JobIds : k # i => job'[k] = job[k]
      BY <1>1, <1>3, <1>7
    <2>2. /\ AStage[i] = "none" /\ StageOf(r.st) = "pending"
          /\ AOut[i] = job[i].out /\ ATrouble[i] = (job[i].faults > 0)
      BY <1>3, <1>5, <1>7, StageCases, Mapped DEF Live
    <2>3. job[i].out = {} /\ job[i].faults = 0
      BY <1>3, <1>7 DEF IInv, Bookkeeping, JobInv
    <2>4. /\ AStage' = [AStage EXCEPT ![i] = "pending"]
          /\ AOut' = [AOut EXCEPT ![i] = AOut[i]]
          /\ ATrouble' = [ATrouble EXCEPT ![i] = ATrouble[i]]
      BY <1>3, <1>5, <2>1, <2>2, <2>3, Moved
    <2>5. AOut' = AOut /\ ATrouble' = ATrouble
      BY <2>4 DEF AOut, ATrouble
    <2>6. QED
      BY <1>1, <1>3, <2>2, <2>4, <2>5, IsSubmit DEF Refines
  <1>8. QED
    BY <1>4, <1>6, <1>7

LEMMA OtherCallersRefine ==
  ASSUME NEW c \in Callers,
         Dispatch(c) \/ Approve(c) \/ AddFails(c) \/ RecordPosted(c)
  PROVE  Refines
  <1>1. UNCHANGED <<job, posted>>
    BY DEF Dispatch, Approve, Start, AddFails, RecordPosted
  <1>2. QED
    BY <1>1, Unmoved DEF Refines

LEMMA StepRefines ==
  ASSUME IInv, [Next]_vars
  PROVE  Refines
  <1>1. ASSUME NEW c \in Callers,
               \/ Dispatch(c) \/ Approve(c) \/ Add(c)
               \/ AddFails(c) \/ RecordPosted(c)
        PROVE  Refines
    BY <1>1, AddRefines, OtherCallersRefine
  <1>2. CASE Check \/ Rescrape \/ QuietStart \/ UNCHANGED vars
    <2>1. UNCHANGED <<job, posted>>
      BY <1>2 DEF Check, Rescrape, QuietStart, vars
    <2>2. QED
      BY <2>1, Unmoved DEF Refines
  <1>3. CASE Take \/ QuietEnd \/ Crash
    BY <1>3, TakeRefines, QuietEndRefines, CrashRefines
  <1>4. CASE Hold \/ Discard \/ Publish \/ Mark \/ Complete
             \/ FailBefore \/ FailAfter
    BY <1>4, HoldRefines, DiscardRefines, PublishRefines, MarkRefines,
       CompleteRefines, FailBeforeRefines, FailAfterRefines
  <1>5. ASSUME NEW i \in JobIds,
               Promote(i) \/ RecoverStalled(i) \/ Prune(i) \/ Age(i)
        PROVE  Refines
    BY <1>5, PromoteRefines, RecoverStalledRefines, PruneRefines, AgeRefines
  <1>6. QED
    BY <1>1, <1>2, <1>3, <1>4, <1>5
       DEF Next, CallerStep, Process, RedisStep, ClockStep

LEMMA InitRefines ==
  ASSUME Init
  PROVE  Promise!DInit
  <1>1. \A i \in JobIds : /\ job[i].st = "absent" /\ job[i].out = {}
                          /\ job[i].faults = 0
    BY DEF Init, AbsentJob
  <1>2. AStage = [i \in JobIds |-> "none"]
    BY <1>1, StageOfJob, StageCases DEF AStage
  <1>3. AOut = [i \in JobIds |-> {}]
    BY <1>1 DEF AOut
  <1>4. ATrouble = [i \in JobIds |-> FALSE]
    <2>1. \A i \in JobIds : (job[i].faults > 0) = FALSE
      BY <1>1
    <2>2. QED
      BY <2>1, Zenon DEF ATrouble
  <1>5. posted = {}
    BY DEF Init
  <1>6. QED
    BY <1>2, <1>3, <1>4, <1>5 DEF Promise!DInit, AStage, AOut, ATrouble

(* The send path implements the promise of Delivery: delivered once unless
   something failed after a delivery, marked only by the job that delivered,
   and finished only when everything delivered is marked. *)
THEOREM SendPathKeepsPromise == Spec => ImplementsDelivery
  <1>1. Init => Promise!DInit
    BY InitRefines
  <1>2. IInv /\ [Next]_vars => [Promise!DNext]_(Promise!dvars)
    BY StepRefines DEF Refines
  <1>3. QED
    BY <1>1, <1>2, Invariance, PTL DEF Spec, ImplementsDelivery, Promise!DSpec
=============================================================================
