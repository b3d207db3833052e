--------------------------- MODULE ServicesProofs ---------------------------
(***************************************************************************)
(* Proofs about five of the smaller services, for any number of links,      *)
(* targets, deals, sellers, captions and overlapping calls: short links lead *)
(* home, the registries keep what they were told, the operator's alert       *)
(* overlooks no deal and repeats none, a seller that answered stays known,   *)
(* and no caption opens with a line the gate did not pass.                   *)
(***************************************************************************)
EXTENDS ShortLinks, Targets, DmAlert, SellerCache, Headlines, TLAPS

(* A caption that asks for a code has a link. *)
WrapHasLink == \A w \in Captions : wrap[w] # NoWrap => wrap[w].link \in Links

LinksInv == LinksTypeOK /\ WrapHasLink /\ LinksLeadHome

LEMMA LinksStep == LinksInv /\ [LinksNext]_linkVars => LinksInv'
<1> SUFFICES ASSUME LinksInv, [LinksNext]_linkVars PROVE LinksInv'
  OBVIOUS
<1> USE LinksAssumption DEF LinksInv, LinksTypeOK, WrapHasLink, LinksLeadHome, Follow,
        NoWrap, MaxCodeAttempts, Prints
<1>1. ASSUME NEW w \in Captions, NEW l \in Links, Wraps(w, l) PROVE LinksInv'
  <2>1. wraps' \in 0..MaxWraps /\ leads' = leads
    BY <1>1 DEF Wraps
  <2>2. wrap' \in [Captions -> [link : Links \union {"none"}, left : 0..3]] /\ WrapHasLink'
    BY <1>1 DEF Wraps
  <2>3. \A p \in printed' : \/ p \in printed
                            \/ p = [link |-> l, code |-> "raw"]
                            \/ \E c \in Codes : leads[c] = l /\ p = [link |-> l, code |-> c]
    BY <1>1 DEF Wraps
  <2>4. printed' \subseteq [link : Links, code : Codes \union {"raw"}] /\ LinksLeadHome'
    BY <2>1, <2>3
  <2> QED BY <2>1, <2>2, <2>4
<1>2. ASSUME NEW w \in Captions, Creates(w) PROVE LinksInv'
  <2>0. wrap[w].link \in Links /\ wraps' = wraps
    BY <1>2 DEF Creates
  <2>1. wrap' \in [Captions -> [link : Links \union {"none"}, left : 0..3]] /\ WrapHasLink'
    <3>1. CASE wrap' = [wrap EXCEPT ![w] = NoWrap]
      BY <3>1
    <3>2. CASE wrap[w].left > 1 /\ wrap' = [wrap EXCEPT ![w].left = @ - 1]
      <4>1. wrap[w].left - 1 \in 0..3
        BY <3>2
      <4>2. [wrap[w] EXCEPT !.left = @ - 1] \in [link : Links \union {"none"}, left : 0..3]
        BY <4>1
      <4>3. [wrap[w] EXCEPT !.left = @ - 1].link \in Links
        BY <2>0
      <4> QED BY <3>2, <4>2, <4>3
    <3> QED BY <1>2, <3>1, <3>2 DEF Creates
  <2>2. CASE \E c \in Codes :
               /\ leads[c] = "none" /\ leads' = [leads EXCEPT ![c] = wrap[w].link]
               /\ printed' = printed \union {[link |-> wrap[w].link, code |-> c]}
    <3>1. PICK c \in Codes :
               /\ leads[c] = "none" /\ leads' = [leads EXCEPT ![c] = wrap[w].link]
               /\ printed' = printed \union {[link |-> wrap[w].link, code |-> c]}
      BY <2>2
    <3>2. leads' \in [Codes -> Links \union {"none"}]
      BY <2>0, <3>1
    <3>3. \A p \in printed : p.code # "raw" => p.code \in Codes /\ p.code # c
      BY <3>1
    <3>4. LinksLeadHome'
      BY <2>0, <3>1, <3>3
    <3>5. printed' \subseteq [link : Links, code : Codes \union {"raw"}]
      BY <2>0, <3>1
    <3> QED BY <2>0, <2>1, <3>2, <3>4, <3>5
  <2>3. CASE leads' = leads /\ \/ printed' = printed
                               \/ printed' = printed \union {[link |-> wrap[w].link, code |-> "raw"]}
    BY <2>0, <2>1, <2>3
  <2> QED BY <1>2, <2>2, <2>3 DEF Creates
<1>3. CASE UNCHANGED linkVars
  BY <1>3 DEF linkVars
<1> QED BY <1>1, <1>2, <1>3 DEF LinksNext

(* Every caption's link leads to its own deal (redirect.service.ts), however
   many captions are rendered together and whatever codes are drawn. *)
THEOREM LinksAreOwn == LinksSpec => []LinksLeadHome
<1>1. LinksInit => LinksInv
  BY LinksAssumption DEF LinksInit, LinksInv, LinksTypeOK, WrapHasLink, LinksLeadHome, NoWrap,
     MaxCodeAttempts
<1>2. LinksInv => LinksLeadHome
  BY DEF LinksInv
<1> QED BY <1>1, <1>2, LinksStep, PTL DEF LinksSpec

-----------------------------------------------------------------------------
(* Targets. *)

UnderWay(r) == request[r].at # "none"

(* Requests are there only while the process listens, and name a target. *)
RequestsListen ==
  \A r \in Requests : /\ UnderWay(r) => booting = "up"
                      /\ UnderWay(r) <=> request[r].jid \in Jids

(* What is left of a request does what was asked, so far undisturbed. *)
OnItsWay(r, j) ==
  \/ request[r].at = "delete" /\ asked[j] = "none"
  \/ request[r].at = "add" /\ asked[j] = "active"
  \/ request[r].at = "addThenPause" /\ asked[j] = "paused"
  \/ request[r].at \in {"find", "write"} /\ asked[j] = "paused" /\ target[j] = "active"

Kept(j) == \/ target[j] = asked[j]
           \/ asked[j] = "none" /\ target[j] = "active" /\ j \in EnvJids \union LegacyJids

(* An undisturbed target has one request at most, which is on its way to what
   was asked, or none and is what was asked. *)
Undisturbed(j) ==
  /\ \A q, r \in Requests : request[q].jid = j /\ request[r].jid = j => q = r
  /\ \A r \in Requests : request[r].jid = j => OnItsWay(r, j)
  /\ (\A r \in Requests : request[r].jid # j) => Kept(j)

RegistryInv == /\ TargetsTypeOK
               /\ RequestsListen
               /\ \A j \in Jids \ disturbed : Undisturbed(j)
               /\ ToldIsOut

RequestStates == [at : {"none", "delete", "add", "addThenPause", "find", "write"},
                  jid : Jids \union {"none"}]

(* While requests and targets stay, so does what is said of them. *)
LEMMA RegistryStays ==
  ASSUME RegistryInv, UNCHANGED <<target, request, asked>>,
         disturbed \subseteq disturbed',
         UNCHANGED booting
  PROVE  RequestsListen' /\ \A j \in Jids \ disturbed' : Undisturbed(j)'
BY DEF RegistryInv, RequestsListen, Undisturbed, OnItsWay, Kept, UnderWay

LEMMA BootKeeps ==
  ASSUME RegistryInv, Backfills \/ Seeds
  PROVE  RegistryInv'
<1> USE RegistryAssumption DEF RegistryInv
<1>1. /\ UNCHANGED <<request, asked, disturbed, optedOut, throttled, leaving, thanked, wishes>>
      /\ booting # "up"
  BY DEF Backfills, Seeds, commandVars
<1>2. \A r \in Requests : request'[r].at = "none" /\ request'[r].jid \notin Jids
  BY <1>1 DEF RequestsListen, UnderWay
<1>3. RequestsListen'
  BY <1>2 DEF RequestsListen, UnderWay
<1>4. \A j \in Jids : \/ target'[j] = target[j]
                       \/ /\ target[j] = "none" /\ target'[j] = "active"
                          /\ j \in EnvJids \union LegacyJids
  <2>1. CASE Seeds
    BY <2>1 DEF Seeds, Seeded, TargetsTypeOK
  <2>2. CASE Backfills
    BY <2>2 DEF Backfills, TargetsTypeOK
  <2> QED BY <2>1, <2>2
<1>5. ASSUME NEW j \in Jids \ disturbed' PROVE Undisturbed(j)'
  <2>1. Undisturbed(j) /\ \A r \in Requests : request[r].jid # j
    BY <1>1, <1>2
  <2>2. Kept(j)'
    BY <1>1, <1>4, <2>1 DEF Undisturbed, Kept
  <2> QED BY <1>1, <2>1, <2>2 DEF Undisturbed, OnItsWay
<1>6. TargetsTypeOK'
  <2>1. target' \in [Jids -> {"none", "active", "paused"}]
    BY DEF Backfills, Seeds, Seeded, TargetsTypeOK
  <2>2. troubles' \in 0..MaxTroubles /\ booting' \in {"backfill", "seed", "up"}
    BY DEF Backfills, Seeds, TargetsTypeOK
  <2> QED BY <1>1, <2>1, <2>2 DEF TargetsTypeOK
<1>7. ToldIsOut'
  BY <1>1 DEF ToldIsOut
<1> QED BY <1>3, <1>5, <1>6, <1>7

LEMMA RestartKeeps ==
  ASSUME RegistryInv, TargetsRestart
  PROVE  RegistryInv'
<1> USE RegistryAssumption DEF RegistryInv
<1>1. /\ UNCHANGED <<target, asked, optedOut, thanked, wishes>>
      /\ request' = [r \in Requests |-> NoRequest]
      /\ disturbed' = disturbed \union
                         {request[r].jid : r \in {q \in Requests : request[q].at # "none"}}
  BY DEF TargetsRestart
<1>2. RequestsListen'
  BY <1>1 DEF RequestsListen, UnderWay, NoRequest
<1>3. ASSUME NEW j \in Jids \ disturbed' PROVE Undisturbed(j)'
  <2>1. Undisturbed(j) /\ \A r \in Requests : request[r].jid # j
    BY <1>1 DEF RequestsListen, UnderWay
  <2> QED BY <1>1, <2>1 DEF Undisturbed, Kept, OnItsWay, NoRequest
<1>4. disturbed' \subseteq Jids
  BY <1>1 DEF RequestsListen, UnderWay, TargetsTypeOK
<1>5. request' \in [Requests -> RequestStates]
  BY <1>1 DEF NoRequest, RequestStates
<1>6. /\ troubles' \in 0..MaxTroubles /\ booting' \in {"backfill", "seed", "up"}
      /\ throttled' = {} /\ leaving' = {}
  BY DEF TargetsRestart, TargetsTypeOK
<1>7. TargetsTypeOK' /\ ToldIsOut'
  BY <1>1, <1>4, <1>5, <1>6 DEF TargetsTypeOK, RequestStates, ToldIsOut
<1> QED BY <1>2, <1>3, <1>7

LEMMA AskKeeps ==
  ASSUME RegistryInv, NEW r \in Requests, NEW j \in Jids,
         NEW want \in {"none", "active", "paused"}, Asks(r, j, want)
  PROVE  RegistryInv'
<1> USE RegistryAssumption DEF RegistryInv
<1> DEFINE first == IF want = "none" THEN "delete"
                    ELSE IF want = "active" THEN "add" ELSE "addThenPause"
           new == [at |-> first, jid |-> j]
<1>1. /\ request' = [request EXCEPT ![r] = new]
      /\ asked' = [asked EXCEPT ![j] = want]
      /\ UNCHANGED <<target, booting, optedOut, throttled, leaving, thanked, troubles>>
      /\ booting = "up" /\ request[r].at = "none"
      /\ request \in [Requests -> RequestStates]
  BY DEF Asks, commandVars, TargetsTypeOK, RequestStates
<1>2. /\ request'[r] = new /\ new.at = first /\ new.jid = j /\ first # "none"
      /\ \A q \in Requests \ {r} : request'[q] = request[q]
      /\ asked'[j] = want /\ \A k \in Jids \ {j} : asked'[k] = asked[k]
  BY <1>1 DEF TargetsTypeOK
<1>3. RequestsListen'
  BY <1>1, <1>2 DEF RequestsListen, UnderWay
<1>4. ASSUME NEW k \in Jids \ disturbed' PROVE Undisturbed(k)'
  <2>1. CASE k = j
    <3>1. \A q \in Requests : request[q].jid # j
      BY <2>1 DEF Asks
    <3>2. \A q \in Requests : request'[q].jid = j => q = r
      BY <1>2, <3>1
    <3>3. OnItsWay(r, j)'
      BY <1>2 DEF OnItsWay
    <3>4. request'[r].jid = j
      BY <1>2
    <3> QED BY <2>1, <3>2, <3>3, <3>4 DEF Undisturbed
  <2>2. CASE k # j
    <3>1. Undisturbed(k)
      BY <2>2 DEF Asks
    <3>2. request[r].jid # k
      BY <1>1 DEF RequestsListen, UnderWay
    <3>3. \A q \in Requests : (request'[q].jid = k) <=> (request[q].jid = k)
      BY <1>2, <2>2, <3>2
    <3>4. \A q \in Requests : request[q].jid = k => request'[q] = request[q]
      BY <1>2, <3>2
    <3>5. asked'[k] = asked[k] /\ target'[k] = target[k]
      BY <1>1, <1>2, <2>2
    <3>6. \A q \in Requests : request'[q].jid = k => OnItsWay(q, k)'
      BY <3>1, <3>3, <3>4, <3>5 DEF Undisturbed, OnItsWay
    <3>7. Kept(k) => Kept(k)'
      BY <3>5 DEF Kept
    <3> QED BY <3>1, <3>3, <3>6, <3>7 DEF Undisturbed
  <2> QED BY <2>1, <2>2
<1>5. new \in RequestStates
  BY DEF RequestStates
<1>6. wishes' \in 0..MaxWishes /\ disturbed' \subseteq Jids
  BY DEF Asks, TargetsTypeOK
<1>7. TargetsTypeOK' /\ ToldIsOut'
  <2>1. request' \in [Requests -> RequestStates]
    BY <1>1, <1>5
  <2>2. asked' \in [Jids -> {"none", "active", "paused"}]
    BY <1>1 DEF TargetsTypeOK
  <2> QED BY <1>1, <1>6, <2>1, <2>2 DEF TargetsTypeOK, RequestStates, ToldIsOut
<1> QED BY <1>3, <1>4, <1>7

(* A query answers: the request goes on, on its way, or ends with what was
   asked. *)
LEMMA ReplyKeeps ==
  ASSUME RegistryInv, NEW r \in Requests,
         NEW at \in {"delete", "add", "addThenPause", "find", "write"},
         NEW to \in {"none", "find", "write"}, NEW value \in {"none", "active", "paused"},
         Replies(r, at, to, value),
         OnItsWay(r, request[r].jid) =>
           IF to = "none" THEN value = asked[request[r].jid]
                          ELSE asked[request[r].jid] = "paused" /\ value = "active"
  PROVE  RegistryInv'
<1> USE RegistryAssumption DEF RegistryInv
<1> DEFINE j == request[r].jid
           new == IF to = "none" THEN NoRequest ELSE [request[r] EXCEPT !.at = to]
<1>1. /\ request[r].at = at /\ j \in Jids /\ booting = "up"
      /\ request[r] \in RequestStates /\ request \in [Requests -> RequestStates]
  BY DEF Replies, RequestsListen, UnderWay, TargetsTypeOK, RequestStates
<1>2. /\ target' = [target EXCEPT ![j] = value]
      /\ request' = [request EXCEPT ![r] = new]
      /\ UNCHANGED <<booting, asked, disturbed, optedOut, throttled, leaving, thanked,
                     wishes, troubles>>
  BY DEF Replies, commandVars
<1>3. CASE to = "none"
  <2>1. new = [at |-> "none", jid |-> "none"]
    BY <1>3 DEF NoRequest
  <2>2. new \in RequestStates /\ new.at = "none" /\ new.jid = "none"
    BY <2>1 DEF RequestStates
  <2> HIDE DEF new
  <2>3. /\ request'[r] = new /\ \A q \in Requests \ {r} : request'[q] = request[q]
        /\ target'[j] = value /\ \A k \in Jids \ {j} : target'[k] = target[k]
    BY <1>1, <1>2 DEF TargetsTypeOK
  <2>4. RequestsListen'
    BY <1>2, <2>2, <2>3 DEF RequestsListen, UnderWay
  <2>5. ASSUME NEW k \in Jids \ disturbed' PROVE Undisturbed(k)'
    <3>0. Undisturbed(k)
      BY <1>2
    <3>1. CASE k = j
      <4>1. OnItsWay(r, j) /\ \A q \in Requests : request[q].jid = j => q = r
        BY <3>0, <3>1 DEF Undisturbed
      <4>2. target'[j] = asked'[j]
        BY <1>2, <1>3, <2>3, <4>1
      <4>3. \A q \in Requests : request'[q].jid # j
        BY <1>1, <2>2, <2>3, <4>1
      <4> QED BY <3>1, <4>2, <4>3 DEF Undisturbed, Kept
    <3>2. CASE k # j
      <4>1. \A q \in Requests : (request'[q].jid = k) <=> (request[q].jid = k)
        BY <2>2, <2>3, <3>2
      <4>2. \A q \in Requests : request[q].jid = k => request'[q] = request[q]
        BY <2>3, <3>2
      <4>3. asked'[k] = asked[k] /\ target'[k] = target[k]
        BY <1>2, <2>3, <3>2
      <4>4. \A q \in Requests : request'[q].jid = k => OnItsWay(q, k)'
        BY <3>0, <4>1, <4>2, <4>3 DEF Undisturbed, OnItsWay
      <4>5. Kept(k) => Kept(k)'
        BY <4>3 DEF Kept
      <4> QED BY <3>0, <4>1, <4>4, <4>5 DEF Undisturbed
    <3> QED BY <3>1, <3>2
  <2>6. TargetsTypeOK' /\ ToldIsOut'
    <3>1. request' \in [Requests -> RequestStates]
      BY <1>1, <1>2, <2>2
    <3>2. target' \in [Jids -> {"none", "active", "paused"}]
      BY <1>2 DEF TargetsTypeOK
    <3> QED BY <1>2, <3>1, <3>2 DEF TargetsTypeOK, RequestStates, ToldIsOut
  <2> QED BY <2>4, <2>5, <2>6
<1>4. CASE to # "none"
  <2>1. new = [request[r] EXCEPT !.at = to]
    BY <1>4
  <2>2. new \in RequestStates /\ new.at = to /\ new.jid = j
    BY <1>1, <1>4, <2>1 DEF RequestStates
  <2> HIDE DEF new
  <2>3. /\ request'[r] = new /\ \A q \in Requests \ {r} : request'[q] = request[q]
        /\ target'[j] = value /\ \A k \in Jids \ {j} : target'[k] = target[k]
    BY <1>1, <1>2 DEF TargetsTypeOK
  <2>4. RequestsListen'
    BY <1>1, <1>2, <1>4, <2>2, <2>3 DEF RequestsListen, UnderWay
  <2>5. ASSUME NEW k \in Jids \ disturbed' PROVE Undisturbed(k)'
    <3>0. Undisturbed(k)
      BY <1>2
    <3>1. \A q \in Requests : request'[q].jid = request[q].jid
      BY <2>2, <2>3
    <3>2. CASE k = j
      <4>1. OnItsWay(r, j) /\ \A q \in Requests : request[q].jid = j => q = r
        BY <3>0, <3>2 DEF Undisturbed
      <4>2. asked'[j] = "paused" /\ target'[j] = "active" /\ request'[r].at \in {"find", "write"}
        BY <1>2, <1>4, <2>2, <2>3, <4>1
      <4>3. OnItsWay(r, k)'
        BY <3>2, <4>2 DEF OnItsWay
      <4> QED BY <3>1, <3>2, <4>1, <4>3 DEF Undisturbed
    <3>3. CASE k # j
      <4>1. asked'[k] = asked[k] /\ target'[k] = target[k]
        BY <1>2, <2>3, <3>3
      <4>2. \A q \in Requests : request[q].jid = k => request'[q] = request[q]
        BY <2>3, <3>3
      <4>3. \A q \in Requests : request'[q].jid = k => OnItsWay(q, k)'
        BY <3>0, <3>1, <4>1, <4>2 DEF Undisturbed, OnItsWay
      <4>4. Kept(k) => Kept(k)'
        BY <4>1 DEF Kept
      <4> QED BY <3>0, <3>1, <4>3, <4>4 DEF Undisturbed
    <3> QED BY <3>2, <3>3
  <2>6. TargetsTypeOK' /\ ToldIsOut'
    <3>1. request' \in [Requests -> RequestStates]
      BY <1>1, <1>2, <2>2
    <3>2. target' \in [Jids -> {"none", "active", "paused"}]
      BY <1>2 DEF TargetsTypeOK
    <3> QED BY <1>2, <3>1, <3>2 DEF TargetsTypeOK, RequestStates, ToldIsOut
  <2> QED BY <2>4, <2>5, <2>6
<1> QED BY <1>3, <1>4

LEMMA StepKeeps ==
  ASSUME RegistryInv, NEW r \in Requests, RequestStep(r)
  PROVE  RegistryInv'
<1>1. CASE Replies(r, "delete", "none", "none")
  <2>1. OnItsWay(r, request[r].jid) => asked[request[r].jid] = "none"
    BY <1>1 DEF Replies, OnItsWay
  <2> QED BY <1>1, <2>1, ReplyKeeps
<1>2. CASE Replies(r, "add", "none", "active")
  <2>1. OnItsWay(r, request[r].jid) => asked[request[r].jid] = "active"
    BY <1>2 DEF Replies, OnItsWay
  <2> QED BY <1>2, <2>1, ReplyKeeps
<1>3. CASE Replies(r, "addThenPause", "find", "active")
  <2>1. OnItsWay(r, request[r].jid) => asked[request[r].jid] = "paused"
    BY <1>3 DEF Replies, OnItsWay
  <2> QED BY <1>3, <2>1, ReplyKeeps
<1>4. ASSUME NEW value \in {"none", "active", "paused"}, Finds(r, value)
      PROVE  RegistryInv'
  <2> DEFINE to == IF value = "none" THEN "none" ELSE "write"
  <2>1. Replies(r, "find", to, value) /\ to \in {"none", "write"}
    BY <1>4 DEF Finds
  <2>2. OnItsWay(r, request[r].jid) =>
          asked[request[r].jid] = "paused" /\ value = "active" /\ to = "write"
    BY <1>4 DEF Finds, OnItsWay
  <2> HIDE DEF to
  <2> QED BY <2>1, <2>2, ReplyKeeps
<1>5. CASE Replies(r, "write", "none", "paused")
  <2>1. OnItsWay(r, request[r].jid) => asked[request[r].jid] = "paused"
    BY <1>5 DEF Replies, OnItsWay
  <2> QED BY <1>5, <2>1, ReplyKeeps
<1> QED BY <1>1, <1>2, <1>3, <1>4, <1>5 DEF RequestStep

LEMMA FailKeeps ==
  ASSUME RegistryInv, NEW r \in Requests, RequestFails(r)
  PROVE  RegistryInv'
<1> USE RegistryAssumption DEF RegistryInv
<1>1. /\ request' = [request EXCEPT ![r] = NoRequest]
      /\ disturbed' = disturbed \union {request[r].jid}
      /\ UNCHANGED <<target, booting, asked, optedOut, throttled, leaving, thanked, wishes>>
      /\ request \in [Requests -> RequestStates] /\ request[r].jid \in Jids
  BY DEF RequestFails, commandVars, TargetsTypeOK, RequestStates, RequestsListen, UnderWay
<1>2. /\ NoRequest \in RequestStates /\ NoRequest.at = "none" /\ NoRequest.jid = "none"
      /\ request'[r] = NoRequest /\ \A q \in Requests \ {r} : request'[q] = request[q]
  BY <1>1 DEF NoRequest, RequestStates
<1>3. RequestsListen'
  BY <1>1, <1>2 DEF RequestsListen, UnderWay
<1>4. ASSUME NEW k \in Jids \ disturbed' PROVE Undisturbed(k)'
  <2>1. Undisturbed(k) /\ request[r].jid # k
    BY <1>1
  <2>2. \A q \in Requests : (request'[q].jid = k) <=> (request[q].jid = k)
    BY <1>2, <2>1
  <2>3. \A q \in Requests : request[q].jid = k => request'[q] = request[q]
    BY <1>2, <2>1
  <2> QED BY <1>1, <2>1, <2>2, <2>3 DEF Undisturbed, OnItsWay, Kept
<1>5. TargetsTypeOK' /\ ToldIsOut'
  <2>1. request' \in [Requests -> RequestStates]
    BY <1>1, <1>2
  <2>2. troubles' \in 0..MaxTroubles
    BY DEF RequestFails, TargetsTypeOK
  <2> QED BY <1>1, <2>1, <2>2 DEF TargetsTypeOK, RequestStates, ToldIsOut
<1> QED BY <1>3, <1>4, <1>5

LEMMA CommandKeeps ==
  ASSUME RegistryInv, NEW m \in Members,
         \/ Leaves(m) \/ OtherCommand(m) \/ LeftIsWritten(m) \/ LeavingFails(m)
         \/ MinutePasses(m)
  PROVE  RegistryInv'
<1> USE RegistryAssumption DEF RegistryInv
<1>1. UNCHANGED <<target, booting, request, asked, disturbed, wishes>>
  BY DEF Leaves, OtherCommand, LeftIsWritten, LeavingFails, MinutePasses, targetVars
<1>2. RequestsListen' /\ \A j \in Jids \ disturbed' : Undisturbed(j)'
  BY <1>1, RegistryStays
<1>3. troubles' \in 0..MaxTroubles
  BY DEF Leaves, OtherCommand, LeftIsWritten, LeavingFails, MinutePasses, TargetsTypeOK
<1>4. /\ optedOut' \subseteq Members /\ throttled' \subseteq Members
      /\ leaving' \subseteq Members /\ thanked' \subseteq optedOut'
  BY DEF Leaves, OtherCommand, LeftIsWritten, LeavingFails, MinutePasses, TargetsTypeOK,
         ToldIsOut
<1>5. TargetsTypeOK' /\ ToldIsOut'
  BY <1>1, <1>3, <1>4 DEF TargetsTypeOK, ToldIsOut
<1> QED BY <1>2, <1>5

(* The two registries keep what the operator and the members told them, in
   the circumstances RegistryFollows names (targets.service.ts,
   command.handler.ts). *)
THEOREM RegistriesAreKept == TargetsSpec => []RegistriesKeep
<1> USE RegistryAssumption
<1>1. TargetsInit => RegistryInv
  <2> SUFFICES ASSUME TargetsInit PROVE RegistryInv
    OBVIOUS
  <2>1. request = [r \in Requests |-> NoRequest] /\ NoRequest \in RequestStates
    BY DEF TargetsInit, NoRequest, RequestStates
  <2>2. \A r \in Requests : request[r].at = "none" /\ request[r].jid = "none"
    BY <2>1 DEF NoRequest
  <2>3. TargetsTypeOK
    BY <2>1 DEF TargetsInit, TargetsTypeOK, RequestStates
  <2>4. \A j \in Jids : Undisturbed(j)
    BY <2>2 DEF TargetsInit, Undisturbed, Kept
  <2> QED BY <2>2, <2>3, <2>4
          DEF RegistryInv, RequestsListen, UnderWay, ToldIsOut, TargetsInit
<1>2. RegistryInv /\ [TargetsNext]_registryVars => RegistryInv'
  <2> SUFFICES ASSUME RegistryInv, [TargetsNext]_registryVars PROVE RegistryInv'
    OBVIOUS
  <2>1. CASE UNCHANGED registryVars
    BY <2>1 DEF registryVars, RegistryInv, TargetsTypeOK, RequestsListen, UnderWay,
       Undisturbed, OnItsWay, Kept, ToldIsOut
  <2>2. CASE TargetsNext
    BY <2>2, BootKeeps, RestartKeeps, AskKeeps, StepKeeps, FailKeeps, CommandKeeps
       DEF TargetsNext
  <2> QED BY <2>1, <2>2
<1>3. RegistryInv => RegistriesKeep
  BY DEF RegistryInv, Undisturbed, Kept, RegistriesKeep, RegistryFollows
<1> QED BY <1>1, <1>2, <1>3, PTL DEF TargetsSpec

-----------------------------------------------------------------------------
(* The alert. *)

Active(t) == act[t].pc # "idle"
Listed(d) == row[d] \in {"pending", "decided"}

(* Nothing is dated in the future, and only rows that were committed are in
   an alert. *)
Dated ==
  /\ \A d \in Deals : created[d] <= time /\ (row[d] # "none" => created[d] >= 1)
  /\ \A t \in Ticks : act[t].now <= time
  /\ last <= time
  /\ \A d \in told : Listed(d)
  /\ \A t \in Ticks : act[t].pc = "send" => \A d \in act[t].seen : Listed(d)

(* An alert about to be sent has what will pass for old after it. *)
SeesTheOld ==
  \A t \in Ticks : act[t].pc = "send" =>
    \A d \in PendingDeals : created[d] <= act[t].now => d \in act[t].seen \union excused.missed

(* While ticks do not overlap: what the operator was told for good is older
   than the last alert, or than the one under way, and that one has news. *)
OneTick ==
  /\ \A t, u \in Ticks : Active(t) /\ Active(u) => t = u
  /\ \A t \in Ticks : Active(t) => last <= act[t].now
  /\ \A t \in Ticks : act[t].pc = "send" =>
       last = 0 \/ \E d \in act[t].seen : created[d] > last
  /\ \A d \in told \ excused.again : last # 0 => created[d] <= last
  /\ \A d \in told \ excused.again : \A t \in Ticks : Active(t) => created[d] <= act[t].now
  /\ news

AlertInv == /\ AlertTypeOK /\ Dated /\ SeesTheOld /\ NothingOverlooked
            /\ (crossed \/ OneTick)

Acts == [pc : {"idle", "list", "send"}, now : 0..MaxTime, seen : SUBSET Deals]

LEMMA AlertTypes == AlertInv /\ AlertNext => AlertTypeOK'
<1> SUFFICES ASSUME AlertInv, AlertNext PROVE AlertTypeOK'
  OBVIOUS
<1> USE AlertAssumption DEF AlertInv
<1>0. /\ AlertTypeOK /\ act \in [Ticks -> Acts] /\ Idle \in Acts
      /\ excused \in [missed : SUBSET Deals, again : SUBSET Deals]
  BY DEF AlertTypeOK, Acts, Idle
<1>1. ASSUME NEW t \in Ticks, Fires(t) PROVE AlertTypeOK'
  <2>1. [pc |-> "list", now |-> time, seen |-> {}] \in Acts
    BY <1>0 DEF AlertTypeOK, Acts
  <2>2. act' \in [Ticks -> Acts]
    BY <1>0, <1>1, <2>1 DEF Fires
  <2>3. crossed' \in BOOLEAN
    BY <1>0, <1>1 DEF Fires, AlertTypeOK
  <2> QED BY <1>0, <1>1, <2>2, <2>3 DEF Fires, AlertTypeOK, Acts
<1>2. ASSUME NEW t \in Ticks, Lists(t) PROVE AlertTypeOK'
  <2>1. [act[t] EXCEPT !.pc = "send", !.seen = PendingDeals] \in Acts
    BY <1>0 DEF Acts, PendingDeals
  <2>2. act' \in [Ticks -> Acts]
    BY <1>0, <1>2, <2>1 DEF Lists
  <2> QED BY <1>0, <1>2, <2>2 DEF Lists, AlertTypeOK, Acts
<1>3. ASSUME NEW t \in Ticks, Sends(t) \/ SendFails(t) PROVE AlertTypeOK'
  <2>1. act' = [act EXCEPT ![t] = Idle] /\ act' \in [Ticks -> Acts]
    BY <1>0, <1>3 DEF Sends, SendFails
  <2>2. last' \in 0..MaxTime /\ breaks' \in 0..MaxBreaks
    BY <1>0, <1>3 DEF Sends, SendFails, AlertTypeOK, Acts
  <2>3. told' \subseteq Deals /\ excused' \in [missed : SUBSET Deals, again : SUBSET Deals]
    BY <1>0, <1>3 DEF Sends, SendFails, Reaches, AlertTypeOK, Acts
  <2>4. news' \in BOOLEAN
    BY <1>0, <1>3 DEF Sends, SendFails, Reaches, AlertTypeOK
  <2>5. UNCHANGED <<time, row, created, crossed>>
    BY <1>3 DEF Sends, SendFails
  <2> QED BY <1>0, <2>1, <2>2, <2>3, <2>4, <2>5 DEF AlertTypeOK, Acts
<1>4. ASSUME NEW d \in Deals, InsertStarts(d) \/ Commits(d) \/ Decided(d)
      PROVE  AlertTypeOK'
  <2>1. /\ row' \in [Deals -> {"none", "inserting", "pending", "decided"}]
        /\ created' \in [Deals -> 0..MaxTime]
    BY <1>0, <1>4 DEF InsertStarts, Commits, Decided, AlertTypeOK
  <2>2. excused' \in [missed : SUBSET Deals, again : SUBSET Deals]
    BY <1>0, <1>4 DEF InsertStarts, Commits, Decided
  <2>3. UNCHANGED <<time, act, last, told, news, crossed, breaks>>
    BY <1>4 DEF InsertStarts, Commits, Decided
  <2> QED BY <1>0, <2>1, <2>2, <2>3 DEF AlertTypeOK
<1>5. CASE TimePasses
  BY <1>0, <1>5 DEF TimePasses, AlertTypeOK
<1>6. CASE AlertRestarts
  BY <1>0, <1>6 DEF AlertRestarts, AlertTypeOK, Acts
<1> QED BY <1>1, <1>2, <1>3, <1>4, <1>5, <1>6 DEF AlertNext

LEMMA AlertStep == AlertInv /\ [AlertNext]_alertVars => AlertInv'
<1> SUFFICES ASSUME AlertInv, AlertNext PROVE AlertInv'
  BY DEF AlertInv, AlertTypeOK, Dated, SeesTheOld, NothingOverlooked, OneTick, Active, Listed,
     PendingDeals, alertVars
<1> USE DEF AlertInv
<1>0. AlertTypeOK'
  BY AlertTypes
<1>10. /\ time \in Nat /\ last \in Nat /\ created \in [Deals -> Nat]
       /\ act \in [Ticks -> Acts]
       /\ \A t \in Ticks : act[t].now \in Nat /\ act[t].seen \subseteq Deals
       /\ excused.missed \subseteq Deals /\ told \subseteq Deals /\ time >= 1
  BY DEF AlertTypeOK, Acts
<1>1. ASSUME NEW t \in Ticks, Fires(t) PROVE AlertInv'
  <2>1. /\ UNCHANGED <<time, row, created, last, told, excused, news>>
        /\ act'[t].pc = "list" /\ act'[t].now = time
        /\ \A u \in Ticks \ {t} : act'[u] = act[u]
        /\ ~crossed' => ~crossed /\ \A u \in Ticks : ~Active(u)
    BY <1>10, <1>1 DEF Fires, Active
  <2>2. Dated'
    BY <1>10, <2>1 DEF Dated, Listed
  <2>3. SeesTheOld' /\ NothingOverlooked'
    BY <2>1 DEF SeesTheOld, NothingOverlooked, PendingDeals
  <2>4. ~crossed' => OneTick'
    BY <1>10, <2>1 DEF OneTick, Dated, Active
  <2> QED BY <1>0, <2>2, <2>3, <2>4
<1>2. ASSUME NEW t \in Ticks, Lists(t) PROVE AlertInv'
  <2>1. /\ UNCHANGED <<time, row, created, last, told, excused, news, crossed>>
        /\ \A u \in Ticks \ {t} : act'[u] = act[u]
        /\ Active(t)
    BY <1>10, <1>2 DEF Lists, Active
  <2>2. \/ act'[t] = Idle
        \/ /\ act'[t].pc = "send" /\ act'[t].now = act[t].now
           /\ act'[t].seen = PendingDeals /\ HasNew(PendingDeals)
    BY <1>10, <1>2 DEF Lists, Acts
  <2>3. Dated'
    BY <1>10, <2>1, <2>2 DEF Dated, Listed, Idle, PendingDeals
  <2>4. SeesTheOld' /\ NothingOverlooked'
    BY <2>1, <2>2 DEF SeesTheOld, NothingOverlooked, PendingDeals, Idle
  <2>5. ~crossed' => OneTick'
    BY <1>10, <2>1, <2>2 DEF OneTick, Active, Idle, HasNew
  <2> QED BY <1>0, <2>3, <2>4, <2>5
<1>3. ASSUME NEW t \in Ticks, Sends(t) PROVE AlertInv'
  <2>1. /\ UNCHANGED <<time, row, created, crossed>>
        /\ act'[t] = Idle /\ \A u \in Ticks \ {t} : act'[u] = act[u]
        /\ act[t].pc = "send" /\ Active(t)
        /\ last' = act[t].now /\ told' = told \union act[t].seen
        /\ news' = (last = 0 \/ ~act[t].seen \subseteq told \ excused.again)
    BY <1>10, <1>3 DEF Sends, Reaches, Active
  <2>2. /\ excused'.missed = excused.missed
        /\ excused'.again = excused.again \union {d \in act[t].seen : created[d] > act[t].now}
    BY <1>3 DEF Sends, AlertTypeOK
  <2>3. Dated'
    BY <1>10, <2>1 DEF Dated, Listed, Idle
  <2>4. SeesTheOld' /\ NothingOverlooked'
    BY <2>1, <2>2 DEF SeesTheOld, NothingOverlooked, PendingDeals, Idle
  <2>5. ~crossed' => OneTick'
    <3> SUFFICES ASSUME ~crossed PROVE OneTick'
      BY <2>1
    <3>1. OneTick /\ \A u \in Ticks : ~Active(u)'
      BY <2>1 DEF OneTick, Active, Idle
    <3>2. news'
      <4>1. last = 0 \/ ~act[t].seen \subseteq told \ excused.again
        BY <1>10, <2>1, <3>1 DEF OneTick
      <4> QED BY <2>1, <4>1, Zenon
    <3>3. ASSUME NEW d \in told' \ excused'.again PROVE created'[d] <= last'
      <4>1. CASE d \in told \ excused.again
        BY <2>1, <3>1, <4>1 DEF OneTick
      <4>2. CASE d \in act[t].seen
        <5>1. d \in Deals
          BY <1>10, <4>2 DEF Acts
        <5> QED BY <1>10, <2>1, <2>2, <3>3, <4>2, <5>1
      <4> QED BY <2>1, <2>2, <4>1, <4>2
    <3> QED BY <3>1, <3>2, <3>3 DEF OneTick, Active
  <2> QED BY <1>0, <2>3, <2>4, <2>5
<1>4. ASSUME NEW t \in Ticks, SendFails(t) PROVE AlertInv'
  <2>1. /\ UNCHANGED <<time, row, created, last, crossed>>
        /\ act'[t] = Idle /\ \A u \in Ticks \ {t} : act'[u] = act[u]
        /\ act[t].pc = "send" /\ Active(t)
    BY <1>10, <1>4 DEF SendFails, Active
  <2>2. \/ UNCHANGED <<told, excused, news>>
        \/ /\ told' = told \union act[t].seen
           /\ news' = (last = 0 \/ ~act[t].seen \subseteq told \ excused.again)
           /\ excused'.missed = excused.missed
           /\ excused'.again = excused.again \union act[t].seen
    BY <1>4 DEF SendFails, Reaches, AlertTypeOK
  <2>3. Dated'
    BY <1>10, <2>1, <2>2 DEF Dated, Listed, Idle
  <2>4. SeesTheOld' /\ NothingOverlooked'
    BY <2>1, <2>2 DEF SeesTheOld, NothingOverlooked, PendingDeals, Idle
  <2>5. ~crossed' => OneTick'
    <3> SUFFICES ASSUME ~crossed PROVE OneTick'
      BY <2>1
    <3>1. OneTick /\ \A u \in Ticks : ~Active(u)'
      BY <2>1 DEF OneTick, Active, Idle
    <3>2. news'
      <4>1. news /\ (last = 0 \/ ~act[t].seen \subseteq told \ excused.again)
        BY <1>10, <2>1, <3>1 DEF OneTick
      <4> QED BY <2>2, <4>1, Zenon
    <3>3. told' \ excused'.again \subseteq told \ excused.again
      BY <2>2
    <3> QED BY <2>1, <3>1, <3>2, <3>3 DEF OneTick, Active
  <2> QED BY <1>0, <2>3, <2>4, <2>5
<1>5. ASSUME NEW d \in Deals, InsertStarts(d) PROVE AlertInv'
  <2>1. /\ UNCHANGED <<time, act, last, told, excused, news, crossed>>
        /\ row[d] = "none" /\ row'[d] = "inserting" /\ created'[d] = time
        /\ \A e \in Deals \ {d} : row'[e] = row[e] /\ created'[e] = created[e]
    BY <1>10, <1>5 DEF InsertStarts, AlertTypeOK
  <2>2. /\ d \notin told /\ PendingDeals' = PendingDeals /\ d \notin PendingDeals
        /\ \A t \in Ticks : act[t].pc = "send" => d \notin act[t].seen
    BY <2>1 DEF Dated, Listed, PendingDeals
  <2>3. \A t \in Ticks : act[t].seen \subseteq Deals
    BY <1>10 DEF Acts
  <2>4. Dated'
    <3>1. ASSUME NEW e \in Deals
          PROVE  created'[e] <= time' /\ (row'[e] # "none" => created'[e] >= 1)
      <4>1. CASE e = d
        BY <1>10, <2>1, <4>1
      <4>2. CASE e # d
        BY <2>1, <4>2 DEF Dated
      <4> QED BY <4>1, <4>2
    <3>2. \A e \in told : row'[e] = row[e]
      <4>1. told \subseteq Deals
        BY <1>10
      <4> QED BY <2>1, <2>2, <4>1
    <3>3. \A u \in Ticks : act[u].pc = "send" => \A e \in act[u].seen : row'[e] = row[e]
      BY <1>10, <2>1, <2>2
    <3> QED BY <2>1, <3>1, <3>2, <3>3 DEF Dated, Listed
  <2>5. SeesTheOld' /\ NothingOverlooked'
    BY <2>1, <2>2 DEF SeesTheOld, NothingOverlooked, PendingDeals
  <2>6. \A e \in told : e \in Deals /\ e # d
    BY <1>10, <2>2
  <2>7. \A e \in told : created'[e] = created[e]
    BY <2>1, <2>6
  <2>8. \A u \in Ticks : act[u].pc = "send" => \A e \in act[u].seen : created'[e] = created[e]
    BY <2>1, <2>2, <2>3
  <2>9. ~crossed' => OneTick'
    <3> SUFFICES ASSUME OneTick PROVE OneTick'
      BY <2>1
    <3>1. \A u \in Ticks : act'[u].pc = "send" =>
            last' = 0 \/ \E e \in act'[u].seen : created'[e] > last'
      BY <2>1, <2>8 DEF OneTick
    <3>2. \A e \in told' \ excused'.again : last' # 0 => created'[e] <= last'
      BY <2>1, <2>7 DEF OneTick
    <3>3. \A e \in told' \ excused'.again : \A u \in Ticks :
            Active(u)' => created'[e] <= act'[u].now
      BY <2>1, <2>7 DEF OneTick, Active
    <3>4. news'
      BY <2>1 DEF OneTick
    <3> QED BY <2>1, <3>1, <3>2, <3>3, <3>4 DEF OneTick, Active
  <2> QED BY <1>0, <2>4, <2>5, <2>9
<1>6. ASSUME NEW d \in Deals, Commits(d) PROVE AlertInv'
  <2>1. /\ UNCHANGED <<time, created, act, last, told, news, crossed>>
        /\ row[d] = "inserting" /\ row'[d] = "pending"
        /\ \A e \in Deals \ {d} : row'[e] = row[e]
    BY <1>6 DEF Commits, AlertTypeOK
  <2>2. /\ excused'.again = excused.again /\ excused.missed \subseteq excused'.missed
        /\ (\/ last >= created[d]
            \/ \E u \in Ticks : act[u].pc = "send" /\ act[u].now >= created[d])
           => d \in excused'.missed
    BY <1>6 DEF Commits, AlertTypeOK
  <2>3. PendingDeals' = PendingDeals \union {d}
    BY <2>1 DEF PendingDeals
  <2>4. Dated'
    <3>1. \A e \in Deals : row'[e] # "none" => row[e] # "none"
      BY <2>1
    <3>2. \A e \in Deals : Listed(e) => Listed(e)'
      BY <2>1 DEF Listed
    <3>3. \A e \in told' : Listed(e)'
      <4>1. told' \subseteq Deals /\ \A e \in told' : Listed(e)
        BY <1>10, <2>1 DEF Dated
      <4> QED BY <3>2, <4>1
    <3>4. \A u \in Ticks : act'[u].pc = "send" => \A e \in act'[u].seen : Listed(e)'
      <4>1. \A u \in Ticks : act'[u].pc = "send" =>
              act'[u].seen \subseteq Deals /\ \A e \in act'[u].seen : Listed(e)
        BY <1>10, <2>1 DEF Dated
      <4> QED BY <3>2, <4>1
    <3>5. /\ \A e \in Deals : created'[e] <= time' /\ (row'[e] # "none" => created'[e] >= 1)
          /\ last' <= time' /\ \A u \in Ticks : act'[u].now <= time'
      BY <2>1, <3>1 DEF Dated
    <3> QED BY <3>3, <3>4, <3>5 DEF Dated
  <2>5. SeesTheOld' /\ NothingOverlooked'
    BY <1>10, <2>1, <2>2, <2>3 DEF SeesTheOld, NothingOverlooked
  <2>6. ~crossed' => OneTick'
    BY <2>1, <2>2 DEF OneTick, Active
  <2> QED BY <1>0, <2>4, <2>5, <2>6
<1>7. ASSUME NEW d \in Deals, Decided(d) PROVE AlertInv'
  <2>1. /\ UNCHANGED <<time, created, act, last, told, excused, news, crossed>>
        /\ row[d] = "pending" /\ row'[d] = "decided"
        /\ \A e \in Deals \ {d} : row'[e] = row[e]
    BY <1>7 DEF Decided, AlertTypeOK
  <2>2. PendingDeals' \subseteq PendingDeals
    BY <2>1 DEF PendingDeals
  <2>3. Dated'
    <3>1. \A e \in Deals : row'[e] # "none" => row[e] # "none"
      BY <2>1
    <3>2. \A e \in Deals : Listed(e) => Listed(e)'
      BY <2>1 DEF Listed
    <3>3. \A e \in told' : Listed(e)'
      <4>1. told' \subseteq Deals /\ \A e \in told' : Listed(e)
        BY <1>10, <2>1 DEF Dated
      <4> QED BY <3>2, <4>1
    <3>4. \A u \in Ticks : act'[u].pc = "send" => \A e \in act'[u].seen : Listed(e)'
      <4>1. \A u \in Ticks : act'[u].pc = "send" =>
              act'[u].seen \subseteq Deals /\ \A e \in act'[u].seen : Listed(e)
        BY <1>10, <2>1 DEF Dated
      <4> QED BY <3>2, <4>1
    <3>5. /\ \A e \in Deals : created'[e] <= time' /\ (row'[e] # "none" => created'[e] >= 1)
          /\ last' <= time' /\ \A u \in Ticks : act'[u].now <= time'
      BY <2>1, <3>1 DEF Dated
    <3> QED BY <3>3, <3>4, <3>5 DEF Dated
  <2>4. SeesTheOld' /\ NothingOverlooked'
    BY <2>1, <2>2 DEF SeesTheOld, NothingOverlooked
  <2>5. ~crossed' => OneTick'
    BY <2>1 DEF OneTick, Active
  <2> QED BY <1>0, <2>3, <2>4, <2>5
<1>8. CASE TimePasses
  <2>1. /\ UNCHANGED <<row, created, act, last, told, excused, news, crossed>>
        /\ time' = time + 1
    BY <1>8 DEF TimePasses
  <2>2. Dated'
    BY <1>10, <2>1 DEF Dated, Listed
  <2> QED BY <1>0, <2>1, <2>2 DEF SeesTheOld, NothingOverlooked, PendingDeals, OneTick, Active
<1>9. CASE AlertRestarts
  <2>1. /\ UNCHANGED <<time, row, created, told, excused, news, crossed>>
        /\ \A t \in Ticks : act'[t] = Idle
        /\ last' = 0
    BY <1>9 DEF AlertRestarts
  <2>2. Dated'
    BY <1>10, <2>1 DEF Dated, Listed, Idle
  <2>3. NothingOverlooked'
    BY <1>10, <2>1 DEF NothingOverlooked, Dated, PendingDeals
  <2>4. SeesTheOld'
    BY <2>1 DEF SeesTheOld, Idle
  <2>5. ~crossed' => OneTick'
    BY <2>1 DEF OneTick, Active, Idle
  <2> QED BY <1>0, <2>2, <2>3, <2>4, <2>5
<1> QED BY <1>1, <1>2, <1>3, <1>4, <1>5, <1>6, <1>7, <1>8, <1>9 DEF AlertNext

LEMMA AlertStarts == AlertInit => AlertInv
<1> SUFFICES ASSUME AlertInit PROVE AlertInv
  OBVIOUS
<1> USE AlertAssumption DEF AlertInit
<1>1. Idle \in Acts /\ Idle.pc = "idle" /\ Idle.now = 0
  BY DEF Idle, Acts
<1>2. \A t \in Ticks : act[t] = Idle
  OBVIOUS
<1>3. AlertTypeOK
  <2>1. act \in [Ticks -> Acts]
    BY <1>1
  <2>2. created \in [Deals -> 0..MaxTime] /\ time \in 1..MaxTime /\ last \in 0..MaxTime
    OBVIOUS
  <2>3. row \in [Deals -> {"none", "inserting", "pending", "decided"}] /\ told \subseteq Deals
    OBVIOUS
  <2>4. excused \in [missed : SUBSET Deals, again : SUBSET Deals]
    OBVIOUS
  <2>5. news \in BOOLEAN /\ crossed \in BOOLEAN
    BY Zenon
  <2>6. breaks \in 0..MaxBreaks
    OBVIOUS
  <2> QED BY <2>1, <2>2, <2>3, <2>4, <2>5, <2>6 DEF AlertTypeOK, Acts
<1>4. Dated /\ SeesTheOld /\ NothingOverlooked
  BY <1>1, <1>2 DEF Dated, SeesTheOld, NothingOverlooked, PendingDeals
<1>5. OneTick
  BY <1>1, <1>2 DEF OneTick, Active
<1> QED BY <1>3, <1>4, <1>5 DEF AlertInv

LEMMA AlertInvariance == AlertSpec => []AlertInv
BY AlertStarts, AlertStep, PTL DEF AlertSpec

(* No deal that waits is passed over as old without having been told, but for
   inserts that straddle an alert (dm-alert.service.ts). *)
THEOREM NoDealIsOverlooked == AlertSpec => []NothingOverlooked
<1>1. AlertInv => NothingOverlooked
  BY DEF AlertInv
<1> QED BY <1>1, AlertInvariance, PTL

(* Every alert says something new, unless ticks of the cron overlapped. *)
THEOREM AlertsAreNews == AlertSpec => []NoSpam
<1>1. AlertInv => NoSpam
  BY DEF AlertInv, OneTick, NoSpam
<1> QED BY <1>1, AlertInvariance, PTL

-----------------------------------------------------------------------------
(* Enrichment over the seller cache. *)

(* The deals that wait to write, or write, are those whose seller is being
   cached; only the first of them has begun, and none waits twice. *)
WritersWait ==
  /\ \A i, k \in 1..Len(writing) : writing[i] = writing[k] => i = k
  /\ \A i \in 1..Len(writing) : deal[writing[i]].seller = "caching"
  /\ \A d \in Batch :
       /\ deal[d].seller = "caching" <=> phase[d].at # "none"
       /\ deal[d].seller = "caching" => deal[d].of \in store
       /\ deal[d].seller # "idle" => deal[d].of \in Sellers
       /\ phase[d].at \in {"writing", "renaming"} => writing # <<>> /\ writing[1] = d

(* What a write is about to put in place has every seller kept so far, and the
   one it is for. *)
WritesAll ==
  \A d \in Batch :
    /\ phase[d].at \in {"writing", "renaming"} => kept \union {deal[d].of} \subseteq phase[d].data
    /\ phase[d].at = "renaming" => tmp = Whole(phase[d].data)

SellerInv == /\ SellerTypeOK
             /\ WritersWait
             /\ WritesAll
             /\ kept \subseteq store
             /\ SellersKept

(* Taking the first of a queue leaves the others, one place further on. *)
LEMMA TailOf ==
  ASSUME NEW S, NEW q \in Seq(S), q # <<>>
  PROVE  /\ Tail(q) \in Seq(S) /\ Len(Tail(q)) = Len(q) - 1
         /\ Len(q) >= 1 /\ Head(q) = q[1] /\ q[1] \in S
         /\ \A i \in 1..Len(Tail(q)) : Tail(q)[i] = q[i + 1] /\ i + 1 \in 1..Len(q)
OBVIOUS

LEMMA AppendOf ==
  ASSUME NEW S, NEW q \in Seq(S), NEW e \in S
  PROVE  /\ Append(q, e) \in Seq(S) /\ Len(Append(q, e)) = Len(q) + 1
         /\ Append(q, e) # <<>>
         /\ \A i \in 1..Len(q) : Append(q, e)[i] = q[i]
         /\ Append(q, e)[Len(q) + 1] = e
OBVIOUS

PhaseStates == [at : {"none", "queued", "writing", "renaming"}, data : SUBSET Sellers]

DealStates == [of : Sellers \union {"none"},
               seller : {"idle", "asked", "caching", "known", "null", "failed", "lost"},
               item : {"idle", "asked", "known", "null", "failed"}]

LEMMA SellerStarts == SellerInit => SellerInv
BY EnrichmentAssumption DEF SellerInit, SellerInv, SellerTypeOK, WritersWait, WritesAll,
   SellersKept, Free, NotWriting, Whole, Torn

LEMMA CallsKeep ==
  ASSUME SellerInv, NEW d \in Batch,
         \/ \E s \in Sellers : Enriches(d, s)
         \/ ItemAnswers(d) \/ Ends(d)
  PROVE  SellerInv'
<1> USE EnrichmentAssumption DEF SellerInv, SellerTypeOK
<1>1. /\ UNCHANGED <<store, files, mishaps>> /\ enriched' \in 0..MaxEnriched
  BY DEF Enriches, ItemAnswers, Ends
<1>2. \E x \in DealStates :
        /\ deal' = [deal EXCEPT ![d] = x]
        /\ x.seller # "idle" => x.of \in Sellers
        /\ x.seller = "caching" <=> deal[d].seller = "caching"
        /\ x.seller = "caching" => x.of = deal[d].of
  <2>0. deal[d] \in DealStates
    BY DEF DealStates
  <2>1. ASSUME NEW s \in Sellers, Enriches(d, s) PROVE  \E x \in DealStates :
                /\ deal' = [deal EXCEPT ![d] = x]
                /\ x.seller # "idle" => x.of \in Sellers
                /\ x.seller = "caching" <=> deal[d].seller = "caching"
                /\ x.seller = "caching" => x.of = deal[d].of
    <3> DEFINE x == [of |-> s, item |-> "asked",
                     seller |-> IF s \in store THEN "known" ELSE "asked"]
    <3>1. x \in DealStates /\ x.seller \notin {"idle", "caching"} /\ x.of \in Sellers
      BY DEF DealStates
    <3>2. deal' = [deal EXCEPT ![d] = x] /\ deal[d].seller = "idle"
      BY <2>1 DEF Enriches, Free
    <3> HIDE DEF x
    <3> QED BY <3>1, <3>2
  <2>2. CASE ItemAnswers(d)
    <3>1. PICK a \in {"known", "null", "failed"} : deal' = [deal EXCEPT ![d].item = a]
      BY <2>2 DEF ItemAnswers
    <3> DEFINE x == [deal[d] EXCEPT !.item = a]
    <3>2. x \in DealStates /\ x.seller = deal[d].seller /\ x.of = deal[d].of
      BY <2>0 DEF DealStates
    <3>3. deal' = [deal EXCEPT ![d] = x]
      BY <3>1
    <3> HIDE DEF x
    <3> QED BY <3>2, <3>3 DEF WritersWait
  <2>3. CASE Ends(d)
    <3>1. Free \in DealStates /\ Free.seller = "idle"
      BY DEF Free, DealStates
    <3>2. deal' = [deal EXCEPT ![d] = Free] /\ deal[d].seller # "caching"
      BY <2>3 DEF Ends, Settled
    <3> QED BY <3>1, <3>2
  <2> QED BY <2>1, <2>2, <2>3
<1>2a. PICK x \in DealStates :
        /\ deal' = [deal EXCEPT ![d] = x]
        /\ x.seller # "idle" => x.of \in Sellers
        /\ x.seller = "caching" <=> deal[d].seller = "caching"
        /\ x.seller = "caching" => x.of = deal[d].of
  BY <1>2
<1>3. SellerTypeOK'
  BY <1>1, <1>2a DEF files, DealStates
<1>4. WritersWait'
  BY <1>1, <1>2a DEF files, WritersWait
<1>5. WritesAll'
  <2>1. \A e \in Batch : phase[e].at \in {"writing", "renaming"} => deal'[e].of = deal[e].of
    BY <1>2a DEF WritersWait
  <2> QED BY <1>1, <2>1 DEF files, WritesAll, Whole
<1> QED BY <1>1, <1>3, <1>4, <1>5 DEF files, SellersKept

LEMMA AnswerKeeps ==
  ASSUME SellerInv, NEW d \in Batch, SellerAnswers(d)
  PROVE  SellerInv'
<1> USE EnrichmentAssumption DEF SellerInv, SellerTypeOK
<1>1. /\ UNCHANGED <<file, tmp, kept, enriched, mishaps>> /\ deal[d].seller = "asked"
      /\ phase[d].at = "none" /\ deal[d].of \in Sellers
  BY DEF SellerAnswers, WritersWait
<1>2. CASE /\ deal' = [deal EXCEPT ![d].seller = "caching"]
           /\ store' = store \union {deal[d].of}
           /\ writing' = Append(writing, d)
           /\ phase' = [phase EXCEPT ![d] = [at |-> "queued", data |-> {}]]
  <2>1. [deal[d] EXCEPT !.seller = "caching"] \in DealStates
        /\ [at |-> "queued", data |-> {}] \in PhaseStates
    BY ZenonT(30) DEF DealStates, PhaseStates
  <2>2. deal' \in [Batch -> DealStates] /\ phase' \in [Batch -> PhaseStates]
    BY <1>2, <2>1 DEF DealStates, PhaseStates
  <2>3. /\ writing' \in Seq(Batch) /\ Len(writing') = Len(writing) + 1 /\ writing' # <<>>
        /\ \A i \in 1..Len(writing) : writing'[i] = writing[i]
        /\ writing'[Len(writing) + 1] = d
    BY <1>2, AppendOf
  <2>4. SellerTypeOK'
    BY <1>1, <1>2, <2>2, <2>3 DEF DealStates, PhaseStates
  <2>5. \A i \in 1..Len(writing) : writing[i] # d
    BY <1>1 DEF WritersWait
  <2>6. \A i, k \in 1..Len(writing') : writing'[i] = writing'[k] => i = k
    <3>1. \A i \in 1..Len(writing') : i \in 1..Len(writing) \/ i = Len(writing) + 1
      BY <2>3
    <3> QED BY <2>3, <2>5, <3>1 DEF WritersWait
  <2>7. \A i \in 1..Len(writing') : deal'[writing'[i]].seller = "caching"
    <3>1. \A i \in 1..Len(writing') : i \in 1..Len(writing) \/ i = Len(writing) + 1
      BY <2>3
    <3>2. \A e \in Batch : deal[e].seller = "caching" => deal'[e].seller = "caching"
      BY <1>2
    <3>3. deal'[d].seller = "caching"
      BY <1>2
    <3> QED BY <2>3, <3>1, <3>2, <3>3 DEF WritersWait
  <2>8. \A e \in Batch :
          /\ deal'[e].seller = "caching" <=> phase'[e].at # "none"
          /\ deal'[e].seller = "caching" => deal'[e].of \in store'
          /\ deal'[e].seller # "idle" => deal'[e].of \in Sellers
    BY <1>1, <1>2 DEF WritersWait
  <2>9. \A e \in Batch : phase'[e].at \in {"writing", "renaming"} => writing' # <<>> /\ writing'[1] = e
    <3>1. \A e \in Batch : phase'[e].at \in {"writing", "renaming"}
                            => phase[e].at \in {"writing", "renaming"}
      BY <1>2
    <3>2. writing # <<>> => 1 \in 1..Len(writing)
      OBVIOUS
    <3> QED BY <2>3, <3>1, <3>2 DEF WritersWait
  <2>10. WritersWait'
    BY <2>6, <2>7, <2>8, <2>9 DEF WritersWait
  <2>11. WritesAll'
    BY <1>1, <1>2 DEF WritesAll, Whole
  <2> QED BY <1>1, <1>2, <2>4, <2>10, <2>11 DEF SellersKept
<1>3. CASE /\ \E a \in {"null", "failed"} : deal' = [deal EXCEPT ![d].seller = a]
           /\ UNCHANGED <<store, writing, phase>>
  <2>1. PICK a \in {"null", "failed"} : deal' = [deal EXCEPT ![d].seller = a]
    BY <1>3
  <2>2. [deal[d] EXCEPT !.seller = a] \in DealStates
    BY SMTT(30) DEF DealStates
  <2>3. SellerTypeOK'
    BY <1>1, <1>3, <2>1, <2>2 DEF DealStates
  <2>4. \A e \in Batch : /\ deal'[e].of = deal[e].of
                         /\ deal'[e].seller = "caching" <=> deal[e].seller = "caching"
                         /\ deal'[e].seller # "idle" => deal[e].seller # "idle"
    BY <1>1, <2>1
  <2>5. WritersWait'
    BY <1>3, <2>4 DEF WritersWait
  <2>6. WritesAll'
    BY <1>1, <1>3, <2>4 DEF WritesAll, Whole
  <2> QED BY <1>1, <1>3, <2>3, <2>5, <2>6 DEF SellersKept
<1> QED BY <1>2, <1>3 DEF SellerAnswers

(* The first that waits is being cached, and no other has begun to write. *)
LEMMA HeadWrites ==
  ASSUME SellerInv, NEW d \in Batch, Turn(d)
  PROVE  /\ deal[d].seller = "caching" /\ deal[d].of \in store /\ deal[d].of \in Sellers
         /\ writing # <<>> /\ writing[1] = d /\ 1 \in 1..Len(writing)
         /\ \A e \in Batch \ {d} : phase[e].at \notin {"writing", "renaming"}
<1>1. writing \in Seq(Batch) /\ writing # <<>> /\ writing[1] = d /\ 1 \in 1..Len(writing)
  BY DEF SellerInv, SellerTypeOK, Turn
<1>2. deal[d].seller = "caching"
  BY <1>1 DEF SellerInv, WritersWait
<1> QED BY <1>1, <1>2 DEF SellerInv, WritersWait

LEMMA WriteKeeps ==
  ASSUME SellerInv, NEW d \in Batch, WriteStarts(d) \/ WriteEnds(d)
  PROVE  SellerInv'
<1> USE DEF SellerInv, SellerTypeOK
<1>1. UNCHANGED <<store, file, writing, deal, kept, enriched, mishaps>> /\ Turn(d)
  BY DEF WriteStarts, WriteEnds
<1>2. /\ deal[d].of \in store /\ writing # <<>> /\ writing[1] = d /\ deal[d].seller = "caching"
      /\ \A e \in Batch \ {d} : phase[e].at \notin {"writing", "renaming"}
  BY <1>1, HeadWrites
<1>3. PICK x \in PhaseStates :
        /\ phase' = [phase EXCEPT ![d] = x]
        /\ x.at \in {"writing", "renaming"}
        /\ kept \union {deal[d].of} \subseteq x.data
        /\ x.at = "renaming" => tmp' = Whole(x.data)
        /\ tmp' \in [whole : BOOLEAN, has : SUBSET Sellers]
  <2>1. CASE WriteStarts(d)
    BY <1>2, <2>1 DEF WriteStarts, PhaseStates, Torn
  <2>2. CASE WriteEnds(d)
    <3>1. [phase[d] EXCEPT !.at = "renaming"] \in PhaseStates
      BY DEF PhaseStates
    <3>2. kept \union {deal[d].of} \subseteq phase[d].data
      BY <2>2 DEF WriteEnds, WritesAll
    <3> QED BY <2>2, <3>1, <3>2 DEF WriteEnds, Whole, PhaseStates
  <2> QED BY <2>1, <2>2
<1>4. SellerTypeOK'
  BY <1>1, <1>3 DEF PhaseStates
<1>5. WritersWait'
  BY <1>1, <1>2, <1>3 DEF WritersWait
<1>6. WritesAll'
  BY <1>1, <1>2, <1>3 DEF WritesAll, Whole
<1> QED BY <1>1, <1>4, <1>5, <1>6 DEF SellersKept

LEMMA RenameKeeps ==
  ASSUME SellerInv, NEW d \in Batch, Renames(d) \/ WriteFails(d)
  PROVE  SellerInv'
<1> USE EnrichmentAssumption DEF SellerInv, SellerTypeOK
<1>1. /\ UNCHANGED <<store, enriched>> /\ Turn(d) /\ mishaps' \in 0..MaxMishaps
      /\ writing' = Tail(writing)
      /\ phase' = [phase EXCEPT ![d] = NotWriting]
  BY DEF Renames, WriteFails, Left
<1>2. /\ deal[d].of \in store /\ deal[d].of \in Sellers /\ writing # <<>> /\ writing[1] = d
      /\ deal[d].seller = "caching" /\ 1 \in 1..Len(writing)
      /\ \A e \in Batch \ {d} : phase[e].at \notin {"writing", "renaming"}
  BY <1>1, HeadWrites
<1>3. PICK a \in {"known", "lost"} : deal' = [deal EXCEPT ![d].seller = a]
  BY DEF Renames, WriteFails
<1>4. [deal[d] EXCEPT !.seller = a] \in DealStates /\ NotWriting \in PhaseStates
  BY ZenonT(30) DEF DealStates, PhaseStates, NotWriting
<1>5. /\ tmp' \in [whole : BOOLEAN, has : SUBSET Sellers]
      /\ file' \in [whole : BOOLEAN, has : SUBSET Sellers]
      /\ kept' \subseteq store
      /\ SellersKept'
  <2>1. CASE Renames(d)
    <3>1. tmp = Whole(phase[d].data) /\ kept \union {deal[d].of} \subseteq phase[d].data
      BY <2>1 DEF Renames, WritesAll
    <3> QED BY <1>2, <2>1, <3>1 DEF Renames, SellersKept, Whole
  <2>2. CASE WriteFails(d)
    BY <2>2 DEF WriteFails, SellersKept, Torn
  <2> QED BY <2>1, <2>2
<1>6. /\ writing' \in Seq(Batch) /\ Len(writing') = Len(writing) - 1
      /\ \A i \in 1..Len(writing') : writing'[i] = writing[i + 1] /\ i + 1 \in 1..Len(writing)
  BY <1>1, <1>2, TailOf
<1>7. SellerTypeOK'
  BY <1>1, <1>3, <1>4, <1>5, <1>6 DEF DealStates, PhaseStates
<1>8. \A i \in 1..Len(writing') : writing'[i] # d
  <2> SUFFICES ASSUME NEW i \in 1..Len(writing'), writing'[i] = d PROVE FALSE
    OBVIOUS
  <2>1. i + 1 \in 1..Len(writing) /\ writing[i + 1] = writing[1] /\ i + 1 # 1
    BY <1>2, <1>6
  <2> QED BY <1>2, <2>1 DEF WritersWait
<1>9. \A e \in Batch : /\ deal'[e].of = deal[e].of
                       /\ e # d => deal'[e] = deal[e] /\ phase'[e] = phase[e]
                       /\ deal'[d].seller # "caching" /\ phase'[d].at = "none"
                       /\ deal'[e].seller # "idle" => deal[e].seller # "idle"
  BY <1>1, <1>2, <1>3 DEF NotWriting
<1>10. WritersWait'
  <2>1. \A i, k \in 1..Len(writing') : writing'[i] = writing'[k] => i = k
    <3> SUFFICES ASSUME NEW i \in 1..Len(writing'), NEW k \in 1..Len(writing'),
                        writing'[i] = writing'[k]
                 PROVE  i = k
      OBVIOUS
    <3>1. i + 1 \in 1..Len(writing) /\ k + 1 \in 1..Len(writing) /\ writing[i + 1] = writing[k + 1]
      BY <1>6
    <3>2. i + 1 = k + 1
      BY <3>1 DEF WritersWait
    <3> QED BY <1>6, <3>2
  <2>2. \A i \in 1..Len(writing') : deal'[writing'[i]].seller = "caching"
    <3> SUFFICES ASSUME NEW i \in 1..Len(writing') PROVE deal'[writing'[i]].seller = "caching"
      OBVIOUS
    <3>1. deal[writing[i + 1]].seller = "caching" /\ writing[i + 1] \in Batch
      BY <1>6 DEF WritersWait
    <3> QED BY <1>6, <1>8, <1>9, <3>1
  <2>3. \A e \in Batch :
          /\ deal'[e].seller = "caching" <=> phase'[e].at # "none"
          /\ deal'[e].seller = "caching" => deal'[e].of \in store'
          /\ deal'[e].seller # "idle" => deal'[e].of \in Sellers
          /\ phase'[e].at \notin {"writing", "renaming"}
    BY <1>1, <1>2, <1>9 DEF WritersWait
  <2> QED BY <2>1, <2>2, <2>3 DEF WritersWait
<1>11. WritesAll'
  BY <1>2, <1>9 DEF WritesAll
<1> QED BY <1>1, <1>5, <1>7, <1>10, <1>11

LEMMA MishapKeeps ==
  ASSUME SellerInv, CacheRestarts \/ \E s \in Sellers : Expires(s)
  PROVE  SellerInv'
<1> USE EnrichmentAssumption DEF SellerInv, SellerTypeOK
<1>1. CASE CacheRestarts
  <2>1. SellerTypeOK'
    BY <1>1 DEF CacheRestarts, NotWriting, Free
  <2>2. WritersWait' /\ WritesAll'
    BY <1>1 DEF CacheRestarts, NotWriting, Free, WritersWait, WritesAll
  <2> QED BY <1>1, <2>1, <2>2 DEF CacheRestarts, SellersKept
<1>2. ASSUME NEW s \in Sellers, Expires(s) PROVE SellerInv'
  <2>1. /\ UNCHANGED <<tmp, writing, phase, deal, enriched>> /\ mishaps' \in 0..MaxMishaps
        /\ store' = store \ {s} /\ kept' = kept \ {s} /\ file' = [file EXCEPT !.has = @ \ {s}]
        /\ \A d \in Batch : phase[d].at = "none"
    BY <1>2 DEF Expires, NotWriting
  <2>2. file' \in [whole : BOOLEAN, has : SUBSET Sellers]
        /\ file'.whole = file.whole /\ file'.has = file.has \ {s}
    BY <2>1
  <2>3. SellerTypeOK'
    BY <2>1, <2>2
  <2>4. WritersWait' /\ WritesAll'
    BY <2>1 DEF WritersWait, WritesAll
  <2> QED BY <2>1, <2>2, <2>3, <2>4 DEF SellersKept
<1> QED BY <1>1, <1>2

LEMMA SellerStep == SellerInv /\ [SellerNext]_sellerVars => SellerInv'
<1>1. CASE UNCHANGED sellerVars
  BY <1>1 DEF sellerVars, SellerInv, SellerTypeOK, WritersWait, WritesAll, SellersKept, Whole
<1> QED BY <1>1, CallsKeep, AnswerKeeps, WriteKeeps, RenameKeeps, MishapKeeps DEF SellerNext

(* The inductive invariant of the seller cache: writers wait in line, and each
   write has every seller the file has, and its own. *)
THEOREM SellerInvariance == SellerSpec => []SellerInv
BY SellerStarts, SellerStep, PTL DEF SellerSpec

(* A seller that answered reaches its deal whatever the item's call does, and
   every seller whose set() resolved is in a whole file, however many writes
   overlap, fail or are cut short (seller-cache.service.ts,
   enrichment.service.ts). *)
THEOREM AnsweredSellersStay == SellerSpec => []EnrichmentHolds
<1>1. SellerInv => EnrichmentHolds
  BY DEF SellerInv, EnrichmentHolds, SiblingKept, Settled, SellerOf
<1> QED BY <1>1, SellerInvariance, PTL

-----------------------------------------------------------------------------
(* Headlines. *)

(* What the gate lets through, and nothing, is all there is to serve. *)
Vetted == {e \in [line : Raw, copy : Copies] : e.line \in Passes[e.copy]}

GateVets ==
  /\ \A i \in Items : cache[i] \in Vetted \union {None} /\ saved.has[i] \in Vetted \union {None}
  /\ \A c \in Renders :
       /\ hook[c].at \in {"queued", "writing"} => hook[c].entry \in Vetted
       /\ \A i \in Items : hook[c].data[i] \in Vetted \union {None}
       /\ hook[c].at # "idle" => hook[c].item \in Items
  /\ served \in Vetted \union {Pool}

(* Each render that waits or writes is in the queue once, and only the first
   writes: what it writes is the cache, unless another waits behind it. *)
SavesWait ==
  /\ \A i, k \in 1..Len(queue) : queue[i] = queue[k] => i = k
  /\ \A i \in 1..Len(queue) : hook[queue[i]].at \in {"queued", "writing"}
  /\ \A c \in Renders : hook[c].at = "writing" =>
       /\ queue # <<>> /\ queue[1] = c
       /\ Len(queue) = 1 => hook[c].data = cache

HookStates == [at : {"idle", "first", "second", "queued", "writing"},
               item : Items \union {"none"}, entry : Entries, data : [Items -> Entries]]

HeadlinesInv == /\ HeadlinesTypeOK
                /\ hook \in [Renders -> HookStates]
                /\ saved \in [whole : BOOLEAN, has : [Items -> Entries]]
                /\ GateVets
                /\ SavesWait
                /\ FileFollows

LEMMA NothingVetted == /\ None \notin Vetted /\ Pool \notin Vetted /\ Pool # None
                       /\ None \in Entries /\ Pool \in Entries /\ Vetted \subseteq Entries
                       /\ Empty \in [Items -> Entries] /\ NoHook \in HookStates
                       /\ \A i \in Items : Empty[i] = None
                       /\ NoHook.at = "idle" /\ NoHook.data = Empty
<1>1. None \notin Vetted /\ Pool \notin Vetted /\ Pool # None
  BY DEF Vetted, Copies, None, Pool
<1>2. None \in Entries /\ Pool \in Entries /\ Vetted \subseteq Entries
  BY DEF Vetted, Entries, None, Pool
<1>3. Empty \in [Items -> Entries] /\ \A i \in Items : Empty[i] = None
  BY <1>2 DEF Empty
<1>4. NoHook \in HookStates /\ NoHook.at = "idle" /\ NoHook.data = Empty
  BY <1>2, <1>3 DEF NoHook, HookStates
<1> QED BY <1>1, <1>2, <1>3, <1>4

LEMMA CopyIsOne == \A j : LoadedCopy(j) \in Copies
BY DEF LoadedCopy, Copies

LEMMA HeadlinesStart == HeadlinesInit => HeadlinesInv
<1> SUFFICES ASSUME HeadlinesInit PROVE HeadlinesInv
  OBVIOUS
<1> USE HeadlineAssumption, NothingVetted, CopyIsOne DEF HeadlinesInit
<1>1. HeadlinesTypeOK /\ hook \in [Renders -> HookStates]
      /\ saved \in [whole : BOOLEAN, has : [Items -> Entries]]
  <2>1. copy \in Copies
    OBVIOUS
  <2>2. hook \in [Renders -> HookStates] /\ \A c \in Renders : hook[c] = NoHook
    OBVIOUS
  <2>3. saved \in [whole : BOOLEAN, has : [Items -> Entries]]
    OBVIOUS
  <2>4. NoHook.entry \in Entries
    BY DEF NoHook
  <2>5. behind \in BOOLEAN
    BY Zenon
  <2> QED BY <2>1, <2>2, <2>3, <2>4, <2>5 DEF HeadlinesTypeOK
<1>2. GateVets
  BY DEF GateVets
<1>3. SavesWait /\ FileFollows
  BY DEF SavesWait, FileFollows
<1> QED BY <1>1, <1>2, <1>3 DEF HeadlinesInv

(* A call that is neither waiting to write nor writing may change as it likes
   short of beginning to. *)
LEMMA TalksKeep ==
  ASSUME HeadlinesInv, NEW c \in Renders,
         UNCHANGED <<copy, cache, storage>>,
         hook[c].at \notin {"queued", "writing"},
         NEW x \in HookStates, hook' = [hook EXCEPT ![c] = x],
         x.at \in {"idle", "first", "second"},
         \A i \in Items : x.data[i] \in Vetted \union {None},
         x.at # "idle" => x.item \in Items,
         served' \in Vetted \union {Pool},
         hooks' \in 0..MaxHooks, upsets' \in 0..MaxUpsets
  PROVE  HeadlinesInv'
<1> USE DEF storage
<1>1. hook' \in [Renders -> HookStates]
  BY DEF HeadlinesInv
<1>2. HeadlinesTypeOK'
  <2>1. \A d \in Renders : hook'[d].at \in {"idle", "first", "second", "queued", "writing"}
                           /\ hook'[d].entry \in Entries
    BY <1>1 DEF HookStates
  <2>2. served' \in Entries
    BY NothingVetted
  <2>3. /\ copy' \in Copies /\ cache' \in [Items -> Entries]
        /\ saved'.whole \in BOOLEAN /\ saved'.has \in [Items -> Entries]
        /\ queue' \in Seq(Renders)
    BY DEF HeadlinesInv, HeadlinesTypeOK
  <2>4. behind' \in BOOLEAN
    BY Zenon DEF HeadlinesInv, HeadlinesTypeOK
  <2> QED BY <2>1, <2>2, <2>3, <2>4 DEF HeadlinesTypeOK
<1>3. \A d \in Renders : d # c => hook'[d] = hook[d]
  BY DEF HeadlinesInv
<1>4. hook'[c] = x
  BY DEF HeadlinesInv
<1>5. GateVets'
  BY <1>3, <1>4 DEF HeadlinesInv, GateVets
<1>6. SavesWait'
  <2>1. \A i \in 1..Len(queue) : queue[i] # c /\ queue[i] \in Renders
    BY DEF HeadlinesInv, HeadlinesTypeOK, SavesWait
  <2>2. \A i \in 1..Len(queue) : hook'[queue[i]].at \in {"queued", "writing"}
    BY <1>3, <2>1 DEF HeadlinesInv, SavesWait
  <2>3. \A d \in Renders : hook'[d].at = "writing" => d # c
    BY <1>4
  <2> QED BY <1>3, <2>2, <2>3 DEF HeadlinesInv, SavesWait
<1>7. FileFollows' /\ saved' \in [whole : BOOLEAN, has : [Items -> Entries]]
  BY DEF HeadlinesInv, FileFollows
<1> QED BY <1>1, <1>2, <1>5, <1>6, <1>7 DEF HeadlinesInv

LEMMA GenerateKeeps ==
  ASSUME HeadlinesInv, NEW c \in Renders, NEW i \in Items, Generates(c, i)
  PROVE  HeadlinesInv'
<1>1. /\ hook[c] = NoHook /\ UNCHANGED <<copy, cache, storage, upsets>>
      /\ hooks' \in 0..MaxHooks /\ upsets' \in 0..MaxUpsets
  BY HeadlineAssumption DEF Generates, HeadlinesInv, HeadlinesTypeOK
<1>2. served' \in Vetted \union {Pool}
  BY DEF Generates, HeadlinesInv, GateVets
<1>3. PICK x \in HookStates :
        /\ hook' = [hook EXCEPT ![c] = x] /\ x.at \in {"idle", "first"}
        /\ x = NoHook \/ (x.data = Empty /\ x.item = i)
  <2>1. CASE UNCHANGED hook
    BY <1>1, <2>1, NothingVetted DEF HeadlinesInv
  <2>2. CASE hook' = [hook EXCEPT ![c].at = "first", ![c].item = i]
    <3> DEFINE x == [NoHook EXCEPT !.at = "first", !.item = i]
    <3>1. x \in HookStates /\ x.at = "first" /\ x.data = NoHook.data /\ x.item = i
      BY NothingVetted DEF HookStates
    <3>2. hook' = [hook EXCEPT ![c] = [hook[c] EXCEPT !.at = "first", !.item = i]]
      BY <2>2 DEF HeadlinesInv, HookStates
    <3>3. hook' = [hook EXCEPT ![c] = x]
      BY <1>1, <3>2
    <3> HIDE DEF x
    <3> QED BY <3>1, <3>3, NothingVetted
  <2> QED BY <2>1, <2>2 DEF Generates
<1>4. \A k \in Items : x.data[k] \in Vetted \union {None}
  BY <1>3, NothingVetted
<1> QED BY <1>1, <1>2, <1>3, <1>4, NothingVetted, TalksKeep

LEMMA FallBackKeeps ==
  ASSUME HeadlinesInv, NEW c \in Renders, hook[c].at \in {"first", "second"},
         FallsBack(c), UNCHANGED <<copy, saved, behind, hooks, upsets>>
  PROVE  HeadlinesInv'
<1>1. NoHook \in HookStates /\ NoHook.at = "idle"
      /\ \A k \in Items : NoHook.data[k] \in Vetted \union {None}
  BY NothingVetted
<1>2. hooks' \in 0..MaxHooks /\ upsets' \in 0..MaxUpsets
  BY DEF HeadlinesInv, HeadlinesTypeOK
<1> QED BY <1>1, <1>2, TalksKeep DEF FallsBack, storage

LEMMA AskAgainKeeps ==
  ASSUME HeadlinesInv, NEW c \in Renders, hook[c].at = "first",
         hook' = [hook EXCEPT ![c].at = "second"],
         UNCHANGED <<cache, queue, served, copy, saved, behind, hooks, upsets>>
  PROVE  HeadlinesInv'
<1> DEFINE x == [hook[c] EXCEPT !.at = "second"]
<1>1. /\ x \in HookStates /\ x.at = "second" /\ x.data = hook[c].data /\ x.item = hook[c].item
      /\ hook' = [hook EXCEPT ![c] = x]
  BY DEF HeadlinesInv, HookStates
<1>2. /\ hooks' \in 0..MaxHooks /\ upsets' \in 0..MaxUpsets /\ served' \in Vetted \union {Pool}
      /\ hook[c].item \in Items /\ \A k \in Items : hook[c].data[k] \in Vetted \union {None}
  BY DEF HeadlinesInv, HeadlinesTypeOK, GateVets
<1> HIDE DEF x
<1>3. \A k \in Items : x.data[k] \in Vetted \union {None}
  BY <1>1, <1>2
<1> QED BY <1>1, <1>2, <1>3, TalksKeep DEF storage

LEMMA AcceptKeeps ==
  ASSUME HeadlinesInv, NEW c \in Renders, hook[c].at \in {"first", "second"},
         NEW line \in Raw, Clean(line), Accepts(c, line),
         UNCHANGED <<copy, saved, behind, hooks, upsets>>
  PROVE  HeadlinesInv'
<1> DEFINE e == [line |-> line, copy |-> copy]
           i == hook[c].item
           x == [hook[c] EXCEPT !.at = "queued", !.entry = e]
<1>1. e \in Vetted /\ e \in Entries
  BY NothingVetted DEF Vetted, Clean, HeadlinesInv, HeadlinesTypeOK
<1>2. x \in HookStates /\ x.at = "queued" /\ x.entry = e /\ x.data = hook[c].data /\ x.item = i
  BY <1>1 DEF HeadlinesInv, HookStates
<1>3. i \in Items /\ hook' = [hook EXCEPT ![c] = x] /\ cache' = [cache EXCEPT ![i] = e]
      /\ queue' = Append(queue, c) /\ served' = served
  BY DEF Accepts, HeadlinesInv, GateVets, HookStates
<1> HIDE DEF e, x, i
<1>4. /\ hook'[c] = x /\ hook' \in [Renders -> HookStates]
      /\ \A d \in Renders : d # c => hook'[d] = hook[d]
  BY <1>2, <1>3 DEF HeadlinesInv
<1>5. queue \in Seq(Renders)
  BY DEF HeadlinesInv, HeadlinesTypeOK
<1>6. /\ queue' \in Seq(Renders) /\ Len(queue') = Len(queue) + 1 /\ queue' # <<>>
      /\ \A k \in 1..Len(queue) : queue'[k] = queue[k]
      /\ queue'[Len(queue) + 1] = c
  BY <1>3, <1>5, AppendOf
<1>7. HeadlinesTypeOK'
  <2>1. \A d \in Renders : hook'[d].at \in {"idle", "first", "second", "queued", "writing"}
                           /\ hook'[d].entry \in Entries
    BY <1>4 DEF HookStates
  <2>2. cache' \in [Items -> Entries]
    BY <1>1, <1>3 DEF HeadlinesInv, HeadlinesTypeOK
  <2>3. /\ copy' \in Copies /\ served' \in Entries /\ hooks' \in 0..MaxHooks
        /\ upsets' \in 0..MaxUpsets
        /\ saved'.whole \in BOOLEAN /\ saved'.has \in [Items -> Entries]
    BY <1>3 DEF HeadlinesInv, HeadlinesTypeOK
  <2>4. behind' \in BOOLEAN
    BY Zenon DEF HeadlinesInv, HeadlinesTypeOK
  <2> QED BY <1>6, <2>1, <2>2, <2>3, <2>4 DEF HeadlinesTypeOK
<1>8. GateVets'
  <2>1. \A k \in Items : cache'[k] \in Vetted \union {None}
    BY <1>1, <1>3 DEF HeadlinesInv, HeadlinesTypeOK, GateVets
  <2>2. \A d \in Renders :
          /\ hook'[d].at \in {"queued", "writing"} => hook'[d].entry \in Vetted
          /\ \A k \in Items : hook'[d].data[k] \in Vetted \union {None}
          /\ hook'[d].at # "idle" => hook'[d].item \in Items
    BY <1>1, <1>2, <1>3, <1>4 DEF HeadlinesInv, GateVets
  <2> QED BY <1>3, <2>1, <2>2 DEF HeadlinesInv, GateVets
<1>9. SavesWait'
  <2>0. \A k \in 1..Len(queue') : k \in 1..Len(queue) \/ k = Len(queue) + 1
    BY <1>5, <1>6
  <2>1. \A k \in 1..Len(queue) : queue[k] # c /\ queue[k] \in Renders
    BY <1>5 DEF HeadlinesInv, SavesWait
  <2>2. \A j, k \in 1..Len(queue') : queue'[j] = queue'[k] => j = k
    BY <1>6, <2>0, <2>1 DEF HeadlinesInv, SavesWait
  <2>3. \A k \in 1..Len(queue') : hook'[queue'[k]].at \in {"queued", "writing"}
    BY <1>2, <1>4, <1>6, <2>0, <2>1 DEF HeadlinesInv, SavesWait
  <2>4. ASSUME NEW d \in Renders, hook'[d].at = "writing"
        PROVE  queue' # <<>> /\ queue'[1] = d /\ Len(queue') # 1
    <3>1. d # c /\ hook[d].at = "writing"
      BY <1>2, <1>4, <2>4
    <3>2. queue # <<>> /\ queue[1] = d
      BY <3>1 DEF HeadlinesInv, SavesWait
    <3>3. 1 \in 1..Len(queue)
      BY <1>5, <3>2
    <3> QED BY <1>5, <1>6, <3>2, <3>3
  <2> QED BY <2>2, <2>3, <2>4 DEF SavesWait
<1>10. FileFollows' /\ saved' \in [whole : BOOLEAN, has : [Items -> Entries]]
  BY <1>6 DEF HeadlinesInv, FileFollows
<1> QED BY <1>4, <1>7, <1>8, <1>9, <1>10 DEF HeadlinesInv

LEMMA TalkKeeps ==
  ASSUME HeadlinesInv, NEW c \in Renders, Answers(c) \/ ModelFails(c)
  PROVE  HeadlinesInv'
BY AcceptKeeps, AskAgainKeeps, FallBackKeeps DEF Answers, ModelFails

LEMMA SaveStartKeeps ==
  ASSUME HeadlinesInv, NEW c \in Renders, SaveStarts(c)
  PROVE  HeadlinesInv'
<1> DEFINE x == [hook[c] EXCEPT !.at = "writing", !.data = cache]
<1>1. /\ x \in HookStates /\ x.at = "writing" /\ x.data = cache
      /\ x.entry = hook[c].entry /\ x.item = hook[c].item
  BY ZenonT(30) DEF HeadlinesInv, HeadlinesTypeOK, HookStates
<1>2. /\ hook' = [hook EXCEPT ![c] = x] /\ hook[c].at = "queued"
      /\ queue # <<>> /\ queue[1] = c
      /\ saved' = [whole |-> FALSE, has |-> Empty]
      /\ UNCHANGED <<copy, cache, queue, served, behind, hooks, upsets>>
  <2>1. hook' = [hook EXCEPT ![c] = x] /\ hook[c].at = "queued"
    BY DEF SaveStarts, HeadlinesInv, HookStates
  <2>2. queue # <<>> /\ queue[1] = c
    BY DEF SaveStarts, MayWrite, HeadlinesInv, HeadlinesTypeOK
  <2> QED BY <2>1, <2>2 DEF SaveStarts
<1> HIDE DEF x
<1>3. /\ hook'[c] = x /\ hook' \in [Renders -> HookStates]
      /\ \A d \in Renders : d # c => hook'[d] = hook[d]
  BY <1>1, <1>2 DEF HeadlinesInv
<1>4. saved' \in [whole : BOOLEAN, has : [Items -> Entries]]
  BY <1>2, NothingVetted
<1>5. HeadlinesTypeOK'
  <2>1. \A d \in Renders : hook'[d].at \in {"idle", "first", "second", "queued", "writing"}
                           /\ hook'[d].entry \in Entries
    BY <1>3 DEF HookStates
  <2>2. /\ copy' \in Copies /\ cache' \in [Items -> Entries] /\ served' \in Entries
        /\ hooks' \in 0..MaxHooks /\ upsets' \in 0..MaxUpsets /\ queue' \in Seq(Renders)
    BY <1>2 DEF HeadlinesInv, HeadlinesTypeOK
  <2>3. behind' \in BOOLEAN
    BY <1>2, Zenon DEF HeadlinesInv, HeadlinesTypeOK
  <2> QED BY <1>4, <2>1, <2>2, <2>3 DEF HeadlinesTypeOK
<1>6. GateVets'
  <2>1. \A d \in Renders :
          /\ hook'[d].at \in {"queued", "writing"} => hook'[d].entry \in Vetted
          /\ \A k \in Items : hook'[d].data[k] \in Vetted \union {None}
          /\ hook'[d].at # "idle" => hook'[d].item \in Items
    BY <1>1, <1>2, <1>3 DEF HeadlinesInv, GateVets
  <2> QED BY <1>2, <2>1, NothingVetted DEF HeadlinesInv, GateVets
<1>7. SavesWait'
  <2>1. \A d \in Renders : hook'[d].at = "writing" => d = c
    BY <1>2, <1>3 DEF HeadlinesInv, SavesWait
  <2>2. \A k \in 1..Len(queue) : hook'[queue[k]].at \in {"queued", "writing"}
    <3>1. \A k \in 1..Len(queue) : queue[k] \in Renders
      BY DEF HeadlinesInv, HeadlinesTypeOK
    <3> QED BY <1>1, <1>3, <3>1 DEF HeadlinesInv, SavesWait
  <2> QED BY <1>1, <1>2, <1>3, <2>1, <2>2 DEF HeadlinesInv, SavesWait
<1>8. FileFollows'
  BY <1>2 DEF FileFollows
<1> QED BY <1>3, <1>4, <1>5, <1>6, <1>7, <1>8 DEF HeadlinesInv

LEMMA SaveEndKeeps ==
  ASSUME HeadlinesInv, NEW c \in Renders, SaveEnds(c)
  PROVE  HeadlinesInv'
<1>1. /\ hook[c].at = "writing" /\ queue \in Seq(Renders) /\ queue # <<>> /\ queue[1] = c
      /\ queue' = Tail(queue) /\ hook' = [hook EXCEPT ![c] = NoHook]
      /\ served' = hook[c].entry /\ UNCHANGED <<copy, cache, hooks>>
  BY DEF SaveEnds, Saved, HeadlinesInv, HeadlinesTypeOK, SavesWait
<1>2. /\ queue' \in Seq(Renders) /\ Len(queue') = Len(queue) - 1 /\ Len(queue) >= 1
      /\ \A k \in 1..Len(queue') : queue'[k] = queue[k + 1] /\ k + 1 \in 1..Len(queue)
  BY <1>1, TailOf
<1>3. /\ hook'[c] = NoHook /\ hook' \in [Renders -> HookStates]
      /\ \A d \in Renders : d # c => hook'[d] = hook[d]
  BY <1>1, NothingVetted DEF HeadlinesInv
<1>4. hook[c].entry \in Vetted
  BY <1>1 DEF HeadlinesInv, GateVets
<1>5. \/ /\ saved' = [whole |-> TRUE, has |-> hook[c].data] /\ upsets' = upsets
         /\ behind' = FALSE
      \/ /\ saved' = saved /\ upsets > 0 /\ upsets' = upsets - 1
         /\ behind' = TRUE
  BY DEF SaveEnds
<1>6. saved' \in [whole : BOOLEAN, has : [Items -> Entries]] /\ upsets' \in 0..MaxUpsets
  <2>1. hook[c].data \in [Items -> Entries]
    BY DEF HeadlinesInv, HookStates
  <2>2. saved' \in [whole : BOOLEAN, has : [Items -> Entries]]
    <3>1. saved' = [whole |-> TRUE, has |-> hook[c].data] \/ saved' = saved
      BY <1>5
    <3>2. [whole |-> TRUE, has |-> hook[c].data] \in [whole : BOOLEAN, has : [Items -> Entries]]
      BY <2>1
    <3> QED BY <3>1, <3>2, Zenon DEF HeadlinesInv
  <2>3. upsets' = upsets \/ (upsets > 0 /\ upsets' = upsets - 1)
    BY <1>5
  <2>4. upsets \in 0..MaxUpsets
    BY DEF HeadlinesInv, HeadlinesTypeOK
  <2> QED BY <2>2, <2>3, <2>4, HeadlineAssumption
<1>7. HeadlinesTypeOK'
  <2>1. \A d \in Renders : hook'[d].at \in {"idle", "first", "second", "queued", "writing"}
                           /\ hook'[d].entry \in Entries
    BY <1>3 DEF HookStates
  <2>2. /\ copy' \in Copies /\ cache' \in [Items -> Entries] /\ served' \in Entries
        /\ hooks' \in 0..MaxHooks
    BY <1>1, <1>4, NothingVetted DEF HeadlinesInv, HeadlinesTypeOK
  <2>3. behind' \in BOOLEAN
    BY <1>5, Zenon
  <2> QED BY <1>2, <1>6, <2>1, <2>2, <2>3 DEF HeadlinesTypeOK
<1>8. GateVets'
  <2>1. \A k \in Items : saved'.has[k] \in Vetted \union {None}
    BY <1>5 DEF HeadlinesInv, GateVets
  <2>2. \A d \in Renders :
          /\ hook'[d].at \in {"queued", "writing"} => hook'[d].entry \in Vetted
          /\ \A k \in Items : hook'[d].data[k] \in Vetted \union {None}
          /\ hook'[d].at # "idle" => hook'[d].item \in Items
    BY <1>3, NothingVetted DEF HeadlinesInv, GateVets
  <2> QED BY <1>1, <1>4, <2>1, <2>2 DEF HeadlinesInv, GateVets
<1>9. \A k \in 1..Len(queue') : queue'[k] # c
  <2> SUFFICES ASSUME NEW k \in 1..Len(queue'), queue'[k] = c PROVE FALSE
    OBVIOUS
  <2>1. k + 1 \in 1..Len(queue) /\ queue[k + 1] = queue[1] /\ k + 1 # 1 /\ 1 \in 1..Len(queue)
    BY <1>1, <1>2
  <2> QED BY <2>1 DEF HeadlinesInv, SavesWait
<1>10. SavesWait'
  <2>1. \A j, k \in 1..Len(queue') : queue'[j] = queue'[k] => j = k
    <3> SUFFICES ASSUME NEW j \in 1..Len(queue'), NEW k \in 1..Len(queue'), queue'[j] = queue'[k]
                 PROVE  j = k
      OBVIOUS
    <3>1. j + 1 \in 1..Len(queue) /\ k + 1 \in 1..Len(queue) /\ queue[j + 1] = queue[k + 1]
      BY <1>2
    <3>2. j + 1 = k + 1
      BY <3>1 DEF HeadlinesInv, SavesWait
    <3> QED BY <1>2, <3>2
  <2>2. \A k \in 1..Len(queue') : hook'[queue'[k]].at \in {"queued", "writing"}
    <3> SUFFICES ASSUME NEW k \in 1..Len(queue')
                 PROVE  hook'[queue'[k]].at \in {"queued", "writing"}
      OBVIOUS
    <3>1. queue'[k] \in Renders /\ queue'[k] = queue[k + 1] /\ k + 1 \in 1..Len(queue)
      BY <1>2
    <3>2. hook[queue'[k]].at \in {"queued", "writing"}
      BY <3>1 DEF HeadlinesInv, SavesWait
    <3> QED BY <1>3, <1>9, <3>1, <3>2
  <2>3. \A d \in Renders : hook'[d].at # "writing"
    BY <1>1, <1>3, NothingVetted DEF HeadlinesInv, SavesWait
  <2> QED BY <2>1, <2>2, <2>3 DEF SavesWait
<1>11. FileFollows'
  <2> SUFFICES ASSUME queue' = <<>>, ~behind' PROVE saved'.whole /\ saved'.has = cache'
    BY DEF FileFollows
  <2>1. Len(queue) = 1
    BY <1>1, <1>2
  <2>2. hook[c].data = cache
    BY <1>1, <2>1 DEF HeadlinesInv, SavesWait
  <2> QED BY <1>1, <1>5, <2>2
<1> QED BY <1>3, <1>6, <1>7, <1>8, <1>10, <1>11 DEF HeadlinesInv

LEMMA UpsetKeeps ==
  ASSUME HeadlinesInv, Reboots \/ \E i \in Items : EntryExpires(i)
  PROVE  HeadlinesInv'
<1>1. CASE Reboots
  <2>1. /\ copy' \in Copies /\ cache' = saved.has /\ queue' = <<>>
        /\ hook' = [c \in Renders |-> NoHook] /\ UNCHANGED <<saved, served, hooks>>
        /\ upsets' \in 0..MaxUpsets
    BY <1>1, CopyIsOne, HeadlineAssumption DEF Reboots, HeadlinesInv, HeadlinesTypeOK
  <2>2. behind' = (behind \/ queue # <<>>)
    BY <1>1 DEF Reboots
  <2>3. hook' \in [Renders -> HookStates] /\ \A c \in Renders : hook'[c] = NoHook
    BY <2>1, NothingVetted
  <2>4. HeadlinesTypeOK'
    <3>1. \A d \in Renders : hook'[d].at \in {"idle", "first", "second", "queued", "writing"}
                             /\ hook'[d].entry \in Entries
      BY <2>3 DEF HookStates
    <3>2. /\ cache' \in [Items -> Entries] /\ served' \in Entries /\ hooks' \in 0..MaxHooks
          /\ saved'.whole \in BOOLEAN /\ saved'.has \in [Items -> Entries]
          /\ queue' \in Seq(Renders)
      BY <2>1 DEF HeadlinesInv, HeadlinesTypeOK
    <3>3. behind' \in BOOLEAN
      BY <2>2, Zenon
    <3> QED BY <2>1, <3>1, <3>2, <3>3 DEF HeadlinesTypeOK
  <2>5. GateVets'
    BY <2>1, <2>3, NothingVetted DEF HeadlinesInv, GateVets
  <2>6. SavesWait'
    BY <2>1, <2>3, NothingVetted DEF SavesWait
  <2>7. FileFollows'
    BY <2>1, <2>2 DEF HeadlinesInv, FileFollows
  <2>8. saved' \in [whole : BOOLEAN, has : [Items -> Entries]]
    BY <2>1 DEF HeadlinesInv
  <2> QED BY <2>3, <2>4, <2>5, <2>6, <2>7, <2>8 DEF HeadlinesInv
<1>2. ASSUME NEW i \in Items, EntryExpires(i) PROVE HeadlinesInv'
  <2>1. /\ UNCHANGED <<copy, queue, hook, served, behind, hooks>> /\ queue = <<>>
        /\ cache' = [cache EXCEPT ![i] = None] /\ saved' = [saved EXCEPT !.has[i] = None]
        /\ upsets' \in 0..MaxUpsets
    BY <1>2, HeadlineAssumption DEF EntryExpires, HeadlinesInv, HeadlinesTypeOK
  <2>2. /\ saved' \in [whole : BOOLEAN, has : [Items -> Entries]]
        /\ saved'.whole = saved.whole /\ saved'.has = [saved.has EXCEPT ![i] = None]
    BY <2>1, NothingVetted DEF HeadlinesInv
  <2>3. HeadlinesTypeOK'
    <3>1. /\ cache' \in [Items -> Entries] /\ copy' \in Copies /\ served' \in Entries
          /\ hooks' \in 0..MaxHooks /\ queue' \in Seq(Renders)
          /\ \A c \in Renders : /\ hook'[c].at \in {"idle", "first", "second", "queued", "writing"}
                                /\ hook'[c].entry \in Entries
      BY <2>1, NothingVetted DEF HeadlinesInv, HeadlinesTypeOK
    <3>2. behind' \in BOOLEAN
      BY <2>1, Zenon DEF HeadlinesInv, HeadlinesTypeOK
    <3> QED BY <2>1, <2>2, <3>1, <3>2 DEF HeadlinesTypeOK
  <2>4. GateVets'
    BY <2>1, <2>2, NothingVetted DEF HeadlinesInv, HeadlinesTypeOK, GateVets
  <2>5. SavesWait'
    BY <2>1 DEF HeadlinesInv, SavesWait
  <2>6. FileFollows'
    BY <2>1, <2>2 DEF HeadlinesInv, FileFollows
  <2> QED BY <2>1, <2>2, <2>3, <2>4, <2>5, <2>6 DEF HeadlinesInv
<1> QED BY <1>1, <1>2

LEMMA HeadlinesStep == HeadlinesInv /\ [HeadlinesNext]_headlineVars => HeadlinesInv'
<1>1. CASE UNCHANGED headlineVars
  BY <1>1 DEF headlineVars, HeadlinesInv, HeadlinesTypeOK, GateVets, SavesWait, FileFollows
<1> QED BY <1>1, GenerateKeeps, TalkKeeps, SaveStartKeeps, SaveEndKeeps, UpsetKeeps
        DEF HeadlinesNext

(* The inductive invariant of the headlines: every line in the cache, the file
   and the queue was vetted, saves wait in line, and the file follows. *)
THEOREM HeadlinesInvariance == HeadlinesSpec => []HeadlinesInv
BY HeadlinesStart, HeadlinesStep, PTL DEF HeadlinesSpec

(* No line goes out that the gate did not pass, under whatever copy, and the
   file follows the cache however many renders write to it
   (headline-cache.service.ts, headline.service.ts). *)
THEOREM OnlyGoodLines == HeadlinesSpec => []HeadlinesHold
<1>1. HeadlinesInv => EveryLinePassed
  BY DEF HeadlinesInv, GateVets, EveryLinePassed, Vetted
<1>2. HeadlinesInv => HeadlinesHold
  BY <1>1 DEF HeadlinesInv, HeadlinesHold
<1> QED BY <1>2, HeadlinesInvariance, PTL
=============================================================================
