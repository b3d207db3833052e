----------------------------- MODULE MCServices -----------------------------
(***************************************************************************)
(* The smaller services for TLC.  They share no state, so each behaviour     *)
(* looks at one of them, chosen at the start, and the states of the run are  *)
(* the sum of theirs, not the product; the others stay where they start.    *)
(***************************************************************************)
EXTENDS QuietHours, WaConnection, DmAlert, Targets, SellerCache, Headlines,
        ShortLinks

(* The job arrives at the first or the last millisecond of an hour, or
   somewhere in between. *)
Instants == {h * Hour + r : h \in 0..23, r \in {0, 59999, 1234567, Hour - 1}}

Configured == {-25, -1, 0, 7, 12, 23, 24, 30}

(* The model's answers: fine, fine only under the built-in copy, never. *)
Gate == [c \in Copies |-> IF c = "own" THEN {"fine"} ELSE {"fine", "worn"}]

VARIABLE looked  \* the service this behaviour looks at

serviceVars == <<holdVars, connVars, alertVars, registryVars, sellerVars,
                 headlineVars, linkVars, looked>>

(* Not looked at: always quiet, and a connect that was given up. *)
HoldParked == /\ clock = 0 /\ start = 0 /\ end = 0
              /\ since = [at |-> 0, delay |-> 0] /\ job = "arrived"

ConnParked == /\ Booted /\ sock = 0 /\ dsn = TRUE /\ rejects = 0
              /\ line = [n \in Sockets |-> "none"]

ServicesInit ==
  /\ looked \in {"hold", "connection", "alert", "targets", "sellers",
                 "headlines", "links"}
  /\ IF looked = "hold" THEN HoldInit ELSE HoldParked
  /\ IF looked = "connection" THEN ConnInit ELSE ConnParked
  /\ AlertInit /\ TargetsInit /\ SellerInit /\ HeadlinesInit /\ LinksInit
  /\ looked # "targets" => \A j \in Jids : target[j] = "none"
  /\ looked # "headlines" => copy = "default"

Only(what) == /\ looked = what
              /\ UNCHANGED looked
              /\ what # "hold" => UNCHANGED holdVars
              /\ what # "connection" => UNCHANGED connVars
              /\ what # "alert" => UNCHANGED alertVars
              /\ what # "targets" => UNCHANGED registryVars
              /\ what # "sellers" => UNCHANGED sellerVars
              /\ what # "headlines" => UNCHANGED headlineVars
              /\ what # "links" => UNCHANGED linkVars

ServicesNext ==
  \/ Only("hold") /\ HoldNext
  \/ Only("connection") /\ ConnNext
  \/ Only("alert") /\ AlertNext
  \/ Only("targets") /\ TargetsNext
  \/ Only("sellers") /\ SellerNext
  \/ Only("headlines") /\ HeadlinesNext
  \/ Only("links") /\ LinksNext

SocketSettles == \E n \in Sockets : line[n] = "opening" /\ (Open(n) \/ Close(n))

(* The fairness of the hold and of the connection, where they are looked at.
   One socket lives at a time (OneConnection), so that fairness for whichever
   is opening is the same as for each. *)
ServicesFairness ==
  /\ WF_serviceVars(Only("hold") /\ HoldNext)
  /\ WF_serviceVars(Only("connection") /\ MakeSocket)
  /\ WF_serviceVars(Only("connection") /\ TimerFires)
  /\ WF_serviceVars(Only("connection") /\ SocketSettles)

ServicesSpec == ServicesInit /\ [][ServicesNext]_serviceVars /\ ServicesFairness
=============================================================================
