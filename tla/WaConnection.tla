---------------------------- MODULE WaConnection ----------------------------
(***************************************************************************)
(* WhatsappService's connection: connect() awaits the credentials, makes a  *)
(* socket and leaves two event handlers behind; `open` makes the service    *)
(* ready, `close` arms a timer that connects again, until too many closes    *)
(* in a row, or a logout, end it.  Nothing in the code bounds the number of  *)
(* connects, timers and sockets there are at once: that it stays at one is   *)
(* a property of how they follow each other.                                *)
(*                                                                         *)
(* Delays are left out (a timer may fire whenever it is armed), and so are   *)
(* the messages: RateLimiter has the sends.                                 *)
(***************************************************************************)
EXTENDS Integers, FiniteSets

CONSTANTS MaxReconnects,  \* WA_MAX_RECONNECTS
          MaxSockets,     \* bound: sockets in a behaviour
          MaxRejects      \* bound: connects that throw

Sockets == 1..MaxSockets

ASSUME LimitsAssumption == /\ MaxReconnects \in Nat \ {0}
                           /\ MaxSockets \in Nat /\ MaxRejects \in Nat

VARIABLES
  sock,        \* the socket this.sock holds, 0 for null
  line,        \* what each socket is to Baileys
  connecting,  \* activations of connect() that have not made a socket yet
  timers,      \* reconnect timers that are armed
  ready,
  attempts,    \* reconnectAttempts
  exhausted,   \* reconnectExhausted
  loggedOut,   \* ghost: the account was logged out
  dsn,         \* SENTRY_DSN is set: an unhandled rejection is only logged
  rejects      \* what is left of the bound

connVars == <<sock, line, connecting, timers, ready, attempts, exhausted,
          loggedOut, dsn, rejects>>

(* onModuleInit: a new process connects. *)
Booted == /\ connecting = 1
          /\ timers = 0
          /\ ready = FALSE
          /\ attempts = 0
          /\ exhausted = FALSE
          /\ loggedOut = FALSE

ConnInit == /\ Booted
        /\ sock = 0
        /\ line = [n \in Sockets |-> "none"]
        /\ dsn \in BOOLEAN
        /\ rejects = MaxRejects

(* The credentials and the version are there: a socket that still has to
   open replaces the old one. *)
MakeSocket ==
  /\ connecting > 0
  /\ connecting' = connecting - 1
  /\ \E n \in Sockets :
       /\ line[n] = "none"
       /\ \A m \in 1..n - 1 : line[m] # "none"
       /\ sock' = n
       /\ line' = [line EXCEPT ![n] = "opening"]
  /\ UNCHANGED <<timers, ready, attempts, exhausted, loggedOut, dsn, rejects>>

(* The process ends with every socket it has, and its supervisor starts
   another. *)
Restarted == /\ connecting' = 1
             /\ timers' = 0
             /\ ready' = FALSE
             /\ attempts' = 0
             /\ exhausted' = FALSE
             /\ loggedOut' = FALSE
             /\ sock' = 0
             /\ line' = [n \in Sockets |-> IF line[n] = "none" THEN "none"
                                                               ELSE "closed"]

(* The credentials cannot be read.  Nobody handles the rejection of connect():
   with Sentry's handler it is logged and that is all, without it the
   process ends. *)
ConnectRejects ==
  /\ connecting > 0
  /\ rejects > 0
  /\ rejects' = rejects - 1
  /\ \/ /\ dsn
        /\ connecting' = connecting - 1
        /\ UNCHANGED <<sock, line, timers, ready, attempts, exhausted, loggedOut>>
     \/ /\ ~dsn
        /\ Restarted
  /\ UNCHANGED dsn

(* connection.update with connection = open. *)
Open(n) ==
  /\ line[n] = "opening"
  /\ line' = [line EXCEPT ![n] = "open"]
  /\ ready' = TRUE
  /\ attempts' = 0
  /\ exhausted' = FALSE
  /\ UNCHANGED <<sock, connecting, timers, loggedOut, dsn, rejects>>

(* Mutants of Close: a close reconnects at once and arms the timer as well;
   the last attempt still arms it; the last attempt is not noticed. *)
CloseConnectsToo(n) ==
  /\ line[n] \in {"opening", "open"}
  /\ line' = [line EXCEPT ![n] = "closed"]
  /\ ready' = FALSE
  /\ connecting' = connecting + 1
  /\ attempts' = attempts + 1
  /\ exhausted' = (exhausted \/ attempts' >= MaxReconnects)
  /\ timers' = IF attempts' >= MaxReconnects THEN timers ELSE timers + 1
  /\ UNCHANGED <<sock, loggedOut, dsn, rejects>>

CloseArmsAlways(n) ==
  /\ line[n] \in {"opening", "open"}
  /\ line' = [line EXCEPT ![n] = "closed"]
  /\ ready' = FALSE
  /\ attempts' = attempts + 1
  /\ exhausted' = (exhausted \/ attempts' >= MaxReconnects)
  /\ timers' = timers + 1
  /\ UNCHANGED <<sock, connecting, loggedOut, dsn, rejects>>

CloseForgets(n) ==
  /\ line[n] \in {"opening", "open"}
  /\ line' = [line EXCEPT ![n] = "closed"]
  /\ ready' = FALSE
  /\ attempts' = attempts + 1
  /\ exhausted' = (exhausted \/ attempts' > MaxReconnects)
  /\ timers' = IF attempts' >= MaxReconnects THEN timers ELSE timers + 1
  /\ UNCHANGED <<sock, connecting, loggedOut, dsn, rejects>>

(* connection.update with connection = close. *)
Close(n) ==
  /\ line[n] \in {"opening", "open"}
  /\ line' = [line EXCEPT ![n] = "closed"]
  /\ ready' = FALSE
  /\ \/ /\ loggedOut' = TRUE
        /\ UNCHANGED <<attempts, exhausted, timers>>
     \/ /\ attempts' = attempts + 1
        /\ exhausted' = (exhausted \/ attempts' >= MaxReconnects)
        /\ timers' = IF attempts' >= MaxReconnects THEN timers ELSE timers + 1
        /\ UNCHANGED loggedOut
  /\ UNCHANGED <<sock, connecting, dsn, rejects>>

TimerFires ==
  /\ timers > 0
  /\ timers' = timers - 1
  /\ connecting' = connecting + 1
  /\ UNCHANGED <<sock, line, ready, attempts, exhausted, loggedOut, dsn, rejects>>

ConnEvent == \E n \in Sockets : Open(n) \/ Close(n)

ConnNext == MakeSocket \/ ConnectRejects \/ ConnEvent \/ TimerFires

ConnSpec == ConnInit /\ [][ConnNext]_connVars

(* The event loop goes on, credentials are read or not, and Baileys gives up
   on a socket that does not open. *)
ConnFairness == /\ WF_connVars(MakeSocket)
            /\ WF_connVars(TimerFires)
            /\ \A n \in Sockets : WF_connVars(line[n] = "opening" /\ (Open(n) \/ Close(n)))

ConnFairSpec == ConnSpec /\ ConnFairness

-----------------------------------------------------------------------------
Living == {n \in Sockets : line[n] \in {"opening", "open"}}

Counts == /\ connecting \in Nat /\ timers \in Nat /\ rejects \in Nat
          /\ attempts \in Nat /\ attempts <= MaxReconnects

Flags == /\ ready \in BOOLEAN /\ exhausted \in BOOLEAN
         /\ loggedOut \in BOOLEAN /\ dsn \in BOOLEAN

Wires == /\ sock \in Sockets \union {0}
         /\ line \in [Sockets -> {"none", "opening", "open", "closed"}]

(* Type correctness of the connection. *)
ConnTypeOK == Counts /\ Flags /\ Wires

(* Reconnecting never forks: there is at most one connect under way, timer
   armed or socket alive, so no two sockets fight over the account and no
   late event of an old socket changes what the service thinks of a newer
   one. *)
OneConnection ==
  /\ connecting + timers <= 1
  /\ \A n \in Living : connecting + timers = 0 /\ n = sock
  /\ ready <=> sock \in Living /\ line[sock] = "open"

(* Once it has given up, or the account was logged out, the service makes no
   further socket: only a new process does. *)
GivenUpIsFinal ==
  exhausted \/ loggedOut => connecting + timers = 0 /\ Living = {}

(* The three above are inductive with this: whoever may still connect has an
   attempt left. *)
AttemptLeft == connecting + timers > 0 \/ Living # {} => attempts < MaxReconnects

ConnIInv == ConnTypeOK /\ OneConnection /\ GivenUpIsFinal /\ AttemptLeft

(* As long as no connect throws, a service that is down gets ready again or
   gives up (or uses up the bound on sockets). *)
DownIsRetried ==
  ~ready /\ rejects = MaxRejects
    ~> \/ ready \/ exhausted \/ loggedOut \/ rejects < MaxRejects
       \/ line[MaxSockets] # "none"

(* Reconnecting neither forks nor goes on after it has given up. *)
ReconnectIsSound == OneConnection /\ GivenUpIsFinal
=============================================================================
