----------------------------- MODULE Affiliate ------------------------------
(***************************************************************************)
(* PlaywrightAffiliateAdapter and the FallbackAffiliateAdapter around it:    *)
(* one browser and one context for the process, launched by the first call  *)
(* that needs them and shared by all, closed by a reload; the short links in *)
(* memory and in the AffiliateLink table; and the latch that gives up on    *)
(* Playwright after a login redirect.                                       *)
(*                                                                         *)
(* Each await is a point where other calls, a reload or the death of the     *)
(* browser may come in; what runs between two awaits is one step.  The      *)
(* price cache, the pages' contents and the JSON adapter that answers when   *)
(* Playwright does not are left out.                                        *)
(***************************************************************************)
EXTENDS Integers, FiniteSets

CONSTANTS Callers,      \* activations of resolve, scrapePriceView, ...
          Reloaders,    \* activations of POST /affiliate/reload
          Urls,
          NoUrl,        \* a scrape resolves no link
          MaxBrowsers,  \* bound: headless browsers launched
          MaxCalls,     \* bound: calls and reloads
          MaxFaults     \* bound: failures of the browser and of its start

Browsers == 1..MaxBrowsers

ASSUME UrlsAssumption == NoUrl \notin Urls
ASSUME LimitsAssumption == {MaxBrowsers, MaxCalls, MaxFaults} \subseteq Nat

VARIABLES
  browser,   \* this.browser, 0 for null
  context,   \* the browser whose context this.context is, 0 for null
  starting,  \* this.initPromise is set
  running,   \* the headless browser processes that live
  shut,      \* browsers whose context was closed
  c,         \* each call and how far it is
  rl,        \* each reload and how far it is
  links,     \* urls with a short link in memory
  table,     \* urls with a short link in AffiliateLink
  state,     \* the storage state: is it on disk, does it log in
  disabled,  \* playwrightDisabled
  clean,     \* ghost: no browser was launched while a reload was still
             \*        closing, or with one up that a failed start left
  budget     \* what is left of the bounds

vars == <<browser, context, starting, running, shut, c, rl, links, table,
          state, disabled, clean, budget>>

Starts == {"state", "headed", "launch", "context", "script"}
Idle == [pc |-> "idle", url |-> NoUrl, b |-> 0]
IdleReload == [pc |-> "idle", b |-> 0, seen |-> {}]

Init == /\ browser = 0
        /\ context = 0
        /\ starting = FALSE
        /\ running = {}
        /\ shut = {}
        /\ c = [p \in Callers |-> Idle]
        /\ rl = [r \in Reloaders |-> IdleReload]
        /\ table \in SUBSET Urls
        /\ links = table
        /\ state \in [saved : BOOLEAN, valid : BOOLEAN]
        /\ disabled = FALSE
        /\ clean = TRUE
        /\ budget = [browsers |-> MaxBrowsers, calls |-> MaxCalls,
                     faults |-> MaxFaults]

Fault == /\ budget.faults > 0
         /\ budget' = [budget EXCEPT !.faults = @ - 1]

Reloading == \E r \in Reloaders : rl[r].pc \in {"context", "browser"}

-----------------------------------------------------------------------------
(* ensureBrowser and initBrowser. *)

(* Mutant of Ask: every call that finds no context starts a browser. *)
AskUnshared(p, u) ==
  /\ c[p].pc = "idle"
  /\ budget.calls > 0
  /\ u # NoUrl => ~disabled /\ u \notin links
  /\ context = 0 => budget.browsers > 0 \/ starting
  /\ c' = [c EXCEPT ![p] =
             IF context # 0 THEN [pc |-> "page", url |-> u, b |-> context]
                            ELSE [pc |-> "state", url |-> u, b |-> 0]]
  /\ starting' = (context = 0)
  /\ budget' = [budget EXCEPT !.calls = @ - 1]
  /\ UNCHANGED <<browser, context, running, shut, rl, links, table, state,
                 disabled, clean>>

(* A call that needs the browser: a link that is not in memory (unless the
   latch sends it to the JSON adapter), or a scrape.  It uses the context
   there is, joins the start under way, or begins one. *)
Ask(p, u) ==
  /\ c[p].pc = "idle"
  /\ budget.calls > 0
  /\ u # NoUrl => ~disabled /\ u \notin links
  /\ context = 0 => budget.browsers > 0 \/ starting
  /\ c' = [c EXCEPT ![p] =
             IF context # 0 THEN [pc |-> "page", url |-> u, b |-> context]
             ELSE [pc |-> IF starting THEN "wait" ELSE "state", url |-> u, b |-> 0]]
  /\ starting' = (starting \/ context = 0)
  /\ budget' = [budget EXCEPT !.calls = @ - 1]
  /\ UNCHANGED <<browser, context, running, shut, rl, links, table, state,
                 disabled, clean>>

Sharing(p) == {q \in Callers : q = p \/ c[q].pc = "wait"}

(* Mutant of StartFails: the calls that joined are not released. *)
StartFailsAlone(p) ==
  /\ starting' = FALSE
  /\ c' = [c EXCEPT ![p] = Idle]

(* The start under way throws: every call that waits for it ends, a scrape
   with null, a resolve with the JSON adapter's answer. *)
StartFails(p) ==
  /\ starting' = FALSE
  /\ c' = [q \in Callers |-> IF q \in Sharing(p) THEN Idle ELSE c[q]]

(* The start succeeded: its calls go on with the context there is now.  If
   a reload took it away a resolve takes this for an expired session. *)
StartSucceeds(p) ==
  /\ starting' = FALSE
  /\ c' = [q \in Callers |->
             CASE q \notin Sharing(p) -> c[q]
               [] q \in Sharing(p) /\ context = 0 -> Idle
               [] q \in Sharing(p) /\ context # 0 ->
                    [c[q] EXCEPT !.pc = "page", !.b = context]]
  /\ disabled' = \/ disabled
                 \/ context = 0 /\ \E q \in Sharing(p) : c[q].url # NoUrl

(* Is the storage state on disk? *)
Probe(p) ==
  /\ c[p].pc = "state"
  /\ c' = [c EXCEPT ![p].pc = IF state.saved THEN "launch" ELSE "headed"]
  /\ UNCHANGED <<browser, context, starting, running, shut, rl, links, table,
                 state, disabled, clean, budget>>

(* The operator logs in and closes the window; saving the state may fail. *)
Login(p) ==
  /\ c[p].pc = "headed"
  /\ c' = [c EXCEPT ![p].pc = "launch"]
  /\ \/ /\ state' \in [saved : {TRUE}, valid : BOOLEAN]
        /\ UNCHANGED budget
     \/ /\ Fault
        /\ UNCHANGED state
  /\ UNCHANGED <<browser, context, starting, running, shut, rl, links, table,
                 disabled, clean>>

Launch(p) ==
  /\ c[p].pc = "launch"
  /\ \E b \in Browsers :
       /\ budget.browsers = MaxBrowsers + 1 - b
       /\ browser' = b
       /\ running' = running \union {b}
       /\ c' = [c EXCEPT ![p].pc = "context", ![p].b = b]
  /\ clean' = (clean /\ ~Reloading /\ browser \notin running)
  /\ budget' = [budget EXCEPT !.browsers = @ - 1]
  /\ UNCHANGED <<context, starting, shut, rl, links, table, state, disabled>>

(* The window or the browser does not come up. *)
LaunchFails(p) ==
  /\ c[p].pc \in {"headed", "launch"}
  /\ Fault
  /\ StartFails(p)
  /\ UNCHANGED <<browser, context, running, shut, rl, links, table, state,
                 disabled, clean>>

NewContext(p) ==
  /\ c[p].pc = "context"
  /\ c[p].b \in running
  /\ state.saved
  /\ context' = c[p].b
  /\ c' = [c EXCEPT ![p].pc = "script"]
  /\ UNCHANGED <<browser, starting, running, shut, rl, links, table, state,
                 disabled, clean, budget>>

(* The storage state is missing or unreadable, or the browser is gone:
   this.browser stays. *)
NewContextFails(p) ==
  /\ c[p].pc = "context"
  /\ IF c[p].b \in running /\ state.saved THEN Fault ELSE UNCHANGED budget
  /\ StartFails(p)
  /\ UNCHANGED <<browser, context, running, shut, rl, links, table, state,
                 disabled, clean>>

Ready(p) ==
  /\ c[p].pc = "script"
  /\ c[p].b \in running \ shut
  /\ StartSucceeds(p)
  /\ UNCHANGED <<browser, context, running, shut, rl, links, table, state,
                 clean, budget>>

(* addInitScript throws: the context stays all the same. *)
ScriptFails(p) ==
  /\ c[p].pc = "script"
  /\ c[p].b \notin running \ shut
  /\ StartFails(p)
  /\ UNCHANGED <<browser, context, running, shut, rl, links, table, state,
                 disabled, clean, budget>>

-----------------------------------------------------------------------------
(* A page of the context. *)

Usable(b) == b \in running \ shut

Page(p) ==
  /\ c[p].pc = "page"
  /\ Usable(c[p].b)
  /\ c' = [c EXCEPT ![p].pc = "drive"]
  /\ UNCHANGED <<browser, context, starting, running, shut, rl, links, table,
                 state, disabled, clean, budget>>

(* The page cannot be opened, times out or cannot be read: a scrape gives
   null (or throws, when newPage did), a resolve the JSON adapter's answer. *)
PageFails(p) ==
  /\ c[p].pc \in {"page", "drive"}
  /\ IF Usable(c[p].b) THEN Fault ELSE UNCHANGED budget
  /\ c' = [c EXCEPT ![p] = Idle]
  /\ UNCHANGED <<browser, context, starting, running, shut, rl, links, table,
                 state, disabled, clean>>

(* The linkbuilder redirects to the login page: no more Playwright. *)
Redirected(p) ==
  /\ c[p].pc = "drive"
  /\ c[p].url # NoUrl
  /\ Usable(c[p].b)
  /\ ~state.valid
  /\ disabled' = TRUE
  /\ c' = [c EXCEPT ![p] = Idle]
  /\ UNCHANGED <<browser, context, starting, running, shut, rl, links, table,
                 state, clean, budget>>

(* The short link is known: it goes into memory, then into the table. *)
Driven(p) ==
  /\ c[p].pc = "drive"
  /\ Usable(c[p].b)
  /\ c[p].url # NoUrl => state.valid
  /\ IF c[p].url = NoUrl
     THEN /\ c' = [c EXCEPT ![p] = Idle]
          /\ UNCHANGED links
     ELSE /\ c' = [c EXCEPT ![p].pc = "save"]
          /\ links' = links \union {c[p].url}
  /\ UNCHANGED <<browser, context, starting, running, shut, rl, table, state,
                 disabled, clean, budget>>

(* saveLink: a failure is logged. *)
Save(p) ==
  /\ c[p].pc = "save"
  /\ \/ /\ table' = table \union {c[p].url}
        /\ UNCHANGED budget
     \/ /\ Fault
        /\ UNCHANGED table
  /\ c' = [c EXCEPT ![p] = Idle]
  /\ UNCHANGED <<browser, context, starting, running, shut, rl, links, state,
                 disabled, clean>>

-----------------------------------------------------------------------------
(* reload: closeBrowser, then loadCache. *)

(* The context is closed first; with none, the browser at once; with
   neither, there is nothing to wait for. *)
Reload(r) ==
  /\ rl[r].pc = "idle"
  /\ budget.calls > 0
  /\ budget' = [budget EXCEPT !.calls = @ - 1]
  /\ disabled' = FALSE
  /\ rl' = [rl EXCEPT ![r] =
              CASE context # 0 -> [IdleReload EXCEPT !.pc = "context", !.b = context]
                [] context = 0 /\ browser # 0 ->
                     [IdleReload EXCEPT !.pc = "browser", !.b = browser]
                [] context = 0 /\ browser = 0 -> [IdleReload EXCEPT !.pc = "read"]]
  /\ UNCHANGED <<browser, context, starting, running, shut, c, links, table,
                 state, clean>>

(* The context is closed, and the browser there is by now is asked to. *)
ContextClosed(r) ==
  /\ rl[r].pc = "context"
  /\ shut' = shut \union {rl[r].b}
  /\ IF browser # 0
     THEN /\ rl' = [rl EXCEPT ![r].pc = "browser", ![r].b = browser]
          /\ UNCHANGED <<browser, context>>
     ELSE /\ rl' = [rl EXCEPT ![r].pc = "read"]
          /\ context' = 0
          /\ browser' = 0
  /\ UNCHANGED <<starting, running, c, links, table, state, disabled, clean, budget>>

(* Mutant of BrowserClosed: the context is forgotten and the browser is not
   closed. *)
BrowserLeft(r) ==
  /\ rl[r].pc = "browser"
  /\ browser' = 0
  /\ context' = 0
  /\ rl' = [rl EXCEPT ![r].pc = "read"]
  /\ UNCHANGED <<starting, running, shut, c, links, table, state, disabled,
                 clean, budget>>

(* Whatever the two fields hold by now, they are cleared. *)
BrowserClosed(r) ==
  /\ rl[r].pc = "browser"
  /\ running' = running \ {rl[r].b}
  /\ browser' = 0
  /\ context' = 0
  /\ rl' = [rl EXCEPT ![r].pc = "read"]
  /\ UNCHANGED <<starting, shut, c, links, table, state, disabled, clean, budget>>

(* loadCache replaces the links in memory by what the table had when it was
   read, or by nothing when it cannot be read. *)
ReadTable(r) ==
  /\ rl[r].pc = "read"
  /\ \/ /\ rl' = [rl EXCEPT ![r] = [pc |-> "load", b |-> 0, seen |-> table]]
        /\ UNCHANGED budget
     \/ /\ Fault
        /\ rl' = [rl EXCEPT ![r] = [pc |-> "load", b |-> 0, seen |-> {}]]
  /\ UNCHANGED <<browser, context, starting, running, shut, c, links, table,
                 state, disabled, clean>>

LoadCache(r) ==
  /\ rl[r].pc = "load"
  /\ links' = rl[r].seen
  /\ rl' = [rl EXCEPT ![r] = IdleReload]
  /\ UNCHANGED <<browser, context, starting, running, shut, c, table, state,
                 disabled, clean, budget>>

-----------------------------------------------------------------------------
(* A browser dies, or the session in the storage state expires. *)
Dies(b) ==
  /\ b \in running
  /\ Fault
  /\ running' = running \ {b}
  /\ UNCHANGED <<browser, context, starting, shut, c, rl, links, table, state,
                 disabled, clean>>

Expires ==
  /\ state.valid
  /\ Fault
  /\ state' = [state EXCEPT !.valid = FALSE]
  /\ UNCHANGED <<browser, context, starting, running, shut, c, rl, links,
                 table, disabled, clean>>

-----------------------------------------------------------------------------
Progress(p) == \/ Probe(p) \/ Login(p) \/ Launch(p) \/ LaunchFails(p)
               \/ NewContext(p) \/ NewContextFails(p) \/ Ready(p) \/ ScriptFails(p)
               \/ Page(p) \/ PageFails(p) \/ Redirected(p) \/ Driven(p) \/ Save(p)

ReloadStep(r) == \/ ContextClosed(r) \/ BrowserClosed(r) \/ ReadTable(r) \/ LoadCache(r)

Next == \/ \E p \in Callers : Progress(p) \/ \E u \in Urls \union {NoUrl} : Ask(p, u)
        \/ \E r \in Reloaders : Reload(r) \/ ReloadStep(r)
        \/ \E b \in Browsers : Dies(b)
        \/ Expires

Spec == Init /\ [][Next]_vars

(* Playwright answers or times out, and the operator closes the window. *)
Fairness == /\ \A p \in Callers : WF_vars(Progress(p))
            /\ \A r \in Reloaders : WF_vars(ReloadStep(r))

FairSpec == Spec /\ Fairness

-----------------------------------------------------------------------------
(* Type correctness of the adapter. *)
TypeOK ==
  /\ {browser, context} \subseteq Browsers \union {0}
  /\ running \subseteq Browsers
  /\ shut \subseteq Browsers
  /\ c \in [Callers -> [pc : Starts \union {"idle", "wait", "page", "drive", "save"},
                        url : Urls \union {NoUrl}, b : Browsers \union {0}]]
  /\ rl \in [Reloaders -> [pc : {"idle", "context", "browser", "read", "load"},
                           b : Browsers \union {0}, seen : SUBSET Urls]]
  /\ {links, table} \subseteq SUBSET Urls
  /\ state \in [saved : BOOLEAN, valid : BOOLEAN]
  /\ {starting, disabled, clean} \subseteq BOOLEAN
  /\ budget \in [browsers : Nat, calls : Nat, faults : Nat]

(* At most one call is starting a browser, and the promise the others wait
   for is that call's. *)
OneStart ==
  /\ \A p, q \in Callers : c[p].pc \in Starts /\ c[q].pc \in Starts => p = q
  /\ starting <=> \E p \in Callers : c[p].pc \in Starts
  /\ (\E p \in Callers : c[p].pc = "wait") => starting

(* As long as no browser is launched while a reload is still closing, or after
   a start that failed with its browser up, the only browser that runs is the one
   the adapter holds: calls, reloads during a start, reloads during reloads
   and dying browsers lose none. *)
SingleBrowser == clean => running \subseteq {browser}

(* Every call that needs the browser ends. *)
EveryCallEnds == \A p \in Callers : c[p].pc # "idle" ~> c[p].pc = "idle"

(* The two together: however calls, reloads and deaths of the browser meet,
   there is one start and one browser. *)
OneBrowser == OneStart /\ SingleBrowser
=============================================================================
