----------------------------- MODULE ShortLinks -----------------------------
(***************************************************************************)
(* The redirector (redirect/redirect.service.ts, redirect.controller.ts):   *)
(* a caption's affiliate link is replaced by a short one that leads to it.   *)
(* Captions of the same deal reuse its row; captions rendered at the same    *)
(* time may each create one, and codes are random.                          *)
(***************************************************************************)
EXTENDS Integers, FiniteSets

CONSTANTS Links,     \* url, dealKey and channel of a caption's link
          Codes,
          Captions,  \* calls of wrapIfEnabled at a time
          MaxWraps   \* bound: calls in a behaviour

ASSUME LinksAssumption == MaxWraps \in Nat /\ "none" \notin Links

MaxCodeAttempts == 3

VARIABLES leads,    \* the ShortLink table: where each code leads
          wrap,     \* each call: its link, the attempts left, 0 when idle
          printed,  \* ghost: the links in captions that went out
          wraps     \* what is left of the bound

linkVars == <<leads, wrap, printed, wraps>>

NoWrap == [link |-> "none", left |-> 0]

LinksInit == /\ leads = [c \in Codes |-> "none"]
             /\ wrap = [w \in Captions |-> NoWrap]
             /\ printed = {}
             /\ wraps = MaxWraps

Prints(link, code) == printed' = printed \union {[link |-> link, code |-> code]}

(* wrapIfEnabled: off, or a failing query, prints the link itself; a row that
   exists gives its code. *)
Wraps(w, l) ==
  /\ wrap[w] = NoWrap /\ wraps > 0
  /\ wraps' = wraps - 1
  /\ \/ Prints(l, "raw") /\ UNCHANGED wrap
     \/ /\ \E c \in Codes : leads[c] = l /\ Prints(l, c)
        /\ UNCHANGED wrap
     \/ /\ \A c \in Codes : leads[c] # l
        /\ wrap' = [wrap EXCEPT ![w] = [link |-> l, left |-> MaxCodeAttempts]]
        /\ UNCHANGED printed
  /\ UNCHANGED leads

(* Mutant of Creates: a code that is taken is as good as a new one. *)
CreatesAnyhow(w) ==
  /\ wrap[w] # NoWrap
  /\ \E c \in Codes :
       /\ leads' = IF leads[c] = "none" THEN [leads EXCEPT ![c] = wrap[w].link]
                                        ELSE leads
       /\ Prints(wrap[w].link, c)
  /\ wrap' = [wrap EXCEPT ![w] = NoWrap]
  /\ UNCHANGED wraps

(* create with a random code: the unique index refuses one that is taken,
   and another is tried; after the last, or another error, the link itself
   is printed. *)
Creates(w) ==
  /\ wrap[w] # NoWrap
  /\ \/ \E c \in Codes :
          /\ leads[c] = "none"
          /\ leads' = [leads EXCEPT ![c] = wrap[w].link]
          /\ Prints(wrap[w].link, c)
          /\ wrap' = [wrap EXCEPT ![w] = NoWrap]
     \/ /\ \E c \in Codes : leads[c] # "none"
        /\ wrap[w].left > 1
        /\ wrap' = [wrap EXCEPT ![w].left = @ - 1]
        /\ UNCHANGED <<leads, printed>>
     \/ /\ Prints(wrap[w].link, "raw")
        /\ wrap' = [wrap EXCEPT ![w] = NoWrap]
        /\ UNCHANGED leads
  /\ UNCHANGED wraps

LinksNext == \E w \in Captions : Creates(w) \/ \E l \in Links : Wraps(w, l)

LinksSpec == LinksInit /\ [][LinksNext]_linkVars

-----------------------------------------------------------------------------
(* Type correctness of the redirector. *)
LinksTypeOK ==
  /\ leads \in [Codes -> Links \union {"none"}]
  /\ wrap \in [Captions -> [link : Links \union {"none"}, left : 0..MaxCodeAttempts]]
  /\ printed \subseteq [link : Links, code : Codes \union {"raw"}]
  /\ wraps \in 0..MaxWraps

(* follow(code): what a reader of a caption gets. *)
Follow(p) == IF p.code = "raw" THEN p.link ELSE leads[p.code]

(* Every link that ever went out leads to its own deal, whatever captions
   were rendered beside it. *)
LinksLeadHome == \A p \in printed : Follow(p) = p.link
=============================================================================
