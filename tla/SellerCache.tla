---------------------------- MODULE SellerCache ----------------------------
(***************************************************************************)
(* Enrichment of deals (enrichment/enrichment.service.ts) over the seller    *)
(* cache (seller-cache.service.ts): deals of a batch are enriched at the same *)
(* time, each asks for its seller and its item, and a seller that had to be  *)
(* fetched is kept in memory and in a file.  The file is written through a   *)
(* temporary file and renamed, one write after the other.                   *)
(*                                                                         *)
(* What is known of a seller is left out; an entry past its TTL is as good  *)
(* as none and leaves memory and file.  A call of the API is "known" when it *)
(* answered, "null" after a 403 or a 404 and "failed" after anything else,    *)
(* retries included.                                                        *)
(***************************************************************************)
EXTENDS Integers, Sequences, FiniteSets

CONSTANTS Sellers,
          Batch,       \* deals enriched at once: a batch has PARALLEL_LIMIT,
                       \* and runs overlap
          MaxEnriched, \* bound: deals enriched in a behaviour
          MaxMishaps   \* bound: expiries, write errors and restarts

ASSUME EnrichmentAssumption == MaxEnriched \in Nat /\ MaxMishaps \in Nat

VARIABLES
  store,     \* the sellers known in memory
  file,      \* the file: whole or torn, and the sellers in it
  tmp,       \* the temporary file
  writing,   \* writeLock: the deals whose persistNow waits or runs
  phase,     \* what the persistNow of each deal is at, with what it writes
  deal,      \* each deal of the batch: its seller and its two calls
  kept,      \* ghost: sellers whose set() resolved
  enriched, mishaps  \* what is left of the bounds

sellerVars == <<store, file, tmp, writing, phase, deal, kept, enriched, mishaps>>

Free == [of |-> "none", seller |-> "idle", item |-> "idle"]
NotWriting == [at |-> "none", data |-> {}]
Whole(s) == [whole |-> TRUE, has |-> s]
Torn == [whole |-> FALSE, has |-> {}]

SellerInit == /\ store = {}
              /\ file = Whole({})
              /\ tmp = Torn
              /\ writing = <<>>
              /\ phase = [d \in Batch |-> NotWriting]
              /\ deal = [d \in Batch |-> Free]
              /\ kept = {}
              /\ enriched = MaxEnriched
              /\ mishaps = MaxMishaps

files == <<file, tmp, writing, phase, kept>>

(* enrich: both calls start; a seller in the cache is there at once. *)
Enriches(d, s) ==
  /\ deal[d] = Free /\ enriched > 0
  /\ enriched' = enriched - 1
  /\ deal' = [deal EXCEPT ![d] = [of |-> s, item |-> "asked",
                                  seller |-> IF s \in store THEN "known" ELSE "asked"]]
  /\ UNCHANGED <<store, files, mishaps>>

(* getItem answers; 403 and 404 count as an item without details. *)
ItemAnswers(d) ==
  /\ deal[d].item = "asked"
  /\ \E a \in {"known", "null", "failed"} : deal' = [deal EXCEPT ![d].item = a]
  /\ UNCHANGED <<store, files, enriched, mishaps>>

(* getSeller answers: set() puts it in memory and queues a write. *)
SellerAnswers(d) ==
  /\ deal[d].seller = "asked"
  /\ \/ /\ deal' = [deal EXCEPT ![d].seller = "caching"]
        /\ store' = store \union {deal[d].of}
        /\ writing' = Append(writing, d)
        /\ phase' = [phase EXCEPT ![d] = [at |-> "queued", data |-> {}]]
     \/ /\ \E a \in {"null", "failed"} : deal' = [deal EXCEPT ![d].seller = a]
        /\ UNCHANGED <<store, writing, phase>>
  /\ UNCHANGED <<file, tmp, kept, enriched, mishaps>>

(* Mutant of Turn: writes do not wait for each other. *)
TurnAtOnce(d) == \E i \in DOMAIN writing : writing[i] = d

Turn(d) == writing # <<>> /\ Head(writing) = d

(* persistNow turns the store into JSON and opens the temporary file. *)
WriteStarts(d) ==
  /\ Turn(d) /\ phase[d].at = "queued"
  /\ phase' = [phase EXCEPT ![d] = [at |-> "writing", data |-> store]]
  /\ tmp' = Torn
  /\ UNCHANGED <<store, file, writing, deal, kept, enriched, mishaps>>

WriteEnds(d) ==
  /\ Turn(d) /\ phase[d].at = "writing"
  /\ phase' = [phase EXCEPT ![d].at = "renaming"]
  /\ tmp' = Whole(phase[d].data)
  /\ UNCHANGED <<store, file, writing, deal, kept, enriched, mishaps>>

(* writeLock resolves: the next write may start. *)
Left == Tail(writing)

(* The rename, and set() resolves. *)
Renames(d) ==
  /\ Turn(d) /\ phase[d].at = "renaming"
  /\ file' = tmp
  /\ kept' = kept \union {deal[d].of}
  /\ deal' = [deal EXCEPT ![d].seller = "known"]
  /\ writing' = Left
  /\ phase' = [phase EXCEPT ![d] = NotWriting]
  /\ UNCHANGED <<store, tmp, enriched, mishaps>>

(* mkdir, writeFile or rename throws: so does getSeller, although the
   seller had answered. *)
WriteFails(d) ==
  /\ Turn(d) /\ mishaps > 0
  /\ mishaps' = mishaps - 1
  /\ deal' = [deal EXCEPT ![d].seller = "lost"]
  /\ writing' = Left
  /\ phase' = [phase EXCEPT ![d] = NotWriting]
  /\ tmp' = Torn
  /\ UNCHANGED <<store, file, kept, enriched>>

Settled(d) == deal[d].seller \in {"known", "null", "failed", "lost"}
              /\ deal[d].item \in {"known", "null", "failed"}

(* Both calls are over, also the one enrich() did not wait for because the
   other had thrown. *)
Ends(d) ==
  /\ Settled(d)
  /\ deal' = [deal EXCEPT ![d] = Free]
  /\ UNCHANGED <<store, files, enriched, mishaps>>

(* The TTL is hours: an entry does not expire while it is being written. *)
Expires(s) ==
  /\ s \in store /\ mishaps > 0
  /\ \A d \in Batch : phase[d] = NotWriting
  /\ mishaps' = mishaps - 1
  /\ store' = store \ {s}
  /\ file' = [file EXCEPT !.has = @ \ {s}]
  /\ kept' = kept \ {s}
  /\ UNCHANGED <<tmp, writing, phase, deal, enriched>>

(* A new process loads the file; one it cannot parse is an empty cache. *)
CacheRestarts ==
  /\ mishaps > 0
  /\ mishaps' = mishaps - 1
  /\ store' = file.has
  /\ writing' = <<>>
  /\ phase' = [d \in Batch |-> NotWriting]
  /\ deal' = [d \in Batch |-> Free]
  /\ UNCHANGED <<file, tmp, kept, enriched>>

SellerNext ==
  \/ \E d \in Batch :
       \/ \E s \in Sellers : Enriches(d, s)
       \/ ItemAnswers(d) \/ SellerAnswers(d) \/ Ends(d)
       \/ WriteStarts(d) \/ WriteEnds(d) \/ Renames(d) \/ WriteFails(d)
  \/ CacheRestarts
  \/ \E s \in Sellers : Expires(s)

SellerSpec == SellerInit /\ [][SellerNext]_sellerVars

-----------------------------------------------------------------------------
(* Mutant of SellerOf: the deal is enriched only by two good answers. *)
SellerOfWhole(d) ==
  IF deal[d].seller = "known" /\ deal[d].item = "known" THEN "known" ELSE "null"

(* What enrichMany returns of the seller: null when either call threw. *)
SellerOf(d) ==
  IF deal[d].seller = "known" /\ deal[d].item # "failed" THEN "known" ELSE "null"

(* Type correctness of cache and batch. *)
SellerTypeOK ==
  /\ store \subseteq Sellers
  /\ file \in [whole : BOOLEAN, has : SUBSET Sellers]
  /\ tmp \in [whole : BOOLEAN, has : SUBSET Sellers]
  /\ writing \in Seq(Batch)
  /\ phase \in [Batch -> [at : {"none", "queued", "writing", "renaming"},
                          data : SUBSET Sellers]]
  /\ deal \in [Batch -> [of : Sellers \union {"none"},
                         seller : {"idle", "asked", "caching", "known", "null",
                                   "failed", "lost"},
                         item : {"idle", "asked", "known", "null", "failed"}]]
  /\ kept \subseteq Sellers
  /\ enriched \in 0..MaxEnriched /\ mishaps \in 0..MaxMishaps

(* Whenever the process ends, the next one finds a whole file with every
   seller whose set() resolved: concurrent writes never share the temporary
   file, and a later write never has less than an earlier one. *)
SellersKept == file.whole /\ kept \subseteq file.has

(* The comment at enrich: a 403 on the item "must not throw away seller
   reputation that came back 200".  A seller that answered is missing from its
   deal only if the item's call failed for good or the cache could not be
   written. *)
SiblingKept ==
  \A d \in Batch :
    Settled(d) /\ SellerOf(d) = "null" =>
      deal[d].seller \in {"null", "failed", "lost"} \/ deal[d].item = "failed"

(* A seller that answered reaches its deal, and the deals of later days. *)
EnrichmentHolds == SellersKept /\ SiblingKept
=============================================================================
