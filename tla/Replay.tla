--------------------------------- MODULE Replay ---------------------------------
(***************************************************************************)
(* Asynchronous metadata walks by replay: crates/oxcdf-hdf5/src/replay.rs. *)
(*                                                                         *)
(* A driver runs the synchronous parser over the pages it holds.  A read   *)
(* outside them records the pages it lacks and fails with Incomplete; the  *)
(* driver fetches what was recorded in one batch and runs the parser again *)
(* from the start, until the parser finishes or MaxRounds are spent.       *)
(* Several drivers (opens and later walks of one file) share the pages of  *)
(* one IoCache, which may evict them at any time.                          *)
(*                                                                         *)
(* The parser is pure, so a walk of one file is a fixed sequence of reads, *)
(* cut short by the first error that is not tolerated.  A page is the      *)
(* number of its bytes that are held, counted from its start; 0 is a page  *)
(* that is not held, for no code path stores an empty page.                *)
(***************************************************************************)
EXTENDS Integers, Sequences, FiniteSets, FiniteSetsExt

CONSTANTS
  Size,       (* bytes in the file                                         *)
  PageSize,   (* bytes in a page                                           *)
  MaxRounds,  (* MAX_ROUNDS                                                *)
  Drivers,    (* the tasks that walk                                       *)
  Prefetches, (* Prefetches[d]: the first windows d asks for, in bytes     *)
  Walks       (* Walks[d]: the walks it runs, see Walk                     *)

ASSUME SizesAssumption ==
  Size \in Nat \ {0} /\ PageSize \in Nat \ {0} /\ MaxRounds \in Nat \ {0}
ASSUME PrefetchesAssumption == Prefetches \in [Drivers -> SUBSET Nat]

ByteRange == [offset : Nat, len : Nat]

(* One batch of reads: ReplaySource::read_ranges, or read_exact_at when    *)
(* there is one range.  "keep" has the errors the parser tolerates here:   *)
(* none, for a read propagated with `?`; Malformed, for a dense attribute  *)
(* index it can do without (dense.rs:84-90); both, for an attribute value  *)
(* that stays raw when its heap cannot be read (netcdf.rs:1040).           *)
Reads == [ranges : Seq(ByteRange), keep : SUBSET {"Incomplete", "Malformed"}]

(* A walk: its reads in order, and how the parser ends when every read     *)
(* gave it the file's bytes: a value, or an error of the file itself.      *)
Walk == [reads : Seq(Reads), ends : {"Value", "Malformed"}]

ASSUME WalksAssumption == Walks \in [Drivers -> SUBSET Walk]

VARIABLES
  cache,     (* cache[p]: the pages of the shared IoCache                  *)
  pc,        (* pc[d]: where driver d is                                   *)
  walk,      (* walk[d]: what d walks                                      *)
  pages,     (* pages[d]: the pages d holds                                *)
  wanted,    (* wanted[d]: the pages this round has to fetch               *)
  todo,      (* todo[d]: the ones fetch() has not looked at yet            *)
  asked,     (* asked[d]: the ones it asks the source for                  *)
  previous,  (* previous[d]: what the round before found missing           *)
  round,     (* round[d]: rounds begun                                     *)
  at,        (* at[d]: the next read of the parser                         *)
  missing,   (* missing[d]: the pages ReplaySource has recorded            *)
  lost,      (* history: the reads whose error the parser tolerated        *)
  garbled,   (* history: the parser was given bytes that are not the file's*)
  outcome,   (* outcome[d]: what build() returned                          *)
  result,    (* result[d]: what replay() returned                          *)
  degraded   (* history: the source answered some range short              *)

local == <<pc, walk, pages, wanted, todo, asked, previous, round, at, missing,
           lost, garbled, outcome, result>>
vars  == <<cache, local, degraded>>

MinOf(a, b) == IF a < b THEN a ELSE b
MaxOf(a, b) == IF a < b THEN b ELSE a

Start(p)   == p * PageSize
Pages      == 0 .. (Size - 1) \div PageSize
PageLen(p) == MinOf(PageSize, Size - Start(p))

NoWalk == [reads |-> <<>>, ends |-> "Value"]

Init ==
  /\ cache = [p \in Pages |-> 0]
  /\ pc = [d \in Drivers |-> "idle"]
  /\ walk = [d \in Drivers |-> NoWalk]
  /\ pages = [d \in Drivers |-> [p \in Pages |-> 0]]
  /\ wanted = [d \in Drivers |-> {}]
  /\ todo = [d \in Drivers |-> {}]
  /\ asked = [d \in Drivers |-> {}]
  /\ previous = [d \in Drivers |-> {}]
  /\ round = [d \in Drivers |-> 0]
  /\ at = [d \in Drivers |-> 1]
  /\ missing = [d \in Drivers |-> {}]
  /\ lost = [d \in Drivers |-> {}]
  /\ garbled = [d \in Drivers |-> FALSE]
  /\ outcome = [d \in Drivers |-> "none"]
  /\ result = [d \in Drivers |-> "none"]
  /\ degraded = FALSE

--------------------------------------------------------------------------------
(* ReplaySource: one read over the pages a driver holds.                   *)

Span(q) == q.offset \div PageSize .. (q.offset + q.len - 1) \div PageSize

(* What the read needs of page p, and from where in the page it starts.    *)
From(q, p)   == MaxOf(q.offset, Start(p)) - Start(p)
Needed(q, p) == MinOf(q.offset + q.len, Start(p + 1)) - Start(p)

(* How many bytes the copy loop fills.  It takes what is there of each     *)
(* page, as long as the buffer is not full, and stops at a page that ends  *)
(* before the read starts; only the first page can.                        *)
Filled(held, q) ==
  IF \E p \in Span(q) : held[p] <= From(q, p)
  THEN 0
  ELSE MinOf(q.len, MapThenSumSet(LAMBDA p : held[p] - From(q, p), Span(q)))

(* read_exact_at.  Where every page has what the read needs of it the loop *)
(* fills the buffer with the file's bytes.  Otherwise the code only checks *)
(* how many bytes it filled: after a short page the bytes of the next one  *)
(* move up ("Garbled").                                                    *)
ReadOutcome(held, q) ==
  IF q.len = 0 THEN "Exact"
  ELSE IF q.offset + q.len > Size THEN "Malformed"
  ELSE IF \E p \in Span(q) : held[p] = 0 THEN "Incomplete"
  ELSE IF \A p \in Span(q) : held[p] >= Needed(q, p) THEN "Exact"
  ELSE IF Filled(held, q) # q.len THEN "Malformed"
  ELSE "Garbled"

(* Mutant: the loop over the pages stops before the last one.              *)
LacksButLast(held, q) ==
  {p \in Span(q) : held[p] = 0 /\ p + 1 \in Span(q)}

(* The pages read_exact_at records.                                        *)
Lacks(held, q) ==
  IF q.len = 0 \/ q.offset + q.len > Size THEN {}
  ELSE {p \in Span(q) : held[p] = 0}

(* read_ranges stops at the first range with an error other than           *)
(* Incomplete; it passes over the ones that are incomplete.                *)
BadRanges(held, rs)  == {i \in DOMAIN rs : ReadOutcome(held, rs[i]) = "Malformed"}
SeenRanges(held, rs) == {i \in DOMAIN rs : \A j \in BadRanges(held, rs) : i <= j}

BatchLacks(held, rs) == UNION {Lacks(held, rs[i]) : i \in SeenRanges(held, rs)}

BatchOutcome(held, rs) ==
  LET some(o) == \E i \in DOMAIN rs : ReadOutcome(held, rs[i]) = o
  IN  IF some("Malformed") THEN "Malformed"
      ELSE IF some("Incomplete") THEN "Incomplete"
      ELSE IF some("Garbled") THEN "Garbled"
      ELSE "Exact"

--------------------------------------------------------------------------------
(* replay().                                                               *)

CeilDiv(a, b) == (a + b - 1) \div b

(* The window at the front of the file that the first round fetches.       *)
Window(prefetch) ==
  {p \in Pages : p < MaxOf(CeilDiv(prefetch, PageSize), 1)}

(* A caller starts a walk.                                                 *)
Call(d, w, prefetch) ==
  /\ pc[d] = "idle"
  /\ pc' = [pc EXCEPT ![d] = "lookup"]
  /\ walk' = [walk EXCEPT ![d] = w]
  /\ wanted' = [wanted EXCEPT ![d] = Window(prefetch)]
  /\ todo' = [todo EXCEPT ![d] = Window(prefetch)]
  /\ round' = [round EXCEPT ![d] = 1]
  /\ UNCHANGED <<cache, pages, asked, previous, at, missing, lost, garbled,
                 outcome, result, degraded>>

(* Mutant: a page the shared cache holds is not copied to the driver.      *)
LookupForgets(d) ==
  \E p \in todo[d] :
    /\ pc[d] = "lookup"
    /\ \A q \in todo[d] : p <= q
    /\ todo' = [todo EXCEPT ![d] = @ \ {p}]
    /\ asked' = [asked EXCEPT ![d] =
                   IF pages[d][p] = 0 /\ cache[p] = 0 THEN @ \cup {p} ELSE @]
    /\ UNCHANGED <<cache, pc, walk, pages, wanted, previous, round, at, missing,
                   lost, garbled, outcome, result, degraded>>

(* fetch(): one page of the loop over the wanted pages, in ascending       *)
(* order.  A page the driver holds is skipped, one the shared cache holds  *)
(* is copied as it is, the rest is asked for.  Other drivers, readers and  *)
(* evictions come between two lookups.                                     *)
Lookup(d) ==
  \E p \in todo[d] :
    /\ pc[d] = "lookup"
    /\ \A q \in todo[d] : p <= q
    /\ todo' = [todo EXCEPT ![d] = @ \ {p}]
    /\ pages' = [pages EXCEPT ![d][p] = IF @ = 0 THEN cache[p] ELSE @]
    /\ asked' = [asked EXCEPT ![d] =
                   IF pages[d][p] = 0 /\ cache[p] = 0 THEN @ \cup {p} ELSE @]
    /\ UNCHANGED <<cache, pc, walk, wanted, previous, round, at, missing, lost,
                   garbled, outcome, result, degraded>>

(* The request goes out, or there is nothing to ask for and build() runs.  *)
EndLookup(d) ==
  /\ pc[d] = "lookup"
  /\ todo[d] = {}
  /\ pc' = [pc EXCEPT ![d] = IF asked[d] = {} THEN "walk" ELSE "await"]
  /\ UNCHANGED <<cache, walk, pages, wanted, todo, asked, previous, round, at,
                 missing, lost, garbled, outcome, result, degraded>>

(* The answers arrive: "got" bytes of each page asked for.  The pages are  *)
(* cut out of the answers and stored one by one in the shared cache and in *)
(* the driver's map; a page of which nothing arrived is stored in neither. *)
Store(d, got) ==
  LET stored(old) == [p \in Pages |-> IF p \in asked[d] /\ got[p] > 0
                                      THEN got[p] ELSE old[p]]
  IN  /\ pc[d] = "await"
      /\ cache' = stored(cache)
      /\ pages' = [pages EXCEPT ![d] = stored(@)]
      /\ asked' = [asked EXCEPT ![d] = {}]
      /\ pc' = [pc EXCEPT ![d] = "walk"]
      /\ UNCHANGED <<walk, wanted, todo, previous, round, at, missing, lost,
                     garbled, outcome, result>>

(* The source answers every range in full.                                 *)
SourceAnswers(d) ==
  /\ Store(d, [p \in asked[d] |-> PageLen(p)])
  /\ UNCHANGED degraded

(* The source answers some range short: consecutive pages are one range,   *)
(* and what arrives of a range is a prefix of it.  Nothing checks the      *)
(* length of an answer (async_source.rs:200-226, replay.rs:290-312).       *)
SourceAnswersShort(d) ==
  \E got \in [asked[d] -> 0 .. PageSize] :
    /\ \A p \in asked[d] :
         /\ got[p] <= PageLen(p)
         /\ p - 1 \in asked[d] /\ got[p] > 0 => got[p - 1] = PageLen(p - 1)
    /\ \E p \in asked[d] : got[p] < PageLen(p)
    /\ Store(d, got)
    /\ degraded' = TRUE

(* The source fails, or returns another count of buffers than asked for.   *)
SourceFails(d) ==
  /\ pc[d] = "await"
  /\ pc' = [pc EXCEPT ![d] = "done"]
  /\ result' = [result EXCEPT ![d] = "Source"]
  /\ UNCHANGED <<cache, walk, pages, wanted, todo, asked, previous, round, at,
                 missing, lost, garbled, outcome, degraded>>

(* build(): the parser makes its next read over the pages held.            *)
WalkRead(d) ==
  LET n  == walk[d].reads[at[d]]
      o  == BatchOutcome(pages[d], n.ranges)
      on == /\ at' = [at EXCEPT ![d] = @ + 1]
            /\ UNCHANGED <<pc, outcome>>
      stop(e) == /\ pc' = [pc EXCEPT ![d] = "judge"]
                 /\ outcome' = [outcome EXCEPT ![d] = e]
                 /\ UNCHANGED at
  IN  /\ pc[d] = "walk"
      /\ at[d] <= Len(walk[d].reads)
      /\ missing' = [missing EXCEPT ![d] = @ \cup BatchLacks(pages[d], n.ranges)]
      /\ \/ /\ o = "Exact"
            /\ on
            /\ UNCHANGED <<lost, garbled>>
         \/ /\ o = "Garbled"
            /\ on \/ stop("Malformed")
            /\ garbled' = [garbled EXCEPT ![d] = TRUE]
            /\ UNCHANGED lost
         \/ /\ o \in n.keep
            /\ on
            /\ lost' = [lost EXCEPT ![d] = @ \cup {at[d]}]
            /\ UNCHANGED garbled
         \/ /\ o \in {"Incomplete", "Malformed"} \ n.keep
            /\ stop(o)
            /\ UNCHANGED <<lost, garbled>>
      /\ UNCHANGED <<cache, walk, pages, wanted, todo, asked, previous, round,
                     result, degraded>>

(* The parser has made its last read and returns.                          *)
WalkEnds(d) ==
  /\ pc[d] = "walk"
  /\ at[d] > Len(walk[d].reads)
  /\ pc' = [pc EXCEPT ![d] = "judge"]
  /\ outcome' = [outcome EXCEPT ![d] = walk[d].ends]
  /\ UNCHANGED <<cache, walk, pages, wanted, todo, asked, previous, round, at,
                 missing, lost, garbled, result, degraded>>

(* Did the round bring nothing the round before had not asked for?         *)
NothingNew(d) == missing[d] = {} \/ missing[d] = previous[d]

(* Mutant: any value is accepted, whatever the walk found missing.         *)
FinishAnyValue(d) ==
  /\ pc[d] = "judge"
  /\ \/ /\ outcome[d] = "Value"
        /\ result' = [result EXCEPT ![d] = "Value"]
     \/ /\ outcome[d] = "Incomplete" /\ NothingNew(d)
        /\ result' = [result EXCEPT ![d] = "Stuck"]
     \/ /\ outcome[d] = "Malformed"
        /\ result' = [result EXCEPT ![d] = "Malformed"]
  /\ pc' = [pc EXCEPT ![d] = "done"]
  /\ UNCHANGED <<cache, walk, pages, wanted, todo, asked, previous, round, at,
                 missing, lost, garbled, outcome, degraded>>

(* The match on build()'s outcome, its returns.                            *)
Finish(d) ==
  /\ pc[d] = "judge"
  /\ \/ /\ outcome[d] = "Value" /\ NothingNew(d)
        /\ result' = [result EXCEPT ![d] = "Value"]
     \/ /\ outcome[d] = "Incomplete" /\ NothingNew(d)
        /\ result' = [result EXCEPT ![d] = "Stuck"]
     \/ /\ outcome[d] = "Malformed"
        /\ result' = [result EXCEPT ![d] = "Malformed"]
  /\ pc' = [pc EXCEPT ![d] = "done"]
  /\ UNCHANGED <<cache, walk, pages, wanted, todo, asked, previous, round, at,
                 missing, lost, garbled, outcome, degraded>>

(* Mutant: what was missing is not remembered and no round is counted.     *)
NextRoundForgets(d) ==
  /\ pc[d] = "judge"
  /\ outcome[d] \in {"Value", "Incomplete"}
  /\ ~NothingNew(d)
  /\ wanted' = [wanted EXCEPT ![d] = missing[d]]
  /\ todo' = [todo EXCEPT ![d] = missing[d]]
  /\ at' = [at EXCEPT ![d] = 1]
  /\ missing' = [missing EXCEPT ![d] = {}]
  /\ lost' = [lost EXCEPT ![d] = {}]
  /\ garbled' = [garbled EXCEPT ![d] = FALSE]
  /\ outcome' = [outcome EXCEPT ![d] = "none"]
  /\ pc' = [pc EXCEPT ![d] = "lookup"]
  /\ UNCHANGED <<cache, walk, pages, asked, previous, round, result, degraded>>

(* ... and its way into the next round: fetch what was missing and run the *)
(* parser again from its first read, or give up after MaxRounds.           *)
NextRound(d) ==
  /\ pc[d] = "judge"
  /\ outcome[d] \in {"Value", "Incomplete"}
  /\ ~NothingNew(d)
  /\ previous' = [previous EXCEPT ![d] = missing[d]]
  /\ wanted' = [wanted EXCEPT ![d] = missing[d]]
  /\ \/ /\ round[d] < MaxRounds
        /\ round' = [round EXCEPT ![d] = @ + 1]
        /\ todo' = [todo EXCEPT ![d] = missing[d]]
        /\ at' = [at EXCEPT ![d] = 1]
        /\ missing' = [missing EXCEPT ![d] = {}]
        /\ lost' = [lost EXCEPT ![d] = {}]
        /\ garbled' = [garbled EXCEPT ![d] = FALSE]
        /\ outcome' = [outcome EXCEPT ![d] = "none"]
        /\ pc' = [pc EXCEPT ![d] = "lookup"]
        /\ UNCHANGED result
     \/ /\ round[d] = MaxRounds
        /\ result' = [result EXCEPT ![d] = "Limit"]
        /\ pc' = [pc EXCEPT ![d] = "done"]
        /\ UNCHANGED <<round, todo, at, missing, lost, garbled, outcome>>
  /\ UNCHANGED <<cache, walk, pages, asked, degraded>>

(* The call is over and its locals are gone.                               *)
Leave(d) ==
  /\ pc' = [pc EXCEPT ![d] = "idle"]
  /\ walk' = [walk EXCEPT ![d] = NoWalk]
  /\ pages' = [pages EXCEPT ![d] = [p \in Pages |-> 0]]
  /\ wanted' = [wanted EXCEPT ![d] = {}]
  /\ todo' = [todo EXCEPT ![d] = {}]
  /\ asked' = [asked EXCEPT ![d] = {}]
  /\ previous' = [previous EXCEPT ![d] = {}]
  /\ round' = [round EXCEPT ![d] = 0]
  /\ at' = [at EXCEPT ![d] = 1]
  /\ missing' = [missing EXCEPT ![d] = {}]
  /\ lost' = [lost EXCEPT ![d] = {}]
  /\ garbled' = [garbled EXCEPT ![d] = FALSE]
  /\ outcome' = [outcome EXCEPT ![d] = "none"]
  /\ result' = [result EXCEPT ![d] = "none"]
  /\ UNCHANGED <<cache, degraded>>

Return(d) == pc[d] = "done" /\ Leave(d)

(* The caller drops the future while it awaits the source.                 *)
Cancel(d) == pc[d] = "await" /\ Leave(d)

--------------------------------------------------------------------------------
(* What the other users of the shared cache do to it.  A driver meets the  *)
(* others only there, so that one driver stands for any of many.           *)

(* moka drops a page, or has not applied an insert yet.                    *)
Evict(p) ==
  /\ cache[p] # 0
  /\ cache' = [cache EXCEPT ![p] = 0]
  /\ UNCHANGED <<local, degraded>>

(* A cached read of values stores a page it fetched: IoCache::store_run    *)
(* after a read_at whose length the source checks.                         *)
ReaderStores(p) ==
  /\ cache' = [cache EXCEPT ![p] = PageLen(p)]
  /\ UNCHANGED <<local, degraded>>

(* Another walk stores what its source answered short: fetch().            *)
WalkStoresShort(p, n) ==
  /\ n < PageLen(p)
  /\ cache' = [cache EXCEPT ![p] = n]
  /\ degraded' = TRUE
  /\ UNCHANGED local

Step(d) ==
  \/ Lookup(d)
  \/ EndLookup(d)
  \/ SourceAnswers(d)
  \/ SourceAnswersShort(d)
  \/ SourceFails(d)
  \/ WalkRead(d)
  \/ WalkEnds(d)
  \/ Finish(d)
  \/ NextRound(d)

Next ==
  \/ \E d \in Drivers :
       \/ \E w \in Walks[d], prefetch \in Prefetches[d] : Call(d, w, prefetch)
       \/ Step(d)
       \/ Return(d)
       \/ Cancel(d)
  \/ \E p \in Pages :
       Evict(p) \/ ReaderStores(p) \/ \E n \in 1 .. PageSize : WalkStoresShort(p, n)

(* A task that is ready runs, and a request is answered or fails.          *)
Fairness == \A d \in Drivers : WF_vars(Step(d))

Spec     == Init /\ [][Next]_vars
FairSpec == Spec /\ Fairness

--------------------------------------------------------------------------------

(* A read of the walk that leaves the file fails whoever makes it.         *)
LeavesFile(n) ==
  \E i \in DOMAIN n.ranges :
    n.ranges[i].len # 0 /\ n.ranges[i].offset + n.ranges[i].len > Size

(* What the synchronous walk returns, over a source that has every byte.   *)
SyncResult(w) ==
  IF \E i \in DOMAIN w.reads : LeavesFile(w.reads[i]) /\ "Malformed" \notin w.reads[i].keep
  THEN "Malformed"
  ELSE w.ends

(* ... and the reads it does without.                                      *)
SyncLost(w) == {i \in DOMAIN w.reads : LeavesFile(w.reads[i])}

(* With a source that answers in full, a walk that returns a value returns *)
(* the synchronous walk's value: no read whose bytes the file has was      *)
(* given up by a parser that swallowed a missing page (netcdf.rs:1040) and *)
(* whose short answer the driver then accepted (replay.rs:228).            *)
ValueIsSynchronous ==
  \A d \in Drivers :
    pc[d] = "done" /\ result[d] = "Value" /\ ~degraded =>
      /\ SyncResult(walk[d]) = "Value"
      /\ lost[d] = SyncLost(walk[d])
      /\ ~garbled[d]

(* With a source that answers in full, a walk fails only where the         *)
(* synchronous walk fails, or at the source, or at the limit: it never     *)
(* asks "for no new bytes" (replay.rs:230-236), whatever is evicted from   *)
(* the shared cache and whatever the other walks put there.                *)
FailureIsSynchronous ==
  \A d \in Drivers :
    pc[d] = "done" /\ ~degraded =>
      /\ result[d] # "Stuck"
      /\ result[d] = "Malformed" => SyncResult(walk[d]) = "Malformed"

(* With a source that answers in full, every round but the last earns a    *)
(* page the driver did not hold, so a walk needs no more rounds than the   *)
(* file has pages, and MAX_ROUNDS (replay.rs:46) is reached only by a walk *)
(* that touches that many pages.                                           *)
RoundsEarnPages ==
  \A d \in Drivers :
    ~degraded /\ pc[d] \in {"walk", "judge"} =>
      round[d] <= Cardinality({p \in Pages : pages[d][p] > 0})

(* Every walk ends, unless its caller drops it.                            *)
WalksEnd == \A d \in Drivers : pc[d] = "lookup" ~> pc[d] \in {"done", "idle"}
--------------------------------------------------------------------------------
(* The inductive invariant behind the safety properties.                   *)

(* Type correctness of the cache and of every driver's variables.          *)
TypeOK ==
  /\ cache \in [Pages -> Nat]
  /\ pc \in [Drivers -> {"idle", "lookup", "await", "walk", "judge", "done"}]
  /\ walk \in [Drivers -> Walk]
  /\ pages \in [Drivers -> [Pages -> Nat]]
  /\ wanted \in [Drivers -> SUBSET Pages]
  /\ todo \in [Drivers -> SUBSET Pages]
  /\ asked \in [Drivers -> SUBSET Pages]
  /\ previous \in [Drivers -> SUBSET Pages]
  /\ round \in [Drivers -> 0 .. MaxRounds]
  /\ at \in [Drivers -> Nat \ {0}]
  /\ missing \in [Drivers -> SUBSET Pages]
  /\ lost \in [Drivers -> SUBSET Nat]
  /\ garbled \in [Drivers -> BOOLEAN]
  /\ outcome \in [Drivers -> {"none", "Value", "Incomplete", "Malformed"}]
  /\ result \in [Drivers -> {"none", "Value", "Stuck", "Malformed", "Source", "Limit"}]
  /\ degraded \in BOOLEAN

Whole(held) == \A p \in Pages : held[p] = 0 \/ held[p] = PageLen(p)

(* Until the source answers short every page held is whole.                *)
PagesWhole == ~degraded => Whole(cache) /\ \A d \in Drivers : Whole(pages[d])

Held(d) == {p \in Pages : pages[d][p] > 0}

(* A round starts from an untouched parser.                                *)
StartInv(d) ==
  /\ pc[d] \in {"idle", "lookup", "await"} =>
       at[d] = 1 /\ missing[d] = {} /\ lost[d] = {} /\ ~garbled[d]
  /\ pc[d] = "idle" => previous[d] = {}

(* Every page the round wants is held, or still to be looked up or         *)
(* fetched, the ones the round before lacked among them; and each round    *)
(* wanted a page more.                                                     *)
WantedInv(d) ==
  pc[d] \in {"lookup", "await", "walk", "judge"} /\ ~degraded =>
    /\ previous[d] \subseteq wanted[d]
    /\ \A p \in wanted[d] :
         \/ pages[d][p] > 0
         \/ pc[d] = "lookup" /\ p \in todo[d]
         \/ pc[d] \in {"lookup", "await"} /\ p \in asked[d]
    /\ round[d] <= Cardinality(Held(d) \cup wanted[d])

(* What the parser recorded is what the driver lacks.                      *)
MissingInv(d) == pc[d] \in {"walk", "judge"} => \A p \in missing[d] : pages[d][p] = 0

(* The parser went past every read it has made with the synchronous        *)
(* walk's outcome, unless it recorded a missing page.                      *)
ParseInv(d) ==
  pc[d] \in {"walk", "judge"} /\ ~degraded =>
    /\ ~garbled[d]
    /\ \A i \in DOMAIN walk[d].reads :
         i < at[d] /\ LeavesFile(walk[d].reads[i]) => "Malformed" \in walk[d].reads[i].keep
    /\ missing[d] = {} =>
         lost[d] = {i \in DOMAIN walk[d].reads : i < at[d] /\ LeavesFile(walk[d].reads[i])}

(* What build() returned.                                                  *)
JudgeInv(d) ==
  pc[d] = "judge" /\ ~degraded =>
    /\ outcome[d] = "Value" => at[d] > Len(walk[d].reads) /\ walk[d].ends = "Value"
    /\ outcome[d] = "Incomplete" => missing[d] # {}
    /\ outcome[d] = "Malformed" => SyncResult(walk[d]) = "Malformed"

(* What replay() returned.                                                 *)
ResultInv(d) ==
  pc[d] = "done" /\ ~degraded =>
    /\ result[d] = "Value" => /\ SyncResult(walk[d]) = "Value"
                              /\ lost[d] = SyncLost(walk[d])
                              /\ ~garbled[d]
    /\ result[d] # "Stuck"
    /\ result[d] = "Malformed" => SyncResult(walk[d]) = "Malformed"

DriverInv(d) ==
  StartInv(d) /\ WantedInv(d) /\ MissingInv(d) /\ ParseInv(d) /\ JudgeInv(d) /\ ResultInv(d)

IInv == TypeOK /\ PagesWhole /\ \A d \in Drivers : DriverInv(d)
================================================================================
