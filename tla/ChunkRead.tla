-------------------------------- MODULE ChunkRead --------------------------------
(***************************************************************************)
(* Reading a selection of a chunked dataset: read_chunked and              *)
(* prefetch_chunks, the synchronous engine, and the chunked arm of         *)
(* read_hyperslab_async_with, the asynchronous one, in                     *)
(* crates/oxcdf-hdf5/src/read.rs, over the ChunkCache of cache.rs.         *)
(*                                                                         *)
(* Threads and tasks share one cache of decoded chunks, which may drop a   *)
(* chunk at any time.  Both engines first ask the cache which chunks it    *)
(* holds, fetch the others and a few chunks of read-ahead as one batch,    *)
(* decode and insert them, and then copy the chunks the read needs.  The   *)
(* synchronous engine decodes a chunk again when the cache has dropped it; *)
(* the asynchronous one has only what it fetched itself.                   *)
(*                                                                         *)
(* A chunk fills one cell of the grid; a selection is the set of cells it  *)
(* touches, and the value of a cell is the number of the record it was     *)
(* copied from.                                                            *)
(***************************************************************************)
EXTENDS Integers, Sequences, FiniteSets

CONSTANTS
  Chunks,     (* the chunk index: a sequence of [cell, state] records      *)
  ReadAhead,  (* ChunkCache::readahead                                     *)
  Readers,    (* the threads and tasks that read                           *)
  Selections, (* Selections[r]: the sets of cells r selects                *)
  Modes       (* Modes[r]: how it reads, [async, cached] records           *)

(* What a record of the index leads to: a chunk that decodes, one that     *)
(* decodes to too few bytes, one that does not decode, one that lies       *)
(* outside a truncated file, and a record of size zero.                    *)
ChunkStates == {"good", "short", "corrupt", "outside", "unwritten"}

ASSUME ChunksAssumption == Chunks \in Seq([cell : Nat, state : ChunkStates])
ASSUME ReadAheadAssumption == ReadAhead \in Nat
ASSUME SelectionsAssumption ==
  \A r \in Readers : \A s \in Selections[r] : s \subseteq Nat /\ IsFiniteSet(s)
ASSUME ModesAssumption == Modes \in [Readers -> SUBSET [async : BOOLEAN, cached : BOOLEAN]]

VARIABLES
  cache,    (* the records whose chunk the shared cache holds, decoded     *)
  pc,       (* pc[r]: where reader r is                                    *)
  mode,     (* mode[r]: which engine, and whether there is a cache         *)
  sel,      (* sel[r]: the cells r selects                                 *)
  at,       (* at[r]: the record r's current loop is at                    *)
  wanted,   (* wanted[r]: the records r fetches                            *)
  fetched,  (* fetched[r]: the chunks r fetched and decoded itself         *)
  out,      (* out[r]: the output, one value for each cell selected        *)
  result,   (* result[r]: how the read ended                               *)
  failed    (* history: the source failed a request of r's                 *)

local == <<pc, mode, sel, at, wanted, fetched, out, result, failed>>
vars  == <<cache, local>>

N       == Len(Chunks)
Records == 1 .. N
Fill    == -1
Zero    == 0

State(i) == Chunks[i].state

(* intersects(): the records a selection needs, in index order.            *)
Needed(s) == {i \in Records : Chunks[i].cell \in s}

(* The read-ahead window after the last of them.                           *)
Ahead(s) ==
  {i \in Records : \E last \in Needed(s) :
                     /\ \A j \in Needed(s) : j <= last
                     /\ last < i
                     /\ i <= last + ReadAhead}

(* The records to look up in the cache: no cache, no read-ahead.           *)
Candidates(m, s) == IF m.cached THEN Needed(s) \cup Ahead(s) ELSE Needed(s)

(* Mutant: the volume of the chunks stands in for the cells they cover.    *)
CoveredByVolume(s) == Cardinality({i \in Needed(s) : State(i) # "unwritten"}) >= Cardinality(s)

(* chunks_cover(): some written record for every cell, so that the copies  *)
(* overwrite the whole output and it need not start from the fill value.   *)
Covered(s) ==
  \A c \in s : \E i \in Records : Chunks[i].cell = c /\ State(i) # "unwritten"

(* Does decode_chunk return bytes, if too few of them?                     *)
Decodes(i) == State(i) \in {"good", "short"}

NoMode == [async |-> FALSE, cached |-> FALSE]

Init ==
  /\ cache = {}
  /\ pc = [r \in Readers |-> "idle"]
  /\ mode = [r \in Readers |-> NoMode]
  /\ sel = [r \in Readers |-> {}]
  /\ at = [r \in Readers |-> 1]
  /\ wanted = [r \in Readers |-> {}]
  /\ fetched = [r \in Readers |-> {}]
  /\ out = [r \in Readers |-> <<>>]
  /\ result = [r \in Readers |-> "none"]
  /\ failed = [r \in Readers |-> FALSE]

Fail(r, error) ==
  /\ pc' = [pc EXCEPT ![r] = "done"]
  /\ result' = [result EXCEPT ![r] = error]

(* A caller reads a selection.  The output starts from the fill value      *)
(* unless the chunks cover it.  The synchronous engine does not prefetch   *)
(* when it has no cache.                                                   *)
Call(r, m, s) ==
  /\ pc[r] = "idle"
  /\ mode' = [mode EXCEPT ![r] = m]
  /\ sel' = [sel EXCEPT ![r] = s]
  /\ out' = [out EXCEPT ![r] = [c \in s |-> IF Covered(s) THEN Zero ELSE Fill]]
  /\ pc' = [pc EXCEPT ![r] = IF m.async \/ m.cached THEN "check" ELSE "copy"]
  /\ UNCHANGED <<cache, at, wanted, fetched, result, failed>>

(* One step of the loop that asks the cache which chunks to fetch.         *)
Check(r) ==
  LET i == at[r] IN
  /\ pc[r] = "check"
  /\ i <= N
  /\ at' = [at EXCEPT ![r] = i + 1]
  /\ wanted' = [wanted EXCEPT ![r] =
                  IF /\ i \in Candidates(mode[r], sel[r])
                     /\ State(i) # "unwritten"
                     /\ ~(mode[r].cached /\ i \in cache)
                  THEN @ \cup {i} ELSE @]
  /\ UNCHANGED <<cache, pc, mode, sel, fetched, out, result, failed>>

(* Everything is asked: fetch, or go on to the copies.                     *)
EndCheck(r) ==
  /\ pc[r] = "check"
  /\ at[r] > N
  /\ pc' = [pc EXCEPT ![r] = IF wanted[r] = {} THEN "copy" ELSE "await"]
  /\ at' = [at EXCEPT ![r] = 1]
  /\ UNCHANGED <<cache, mode, sel, wanted, fetched, out, result, failed>>

(* The batch arrives: Ctx::read_ranges, fetch_bytes.                       *)
BatchArrives(r) ==
  /\ pc[r] = "await"
  /\ \A i \in wanted[r] : State(i) # "outside"
  /\ pc' = [pc EXCEPT ![r] = "decode"]
  /\ UNCHANGED <<cache, mode, sel, at, wanted, fetched, out, result, failed>>

(* The batch fails as a whole: the source fails, or one of its ranges lies *)
(* outside the file.  The error leaves the read at once.                   *)
BatchFails(r) ==
  /\ pc[r] = "await"
  /\ Fail(r, "Source")
  /\ failed' = [failed EXCEPT ![r] = \A i \in wanted[r] : State(i) # "outside"]
  /\ UNCHANGED <<cache, mode, sel, at, wanted, fetched, out>>

(* Mutant: a chunk of the batch that does not decode is always fatal.      *)
DecodeStrict(r) ==
  LET i == at[r] IN
  /\ pc[r] = "decode"
  /\ i <= N
  /\ \/ /\ i \in wanted[r] => Decodes(i)
        /\ cache' = IF i \in wanted[r] /\ mode[r].cached THEN cache \cup {i} ELSE cache
        /\ fetched' = [fetched EXCEPT ![r] =
                         IF i \in wanted[r] /\ mode[r].async THEN @ \cup {i} ELSE @]
        /\ at' = [at EXCEPT ![r] = i + 1]
        /\ UNCHANGED <<pc, result>>
     \/ /\ i \in wanted[r] /\ ~Decodes(i)
        /\ Fail(r, "Decode")
        /\ UNCHANGED <<cache, fetched, at>>
  /\ UNCHANGED <<mode, sel, wanted, out, failed>>

(* One step of the loop over the batch: decode a chunk and insert it.  The *)
(* synchronous engine passes over a chunk that does not decode, for its    *)
(* copy loop will report it; the asynchronous one fails there if the read  *)
(* needs the chunk.                                                        *)
Decode(r) ==
  LET i == at[r] IN
  /\ pc[r] = "decode"
  /\ i <= N
  /\ \/ /\ i \in wanted[r] /\ Decodes(i)
        /\ cache' = IF mode[r].cached THEN cache \cup {i} ELSE cache
        /\ fetched' = [fetched EXCEPT ![r] = IF mode[r].async THEN @ \cup {i} ELSE @]
        /\ at' = [at EXCEPT ![r] = i + 1]
        /\ UNCHANGED <<pc, result>>
     \/ /\ i \in wanted[r] /\ ~Decodes(i)
        /\ mode[r].async /\ i \in Needed(sel[r])
        /\ Fail(r, "Decode")
        /\ UNCHANGED <<cache, fetched, at>>
     \/ /\ i \in wanted[r] => ~Decodes(i) /\ (mode[r].async => i \notin Needed(sel[r]))
        /\ at' = [at EXCEPT ![r] = i + 1]
        /\ UNCHANGED <<cache, fetched, pc, result>>
  /\ UNCHANGED <<mode, sel, wanted, out, failed>>

EndDecode(r) ==
  /\ pc[r] = "decode"
  /\ at[r] > N
  /\ pc' = [pc EXCEPT ![r] = "copy"]
  /\ at' = [at EXCEPT ![r] = 1]
  /\ UNCHANGED <<cache, mode, sel, wanted, fetched, out, result, failed>>

(* Use a decoded chunk: too few bytes are an error, the right number is    *)
(* copied to the cell.                                                     *)
Use(r, i) ==
  \/ /\ State(i) = "short"
     /\ Fail(r, "Short")
     /\ UNCHANGED <<out, at>>
  \/ /\ State(i) # "short"
     /\ out' = [out EXCEPT ![r][Chunks[i].cell] = i]
     /\ at' = [at EXCEPT ![r] = i + 1]
     /\ UNCHANGED <<pc, result>>

(* Mutant: the loop does not move on from a record it skips.               *)
SkipStays(r) ==
  /\ pc[r] = "copy"
  /\ at[r] \in Records \ Needed(sel[r])
  /\ UNCHANGED vars

(* A record the selection does not touch.                                  *)
Skip(r) ==
  /\ pc[r] = "copy"
  /\ at[r] \in Records \ Needed(sel[r])
  /\ at' = [at EXCEPT ![r] = @ + 1]
  /\ UNCHANGED <<cache, pc, mode, sel, wanted, fetched, out, result, failed>>

(* Is the chunk in the cache, or did the asynchronous engine fetch it?     *)
Held(r, i) == (mode[r].cached /\ i \in cache) \/ (mode[r].async /\ i \in fetched[r])

(* ... then it is used as it is.                                           *)
CopyHeld(r) ==
  LET i == at[r] IN
  /\ pc[r] = "copy"
  /\ i \in Needed(sel[r])
  /\ Held(r, i)
  /\ Use(r, i)
  /\ UNCHANGED <<cache, mode, sel, wanted, fetched, failed>>

(* Synchronous, not in the cache: get_or_decode, or the plain read and     *)
(* decode when there is no cache.  A record of size zero reads no bytes,   *)
(* which decode to too few.                                                *)
CopyDecoded(r) ==
  LET i == at[r] IN
  /\ pc[r] = "copy"
  /\ i \in Needed(sel[r])
  /\ ~mode[r].async
  /\ ~Held(r, i)
  /\ \/ /\ State(i) \in {"good", "short"}
        /\ cache' = IF mode[r].cached THEN cache \cup {i} ELSE cache
        /\ Use(r, i)
        /\ UNCHANGED failed
     \/ /\ State(i) = "corrupt"
        /\ Fail(r, "Decode")
        /\ UNCHANGED <<cache, out, at, failed>>
     \/ /\ State(i) = "unwritten"
        /\ Fail(r, "Short")
        /\ UNCHANGED <<cache, out, at, failed>>
     \/ /\ State(i) # "unwritten"
        /\ Fail(r, "Source")
        /\ failed' = [failed EXCEPT ![r] = State(i) # "outside"]
        /\ UNCHANGED <<cache, out, at>>
  /\ UNCHANGED <<mode, sel, wanted, fetched>>

(* Asynchronous, neither cached nor fetched: an error.                     *)
CopyMissing(r) ==
  LET i == at[r] IN
  /\ pc[r] = "copy"
  /\ i \in Needed(sel[r])
  /\ mode[r].async
  /\ ~Held(r, i)
  /\ Fail(r, "Missing")
  /\ UNCHANGED <<cache, mode, sel, at, wanted, fetched, out, failed>>

EndCopy(r) ==
  /\ pc[r] = "copy"
  /\ at[r] > N
  /\ pc' = [pc EXCEPT ![r] = "done"]
  /\ result' = [result EXCEPT ![r] = "ok"]
  /\ UNCHANGED <<cache, mode, sel, at, wanted, fetched, out, failed>>

(* The call is over and its locals are gone.                               *)
Leave(r) ==
  /\ pc' = [pc EXCEPT ![r] = "idle"]
  /\ mode' = [mode EXCEPT ![r] = NoMode]
  /\ sel' = [sel EXCEPT ![r] = {}]
  /\ at' = [at EXCEPT ![r] = 1]
  /\ wanted' = [wanted EXCEPT ![r] = {}]
  /\ fetched' = [fetched EXCEPT ![r] = {}]
  /\ out' = [out EXCEPT ![r] = <<>>]
  /\ result' = [result EXCEPT ![r] = "none"]
  /\ failed' = [failed EXCEPT ![r] = FALSE]
  /\ UNCHANGED cache

Return(r) == pc[r] = "done" /\ Leave(r)

(* An asynchronous caller drops the future while it awaits the batch.      *)
Cancel(r) == pc[r] = "await" /\ mode[r].async /\ Leave(r)

(* moka drops a chunk, or has not applied an insert yet.                   *)
Evict(i) ==
  /\ i \in cache
  /\ cache' = cache \ {i}
  /\ UNCHANGED local

(* ChunkCache::clear.                                                      *)
Clear ==
  /\ cache' = {}
  /\ UNCHANGED local

(* Another reader inserts a chunk it decoded.  A reader meets the others   *)
(* only in the cache, so that one reader stands for any of many.           *)
Insert(i) ==
  /\ Decodes(i)
  /\ cache' = cache \cup {i}
  /\ UNCHANGED local

Step(r) ==
  \/ Check(r)
  \/ EndCheck(r)
  \/ BatchArrives(r)
  \/ BatchFails(r)
  \/ Decode(r)
  \/ EndDecode(r)
  \/ Skip(r)
  \/ CopyHeld(r)
  \/ CopyDecoded(r)
  \/ CopyMissing(r)
  \/ EndCopy(r)

Next ==
  \/ \E r \in Readers :
       \/ \E m \in Modes[r], s \in Selections[r] : Call(r, m, s)
       \/ Step(r)
       \/ Return(r)
       \/ Cancel(r)
  \/ \E i \in Records : Evict(i) \/ Insert(i)
  \/ Clear

(* A thread or task that is ready runs, and a request is answered or       *)
(* fails.                                                                  *)
Fairness == \A r \in Readers : WF_vars(Step(r))

Spec     == Init /\ [][Next]_vars
FairSpec == Spec /\ Fairness

--------------------------------------------------------------------------------

(* The value a cell must have: the last record of the index that fills it, *)
(* or the fill value where no chunk was ever written.                      *)
IsValueOf(c, v) ==
  \/ /\ v \in Records
     /\ Chunks[v].cell = c
     /\ \A i \in Records : Chunks[i].cell = c => i <= v
  \/ /\ v = Fill
     /\ \A i \in Records : Chunks[i].cell # c

(* A read that succeeds has the value of every cell it selects, data where *)
(* a chunk was written and the fill value where none was, in both engines, *)
(* whatever was evicted or inserted while it ran (read.rs:672-677, 880-    *)
(* 969, 1136-1205).  Damaged indexes that name a cell twice are among the  *)
(* inputs: a duplicate must not stand in for a missing chunk.              *)
ValuesCorrect ==
  \A r \in Readers :
    pc[r] = "done" /\ result[r] = "ok" =>
      \A c \in sel[r] : IsValueOf(c, out[r][c])

(* What rightly fails a read: its source, or the very chunk it is at or    *)
(* fetches, which it needs and which is damaged in the way it reports.     *)
Damaged(r) ==
  CASE result[r] = "Source" -> failed[r] \/ \E i \in Needed(sel[r]) : State(i) = "outside"
    [] result[r] = "Decode" -> at[r] \in Needed(sel[r]) /\ State(at[r]) = "corrupt"
    [] result[r] = "Short"  -> at[r] \in Needed(sel[r]) /\ State(at[r]) = "short"
    [] OTHER                -> FALSE

(* Three cases in which the code fails a read against what it says of      *)
(* itself.  A chunk the cache reported before the await was evicted before *)
(* the copy: only the asynchronous engine, which never decodes again       *)
(* (read.rs:1131, 1175-1178), while "concurrent reads need no              *)
(* coordination" (async_hdf5.rs:77-78, index.rs:365).                      *)
LostToEviction(r) ==
  /\ result[r] = "Missing"
  /\ mode[r].async /\ mode[r].cached
  /\ at[r] \in Needed(sel[r]) \ wanted[r]
  /\ State(at[r]) # "unwritten"

(* A chunk of the read-ahead, which nobody asked for, cannot be fetched,   *)
(* and takes the whole batch with it (read.rs:442, 1145), while "a         *)
(* read-ahead failure is not" fatal (read.rs:1158-1159; 445-446).          *)
AheadIsFatal(r) ==
  /\ result[r] = "Source"
  /\ mode[r].cached
  /\ \E i \in Ahead(sel[r]) : State(i) = "outside"

(* A record of size zero is a chunk that was "never written"               *)
(* (read.rs:347) and "must read as its fill value" (read.rs:667-669), and  *)
(* fails the read in both engines, which find no bytes there.              *)
UnwrittenIsFatal(r) ==
  /\ result[r] = IF mode[r].async THEN "Missing" ELSE "Short"
  /\ at[r] \in Needed(sel[r])
  /\ State(at[r]) = "unwritten"

(* No read fails without a cause, in either engine: what others evict,     *)
(* clear and insert, a chunk that nobody needs, and a chunk that was       *)
(* decoded twice do not fail it, except in the three cases above, in which *)
(* the code departs from its own documents (read.rs:880-969, 1126-1205).   *)
FailureHasCause ==
  \A r \in Readers :
    pc[r] = "done" /\ result[r] # "ok" =>
      Damaged(r) \/ LostToEviction(r) \/ AheadIsFatal(r) \/ UnwrittenIsFatal(r)

(* Every read that starts ends, unless its caller drops it.                *)
ReadsEnd == \A r \in Readers : pc[r] = "check" ~> pc[r] \in {"done", "idle"}

--------------------------------------------------------------------------------
(* The inductive invariant behind the safety properties.                   *)

Results == {"none", "ok", "Source", "Decode", "Short", "Missing"}

(* Type correctness; every chunk the cache or a reader holds is one that   *)
(* decodes.                                                                *)
TypeOK ==
  /\ cache \subseteq {i \in Records : Decodes(i)}
  /\ pc \in [Readers -> {"idle", "check", "await", "decode", "copy", "done"}]
  /\ mode \in [Readers -> [async : BOOLEAN, cached : BOOLEAN]]
  /\ sel \in [Readers -> SUBSET Nat]
  /\ at \in [Readers -> 1 .. N + 1]
  /\ wanted \in [Readers -> SUBSET Records]
  /\ fetched \in [Readers -> SUBSET {i \in Records : Decodes(i)}]
  /\ DOMAIN out = Readers
  /\ \A r \in Readers : pc[r] # "idle" => out[r] \in [sel[r] -> Int]
  /\ result \in [Readers -> Results]
  /\ failed \in [Readers -> BOOLEAN]

(* A call starts from nothing, and each loop at the first record.          *)
IdleInv(r) ==
  /\ pc[r] \in {"idle", "await"} => at[r] = 1
  /\ pc[r] = "idle" => wanted[r] = {}
  /\ pc[r] = "done" <=> result[r] # "none"

(* Where a read stands in asking the cache: it fetches only records it     *)
(* looked up, and passes over a record it needs only because the cache     *)
(* reported it or the index has no size for it.                            *)
WantedInv(r) ==
  /\ \A i \in wanted[r] : i \in Candidates(mode[r], sel[r]) /\ State(i) # "unwritten"
  /\ pc[r] \in {"check", "await", "decode", "copy"} /\ mode[r].async =>
       \A i \in Needed(sel[r]) :
         \/ pc[r] = "check" /\ at[r] <= i
         \/ i \in wanted[r]
         \/ mode[r].cached
         \/ State(i) = "unwritten"

(* The asynchronous engine has decoded every chunk of the batch that it    *)
(* needs, as far as its loop has come.                                     *)
FetchedInv(r) ==
  /\ pc[r] = "decode" => \A i \in wanted[r] : State(i) # "outside"
  /\ pc[r] \in {"decode", "copy"} /\ mode[r].async =>
       \A i \in wanted[r] \cap Needed(sel[r]) :
         (pc[r] = "decode" /\ at[r] <= i) \/ i \in fetched[r]

(* What the cells of the output start from.                                *)
Initial(s) == IF Covered(s) THEN Zero ELSE Fill

(* The value of cell c once the records before i are copied.               *)
IsValueBefore(s, c, i, v) ==
  \/ /\ v \in Records /\ v < i /\ Chunks[v].cell = c
     /\ \A j \in Records : j < i /\ Chunks[j].cell = c => j <= v
  \/ /\ v = Initial(s)
     /\ \A j \in Records : j < i => Chunks[j].cell # c

(* The output holds the records copied so far, the last one where two fill *)
(* the same cell.                                                          *)
OutInv(r) ==
  /\ pc[r] \in {"check", "await", "decode"} =>
       \A c \in sel[r] : out[r][c] = Initial(sel[r])
  /\ pc[r] = "copy" =>
       \A c \in sel[r] : IsValueBefore(sel[r], c, at[r], out[r][c])
  /\ result[r] = "ok" => \A c \in sel[r] : IsValueOf(c, out[r][c])

(* The causes of the failures.                                             *)
CauseInv(r) ==
  result[r] \notin {"none", "ok"} =>
    Damaged(r) \/ LostToEviction(r) \/ AheadIsFatal(r) \/ UnwrittenIsFatal(r)

ReaderInv(r) ==
  IdleInv(r) /\ WantedInv(r) /\ FetchedInv(r) /\ OutInv(r) /\ CauseInv(r)

IInv == TypeOK /\ \A r \in Readers : ReaderInv(r)
================================================================================
