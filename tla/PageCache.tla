------------------------------- MODULE PageCache -------------------------------
(***************************************************************************)
(* The block cache of the read engine: IoCache in                          *)
(* crates/oxcdf-hdf5/src/cache.rs.                                         *)
(*                                                                         *)
(* Several threads or tasks read byte ranges through one shared cache of   *)
(* fixed-size pages.  A read takes no lock: it copies the pages it finds   *)
(* one lookup at a time, fetches the runs of pages it did not find,        *)
(* publishes every fetched page, and assembles the answer from its own     *)
(* copies.  Meanwhile the cache may evict any page, another caller may     *)
(* clear it, and the asynchronous metadata walks store pages of their own  *)
(* in it, which are short when the object store answered a range short.    *)
(*                                                                         *)
(* A byte string is the sequence of its bytes; a page that is not held is  *)
(* Absent.  No code path stores an empty page, so the empty sequence can   *)
(* stand for None.                                                         *)
(***************************************************************************)
EXTENDS Integers, Sequences

CONSTANTS
  File,      (* the bytes of the file, a sequence                          *)
  PageSize,  (* bytes in a page                                            *)
  Readers,   (* the threads or tasks that read                             *)
  Requests   (* Requests[r]: the [offset, len] ranges reader r asks for    *)

ASSUME FileAssumption == File \in Seq(Int)
ASSUME PageSizeAssumption == PageSize \in Nat \ {0}
ASSUME RequestsAssumption == Requests \in [Readers -> SUBSET [offset : Nat, len : Nat]]

VARIABLES
  cache,     (* cache[p]: the shared pages                                 *)
  pc,        (* pc[r]: where reader r is in IoCache::read                  *)
  req,       (* req[r]: the range r reads                                  *)
  at,        (* at[r]: the page r's current loop is at                     *)
  pages,     (* pages[r]: the pages r holds, its own Vec<Option<Bytes>>    *)
  todo,      (* todo[r]: the pages of the runs r has still to fetch        *)
  run,       (* run[r]: the run being fetched, [start, end]                *)
  buf,       (* buf[r]: the bytes the source answered with                 *)
  out,       (* out[r]: the answer being assembled                         *)
  result,    (* result[r]: how the read ended                              *)
  degraded   (* history: some short page was stored in the cache           *)

local == <<pc, req, at, pages, todo, run, buf, out, result>>
vars  == <<cache, local, degraded>>

Size     == Len(File)
Absent   == <<>>
Start(p) == p * PageSize
Pages    == {p \in 0 .. Size : Start(p) < Size}

MinOf(a, b) == IF a < b THEN a ELSE b
MaxOf(a, b) == IF a < b THEN b ELSE a

(* The bytes of the file from offset (counted from 0), len of them.        *)
Slice(offset, len) == SubSeq(File, offset + 1, offset + len)

(* How long page p is: PageSize, less for the last page of the file.       *)
PageLen(p) == MinOf(PageSize, Size - Start(p))

(* What a source may answer when it is asked for a page: the page's bytes, *)
(* or fewer of them.                                                       *)
Prefixes(p) == {Slice(Start(p), n) : n \in 1 .. PageLen(p)}

First(q) == q.offset \div PageSize
Last(q)  == (q.offset + q.len - 1) \div PageSize

NoRun  == [start |-> 0, end |-> 0]
NoReq  == [offset |-> 0, len |-> 0]
Errors == {"OutOfBounds", "Source", "LostPage", "ShortPage"}

PCs == {"idle", "bounds", "lookup", "fetch", "await", "store", "assemble", "done"}

Init ==
  /\ cache = [p \in Pages |-> Absent]
  /\ pc = [r \in Readers |-> "idle"]
  /\ req = [r \in Readers |-> NoReq]
  /\ at = [r \in Readers |-> 0]
  /\ pages = [r \in Readers |-> [p \in Pages |-> Absent]]
  /\ todo = [r \in Readers |-> {}]
  /\ run = [r \in Readers |-> NoRun]
  /\ buf = [r \in Readers |-> <<>>]
  /\ out = [r \in Readers |-> <<>>]
  /\ result = [r \in Readers |-> "none"]
  /\ degraded = FALSE

--------------------------------------------------------------------------------
(* IoCache::read and read_async, one reader.                               *)

(* A caller asks for a range.                                              *)
Call(r, q) ==
  /\ pc[r] = "idle"
  /\ pc' = [pc EXCEPT ![r] = "bounds"]
  /\ req' = [req EXCEPT ![r] = q]
  /\ UNCHANGED <<cache, at, pages, todo, run, buf, out, result, degraded>>

(* bounds(): an empty read answers at once, a read that leaves the file    *)
(* fails at once, any other starts to look its pages up.                   *)
Bounds(r) ==
  LET q == req[r]
  IN  /\ pc[r] = "bounds"
      /\ \/ /\ q.len = 0
            /\ pc' = [pc EXCEPT ![r] = "done"]
            /\ result' = [result EXCEPT ![r] = "ok"]
            /\ UNCHANGED at
         \/ /\ q.len # 0
            /\ q.offset + q.len > Size
            /\ pc' = [pc EXCEPT ![r] = "done"]
            /\ result' = [result EXCEPT ![r] = "OutOfBounds"]
            /\ UNCHANGED at
         \/ /\ q.len # 0
            /\ q.offset + q.len <= Size
            /\ pc' = [pc EXCEPT ![r] = "lookup"]
            /\ at' = [at EXCEPT ![r] = First(q)]
            /\ UNCHANGED result
      /\ UNCHANGED <<cache, req, pages, todo, run, buf, out, degraded>>

(* One step of cached(): look one page up.  Other readers, evictions and   *)
(* stores may come between two lookups.                                    *)
Lookup(r) ==
  LET p == at[r] IN
  /\ pc[r] = "lookup"
  /\ pages' = [pages EXCEPT ![r][p] = cache[p]]
  /\ todo' = [todo EXCEPT ![r] = IF cache[p] = Absent THEN @ \cup {p} ELSE @]
  /\ at' = [at EXCEPT ![r] = p + 1]
  /\ pc' = [pc EXCEPT ![r] = IF p = Last(req[r]) THEN "fetch" ELSE @]
  /\ UNCHANGED <<cache, req, run, buf, out, result, degraded>>

(* The first of the runs of consecutive missing pages: missing_runs() and  *)
(* the for loop over its pairs, in ascending order.                        *)
IsFirstRun(missing, start, end) ==
  /\ start \in missing
  /\ \A p \in missing : start <= p
  /\ start <= end
  /\ \A p \in start .. end : p \in missing
  /\ (end + 1) \notin missing

(* Mutant: a run asks for its first page only.                             *)
RunExtentOnePage(s, e) == MinOf(Start(s + 1), Size) - Start(s)

(* How many bytes a run asks for: run_extent(), clamped to the file.       *)
RunExtent(s, e) == MinOf(Start(e + 1), Size) - Start(s)

(* Mutant: the run stays on the list.                                      *)
FetchRunRepeats(r) ==
  /\ pc[r] = "fetch"
  /\ \E s \in Pages, e \in Pages :
       /\ IsFirstRun(todo[r], s, e)
       /\ run' = [run EXCEPT ![r] = [start |-> s, end |-> e]]
  /\ pc' = [pc EXCEPT ![r] = "await"]
  /\ UNCHANGED <<cache, req, at, pages, todo, buf, out, result, degraded>>

(* Ask the source for the next run.                                        *)
FetchRun(r) ==
  /\ pc[r] = "fetch"
  /\ \E s \in Pages, e \in Pages :
       /\ IsFirstRun(todo[r], s, e)
       /\ run' = [run EXCEPT ![r] = [start |-> s, end |-> e]]
       /\ todo' = [todo EXCEPT ![r] = @ \ (s .. e)]
  /\ pc' = [pc EXCEPT ![r] = "await"]
  /\ UNCHANGED <<cache, req, at, pages, buf, out, result, degraded>>

(* The source answers with the bytes asked for: read_vec and read_at check *)
(* the length themselves.                                                  *)
SourceAnswers(r) ==
  LET s == run[r].start
  IN  /\ pc[r] = "await"
      /\ buf' = [buf EXCEPT ![r] = Slice(Start(s), RunExtent(s, run[r].end))]
      /\ at' = [at EXCEPT ![r] = s]
      /\ pc' = [pc EXCEPT ![r] = "store"]
      /\ UNCHANGED <<cache, req, pages, todo, run, out, result, degraded>>

(* The source fails and the error leaves read() at once.                   *)
SourceFails(r) ==
  /\ pc[r] = "await"
  /\ pc' = [pc EXCEPT ![r] = "done"]
  /\ result' = [result EXCEPT ![r] = "Source"]
  /\ UNCHANGED <<cache, req, at, pages, todo, run, buf, out, degraded>>

(* Mutant: every page of a run is cut from the start of the run.           *)
StorePageAtRunStart(r) ==
  LET p    == at[r]
      page == SubSeq(buf[r], 1, MinOf(PageSize, Len(buf[r])))
  IN  /\ pc[r] = "store"
      /\ p <= run[r].end
      /\ cache' = [cache EXCEPT ![p] = page]
      /\ pages' = [pages EXCEPT ![r][p] = page]
      /\ at' = [at EXCEPT ![r] = p + 1]
      /\ UNCHANGED <<pc, req, todo, run, buf, out, result, degraded>>

(* Mutant: the page goes to the shared cache only.                         *)
StorePageSharedOnly(r) ==
  LET p    == at[r]
      from == Start(p) - Start(run[r].start)
      page == SubSeq(buf[r], from + 1, from + MinOf(PageSize, Len(buf[r]) - from))
  IN  /\ pc[r] = "store"
      /\ p <= run[r].end
      /\ from < Len(buf[r])
      /\ cache' = [cache EXCEPT ![p] = page]
      /\ at' = [at EXCEPT ![r] = p + 1]
      /\ UNCHANGED <<pc, req, pages, todo, run, buf, out, result, degraded>>

(* One step of store_run(): cut one page out of the fetched bytes and put  *)
(* it in the shared cache and in the reader's own pages.  The loop ends at *)
(* the end of the run, or before a page the bytes do not reach.            *)
StorePage(r) ==
  LET p    == at[r]
      from == Start(p) - Start(run[r].start)
      page == SubSeq(buf[r], from + 1, from + MinOf(PageSize, Len(buf[r]) - from))
  IN  /\ pc[r] = "store"
      /\ p <= run[r].end
      /\ from < Len(buf[r])
      /\ cache' = [cache EXCEPT ![p] = page]
      /\ pages' = [pages EXCEPT ![r][p] = page]
      /\ at' = [at EXCEPT ![r] = p + 1]
      /\ UNCHANGED <<pc, req, todo, run, buf, out, result, degraded>>

EndStore(r) ==
  /\ pc[r] = "store"
  /\ \/ at[r] > run[r].end
     \/ Start(at[r]) - Start(run[r].start) >= Len(buf[r])
  /\ pc' = [pc EXCEPT ![r] = "fetch"]
  /\ run' = [run EXCEPT ![r] = NoRun]
  /\ buf' = [buf EXCEPT ![r] = <<>>]
  /\ UNCHANGED <<cache, req, at, pages, todo, out, result, degraded>>

(* Every run is in: assemble() starts.                                     *)
StartAssemble(r) ==
  /\ pc[r] = "fetch"
  /\ todo[r] = {}
  /\ pc' = [pc EXCEPT ![r] = "assemble"]
  /\ at' = [at EXCEPT ![r] = First(req[r])]
  /\ UNCHANGED <<cache, req, pages, todo, run, buf, out, result, degraded>>

(* assemble(), the range inside one page: a slice of that page.            *)
AssembleOne(r) ==
  LET q    == req[r]
      page == pages[r][First(q)]
      from == q.offset - Start(First(q))
  IN  /\ pc[r] = "assemble"
      /\ First(q) = Last(q)
      /\ pc' = [pc EXCEPT ![r] = "done"]
      /\ \/ /\ page = Absent
            /\ result' = [result EXCEPT ![r] = "LostPage"]
            /\ UNCHANGED out
         \/ /\ page # Absent
            /\ from + q.len > Len(page)
            /\ result' = [result EXCEPT ![r] = "ShortPage"]
            /\ UNCHANGED out
         \/ /\ page # Absent
            /\ from + q.len <= Len(page)
            /\ result' = [result EXCEPT ![r] = "ok"]
            /\ out' = [out EXCEPT ![r] = SubSeq(page, from + 1, from + q.len)]
      /\ UNCHANGED <<cache, req, at, pages, todo, run, buf, degraded>>

(* Mutant: a page contributes from its start, whatever the offset.         *)
PagePartFromPageStart(q, p, page) ==
  SubSeq(page, 1, MinOf(q.offset + q.len, Start(p) + Len(page)) - Start(p))

(* The part of the range that page p, a page the reader holds, contributes.*)
PagePart(q, p, page) ==
  LET from == MaxOf(q.offset, Start(p))
      to   == MinOf(q.offset + q.len, Start(p) + Len(page))
  IN  IF from < to
      THEN SubSeq(page, from - Start(p) + 1, to - Start(p))
      ELSE <<>>

(* assemble(), the range across several pages: one page of the loop.       *)
AssemblePage(r) ==
  LET q    == req[r]
      p    == at[r]
      page == pages[r][p]
  IN  /\ pc[r] = "assemble"
      /\ First(q) # Last(q)
      /\ p <= Last(q)
      /\ \/ /\ page = Absent
            /\ result' = [result EXCEPT ![r] = "LostPage"]
            /\ pc' = [pc EXCEPT ![r] = "done"]
            /\ UNCHANGED <<out, at>>
         \/ /\ page # Absent
            /\ out' = [out EXCEPT ![r] = @ \o PagePart(q, p, page)]
            /\ at' = [at EXCEPT ![r] = p + 1]
            /\ UNCHANGED <<pc, result>>
      /\ UNCHANGED <<cache, req, pages, todo, run, buf, degraded>>

(* Mutant: the length check is left out.                                   *)
EndAssembleUnchecked(r) ==
  /\ pc[r] = "assemble"
  /\ First(req[r]) # Last(req[r])
  /\ at[r] > Last(req[r])
  /\ pc' = [pc EXCEPT ![r] = "done"]
  /\ result' = [result EXCEPT ![r] = "ok"]
  /\ UNCHANGED <<cache, req, at, pages, todo, run, buf, out, degraded>>

(* The length check that ends assemble().                                  *)
EndAssemble(r) ==
  LET q == req[r]
  IN  /\ pc[r] = "assemble"
      /\ First(q) # Last(q)
      /\ at[r] > Last(q)
      /\ pc' = [pc EXCEPT ![r] = "done"]
      /\ result' = [result EXCEPT ![r] =
                      IF Len(out[r]) # q.len THEN "ShortPage" ELSE "ok"]
      /\ UNCHANGED <<cache, req, at, pages, todo, run, buf, out, degraded>>

(* The call is over and its locals are gone.                               *)
Leave(r) ==
  /\ pc' = [pc EXCEPT ![r] = "idle"]
  /\ req' = [req EXCEPT ![r] = NoReq]
  /\ at' = [at EXCEPT ![r] = 0]
  /\ pages' = [pages EXCEPT ![r] = [p \in Pages |-> Absent]]
  /\ todo' = [todo EXCEPT ![r] = {}]
  /\ run' = [run EXCEPT ![r] = NoRun]
  /\ buf' = [buf EXCEPT ![r] = <<>>]
  /\ out' = [out EXCEPT ![r] = <<>>]
  /\ result' = [result EXCEPT ![r] = "none"]
  /\ UNCHANGED <<cache, degraded>>

(* The caller takes the answer and may read again.                         *)
Return(r) == pc[r] = "done" /\ Leave(r)

(* An asynchronous caller drops the future while it awaits the source.     *)
Cancel(r) == pc[r] = "await" /\ Leave(r)

--------------------------------------------------------------------------------
(* What the other users of the cache do to it.                             *)

(* moka drops a page, or has not applied an insert yet.                    *)
Evict(p) ==
  /\ cache[p] # Absent
  /\ cache' = [cache EXCEPT ![p] = Absent]
  /\ UNCHANGED <<local, degraded>>

(* IoCache::clear.                                                         *)
Clear ==
  /\ cache' = [p \in Pages |-> Absent]
  /\ UNCHANGED <<local, degraded>>

(* IoCache::put_page, called by the replay driver with a page cut from an  *)
(* answer whose length nobody checked.                                     *)
PutPage(p, page) ==
  /\ cache' = [cache EXCEPT ![p] = page]
  /\ degraded' = (degraded \/ Len(page) < PageLen(p))
  /\ UNCHANGED local

Step(r) ==
  \/ Bounds(r)
  \/ Lookup(r)
  \/ FetchRun(r)
  \/ SourceAnswers(r)
  \/ SourceFails(r)
  \/ StorePage(r)
  \/ EndStore(r)
  \/ StartAssemble(r)
  \/ AssembleOne(r)
  \/ AssemblePage(r)
  \/ EndAssemble(r)

Next ==
  \/ \E r \in Readers :
       \/ \E q \in Requests[r] : Call(r, q)
       \/ Step(r)
       \/ Cancel(r)
       \/ Return(r)
  \/ \E p \in Pages :
       \/ Evict(p)
       \/ \E page \in Prefixes(p) : PutPage(p, page)
  \/ Clear

(* A thread that runs keeps running, and a request to the source is        *)
(* answered or fails.                                                      *)
Fairness == \A r \in Readers : WF_vars(Step(r))

Spec     == Init /\ [][Next]_vars
FairSpec == Spec /\ Fairness

--------------------------------------------------------------------------------

(* A byte string that is page p, or as much of it as a source delivered.   *)
IsPageOf(page, p) ==
  /\ Len(page) <= PageLen(p)
  /\ page = Slice(Start(p), Len(page))

(* Type correctness of the cache and of every reader's variables.          *)
TypeOK ==
  /\ cache \in [Pages -> Seq(Int)]
  /\ pc \in [Readers -> PCs]
  /\ req \in [Readers -> [offset : Nat, len : Nat]]
  /\ at \in [Readers -> Nat]
  /\ pages \in [Readers -> [Pages -> Seq(Int)]]
  /\ todo \in [Readers -> SUBSET Pages]
  /\ run \in [Readers -> [start : Nat, end : Nat]]
  /\ buf \in [Readers -> Seq(Int)]
  /\ out \in [Readers -> Seq(Int)]
  /\ result \in [Readers -> Errors \cup {"none", "ok"}]
  /\ degraded \in BOOLEAN

(* Every page in the shared cache, and every page a reader holds, is the   *)
(* file's bytes at that page's place, whoever cut it out of which fetched  *)
(* run (cache.rs:447 store_run, replay.rs:298): a page is never stored     *)
(* under another page's index.                                             *)
PagesAreFileBytes ==
  /\ \A p \in Pages : IsPageOf(cache[p], p)
  /\ \A r \in Readers : \A p \in Pages : IsPageOf(pages[r][p], p)

(* A read that succeeds returns exactly the bytes asked for, whatever was  *)
(* evicted, cleared, filled twice or stored short while it ran             *)
(* (cache.rs:344-517).                                                     *)
ReadsExact ==
  \A r \in Readers :
    pc[r] = "done" /\ result[r] = "ok" =>
      /\ out[r] = Slice(req[r].offset, req[r].len)
      /\ Len(out[r]) = req[r].len

(* "page cache lost a page it had just fetched" (cache.rs:480 and 498) is  *)
(* unreachable: no eviction or clear between the fetch and the assembly    *)
(* costs a reader a page, because it assembles from its own copies.        *)
NeverLosesPage == \A r \in Readers : result[r] # "LostPage"

(* A read inside the file fails only because the source failed it, or      *)
(* because a short page was stored in the shared cache before              *)
(* (cache.rs:484 and 509).                                                 *)
FailureHasCause ==
  \A r \in Readers :
    pc[r] = "done" /\ result[r] \in {"LostPage", "ShortPage", "OutOfBounds"} =>
      \/ req[r].offset + req[r].len > Size
      \/ degraded

(* Every read that starts ends, unless its caller drops it.                *)
ReadsEnd == \A r \in Readers : pc[r] = "bounds" ~> pc[r] \in {"done", "idle"}

--------------------------------------------------------------------------------
(* The inductive invariant behind the safety properties.                   *)

(* Until a short page is stored every page held is whole.                  *)
PagesWhole ==
  ~degraded =>
    /\ \A p \in Pages : cache[p] # Absent => Len(cache[p]) = PageLen(p)
    /\ \A r \in Readers : \A p \in Pages :
         pages[r][p] # Absent => Len(pages[r][p]) = PageLen(p)

Reading == {"lookup", "fetch", "await", "store", "assemble"}

(* A reader past bounds() reads inside the file.                           *)
InBounds(r) ==
  pc[r] \in Reading => req[r].len # 0 /\ req[r].offset + req[r].len <= Size

(* Where a reader is in the run it fetches.                                *)
RunInv(r) ==
  pc[r] \in {"await", "store"} =>
    /\ run[r].start \in Pages /\ run[r].end \in Pages
    /\ run[r].start <= run[r].end
    /\ pc[r] = "store" =>
         /\ buf[r] = Slice(Start(run[r].start), RunExtent(run[r].start, run[r].end))
         /\ at[r] \in run[r].start .. run[r].end + 1

(* Page p is one the reader has still to look up, to fetch or to store.    *)
Owed(r, p) ==
  \/ p \in todo[r]
  \/ pc[r] = "lookup" /\ at[r] <= p
  \/ pc[r] = "await" /\ p \in run[r].start .. run[r].end
  \/ pc[r] = "store" /\ p \in at[r] .. run[r].end

NothingForgotten(r) ==
  /\ pc[r] \in Reading =>
       \A p \in First(req[r]) .. Last(req[r]) : pages[r][p] # Absent \/ Owed(r, p)
  /\ pc[r] = "lookup" => at[r] \in First(req[r]) .. Last(req[r])
  /\ pc[r] = "assemble" => todo[r] = {}

(* How far the assembled bytes reach once the pages before at are in.      *)
Reached(q, p) == MinOf(q.offset + q.len, MaxOf(q.offset, Start(p)))

(* The bytes assembled so far: as many as were reached only if every page  *)
(* was whole, and then exactly the file's bytes.                           *)
AssembleInv(r) ==
  /\ pc[r] \notin {"assemble", "done"} => out[r] = <<>>
  /\ pc[r] = "assemble" =>
       LET n == Reached(req[r], at[r]) - req[r].offset
       IN  /\ at[r] \in First(req[r]) .. Last(req[r]) + 1
           /\ Len(out[r]) <= n
           /\ Len(out[r]) = n => out[r] = Slice(req[r].offset, n)
           /\ ~degraded => Len(out[r]) = n

ResultInv(r) ==
  /\ pc[r] # "done" => result[r] = "none"
  /\ pc[r] = "idle" => req[r] = NoReq
  /\ result[r] # "LostPage"
  /\ result[r] = "ok" => /\ out[r] = Slice(req[r].offset, req[r].len)
                         /\ Len(out[r]) = req[r].len
                         /\ req[r].len = 0 \/ req[r].offset + req[r].len <= Size
  /\ result[r] = "ShortPage" => degraded
  /\ result[r] = "OutOfBounds" => req[r].offset + req[r].len > Size

ReaderInv(r) ==
  InBounds(r) /\ RunInv(r) /\ NothingForgotten(r) /\ AssembleInv(r) /\ ResultInv(r)

IInv ==
  /\ TypeOK
  /\ PagesAreFileBytes
  /\ PagesWhole
  /\ \A r \in Readers : ReaderInv(r)

--------------------------------------------------------------------------------

(* The reader's view: the page cache is a plain positional reader.         *)
Reads == INSTANCE ByteReads WITH
  phase   <- [r \in Readers |-> IF pc[r] = "idle" THEN "idle"
                                ELSE IF pc[r] = "done" THEN "done" ELSE "pending"],
  request <- req,
  answer  <- [r \in Readers |->
                IF result[r] = "ok"
                THEN [ok |-> TRUE, bytes |-> out[r]]
                ELSE [ok |-> FALSE, bytes |-> <<>>]]

(* IoCache implements the abstract reader: the exact bytes or an error.    *)
ImplementsByteReads == Reads!Spec
================================================================================
