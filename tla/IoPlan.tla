--------------------------------- MODULE IoPlan ---------------------------------
(***************************************************************************)
(* Merging byte ranges into requests and cutting the answers apart again:  *)
(* plan() and scatter() in crates/oxcdf-hdf5/src/io.rs, as fetch_bytes     *)
(* (read.rs) and Ctx::read_ranges (context.rs) call them.                  *)
(*                                                                         *)
(* A request is [offset, len]; part[i] says which request serves range i   *)
(* and where in it.  A buffer is how many of the request's bytes arrived,  *)
(* and a slice of it is the interval of the file it was cut from.  Offsets *)
(* come from the file, and a damaged one may lie anywhere in the address   *)
(* space: sums wrap at Width, as they do in a release build.               *)
(***************************************************************************)
EXTENDS Integers, Sequences

CONSTANTS
  Width,      (* 2^64: addresses are below it                              *)
  Size,       (* bytes in the file                                         *)
  MaxGap,     (* IoConfig::max_gap                                         *)
  MaxRequest, (* IoConfig::max_request_size                                *)
  Inputs      (* the sequences of ranges to read                           *)

ASSUME WidthAssumption ==
  Width \in Nat /\ Size \in Nat /\ Size < Width
ASSUME ConfigAssumption == MaxGap \in Nat /\ MaxRequest \in Nat
ASSUME InputsAssumption ==
  Inputs \subseteq Seq([offset : 0 .. Width - 1, len : 0 .. Width - 1])

VARIABLES
  phase,  (* where the read is                                             *)
  ranges, (* the ranges asked for                                          *)
  todo,   (* the indices plan() has not placed yet                         *)
  reqs,   (* the requests planned so far                                   *)
  part,   (* part[i]: [req, at, len], req = 0 while i is not placed        *)
  got,    (* got[k]: how many bytes of request k arrived                   *)
  out,    (* out[i]: the interval of the file that range i was given       *)
  result  (* how the read ended                                            *)

vars == <<phase, ranges, todo, reqs, part, got, out, result>>

MinOf(a, b) == IF a < b THEN a ELSE b
MaxOf(a, b) == IF a < b THEN b ELSE a

(* a + b and a - b on addresses, and saturating_sub.                       *)
Add(a, b)    == IF a + b < Width THEN a + b ELSE a + b - Width
Sub(a, b)    == IF a < b THEN a - b + Width ELSE a - b
SatSub(a, b) == IF a < b THEN 0 ELSE a - b

Unplaced == [req |-> 0, at |-> 0, len |-> 0]
Nowhere  == [from |-> 0, len |-> 0]

Init ==
  /\ phase = "idle"
  /\ ranges = <<>>
  /\ todo = {}
  /\ reqs = <<>>
  /\ part = <<>>
  /\ got = <<>>
  /\ out = <<>>
  /\ result = "none"

Call(rs) ==
  /\ phase = "idle"
  /\ phase' = "plan"
  /\ ranges' = rs
  /\ todo' = DOMAIN rs
  /\ part' = [i \in DOMAIN rs |-> Unplaced]
  /\ UNCHANGED <<reqs, got, out, result>>

(* The stable sort by offset: i comes before every other index.            *)
IsNext(i) ==
  /\ i \in todo
  /\ \A j \in todo : \/ ranges[i].offset < ranges[j].offset
                     \/ ranges[i].offset = ranges[j].offset /\ i <= j

Last    == reqs[Len(reqs)]
LastEnd == Add(Last.offset, Last.len)

(* Where the last request would end if it took range i in, and its length. *)
MergedLen(i) ==
  Sub(MaxOf(Add(ranges[i].offset, ranges[i].len), LastEnd), Last.offset)

(* Overlapping, touching or close enough, and not too large?               *)
Merges(i) ==
  /\ reqs # <<>>
  /\ ranges[i].offset >= Last.offset
  /\ SatSub(ranges[i].offset, LastEnd) <= MaxGap
  /\ MergedLen(i) <= MaxRequest

(* A range of no bytes joins whatever request is current.                  *)
PlaceEmpty(i) ==
  /\ phase = "plan"
  /\ IsNext(i)
  /\ ranges[i].len = 0
  /\ reqs' = IF reqs = <<>> THEN <<[offset |-> ranges[i].offset, len |-> 0]>> ELSE reqs
  /\ part' = [part EXCEPT ![i] = [req |-> Len(reqs'), at |-> 0, len |-> 0]]
  /\ todo' = todo \ {i}
  /\ UNCHANGED <<phase, ranges, got, out, result>>

(* Mutant: the merged request ends where the new range ends.               *)
PlaceMergedShrinks(i) ==
  /\ phase = "plan"
  /\ IsNext(i)
  /\ ranges[i].len # 0
  /\ Merges(i)
  /\ reqs' = [reqs EXCEPT ![Len(reqs)].len =
                Sub(Add(ranges[i].offset, ranges[i].len), Last.offset)]
  /\ part' = [part EXCEPT ![i] = [req |-> Len(reqs),
                                  at  |-> ranges[i].offset - Last.offset,
                                  len |-> ranges[i].len]]
  /\ todo' = todo \ {i}
  /\ UNCHANGED <<phase, ranges, got, out, result>>

(* Mutant: a merged range starts after the bytes the request had.          *)
PlaceMergedAppends(i) ==
  /\ phase = "plan"
  /\ IsNext(i)
  /\ ranges[i].len # 0
  /\ Merges(i)
  /\ reqs' = [reqs EXCEPT ![Len(reqs)].len = MergedLen(i)]
  /\ part' = [part EXCEPT ![i] = [req |-> Len(reqs),
                                  at  |-> Last.len,
                                  len |-> ranges[i].len]]
  /\ todo' = todo \ {i}
  /\ UNCHANGED <<phase, ranges, got, out, result>>

(* The last request grows to take the range in.                            *)
PlaceMerged(i) ==
  /\ phase = "plan"
  /\ IsNext(i)
  /\ ranges[i].len # 0
  /\ Merges(i)
  /\ reqs' = [reqs EXCEPT ![Len(reqs)].len = MergedLen(i)]
  /\ part' = [part EXCEPT ![i] = [req |-> Len(reqs),
                                  at  |-> ranges[i].offset - Last.offset,
                                  len |-> ranges[i].len]]
  /\ todo' = todo \ {i}
  /\ UNCHANGED <<phase, ranges, got, out, result>>

(* The range is a request of its own.                                      *)
PlaceAlone(i) ==
  /\ phase = "plan"
  /\ IsNext(i)
  /\ ranges[i].len # 0
  /\ ~Merges(i)
  /\ reqs' = Append(reqs, ranges[i])
  /\ part' = [part EXCEPT ![i] = [req |-> Len(reqs) + 1, at |-> 0, len |-> ranges[i].len]]
  /\ todo' = todo \ {i}
  /\ UNCHANGED <<phase, ranges, got, out, result>>

(* The plan is complete and its requests go to the source.                 *)
Send ==
  /\ phase = "plan"
  /\ todo = {}
  /\ phase' = "await"
  /\ UNCHANGED <<ranges, todo, reqs, part, got, out, result>>

(* Sources refuse a request that leaves the file.                          *)
InFile(q) == q.offset + q.len <= Size

(* The source answers.  What arrives of a request is a prefix of it, all   *)
(* of it unless the source answers short, which no caller checks.          *)
Answer(lens) ==
  /\ phase = "await"
  /\ \A k \in DOMAIN reqs : InFile(reqs[k])
  /\ lens \in [DOMAIN reqs -> 0 .. Size]
  /\ \A k \in DOMAIN reqs : lens[k] <= reqs[k].len
  /\ got' = lens
  /\ phase' = "scatter"
  /\ UNCHANGED <<ranges, todo, reqs, part, out, result>>

(* The source refuses a request that leaves the file, fails, or returns    *)
(* another count of buffers.                                               *)
SourceFails ==
  /\ phase = "await"
  /\ reqs # <<>>
  /\ phase' = "done"
  /\ result' = "Source"
  /\ UNCHANGED <<ranges, todo, reqs, part, got, out>>

(* Does the buffer reach to the end of part i?                             *)
Reaches(i) == part[i].at + part[i].len <= got[part[i].req]

(* scatter(): a part the buffer does not reach is an error, any other is a *)
(* slice of its buffer.                                                    *)
Scatter ==
  /\ phase = "scatter"
  /\ \/ /\ \A i \in DOMAIN ranges : Reaches(i)
        /\ out' = [i \in DOMAIN ranges |->
                     [from |-> reqs[part[i].req].offset + part[i].at,
                      len  |-> part[i].len]]
        /\ result' = "ok"
     \/ /\ \E i \in DOMAIN ranges : ~Reaches(i)
        /\ result' = "TooFew"
        /\ UNCHANGED out
  /\ phase' = "done"
  /\ UNCHANGED <<ranges, todo, reqs, part, got>>

Return ==
  /\ phase = "done"
  /\ phase' = "idle"
  /\ ranges' = <<>>
  /\ reqs' = <<>>
  /\ part' = <<>>
  /\ got' = <<>>
  /\ out' = <<>>
  /\ result' = "none"
  /\ UNCHANGED todo

Next ==
  \/ \E rs \in Inputs : Call(rs)
  \/ \E i \in todo : PlaceEmpty(i) \/ PlaceMerged(i) \/ PlaceAlone(i)
  \/ Send
  \/ \E lens \in [DOMAIN reqs -> 0 .. Size] : Answer(lens)
  \/ SourceFails
  \/ Scatter
  \/ Return

Spec == Init /\ [][Next]_vars

--------------------------------------------------------------------------------

Address == 0 .. Width - 1
ByteRanges == [offset : Address, len : Address]

(* Type correctness of the plan and of its answers.                        *)
TypeOK ==
  /\ phase \in {"idle", "plan", "await", "scatter", "done"}
  /\ ranges \in Seq(ByteRanges)
  /\ todo \subseteq DOMAIN ranges
  /\ reqs \in Seq(ByteRanges)
  /\ part \in [DOMAIN ranges -> [req : Nat, at : Nat, len : Nat]]
  /\ got \in Seq(Nat)
  /\ out \in Seq([from : Nat, len : Nat])
  /\ result \in {"none", "ok", "Source", "TooFew"}

(* A read that succeeds gives every range its own bytes: the interval cut  *)
(* out of a merged buffer is the interval asked for (io.rs:139-170), even  *)
(* if the source answered short and whatever the order, the overlaps and   *)
(* the duplicates of the ranges.                                           *)
ScatterExact ==
  result = "ok" =>
    \A i \in DOMAIN ranges :
      /\ out[i].len = ranges[i].len
      /\ ranges[i].len # 0 => out[i].from = ranges[i].offset

RangesInFile == \A i \in DOMAIN ranges : InFile(ranges[i])

(* If every range lies in the file then so does every request of the plan: *)
(* merging never reads past the end of the file (io.rs:112-122), and every *)
(* part lies inside its request, so that full answers are never too short. *)
PlanInFile ==
  RangesInFile =>
    /\ \A k \in DOMAIN reqs : InFile(reqs[k])
    /\ \A i \in DOMAIN ranges \ todo :
         part[i].at + part[i].len <= reqs[part[i].req].len

(* Request k serves more than one range that has bytes.                    *)
IsMerged(k) ==
  \E i, j \in DOMAIN ranges \ todo :
    /\ i # j
    /\ part[i].req = k /\ part[j].req = k
    /\ part[i].len # 0 /\ part[j].len # 0

(* "Never let a merged request exceed this size" (io.rs:30): only a range  *)
(* that is larger by itself does.                                          *)
MergedIsBounded ==
  \A k \in DOMAIN reqs : IsMerged(k) => reqs[k].len <= MaxRequest

(* "The result is in ascending offset order" (io.rs:79), also with ranges  *)
(* of no bytes among them.                                                 *)
Ascending ==
  \A k \in DOMAIN reqs : k > 1 => reqs[k - 1].offset <= reqs[k].offset

--------------------------------------------------------------------------------
(* The inductive invariant behind the safety properties.                   *)

(* Range i has its place in a request.                                     *)
IsPlaced(i) ==
  /\ part[i].req \in DOMAIN reqs
  /\ part[i].len = ranges[i].len
  /\ ranges[i].len # 0 => reqs[part[i].req].offset + part[i].at = ranges[i].offset

(* The loop takes the ranges in the order of their offsets.                *)
Sorted == reqs # <<>> => \A i \in todo : Last.offset <= ranges[i].offset

PhaseInv ==
  /\ phase # "plan" => todo = {}
  /\ phase = "idle" => ranges = <<>> /\ reqs = <<>>
  /\ phase # "done" => result = "none"
  /\ phase = "scatter" => DOMAIN got = DOMAIN reqs

IInv ==
  /\ TypeOK
  /\ PhaseInv
  /\ \A i \in DOMAIN ranges \ todo : IsPlaced(i)
  /\ Sorted
  /\ Ascending
  /\ PlanInFile
  /\ MergedIsBounded
  /\ ScatterExact
================================================================================
