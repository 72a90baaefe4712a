----------------------------- MODULE ChunkReadProofs -----------------------------
(* Proofs about ChunkRead, for every chunk index, read-ahead, set of       *)
(* readers, selections and modes.                                          *)
EXTENDS ChunkRead, SequenceTheorems, TLAPS

(* The record numbers are the positive naturals up to N.                   *)
LEMMA RecordFacts ==
  /\ N \in Nat
  /\ \A i \in Records : i \in Nat /\ 1 <= i /\ i <= N
  /\ \A i \in Records : Chunks[i].cell \in Nat /\ State(i) \in ChunkStates
<1>1. N \in Nat
  BY ChunksAssumption DEF N
<1>2. \A i \in Records : Chunks[i] \in [cell : Nat, state : ChunkStates]
  BY ChunksAssumption, ElementOfSeq DEF N, Records
<1> QED BY <1>1, <1>2 DEF Records, State

(* Everything a selection needs is a record of the index.                  *)
LEMMA NeededFacts ==
  ASSUME NEW s
  PROVE  /\ Needed(s) \subseteq Records
         /\ \A i \in Records : i \in Needed(s) <=> Chunks[i].cell \in s
         /\ \A m : Needed(s) \subseteq Candidates(m, s)
         /\ \A m : Candidates(m, s) \subseteq Needed(s) \cup Ahead(s)
BY DEF Needed, Candidates

(* The invariant of one reader reads that reader's variables only, never   *)
(* the shared cache: what others do to it is invisible.                    *)
LEMMA Frame ==
  ASSUME NEW x \in Readers, ReaderInv(x),
         pc'[x] = pc[x], mode'[x] = mode[x], sel'[x] = sel[x], at'[x] = at[x],
         wanted'[x] = wanted[x], fetched'[x] = fetched[x], out'[x] = out[x],
         result'[x] = result[x], failed'[x] = failed[x]
  PROVE  ReaderInv(x)'
<1>1. CauseInv(x)'
  BY DEF ReaderInv, CauseInv, Damaged, LostToEviction, AheadIsFatal, UnwrittenIsFatal
<1> QED BY <1>1 DEF ReaderInv, IdleInv, WantedInv, FetchedInv, OutInv

(* A step of the environment touches no reader.                            *)
LEMMA Shared ==
  ASSUME IInv, UNCHANGED local, cache' \subseteq {i \in Records : Decodes(i)}
  PROVE  IInv'
<1>1. TypeOK'
  BY DEF IInv, TypeOK, local
<1>2. \A x \in Readers : ReaderInv(x)'
  BY Frame DEF IInv, local
<1> QED BY <1>1, <1>2 DEF IInv

(* The initial state satisfies the invariant.                              *)
LEMMA InitInv == Init => IInv
<1> SUFFICES ASSUME Init PROVE IInv
  OBVIOUS
<1>1. TypeOK
  BY RecordFacts DEF Init, TypeOK, NoMode, Results
<1>2. ASSUME NEW r \in Readers PROVE ReaderInv(r)
  BY DEF Init, ReaderInv, IdleInv, WantedInv, FetchedInv, OutInv, CauseInv
<1> QED BY <1>1, <1>2 DEF IInv

(* Call preserves the invariant.                                           *)
LEMMA CallInv ==
  ASSUME IInv, NEW r \in Readers, NEW m \in Modes[r], NEW s \in Selections[r], Call(r, m, s)
  PROVE  IInv'
<1> USE DEF Call
<1>0. s \in SUBSET Nat /\ m \in [async : BOOLEAN, cached : BOOLEAN]
  BY SelectionsAssumption, ModesAssumption
<1>1. TypeOK'
  <2>1. [c \in s |-> IF Covered(s) THEN Zero ELSE Fill] \in [s -> Int]
    BY DEF Zero, Fill
  <2> QED BY <1>0, <2>1 DEF IInv, TypeOK
<1>2. ReaderInv(r)'
  <2>1. /\ at'[r] = 1 /\ wanted'[r] = {} /\ result'[r] = "none" /\ sel'[r] = s /\ mode'[r] = m
        /\ pc'[r] = IF m.async \/ m.cached THEN "check" ELSE "copy"
        /\ out'[r] = [c \in s |-> Initial(s)]
    BY DEF IInv, TypeOK, ReaderInv, IdleInv, Initial
  <2>2. IdleInv(r)' /\ CauseInv(r)'
    BY <2>1 DEF IdleInv, CauseInv
  <2>3. WantedInv(r)' /\ FetchedInv(r)'
    BY <2>1, RecordFacts, NeededFacts DEF WantedInv, FetchedInv
  <2>4. OutInv(r)'
    BY <2>1, RecordFacts DEF OutInv, IsValueBefore
  <2> QED BY <2>2, <2>3, <2>4 DEF ReaderInv
<1>3. ASSUME NEW x \in Readers, x # r PROVE ReaderInv(x)'
  BY <1>3, Frame DEF IInv, TypeOK
<1> QED BY <1>1, <1>2, <1>3 DEF IInv

(* Check preserves the invariant.                                          *)
LEMMA CheckInv ==
  ASSUME IInv, NEW r \in Readers, Check(r)
  PROVE  IInv'
<1> USE DEF Check
<1>0. at[r] \in Records /\ at[r] \in Nat /\ N \in Nat
  BY RecordFacts DEF IInv, TypeOK, Records
<1>1. TypeOK'
  BY <1>0 DEF IInv, TypeOK
<1>2. ReaderInv(r)'
  <2>1. /\ pc'[r] = "check" /\ at'[r] = at[r] + 1 /\ pc[r] = "check"
        /\ UNCHANGED <<pc, mode, sel, out, result>>
    BY DEF IInv, TypeOK
  <2>2. IdleInv(r)' /\ CauseInv(r)' /\ OutInv(r)' /\ FetchedInv(r)'
    BY <2>1 DEF IInv, ReaderInv, IdleInv, CauseInv, OutInv, FetchedInv
  <2>3. WantedInv(r)'
    <3>1. \A i \in wanted'[r] : i \in wanted[r] \/ (i \in Candidates(mode[r], sel[r]) /\ State(i) # "unwritten")
      BY DEF IInv, TypeOK
    <3>2. wanted[r] \subseteq wanted'[r]
      BY DEF IInv, TypeOK
    <3>3. at[r] \in Needed(sel[r]) =>
            at[r] \in wanted'[r] \/ mode[r].cached \/ State(at[r]) = "unwritten"
      BY NeededFacts DEF IInv, TypeOK
    <3>4. \A i \in Needed(sel[r]) : at[r] <= i => i = at[r] \/ at[r] + 1 <= i
      BY <1>0, NeededFacts, RecordFacts
    <3> QED BY <2>1, <3>1, <3>2, <3>3, <3>4 DEF IInv, ReaderInv, WantedInv
  <2> QED BY <2>2, <2>3 DEF ReaderInv
<1>3. ASSUME NEW x \in Readers, x # r PROVE ReaderInv(x)'
  BY <1>3, Frame DEF IInv, TypeOK
<1> QED BY <1>1, <1>2, <1>3 DEF IInv

(* EndCheck preserves the invariant.                                       *)
LEMMA EndCheckInv ==
  ASSUME IInv, NEW r \in Readers, EndCheck(r)
  PROVE  IInv'
<1> USE DEF EndCheck
<1>1. TypeOK'
  BY RecordFacts DEF IInv, TypeOK
<1>2. ReaderInv(r)'
  <2>1. /\ pc[r] = "check" /\ at[r] > N /\ pc'[r] \in {"copy", "await"} /\ at'[r] = 1
        /\ wanted[r] # {} => pc'[r] = "await"
        /\ UNCHANGED <<mode, sel, wanted, fetched, out, result, failed>>
    BY DEF IInv, TypeOK
  <2>2. IdleInv(r)' /\ CauseInv(r)' /\ FetchedInv(r)'
    BY <2>1 DEF IInv, ReaderInv, IdleInv, CauseInv, FetchedInv
  <2>3. WantedInv(r)'
    <3>1. \A i \in Needed(sel[r]) : ~(at[r] <= i)
      BY <2>1, NeededFacts, RecordFacts DEF IInv, TypeOK
    <3> QED BY <2>1, <3>1 DEF IInv, ReaderInv, WantedInv
  <2>4. OutInv(r)'
    <3>1. \A j \in Records : ~(j < 1)
      BY RecordFacts
    <3> QED BY <2>1, <3>1 DEF IInv, ReaderInv, IdleInv, OutInv, IsValueBefore
  <2> QED BY <2>2, <2>3, <2>4 DEF ReaderInv
<1>3. ASSUME NEW x \in Readers, x # r PROVE ReaderInv(x)'
  BY <1>3, Frame DEF IInv, TypeOK
<1> QED BY <1>1, <1>2, <1>3 DEF IInv

(* BatchArrives preserves the invariant.                                   *)
LEMMA BatchArrivesInv ==
  ASSUME IInv, NEW r \in Readers, BatchArrives(r)
  PROVE  IInv'
<1> USE DEF BatchArrives
<1>1. TypeOK'
  BY DEF IInv, TypeOK
<1>2. ReaderInv(r)'
  <2>1. /\ pc[r] = "await" /\ pc'[r] = "decode" /\ at[r] = 1
        /\ UNCHANGED <<mode, sel, at, wanted, fetched, out, result, failed>>
    BY DEF IInv, TypeOK, ReaderInv, IdleInv
  <2>2. IdleInv(r)' /\ WantedInv(r)' /\ OutInv(r)' /\ CauseInv(r)'
    BY <2>1 DEF IInv, ReaderInv, IdleInv, WantedInv, OutInv, CauseInv
  <2>3. FetchedInv(r)'
    BY <2>1, RecordFacts, NeededFacts DEF FetchedInv
  <2> QED BY <2>2, <2>3 DEF ReaderInv
<1>3. ASSUME NEW x \in Readers, x # r PROVE ReaderInv(x)'
  BY <1>3, Frame DEF IInv, TypeOK
<1> QED BY <1>1, <1>2, <1>3 DEF IInv

(* A read that fails only has to name its cause: nothing else that the     *)
(* invariant says of it is at stake any more.                              *)
LEMMA FailInv ==
  ASSUME IInv, NEW r \in Readers, NEW error \in {"Source", "Decode", "Short", "Missing"},
         pc[r] # "idle", pc[r] # "done", Fail(r, error),
         UNCHANGED <<cache, mode, sel, at, wanted, fetched, out>>,
         failed' \in [Readers -> BOOLEAN], \A x \in Readers : x # r => failed'[x] = failed[x],
         CauseInv(r)'
  PROVE  IInv'
<1> USE DEF Fail
<1>1. TypeOK'
  BY DEF IInv, TypeOK, Results
<1>2. ReaderInv(r)'
  <2>1. pc'[r] = "done" /\ result'[r] = error
    BY DEF IInv, TypeOK
  <2> QED BY <2>1 DEF IInv, ReaderInv, IdleInv, WantedInv, FetchedInv, OutInv
<1>3. ASSUME NEW x \in Readers, x # r PROVE ReaderInv(x)'
  BY <1>3, Frame DEF IInv, TypeOK
<1> QED BY <1>1, <1>2, <1>3 DEF IInv

(* BatchFails preserves the invariant: a range outside the file is a chunk *)
(* the read needs or one of its read-ahead.                                *)
LEMMA BatchFailsInv ==
  ASSUME IInv, NEW r \in Readers, BatchFails(r)
  PROVE  IInv'
<1> USE DEF BatchFails
<1>1. failed' \in [Readers -> BOOLEAN] /\ \A x \in Readers : x # r => failed'[x] = failed[x]
  BY DEF IInv, TypeOK
<1>2. CauseInv(r)'
  <2>1. result'[r] = "Source" /\ mode' = mode /\ sel' = sel
    BY DEF Fail, IInv, TypeOK
  <2>2. failed'[r] \/ \E i \in wanted[r] : State(i) = "outside"
    BY DEF IInv, TypeOK
  <2>3. ASSUME NEW i \in wanted[r], State(i) = "outside"
        PROVE  Damaged(r)' \/ AheadIsFatal(r)'
    <3>1. i \in Candidates(mode[r], sel[r])
      BY <2>3 DEF IInv, ReaderInv, WantedInv
    <3>2. i \in Needed(sel[r]) \/ (mode[r].cached /\ i \in Ahead(sel[r]))
      BY <3>1 DEF Candidates
    <3> QED BY <2>1, <2>3, <3>2 DEF Damaged, AheadIsFatal
  <2>4. failed'[r] => Damaged(r)'
    BY <2>1 DEF Damaged
  <2> QED BY <2>2, <2>3, <2>4 DEF CauseInv
<1> QED BY <1>1, <1>2, FailInv

(* Decode preserves the invariant.                                         *)
LEMMA DecodeInv ==
  ASSUME IInv, NEW r \in Readers, Decode(r)
  PROVE  IInv'
<1> USE DEF Decode
<1>0. at[r] \in Records /\ at[r] \in Nat /\ N \in Nat
  BY RecordFacts DEF IInv, TypeOK, Records
<1>1. CASE pc'[r] = "done"
  <2>1. /\ Fail(r, "Decode") /\ pc[r] = "decode" /\ at[r] \in wanted[r] /\ ~Decodes(at[r])
        /\ at[r] \in Needed(sel[r])
        /\ UNCHANGED <<cache, mode, sel, at, wanted, fetched, out, failed>>
    BY <1>1 DEF IInv, TypeOK
  <2>2. CauseInv(r)'
    <3>1. State(at[r]) # "unwritten" /\ State(at[r]) # "outside"
      BY <2>1 DEF IInv, ReaderInv, WantedInv, FetchedInv
    <3>2. State(at[r]) = "corrupt"
      BY <1>0, <2>1, <3>1, RecordFacts DEF Decodes, ChunkStates
    <3>3. result'[r] = "Decode"
      BY <2>1 DEF Fail, IInv, TypeOK
    <3>4. Damaged(r)'
      BY <2>1, <3>2, <3>3 DEF Damaged
    <3> QED BY <3>4 DEF CauseInv
  <2> QED BY <2>1, <2>2, FailInv DEF IInv, TypeOK
<1>2. CASE pc'[r] # "done"
  <2>0. /\ pc[r] = "decode" /\ UNCHANGED <<pc, mode, sel, wanted, out, result, failed>>
        /\ at' = [at EXCEPT ![r] = at[r] + 1]
    BY <1>2 DEF Fail, IInv, TypeOK
  <2>1. /\ \A x \in Readers : x # r => fetched'[x] = fetched[x]
        /\ fetched' \in [Readers -> SUBSET {i \in Records : Decodes(i)}]
        /\ fetched[r] \subseteq fetched'[r]
        /\ cache' \subseteq {i \in Records : Decodes(i)}
    <3>1. CASE at[r] \in wanted[r] /\ Decodes(at[r])
      <4>1. /\ cache' = IF mode[r].cached THEN cache \cup {at[r]} ELSE cache
            /\ fetched' = [fetched EXCEPT ![r] = IF mode[r].async THEN @ \cup {at[r]} ELSE @]
        BY <3>1
      <4> QED BY <1>0, <3>1, <4>1 DEF IInv, TypeOK
    <3>2. CASE ~(at[r] \in wanted[r] /\ Decodes(at[r]))
      <4>1. cache' = cache /\ fetched' = fetched
        BY <3>2
      <4> QED BY <4>1 DEF IInv, TypeOK
    <3> QED BY <3>1, <3>2
  <2>2. TypeOK'
    <3>1. at' \in [Readers -> 1 .. N + 1]
      BY <1>0, <2>0 DEF IInv, TypeOK
    <3>2. \A x \in Readers : pc'[x] # "idle" => out'[x] \in [sel'[x] -> Int]
      BY <2>0 DEF IInv, TypeOK
    <3> QED BY <2>0, <2>1, <3>1, <3>2 DEF IInv, TypeOK
  <2>3. ReaderInv(r)'
    <3>1. IdleInv(r)' /\ WantedInv(r)' /\ OutInv(r)' /\ CauseInv(r)'
      BY <2>0 DEF IInv, ReaderInv, IdleInv, WantedInv, OutInv, CauseInv
    <3>2. FetchedInv(r)'
      <4>1. mode[r].async /\ at[r] \in wanted[r] \cap Needed(sel[r]) => at[r] \in fetched'[r]
        BY <1>2 DEF IInv, TypeOK, Fail
      <4>2. \A i \in Needed(sel[r]) : at[r] <= i => i = at[r] \/ at[r] + 1 <= i
        BY <1>0, NeededFacts, RecordFacts
      <4>3. at'[r] = at[r] + 1
        BY <2>0 DEF IInv, TypeOK
      <4> QED BY <2>0, <2>1, <4>1, <4>2, <4>3 DEF IInv, ReaderInv, FetchedInv
    <3> QED BY <3>1, <3>2 DEF ReaderInv
  <2>4. ASSUME NEW x \in Readers, x # r PROVE ReaderInv(x)'
    BY <2>0, <2>1, <2>4, Frame DEF IInv, TypeOK
  <2> QED BY <2>2, <2>3, <2>4 DEF IInv
<1> QED BY <1>1, <1>2

(* EndDecode preserves the invariant.                                      *)
LEMMA EndDecodeInv ==
  ASSUME IInv, NEW r \in Readers, EndDecode(r)
  PROVE  IInv'
<1> USE DEF EndDecode
<1>1. TypeOK'
  BY RecordFacts DEF IInv, TypeOK
<1>2. ReaderInv(r)'
  <2>1. /\ pc[r] = "decode" /\ at[r] > N /\ pc'[r] = "copy" /\ at'[r] = 1
        /\ UNCHANGED <<mode, sel, wanted, fetched, out, result, failed>>
    BY DEF IInv, TypeOK
  <2>2. IdleInv(r)' /\ WantedInv(r)' /\ CauseInv(r)'
    BY <2>1 DEF IInv, ReaderInv, IdleInv, WantedInv, CauseInv
  <2>3. FetchedInv(r)'
    <3>1. \A i \in Needed(sel[r]) : ~(at[r] <= i)
      BY <2>1, NeededFacts, RecordFacts DEF IInv, TypeOK
    <3> QED BY <2>1, <3>1 DEF IInv, ReaderInv, FetchedInv
  <2>4. OutInv(r)'
    <3>1. \A j \in Records : ~(j < 1)
      BY RecordFacts
    <3> QED BY <2>1, <3>1 DEF IInv, ReaderInv, IdleInv, OutInv, IsValueBefore
  <2> QED BY <2>2, <2>3, <2>4 DEF ReaderInv
<1>3. ASSUME NEW x \in Readers, x # r PROVE ReaderInv(x)'
  BY <1>3, Frame DEF IInv, TypeOK
<1> QED BY <1>1, <1>2, <1>3 DEF IInv

(* Skip preserves the invariant: the record fills no selected cell.        *)
LEMMA SkipInv ==
  ASSUME IInv, NEW r \in Readers, Skip(r)
  PROVE  IInv'
<1> USE DEF Skip
<1>0. at[r] \in Records /\ at[r] \in Nat /\ N \in Nat
  BY RecordFacts
<1>1. TypeOK'
  <2>1. at' \in [Readers -> 1 .. N + 1]
    BY <1>0, RecordFacts DEF IInv, TypeOK
  <2> QED BY <2>1 DEF IInv, TypeOK
<1>2. ReaderInv(r)'
  <2>1. /\ pc[r] = "copy" /\ at'[r] = at[r] + 1
        /\ UNCHANGED <<pc, mode, sel, wanted, fetched, out, result, failed>>
    BY DEF IInv, TypeOK
  <2>2. IdleInv(r)' /\ WantedInv(r)' /\ FetchedInv(r)' /\ CauseInv(r)'
    BY <2>1 DEF IInv, ReaderInv, IdleInv, WantedInv, FetchedInv, CauseInv
  <2>3. OutInv(r)'
    <3>1. ASSUME NEW c \in sel[r] PROVE IsValueBefore(sel[r], c, at[r] + 1, out[r][c])
      <4>1. IsValueBefore(sel[r], c, at[r], out[r][c])
        BY <2>1 DEF IInv, ReaderInv, OutInv
      <4>2. \A j \in Records : j < at[r] + 1 /\ Chunks[j].cell = c => j < at[r]
        BY <1>0, NeededFacts, RecordFacts
      <4>3. \A j \in Records : j < at[r] => j < at[r] + 1
        BY <1>0, RecordFacts
      <4> QED BY <4>1, <4>2, <4>3 DEF IsValueBefore
    <3> QED BY <2>1, <3>1 DEF IInv, ReaderInv, IdleInv, OutInv
  <2> QED BY <2>2, <2>3 DEF ReaderInv
<1>3. ASSUME NEW x \in Readers, x # r PROVE ReaderInv(x)'
  BY <1>3, Frame DEF IInv, TypeOK
<1> QED BY <1>1, <1>2, <1>3 DEF IInv

(* Copying a record it needs moves a read's output on by one record; a     *)
(* chunk of too few bytes is a cause to fail.                              *)
LEMMA UseInv ==
  ASSUME IInv, NEW r \in Readers, pc[r] = "copy", at[r] \in Needed(sel[r]), Use(r, at[r]),
         cache' \subseteq {i \in Records : Decodes(i)},
         UNCHANGED <<mode, sel, wanted, fetched, failed>>
  PROVE  IInv'
<1>0. at[r] \in Records /\ at[r] \in Nat /\ N \in Nat /\ Chunks[at[r]].cell \in sel[r]
  BY RecordFacts, NeededFacts
<1>1. CASE State(at[r]) = "short"
  <2>1. Fail(r, "Short") /\ UNCHANGED <<out, at>>
    BY <1>1 DEF Use
  <2>2. TypeOK'
    BY <2>1 DEF Fail, IInv, TypeOK, Results
  <2>3. ReaderInv(r)'
    <3>1. pc'[r] = "done" /\ result'[r] = "Short"
      BY <2>1 DEF Fail, IInv, TypeOK
    <3>2. CauseInv(r)'
      <4>1. Damaged(r)'
        BY <1>1, <2>1, <3>1 DEF Damaged
      <4> QED BY <4>1 DEF CauseInv
    <3>3. IdleInv(r)' /\ WantedInv(r)' /\ FetchedInv(r)' /\ OutInv(r)'
      BY <2>1, <3>1 DEF IInv, ReaderInv, IdleInv, WantedInv, FetchedInv, OutInv
    <3> QED BY <3>2, <3>3 DEF ReaderInv
  <2>4. ASSUME NEW x \in Readers, x # r PROVE ReaderInv(x)'
    BY <2>1, <2>4, Frame DEF Fail, IInv, TypeOK
  <2> QED BY <2>2, <2>3, <2>4 DEF IInv
<1>2. CASE State(at[r]) # "short"
  <2>0. /\ out' = [out EXCEPT ![r][Chunks[at[r]].cell] = at[r]]
        /\ at' = [at EXCEPT ![r] = at[r] + 1]
        /\ UNCHANGED <<pc, result>>
    BY <1>2 DEF Use
  <2>1. /\ out[r] \in [sel[r] -> Int]
        /\ out'[r] = [out[r] EXCEPT ![Chunks[at[r]].cell] = at[r]]
        /\ DOMAIN out' = Readers /\ \A x \in Readers : x # r => out'[x] = out[x]
        /\ at'[r] = at[r] + 1 /\ \A x \in Readers : x # r => at'[x] = at[x]
    BY <2>0 DEF IInv, TypeOK
  <2>2. TypeOK'
    <3>1. at' \in [Readers -> 1 .. N + 1]
      BY <1>0, <2>0, RecordFacts DEF IInv, TypeOK
    <3>2. out'[r] \in [sel[r] -> Int]
      BY <1>0, <2>1
    <3>3. \A x \in Readers : pc'[x] # "idle" => out'[x] \in [sel'[x] -> Int]
      BY <2>0, <2>1, <3>2 DEF IInv, TypeOK
    <3> QED BY <2>0, <2>1, <3>1, <3>3 DEF IInv, TypeOK
  <2>3. ReaderInv(r)'
    <3>1. IdleInv(r)' /\ WantedInv(r)' /\ FetchedInv(r)' /\ CauseInv(r)'
      BY <2>0 DEF IInv, ReaderInv, IdleInv, WantedInv, FetchedInv, CauseInv
    <3>2. ASSUME NEW c \in sel[r] PROVE IsValueBefore(sel[r], c, at[r] + 1, out'[r][c])
      <4>1. IsValueBefore(sel[r], c, at[r], out[r][c])
        BY DEF IInv, ReaderInv, OutInv
      <4>2. \A j \in Records : j < at[r] + 1 => j < at[r] \/ j = at[r]
        BY <1>0, RecordFacts
      <4>3. \A j \in Records : j < at[r] => j < at[r] + 1
        BY <1>0, RecordFacts
      <4>4. CASE c = Chunks[at[r]].cell
        <5>1. out'[r][c] = at[r]
          BY <2>1, <4>4
        <5>2. at[r] < at[r] + 1 /\ \A j \in Records : j < at[r] + 1 => j <= at[r]
          BY <1>0, RecordFacts
        <5> QED BY <1>0, <4>4, <5>1, <5>2 DEF IsValueBefore
      <4>5. CASE c # Chunks[at[r]].cell
        <5>1. out'[r][c] = out[r][c]
          BY <2>1, <4>5
        <5> QED BY <4>1, <4>2, <4>3, <4>5, <5>1 DEF IsValueBefore
      <4> QED BY <4>4, <4>5
    <3>3. OutInv(r)'
      BY <2>0, <2>1, <3>2 DEF IInv, ReaderInv, IdleInv, OutInv
    <3> QED BY <3>1, <3>3 DEF ReaderInv
  <2>4. ASSUME NEW x \in Readers, x # r PROVE ReaderInv(x)'
    BY <2>0, <2>1, <2>4, Frame DEF IInv
  <2> QED BY <2>2, <2>3, <2>4 DEF IInv
<1> QED BY <1>1, <1>2

(* CopyHeld preserves the invariant.                                       *)
LEMMA CopyHeldInv ==
  ASSUME IInv, NEW r \in Readers, CopyHeld(r)
  PROVE  IInv'
BY UseInv DEF CopyHeld, IInv, TypeOK

(* CopyDecoded preserves the invariant: a synchronous read decodes again   *)
(* whatever the cache has dropped.                                         *)
LEMMA CopyDecodedInv ==
  ASSUME IInv, NEW r \in Readers, CopyDecoded(r)
  PROVE  IInv'
<1>0. /\ pc[r] = "copy" /\ at[r] \in Needed(sel[r]) /\ ~mode[r].async /\ at[r] \in Records
      /\ UNCHANGED <<mode, sel, wanted, fetched>>
  BY NeededFacts DEF CopyDecoded
<1>1. CASE /\ Decodes(at[r]) /\ Use(r, at[r]) /\ UNCHANGED failed
           /\ cache' = IF mode[r].cached THEN cache \cup {at[r]} ELSE cache
  <2>1. cache' \subseteq {i \in Records : Decodes(i)}
    BY <1>0, <1>1 DEF IInv, TypeOK
  <2> QED BY <1>0, <1>1, <2>1, UseInv
<1>2. CASE State(at[r]) = "corrupt" /\ Fail(r, "Decode") /\ UNCHANGED <<cache, out, at, failed>>
  <2>1. result'[r] = "Decode"
    BY <1>2 DEF Fail, IInv, TypeOK
  <2>2. Damaged(r)'
    BY <1>0, <1>2, <2>1 DEF Damaged
  <2>3. CauseInv(r)'
    BY <2>2 DEF CauseInv
  <2> QED BY <1>0, <1>2, <2>3, FailInv DEF IInv, TypeOK
<1>4. CASE State(at[r]) = "unwritten" /\ Fail(r, "Short") /\ UNCHANGED <<cache, out, at, failed>>
  <2>1. result'[r] = "Short"
    BY <1>4 DEF Fail, IInv, TypeOK
  <2>2. UnwrittenIsFatal(r)'
    BY <1>0, <1>4, <2>1 DEF UnwrittenIsFatal
  <2>3. CauseInv(r)'
    BY <2>2 DEF CauseInv
  <2> QED BY <1>0, <1>4, <2>3, FailInv DEF IInv, TypeOK
<1>3. CASE /\ Fail(r, "Source")
           /\ failed' = [failed EXCEPT ![r] = State(at[r]) # "outside"]
           /\ UNCHANGED <<cache, out, at>>
  <2>1. failed' \in [Readers -> BOOLEAN] /\ \A x \in Readers : x # r => failed'[x] = failed[x]
    BY <1>3 DEF IInv, TypeOK
  <2>2. failed'[r] \/ State(at[r]) = "outside"
    BY <1>3 DEF IInv, TypeOK
  <2>3. result'[r] = "Source"
    BY <1>3 DEF Fail, IInv, TypeOK
  <2>4. Damaged(r)'
    BY <1>0, <1>3, <2>2, <2>3 DEF Damaged
  <2>5. CauseInv(r)'
    BY <2>4 DEF CauseInv
  <2> QED BY <1>0, <1>3, <2>1, <2>5, FailInv
<1> QED BY <1>1, <1>2, <1>3, <1>4 DEF CopyDecoded, Decodes

(* CopyMissing preserves the invariant: an asynchronous read lacks only a  *)
(* chunk that it did not fetch because the cache reported it.              *)
LEMMA CopyMissingInv ==
  ASSUME IInv, NEW r \in Readers, CopyMissing(r)
  PROVE  IInv'
<1> USE DEF CopyMissing
<1>1. at[r] \notin wanted[r]
  BY DEF IInv, ReaderInv, FetchedInv, Held
<1>2. mode[r].cached \/ State(at[r]) = "unwritten"
  BY <1>1 DEF IInv, ReaderInv, WantedInv
<1>3. result'[r] = "Missing"
  BY DEF Fail, IInv, TypeOK
<1>4. LostToEviction(r)' \/ UnwrittenIsFatal(r)'
  BY <1>1, <1>2, <1>3 DEF LostToEviction, UnwrittenIsFatal
<1>5. CauseInv(r)'
  BY <1>4 DEF CauseInv
<1> QED BY <1>5, FailInv DEF IInv, TypeOK

(* What the output holds after the last record is the value of every cell: *)
(* where no record fills a cell the chunks do not cover the selection, and *)
(* the output started from the fill value.                                 *)
LEMMA ValueAtEnd ==
  ASSUME NEW s, NEW c \in s, NEW v, IsValueBefore(s, c, N + 1, v)
  PROVE  IsValueOf(c, v)
<1>1. \A j \in Records : j < N + 1
  BY RecordFacts
<1>2. CASE v = Initial(s) /\ \A j \in Records : Chunks[j].cell # c
  <2>1. ~Covered(s)
    BY <1>2 DEF Covered
  <2> QED BY <1>2, <2>1 DEF Initial, IsValueOf
<1> QED BY <1>1, <1>2 DEF IsValueBefore, IsValueOf

(* EndCopy preserves the invariant.                                        *)
LEMMA EndCopyInv ==
  ASSUME IInv, NEW r \in Readers, EndCopy(r)
  PROVE  IInv'
<1> USE DEF EndCopy
<1>0. at[r] = N + 1
  <2>1. at[r] \in 1 .. N + 1 /\ at[r] > N /\ N \in Nat
    BY RecordFacts DEF IInv, TypeOK
  <2> QED BY <2>1
<1>1. TypeOK'
  BY DEF IInv, TypeOK, Results
<1>2. ReaderInv(r)'
  <2>1. pc[r] = "copy" /\ pc'[r] = "done" /\ result'[r] = "ok"
    BY DEF IInv, TypeOK
  <2>2. \A c \in sel[r] : IsValueOf(c, out[r][c])
    BY <1>0, ValueAtEnd DEF IInv, ReaderInv, OutInv
  <2> QED
    BY <2>1, <2>2 DEF IInv, ReaderInv, IdleInv, WantedInv, FetchedInv, OutInv, CauseInv
<1>3. ASSUME NEW x \in Readers, x # r PROVE ReaderInv(x)'
  BY <1>3, Frame DEF IInv, TypeOK
<1> QED BY <1>1, <1>2, <1>3 DEF IInv

(* Return and Cancel preserve the invariant.                               *)
LEMMA LeaveInv ==
  ASSUME IInv, NEW r \in Readers, Leave(r)
  PROVE  IInv'
<1> USE DEF Leave
<1>1. TypeOK'
  BY RecordFacts DEF IInv, TypeOK, NoMode, Results
<1>2. ReaderInv(r)'
  <2>1. /\ pc'[r] = "idle" /\ at'[r] = 1 /\ wanted'[r] = {} /\ sel'[r] = {} /\ result'[r] = "none"
    BY DEF IInv, TypeOK
  <2> QED BY <2>1 DEF ReaderInv, IdleInv, WantedInv, FetchedInv, OutInv, CauseInv
<1>3. ASSUME NEW x \in Readers, x # r PROVE ReaderInv(x)'
  BY <1>3, Frame DEF IInv, TypeOK
<1> QED BY <1>1, <1>2, <1>3 DEF IInv

(* Every step preserves the invariant.                                     *)
LEMMA NextInv == IInv /\ [Next]_vars => IInv'
<1> SUFFICES ASSUME IInv, [Next]_vars PROVE IInv'
  OBVIOUS
<1>1. ASSUME NEW r \in Readers, NEW m \in Modes[r], NEW s \in Selections[r], Call(r, m, s)
      PROVE  IInv'
  BY <1>1, CallInv
<1>2. ASSUME NEW r \in Readers, Step(r) PROVE IInv'
  BY <1>2, CheckInv, EndCheckInv, BatchArrivesInv, BatchFailsInv, DecodeInv, EndDecodeInv,
     SkipInv, CopyHeldInv, CopyDecodedInv, CopyMissingInv, EndCopyInv
  DEF Step
<1>3. ASSUME NEW r \in Readers, Return(r) \/ Cancel(r) PROVE IInv'
  BY <1>3, LeaveInv DEF Return, Cancel
<1>4. ASSUME NEW i \in Records, Evict(i) \/ Insert(i) PROVE IInv'
  BY <1>4, Shared DEF Evict, Insert, IInv, TypeOK
<1>5. CASE Clear
  BY <1>5, Shared DEF Clear
<1>6. CASE UNCHANGED vars
  BY <1>6, Shared DEF vars, IInv, TypeOK
<1> QED BY <1>1, <1>2, <1>3, <1>4, <1>5, <1>6 DEF Next

(* Every reachable state satisfies the inductive invariant.                *)
THEOREM Invariance == Spec => []IInv
BY InitInv, NextInv, PTL DEF Spec

(* The variables keep their types, and the shared cache only ever holds    *)
(* chunks that decode (cache.rs, ChunkCache; read.rs:880-1205).            *)
THEOREM TypeCorrect == Spec => []TypeOK
<1>1. IInv => TypeOK
  BY DEF IInv
<1> QED BY <1>1, Invariance, PTL

(* A read that succeeds has the value of every cell it selects, in both    *)
(* engines, whatever the cache drops or others insert (read.rs:672-677,    *)
(* 880-969, 1136-1205).                                                    *)
THEOREM ValuesProved == Spec => []ValuesCorrect
<1>1. IInv => ValuesCorrect
  BY DEF IInv, ReaderInv, OutInv, ValuesCorrect
<1> QED BY <1>1, Invariance, PTL

(* A read fails only for the source or a damaged chunk that it needs, in   *)
(* the way it reports, or in one of three cases in which the code departs  *)
(* from its documents: a chunk evicted between the asynchronous check and  *)
(* the copy, an unreachable chunk of the read-ahead, a record of size zero *)
(* (read.rs:880-969, 1126-1205).                                           *)
THEOREM FailuresExplained == Spec => []FailureHasCause
<1>1. IInv => FailureHasCause
  BY DEF IInv, ReaderInv, IdleInv, CauseInv, FailureHasCause
<1> QED BY <1>1, Invariance, PTL
================================================================================
