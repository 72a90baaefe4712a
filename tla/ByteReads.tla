------------------------------- MODULE ByteReads -------------------------------
(***************************************************************************)
(* What any positional reader of this library promises: a read of a range  *)
(* answers with exactly the file's bytes of that range, or with an error,  *)
(* and a range that does not lie inside the file is always an error.       *)
(*                                                                         *)
(* The page cache (PageCache) is shown to implement this specification:    *)
(* its pages, evictions, racing fills and short answers are invisible to   *)
(* the caller except as errors.                                            *)
(***************************************************************************)
EXTENDS Naturals, Sequences

CONSTANTS
  File,      (* the bytes of the file, a sequence                          *)
  Readers,   (* the threads or tasks that read                             *)
  Requests   (* Requests[r]: the [offset, len] ranges reader r asks for    *)

VARIABLES
  phase,     (* phase[r]: "idle", "pending" or "done"                      *)
  request,   (* request[r]: the range r asked for                          *)
  answer     (* answer[r]: what r got, [ok |-> BOOLEAN, bytes |-> Seq]     *)

vars == <<phase, request, answer>>

Size == Len(File)

(* The bytes of the file from offset (counted from 0), len of them.        *)
Slice(offset, len) == SubSeq(File, offset + 1, offset + len)

InFile(q) == q.len = 0 \/ q.offset + q.len <= Size

NoRequest == [offset |-> 0, len |-> 0]

Failure == [ok |-> FALSE, bytes |-> <<>>]

Exactly(q) == [ok |-> TRUE, bytes |-> Slice(q.offset, q.len)]

Init ==
  /\ phase = [r \in Readers |-> "idle"]
  /\ request = [r \in Readers |-> NoRequest]
  /\ answer = [r \in Readers |-> Failure]

(* A reader asks for a range.                                              *)
Ask(r, q) ==
  /\ phase[r] = "idle"
  /\ phase' = [phase EXCEPT ![r] = "pending"]
  /\ request' = [request EXCEPT ![r] = q]
  /\ UNCHANGED answer

(* The answer: the exact bytes, which only a range inside the file has, or *)
(* a failure.                                                              *)
Answer(r) ==
  /\ phase[r] = "pending"
  /\ phase' = [phase EXCEPT ![r] = "done"]
  /\ \/ answer' = [answer EXCEPT ![r] = Failure]
     \/ InFile(request[r]) /\ answer' = [answer EXCEPT ![r] = Exactly(request[r])]
  /\ UNCHANGED request

(* A caller takes the answer, or drops a read it no longer wants.          *)
Leave(r) ==
  /\ phase[r] \in {"pending", "done"}
  /\ phase' = [phase EXCEPT ![r] = "idle"]
  /\ request' = [request EXCEPT ![r] = NoRequest]
  /\ answer' = [answer EXCEPT ![r] = Failure]

Next == \E r \in Readers :
          \/ \E q \in Requests[r] : Ask(r, q)
          \/ Answer(r)
          \/ Leave(r)

Spec == Init /\ [][Next]_vars
================================================================================
