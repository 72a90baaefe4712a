------------------------------- MODULE ChunkWalk -------------------------------
(***************************************************************************)
(* The chunk index of a dataset, resolved on first use: DatasetIndex       *)
(* chunks(), prepare() and resolved_chunks() in                            *)
(* crates/oxcdf-hdf5/src/index.rs, and the walk of a version 1 B-tree,     *)
(* read_chunk_index in btree1.rs.                                          *)
(*                                                                         *)
(* Threads share the OnceLock of a dataset.  Those that find it empty walk *)
(* the tree, each on its own and without a lock, one node a step, and the  *)
(* first to finish sets it.  The file may be damaged: the tree is any      *)
(* graph of nodes, with cycles, shared nodes and nodes that do not parse.  *)
(* A record is the place <<node, position>> its key has in the file: what  *)
(* the walk pushes to its Vec twice is twice in the sequence here.         *)
(***************************************************************************)
EXTENDS Integers, FiniteSets, SequencesExt

CONSTANTS
  Nodes,    (* the addresses of B-tree nodes                               *)
  Trees,    (* the files: [root, kind, kids, recs] records                 *)
  Callers,  (* the threads                                                 *)
  MaxNodes  (* MAX_NODES                                                   *)

(* root is empty for a dataset that was never written.  recs[n] are the    *)
(* offsets of the chunks of a leaf: all that is kept of an offset, a Vec,  *)
(* is its place in the order of all offsets.                               *)
ASSUME TreesAssumption ==
  \A t \in Trees : /\ t.root \in Seq(Nodes) /\ Len(t.root) <= 1
                   /\ t.kind \in [Nodes -> {"leaf", "inner", "bad"}]
                   /\ t.kids \in [Nodes -> Seq(Nodes)]
                   /\ t.recs \in [Nodes -> Seq(Nat)]
ASSUME MaxNodesAssumption == MaxNodes \in Nat

(* The records of a node, and of a file.                                   *)
Records(t, n) == {<<n, i>> : i \in DOMAIN t.recs[n]}
Places(t)     == UNION {Records(t, n) : n \in Nodes}

(* A file has finitely many nodes, which hold finitely many records.       *)
ASSUME FiniteAssumption ==
  /\ IsFiniteSet(Nodes)
  /\ \A t \in Trees : IsFiniteSet(Places(t))

VARIABLES
  tree,    (* the file, which does not change                              *)
  once,    (* the OnceLock: empty, or {s} where s is the index             *)
  pc,      (* pc[c]: where caller c is                                     *)
  stack,   (* stack[c]: the addresses its walk has still to pop            *)
  visited, (* visited[c]: the addresses it has visited                     *)
  out,     (* out[c]: the records it has pushed                            *)
  result,  (* result[c]: how the call ended                                *)
  value,   (* value[c]: the index it returned                              *)
  failed   (* history: the source failed a read of c's                     *)

local == <<pc, stack, visited, out, result, value, failed>>
vars  == <<tree, once, local>>

Init ==
  /\ tree \in Trees
  /\ once = {}
  /\ pc = [c \in Callers |-> "idle"]
  /\ stack = [c \in Callers |-> <<>>]
  /\ visited = [c \in Callers |-> {}]
  /\ out = [c \in Callers |-> <<>>]
  /\ result = [c \in Callers |-> "none"]
  /\ value = [c \in Callers |-> <<>>]
  /\ failed = [c \in Callers |-> FALSE]

End(c, how) ==
  /\ pc' = [pc EXCEPT ![c] = "done"]
  /\ result' = [result EXCEPT ![c] = how]

(* chunks(): the index if it is there, or else a walk from the root.       *)
Chunks(c) ==
  /\ pc[c] = "idle"
  /\ \/ /\ End(c, "ok")
        /\ \E s \in once : value' = [value EXCEPT ![c] = s]
        /\ UNCHANGED stack
     \/ /\ once = {}
        /\ pc' = [pc EXCEPT ![c] = "walk"]
        /\ stack' = [stack EXCEPT ![c] = tree.root]
        /\ UNCHANGED <<result, value>>
  /\ UNCHANGED <<tree, once, visited, out, failed>>

(* resolved_chunks(): the index if it is there, without a walk.            *)
ResolvedChunks(c) ==
  /\ pc[c] = "idle"
  /\ \/ /\ End(c, "ok")
        /\ \E s \in once : value' = [value EXCEPT ![c] = s]
     \/ /\ once = {}
        /\ End(c, "unresolved")
        /\ UNCHANGED value
  /\ UNCHANGED <<tree, once, stack, visited, out, failed>>

(* What pop() returns and leaves, and the check that follows it.           *)
Top(c)  == stack[c][Len(stack[c])]
Rest(c) == SubSeq(stack[c], 1, Len(stack[c]) - 1)

Pops(c)     == pc[c] = "walk" /\ stack[c] # <<>>
TooLarge(c) == Len(out[c]) > MaxNodes \/ Cardinality(visited[c]) > MaxNodes

(* Mutant: a leaf is not remembered, only inner nodes are.                 *)
VisitLeafAgain(c) ==
  /\ Pops(c)
  /\ ~TooLarge(c)
  /\ LET n == Top(c) IN
       /\ tree.kind[n] = "leaf" \/ n \notin visited[c]
       /\ tree.kind[n] # "bad"
       /\ visited' = [visited EXCEPT ![c] = @ \cup {n}]
       /\ out' = [out EXCEPT ![c] = IF tree.kind[n] = "leaf"
                                    THEN @ \o [i \in DOMAIN tree.recs[n] |-> <<n, i>>] ELSE @]
       /\ stack' = [stack EXCEPT ![c] = IF tree.kind[n] = "leaf"
                                        THEN Rest(c) ELSE Rest(c) \o tree.kids[n]]
  /\ UNCHANGED <<tree, once, pc, result, value, failed>>

(* The walk pops an address it has not visited and reads the node there: a *)
(* leaf gives its records, an inner node its children.                     *)
Visit(c) ==
  /\ Pops(c)
  /\ ~TooLarge(c)
  /\ LET n == Top(c) IN
       /\ n \notin visited[c]
       /\ tree.kind[n] # "bad"
       /\ visited' = [visited EXCEPT ![c] = @ \cup {n}]
       /\ out' = [out EXCEPT ![c] = IF tree.kind[n] = "leaf"
                                    THEN @ \o [i \in DOMAIN tree.recs[n] |-> <<n, i>>] ELSE @]
       /\ stack' = [stack EXCEPT ![c] = IF tree.kind[n] = "leaf"
                                        THEN Rest(c) ELSE Rest(c) \o tree.kids[n]]
  /\ UNCHANGED <<tree, once, pc, result, value, failed>>

(* Mutant: a node that is met twice is an error.                           *)
SkipFails(c) ==
  /\ Pops(c)
  /\ ~TooLarge(c)
  /\ Top(c) \in visited[c]
  /\ End(c, "Malformed")
  /\ UNCHANGED <<tree, once, stack, visited, out, value, failed>>

(* Mutant: the address is looked at before it is popped.                   *)
SkipStays(c) ==
  /\ Pops(c)
  /\ ~TooLarge(c)
  /\ Top(c) \in visited[c]
  /\ UNCHANGED vars

(* It pops an address it has visited before.                               *)
Skip(c) ==
  /\ Pops(c)
  /\ ~TooLarge(c)
  /\ Top(c) \in visited[c]
  /\ stack' = [stack EXCEPT ![c] = Rest(c)]
  /\ UNCHANGED <<tree, once, pc, visited, out, result, value, failed>>

(* It fails: too many nodes or records, a node that does not parse, or a   *)
(* read the source refuses.  Nothing is stored.                            *)
WalkFails(c) ==
  /\ Pops(c)
  /\ \/ TooLarge(c) /\ End(c, "TooLarge") /\ UNCHANGED failed
     \/ /\ ~TooLarge(c) /\ Top(c) \notin visited[c] /\ tree.kind[Top(c)] = "bad"
        /\ End(c, "Malformed") /\ UNCHANGED failed
     \/ /\ ~TooLarge(c) /\ Top(c) \notin visited[c]
        /\ End(c, "Source") /\ failed' = [failed EXCEPT ![c] = TRUE]
  /\ UNCHANGED <<tree, once, stack, visited, out, value>>

(* What a stable sort of the records by their offsets makes of them.       *)
Offset(p) == tree.recs[p[1]][p[2]]
Sorts(s)  ==
  {[i \in DOMAIN s |-> s[p[i]]] : p \in {q \in [DOMAIN s -> DOMAIN s] :
     \A i, j \in DOMAIN s :
       i < j => \/ Offset(s[q[i]]) < Offset(s[q[j]])
                \/ Offset(s[q[i]]) = Offset(s[q[j]]) /\ q[i] < q[j]}}

(* The records are sorted and set, unless another caller was faster.       *)
Set(c) ==
  /\ pc[c] = "walk"
  /\ stack[c] = <<>>
  /\ \E s \in Sorts(out[c]) : once' = IF once = {} THEN {s} ELSE once
  /\ pc' = [pc EXCEPT ![c] = "take"]
  /\ UNCHANGED <<tree, stack, visited, out, result, value, failed>>

(* And the index that was set, by whomever, is returned.                   *)
Take(c) ==
  /\ pc[c] = "take"
  /\ End(c, "ok")
  /\ \E s \in once : value' = [value EXCEPT ![c] = s]
  /\ UNCHANGED <<tree, once, stack, visited, out, failed>>

Return(c) ==
  /\ pc[c] = "done"
  /\ pc' = [pc EXCEPT ![c] = "idle"]
  /\ stack' = [stack EXCEPT ![c] = <<>>]
  /\ visited' = [visited EXCEPT ![c] = {}]
  /\ out' = [out EXCEPT ![c] = <<>>]
  /\ result' = [result EXCEPT ![c] = "none"]
  /\ value' = [value EXCEPT ![c] = <<>>]
  /\ failed' = [failed EXCEPT ![c] = FALSE]
  /\ UNCHANGED <<tree, once>>

Walk(c) == Visit(c) \/ Skip(c) \/ WalkFails(c) \/ Set(c) \/ Take(c)

Next == \E c \in Callers : Chunks(c) \/ ResolvedChunks(c) \/ Walk(c) \/ Return(c)

(* A thread that walks goes on: the walk waits for nobody.                 *)
Fairness == \A c \in Callers : WF_vars(Walk(c))

Spec == Init /\ [][Next]_vars /\ Fairness

--------------------------------------------------------------------------------

(* A set of nodes no child leads out of.                                   *)
Closed(t, S) ==
  \A n \in S : t.kind[n] = "inner" => ToSet(t.kids[n]) \subseteq S

(* The nodes a walk of the whole file meets.                               *)
Reachable(t) ==
  {n \in Nodes : \A S \in SUBSET Nodes : ToSet(t.root) \subseteq S /\ Closed(t, S) => n \in S}

(* The chunks of the file: the records of every leaf that can be reached.  *)
Index(t) == UNION {Records(t, n) : n \in {m \in Reachable(t) : t.kind[m] = "leaf"}}

(* A list of records that has each chunk of the file exactly once, in the  *)
(* order of the offsets.                                                   *)
IsIndex(s) ==
  /\ ToSet(s) = Index(tree)
  /\ IsInjective(s)
  /\ \A i, j \in DOMAIN s : i < j => Offset(s[i]) <= Offset(s[j])

(* Types.                                                                  *)
TypeOK ==
  /\ tree \in Trees
  /\ \A s \in once : s \in Seq(Places(tree))
  /\ pc \in [Callers -> {"idle", "walk", "take", "done"}]
  /\ stack \in [Callers -> Seq(Nodes)]
  /\ visited \in [Callers -> SUBSET Nodes]
  /\ out \in [Callers -> Seq(Places(tree))]
  /\ result \in [Callers -> {"none", "ok", "unresolved", "TooLarge", "Malformed", "Source"}]
  /\ value \in [Callers -> Seq(Places(tree))]
  /\ failed \in [Callers -> BOOLEAN]

(* The index that is stored, and every index a caller is given, is the     *)
(* whole index of the file, in order and with nothing twice: no race and   *)
(* no failed walk leaves a part of it behind, a cycle or a shared node     *)
(* neither loses nor repeats a chunk (index.rs:252-259, btree1.rs:52-94).  *)
IndexIsWhole ==
  /\ \A s \in once : IsIndex(s)
  /\ \A c \in Callers : result[c] = "ok" => IsIndex(value[c])

(* A walk fails only if a node it can reach is damaged, the file is as     *)
(* large as the limit, or the source failed this very walk: what happened  *)
(* to another caller, or to an earlier call, is not remembered.            *)
FailureHasCause ==
  \A c \in Callers :
    /\ result[c] = "Malformed" => \E n \in Reachable(tree) : tree.kind[n] = "bad"
    /\ result[c] = "TooLarge" => Cardinality(Reachable(tree)) > MaxNodes
                                 \/ Cardinality(Index(tree)) > MaxNodes
    /\ result[c] = "Source" => failed[c]

(* Every call ends, in a tree with cycles too.                             *)
CallsEnd == \A c \in Callers : pc[c] = "walk" ~> pc[c] = "done"

--------------------------------------------------------------------------------
(* The inductive invariant: what a walk has seen can be reached, what it   *)
(* has not followed yet is on its stack, and what it has pushed is every   *)
(* record of the leaves it has seen, once.                                 *)
Followed(c) == visited[c] \cup ToSet(stack[c])

Pushed(c, V) ==
  /\ ToSet(out[c]) = UNION {Records(tree, n) : n \in {m \in V : tree.kind[m] = "leaf"}}
  /\ IsInjective(out[c])

WalkInv(c) ==
  /\ Followed(c) \subseteq Reachable(tree)
  /\ pc[c] = "walk" => ToSet(tree.root) \subseteq Followed(c)
  /\ \A n \in visited[c] : tree.kind[n] = "inner" => ToSet(tree.kids[n]) \subseteq Followed(c)
  /\ Pushed(c, visited[c])

IInv ==
  /\ TypeOK
  /\ IndexIsWhole
  /\ \A c \in Callers : WalkInv(c)
  /\ \A c \in Callers : pc[c] = "idle" => visited[c] = {}
================================================================================
