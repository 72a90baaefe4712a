------------------------------- MODULE FileIndex -------------------------------
(***************************************************************************)
(* The open of an HDF5 file: from_source_reusing() and build_group() in    *)
(* crates/oxcdf-hdf5/src/index.rs, with the object headers they read       *)
(* (objheader.rs), the old-style group storage (btree1.rs,                 *)
(* symbol_table.rs) and the committed datatypes (message/mod.rs).  The     *)
(* walk follows every hard link from the root group, depth first, and      *)
(* lists the groups and datasets with their attributes.                    *)
(*                                                                         *)
(* The calls in progress are a stack of frames.  An object header is a     *)
(* first block and the continuation blocks its messages lead to; a block   *)
(* that cannot be read, or whose signature or checksum is wrong, is        *)
(* damaged.  The dense storage of links and attributes appears by what     *)
(* dense.rs returns for it.                                                *)
(***************************************************************************)
EXTENDS Integers, Sequences, FiniteSets, SequencesExt

CONSTANTS
  Files,      (* the files that may be opened                              *)
  MaxDepth,   (* MAX_DEPTH: the deepest group, the root being 0            *)
  MaxBlocks,  (* MAX_CONTINUATION_BLOCKS                                   *)
  MaxNodes,   (* MAX_NODES of a group B-tree                               *)
  MaxHops     (* MAX_SHARED_HOPS: committed datatypes followed             *)

ASSUME BoundsAssumption ==
  /\ MaxDepth \in Nat /\ MaxBlocks \in Nat \ {0}
  /\ MaxNodes \in Nat /\ MaxHops \in Nat \ {0}

(* The undefined address.                                                  *)
Undefined == 0

(* A file has a root address and, by address:                              *)
(*   blocks  [version, ok, messages], of object headers;                   *)
(*   nodes   [level, ok, children], of group B-trees;                      *)
(*   tables  [ok, entries], the symbol table nodes, of [name, to].         *)
(* A message has a kind, ok if it parses, and by its kind                  *)
(*   cont      to, the next block        attribute  name                   *)
(*   link      name, to                  attributes names, complete: dense *)
(*   links     links, dense              datatype   to, if it is shared    *)
(*   table     to, the B-tree                                              *)
(* "to" is Undefined for a soft link and a datatype that is not shared.    *)
Entry == [name : STRING, to : Nat]
Message ==
  [kind : {"cont", "table", "datatype"}, ok : BOOLEAN, to : Nat]
    \cup [kind : {"link"}, ok : BOOLEAN, name : STRING, to : Nat]
    \cup [kind : {"links"}, ok : BOOLEAN, links : Seq(Entry)]
    \cup [kind : {"attribute"}, ok : BOOLEAN, name : STRING]
    \cup [kind : {"attributes"}, ok : BOOLEAN, names : Seq(STRING), complete : BOOLEAN]
    \cup [kind : {"layout", "dataspace", "pipeline", "fill"}, ok : BOOLEAN]

IsFile(f) ==
  /\ f.root \in Nat \ {Undefined}
  /\ IsFiniteSet(DOMAIN f.blocks) /\ IsFiniteSet(DOMAIN f.nodes)
  /\ \A b \in DOMAIN f.blocks :
       f.blocks[b] \in [version : {1, 2}, ok : BOOLEAN, messages : Seq(Message)]
  /\ \A n \in DOMAIN f.nodes :
       f.nodes[n] \in [level : Nat, ok : BOOLEAN, children : Seq(Nat)]
  /\ \A t \in DOMAIN f.tables : f.tables[t] \in [ok : BOOLEAN, entries : Seq(Entry)]

ASSUME FilesAssumption == \A f \in Files : IsFile(f)

VARIABLES
  file,     (* the file, which does not change                             *)
  pc,       (* "enter", "block", "node", "child", "done" or "failed"       *)
  frames,   (* the groups being built: [addr, path, children, attributes,  *)
            (* complete], innermost first                                  *)
  visited,  (* the groups entered                                          *)
  reading,  (* the object header being read: [addr, for]                   *)
  queue,    (* blocks, or B-tree nodes, still to be read, next one first   *)
  seen,     (* those read                                                  *)
  blocks,   (* the blocks counted against the limit                        *)
  messages, (* the messages of the header so far                           *)
  leaves,   (* the symbol table nodes found                                *)
  dataset,  (* the dataset whose shared datatype is looked up, and hops    *)
  index     (* the groups and datasets finished                            *)

walk == <<frames, visited, index>>
vars == <<file, pc, frames, visited, reading, queue, seen, blocks, messages, leaves, dataset, index>>

--------------------------------------------------------------------------------
(* Object headers.                                                         *)

(* The elements of s that are in S, in order.                              *)
Keep(s, S) ==
  LET kept[n \in 0 .. Len(s)] ==
        IF n = 0 THEN <<>>
        ELSE IF s[n] \in S THEN Append(kept[n - 1], s[n]) ELSE kept[n - 1]
  IN  kept[Len(s)]

Of(ms, kind) == Keep(ms, {m \in ToSet(ms) : m.kind = kind})
Has(ms, kind) == Of(ms, kind) # <<>>
First(ms, kind) == Of(ms, kind)[1]
ParsesFirst(ms, kind) == Has(ms, kind) => First(ms, kind).ok

Frame(a, path) == [addr |-> a, path |-> path, children |-> <<>>,
                   attributes |-> <<>>, complete |-> TRUE]

(* Mutant: the messages of the header before stay.                         *)
ReadHeaderKeeps(a, for) ==
  /\ pc' = "block"
  /\ reading' = [addr |-> a, for |-> for]
  /\ queue' = <<a>>
  /\ seen' = {}
  /\ blocks' = IF a \in DOMAIN file.blocks /\ file.blocks[a].version = 2 THEN -1 ELSE 0
  /\ UNCHANGED messages

(* ObjectHeader::read() begins.  The first block of a version 2 header     *)
(* does not count against the limit.                                       *)
ReadHeader(a, for) ==
  /\ pc' = "block"
  /\ reading' = [addr |-> a, for |-> for]
  /\ queue' = <<a>>
  /\ seen' = {}
  /\ blocks' = IF a \in DOMAIN file.blocks /\ file.blocks[a].version = 2 THEN -1 ELSE 0
  /\ messages' = <<>>

Readable(f, b) == b \in DOMAIN f.blocks /\ f.blocks[b].ok

Init ==
  /\ file \in Files
  /\ pc = "enter"
  /\ frames = <<Frame(file.root, <<>>)>>
  /\ visited = {}
  /\ reading = [addr |-> file.root, for |-> "group"]
  /\ queue = <<>>
  /\ seen = {}
  /\ blocks = 0
  /\ messages = <<>>
  /\ leaves = <<>>
  /\ dataset = <<>>
  /\ index = <<>>

Fail ==
  /\ pc' = "failed"
  /\ UNCHANGED <<file, frames, visited, reading, queue, seen, blocks, messages, leaves, dataset,
                 index>>

BlockReads(b) ==
  /\ blocks < MaxBlocks
  /\ b \notin seen
  /\ Readable(file, b)
  /\ \A i \in DOMAIN file.blocks[b].messages :
       file.blocks[b].messages[i].kind = "cont" => file.blocks[b].messages[i].to # Undefined

(* The messages a block adds to the header.                                *)
Framed(ms) == Keep(ms, {m \in ToSet(ms) : m.kind # "cont"})

(* Where its continuations lead, the last one first.                       *)
Targets(ms) ==
  LET conts == Of(ms, "cont")
  IN  Reverse([i \in DOMAIN conts |-> conts[i].to])

(* Mutant: only the first continuation of a block is followed.             *)
ReadBlockFirst ==
  LET b  == Head(queue)
      ms == file.blocks[b].messages
  IN  /\ pc = "block" /\ queue # <<>>
      /\ BlockReads(b)
      /\ blocks' = blocks + 1
      /\ seen' = seen \cup {b}
      /\ messages' = messages \o Framed(ms)
      /\ queue' = IF Has(ms, "cont") THEN <<First(ms, "cont").to>> ELSE Tail(queue)
      /\ UNCHANGED <<file, pc, reading, leaves, dataset, walk>>

(* The block on top of the stack is read and its messages are framed; its  *)
(* continuations are pushed, so that the last one comes next.              *)
ReadBlock ==
  LET b  == Head(queue)
      ms == file.blocks[b].messages
  IN  /\ pc = "block" /\ queue # <<>>
      /\ BlockReads(b)
      /\ blocks' = blocks + 1
      /\ seen' = seen \cup {b}
      /\ messages' = messages \o Framed(ms)
      /\ queue' = Targets(ms) \o Tail(queue)
      /\ UNCHANGED <<file, pc, reading, leaves, dataset, walk>>

BlockFails ==
  /\ pc = "block" /\ queue # <<>>
  /\ ~BlockReads(Head(queue))
  /\ Fail

HeaderRead(for) == pc = "block" /\ queue = <<>> /\ reading.for = for

(* read_attributes(): an inline attribute that does not parse is skipped,  *)
(* and only the dense ones say whether the list is complete.               *)
AttributesRead(ms) == ParsesFirst(ms, "attributes")
Attributes(ms) ==
  LET good == Keep(ms, {m \in ToSet(ms) : m.kind = "attribute" /\ m.ok})
  IN  [i \in DOMAIN good |-> good[i].name]
        \o IF Has(ms, "attributes") THEN First(ms, "attributes").names ELSE <<>>
AttributesComplete(ms) == Has(ms, "attributes") => First(ms, "attributes").complete

--------------------------------------------------------------------------------
(* Groups.                                                                 *)

(* Mutant: the depth limit is taken for the number of levels.              *)
MayEnterBelow(a) == Len(frames) <= MaxDepth /\ a \notin visited

(* build_group() goes on unless the group is too deep or was entered.      *)
MayEnter(a) == Len(frames) - 1 <= MaxDepth /\ a \notin visited

Enter ==
  LET a == Head(frames).addr IN
  /\ pc = "enter"
  /\ MayEnter(a)
  /\ visited' = visited \cup {a}
  /\ ReadHeader(a, "group")
  /\ UNCHANGED <<file, frames, leaves, dataset, index>>

EnterFails ==
  /\ pc = "enter"
  /\ ~MayEnter(Head(frames).addr)
  /\ Fail

(* The links of a new-style group: inline, then dense, hard ones only.     *)
Links(ms) ==
  LET inline == Of(ms, "link")
      all == [i \in DOMAIN inline |-> [name |-> inline[i].name, to |-> inline[i].to]]
               \o IF Has(ms, "links") THEN First(ms, "links").links ELSE <<>>
  IN  Keep(all, {l \in ToSet(all) : l.to # Undefined})

LinksRead(ms) ==
  /\ \A i \in DOMAIN ms : ms[i].kind = "link" => ms[i].ok
  /\ ParsesFirst(ms, "links")

(* The group knows its attributes and children.                            *)
Begin(children) ==
  [frames EXCEPT ![1].children = children,
                 ![1].attributes = Attributes(messages),
                 ![1].complete = AttributesComplete(messages)]

NewStyleGroup ==
  /\ HeaderRead("group")
  /\ ~Has(messages, "table")
  /\ AttributesRead(messages) /\ LinksRead(messages)
  /\ frames' = Begin(Links(messages))
  /\ pc' = "child"
  /\ UNCHANGED <<file, visited, reading, queue, seen, blocks, messages, leaves, dataset, index>>

(* An old-style group: its B-tree is walked first.                         *)
OldStyleGroup ==
  /\ HeaderRead("group")
  /\ Has(messages, "table") /\ First(messages, "table").ok
  /\ AttributesRead(messages)
  /\ pc' = "node"
  /\ queue' = <<First(messages, "table").to>>
  /\ seen' = {}
  /\ leaves' = <<>>
  /\ UNCHANGED <<file, reading, blocks, messages, dataset, walk>>

GroupFails ==
  /\ HeaderRead("group")
  /\ \/ ~AttributesRead(messages)
     \/ Has(messages, "table") /\ ~First(messages, "table").ok
     \/ ~Has(messages, "table") /\ ~LinksRead(messages)
  /\ Fail

NodeReads(n) == Cardinality(seen) <= MaxNodes /\ n \in DOMAIN file.nodes /\ file.nodes[n].ok

(* read_group_node_addresses(): the children of a leaf are symbol table    *)
(* nodes, those of another node are pushed.                                *)
ReadNode ==
  LET n == Head(queue)
      node == file.nodes[n]
  IN  /\ pc = "node" /\ queue # <<>>
      /\ n \notin seen
      /\ NodeReads(n)
      /\ seen' = seen \cup {n}
      /\ leaves' = IF node.level = 0 THEN leaves \o node.children ELSE leaves
      /\ queue' = (IF node.level = 0 THEN <<>> ELSE Reverse(node.children)) \o Tail(queue)
      /\ UNCHANGED <<file, pc, reading, blocks, messages, dataset, walk>>

(* A node that was read is passed over.                                    *)
SkipNode ==
  /\ pc = "node" /\ queue # <<>>
  /\ Cardinality(seen) <= MaxNodes /\ Head(queue) \in seen
  /\ queue' = Tail(queue)
  /\ UNCHANGED <<file, pc, reading, seen, blocks, messages, leaves, dataset, walk>>

TableReads(f, t) == t \in DOMAIN f.tables /\ f.tables[t].ok

(* The entries of symbol table nodes; one without an address is a soft     *)
(* link.                                                                   *)
Entries(f, ts) ==
  LET all == FlattenSeq([i \in DOMAIN ts |-> f.tables[ts[i]].entries])
  IN  Keep(all, {e \in ToSet(all) : e.to # Undefined})

(* The symbol table nodes list the children.                               *)
ReadTables ==
  /\ pc = "node" /\ queue = <<>>
  /\ \A i \in DOMAIN leaves : TableReads(file, leaves[i])
  /\ frames' = Begin(Entries(file, leaves))
  /\ pc' = "child"
  /\ UNCHANGED <<file, visited, reading, queue, seen, blocks, messages, leaves, dataset, index>>

TableFails ==
  /\ pc = "node"
  /\ IF queue = <<>> THEN \E i \in DOMAIN leaves : ~TableReads(file, leaves[i])
     ELSE Cardinality(seen) > MaxNodes \/ (Head(queue) \notin seen /\ ~NodeReads(Head(queue)))
  /\ Fail

--------------------------------------------------------------------------------
(* Children.                                                               *)

Child == Head(Head(frames).children)
ChildPath == Append(Head(frames).path, Child.name)
ChildDone == [frames EXCEPT ![1].children = Tail(@)]

(* The header of the next child is read, to tell what it is.               *)
NextChild ==
  /\ pc = "child"
  /\ Head(frames).children # <<>>
  /\ ReadHeader(Child.to, "child")
  /\ UNCHANGED <<file, leaves, dataset, walk>>

IsDataset(ms) == Has(ms, "layout")
IsCommittedDatatype(ms) == Has(ms, "datatype") /\ ~IsDataset(ms)

(* build_dataset(): the messages it parses.                                *)
DatasetReads(ms) ==
  /\ Has(ms, "datatype") /\ First(ms, "datatype").ok
  /\ \A kind \in {"dataspace", "layout", "pipeline", "fill"} : ParsesFirst(ms, kind)
  /\ AttributesRead(ms)

Dataset(type) ==
  [kind |-> "dataset", path |-> ChildPath, addr |-> reading.addr, type |-> type,
   attributes |-> Attributes(messages), complete |-> AttributesComplete(messages)]

DatasetChild ==
  /\ HeaderRead("child")
  /\ IsDataset(messages) /\ DatasetReads(messages)
  /\ First(messages, "datatype").to = Undefined
  /\ index' = Append(index, Dataset(reading.addr))
  /\ frames' = ChildDone
  /\ pc' = "child"
  /\ UNCHANGED <<file, visited, reading, queue, seen, blocks, messages, leaves, dataset>>

(* The datatype is in an object of its own.                                *)
SharedDatatype ==
  /\ HeaderRead("child")
  /\ IsDataset(messages) /\ DatasetReads(messages)
  /\ First(messages, "datatype").to # Undefined
  /\ dataset' = <<Dataset(Undefined), 1>>
  /\ ReadHeader(First(messages, "datatype").to, "type")
  /\ UNCHANGED <<file, leaves, walk>>

TypeReads(ms) == Has(ms, "datatype") /\ First(ms, "datatype").ok

DatatypeFound ==
  /\ HeaderRead("type")
  /\ TypeReads(messages)
  /\ First(messages, "datatype").to = Undefined
  /\ index' = Append(index, [dataset[1] EXCEPT !.type = reading.addr])
  /\ frames' = ChildDone
  /\ pc' = "child"
  /\ UNCHANGED <<file, visited, reading, queue, seen, blocks, messages, leaves, dataset>>

(* Mutant: the hops are not counted.                                       *)
NextDatatypeForever ==
  /\ HeaderRead("type")
  /\ TypeReads(messages)
  /\ First(messages, "datatype").to # Undefined
  /\ ReadHeader(First(messages, "datatype").to, "type")
  /\ UNCHANGED <<file, leaves, dataset, walk>>

(* The object holds a pointer to another one: follow it.                   *)
NextDatatype ==
  /\ HeaderRead("type")
  /\ TypeReads(messages)
  /\ First(messages, "datatype").to # Undefined
  /\ dataset[2] < MaxHops
  /\ dataset' = [dataset EXCEPT ![2] = @ + 1]
  /\ ReadHeader(First(messages, "datatype").to, "type")
  /\ UNCHANGED <<file, leaves, walk>>

DatasetFails ==
  /\ \/ HeaderRead("child") /\ IsDataset(messages) /\ ~DatasetReads(messages)
     \/ /\ HeaderRead("type")
        /\ TypeReads(messages) => /\ First(messages, "datatype").to # Undefined
                                  /\ dataset[2] >= MaxHops
  /\ Fail

(* A committed datatype is not listed.                                     *)
CommittedDatatype ==
  /\ HeaderRead("child")
  /\ IsCommittedDatatype(messages)
  /\ frames' = ChildDone
  /\ pc' = "child"
  /\ UNCHANGED <<file, visited, reading, queue, seen, blocks, messages, leaves, dataset, index>>

(* Anything else is a group, whose header is read once more.               *)
GroupChild ==
  /\ HeaderRead("child")
  /\ ~IsDataset(messages) /\ ~IsCommittedDatatype(messages)
  /\ frames' = <<Frame(reading.addr, ChildPath)>> \o ChildDone
  /\ pc' = "enter"
  /\ UNCHANGED <<file, visited, reading, queue, seen, blocks, messages, leaves, dataset, index>>

EndGroup ==
  LET f == Head(frames) IN
  /\ pc = "child"
  /\ f.children = <<>>
  /\ index' = Append(index, [kind |-> "group", path |-> f.path, addr |-> f.addr, type |-> Undefined,
                             attributes |-> f.attributes, complete |-> f.complete])
  /\ frames' = Tail(frames)
  /\ pc' = IF Len(frames) = 1 THEN "done" ELSE "child"
  /\ UNCHANGED <<file, visited, reading, queue, seen, blocks, messages, leaves, dataset>>

Next ==
  \/ Enter \/ EnterFails \/ ReadBlock \/ BlockFails
  \/ NewStyleGroup \/ OldStyleGroup \/ GroupFails
  \/ ReadNode \/ SkipNode \/ ReadTables \/ TableFails
  \/ NextChild \/ DatasetChild \/ SharedDatatype \/ DatatypeFound \/ NextDatatype \/ DatasetFails
  \/ CommittedDatatype \/ GroupChild \/ EndGroup

Spec == Init /\ [][Next]_vars
FairSpec == Spec /\ WF_vars(Next)

--------------------------------------------------------------------------------
(* What a file holds, by definition: no order, no stack.                   *)

(* What S leads to along next, a function from places to sets of places.   *)
Reach(S, next) ==
  LET within[n \in 0 .. Cardinality(DOMAIN next)] ==
        IF n = 0 THEN S
        ELSE LET w == within[n - 1] IN w \cup UNION {next[x] : x \in w \cap DOMAIN next}
  IN  within[Cardinality(DOMAIN next)]

(* The blocks of the object at a.                                          *)
Conts(f, b) == {m \in ToSet(f.blocks[b].messages) : m.kind = "cont"}
BlocksOf(f, a) == Reach({a}, [b \in DOMAIN f.blocks |-> {m.to : m \in Conts(f, b)}])

(* Its messages of one kind, by block and position.                        *)
At(f, k) == f.blocks[k[1]].messages[k[2]]
PlacesIn(f, b) == {<<b, i>> : i \in DOMAIN f.blocks[b].messages}
PlacesOf(f, a, kind) ==
  {k \in UNION {PlacesIn(f, b) : b \in BlocksOf(f, a) \cap DOMAIN f.blocks} : At(f, k).kind = kind}
MessagesOf(f, a, kind) == {At(f, k) : k \in PlacesOf(f, a, kind)}

KindOf(f, a) == IF MessagesOf(f, a, "layout") # {} THEN "dataset"
                ELSE IF MessagesOf(f, a, "datatype") # {} THEN "type" ELSE "group"

(* The nodes of the B-tree of an old-style group.                          *)
Roots(f, a) == {m.to : m \in MessagesOf(f, a, "table")}
NodesOf(f, a) ==
  Reach(Roots(f, a), [n \in DOMAIN f.nodes |->
                        IF f.nodes[n].level > 0 THEN ToSet(f.nodes[n].children) ELSE {}])

LeavesOf(f, a) == {n \in NodesOf(f, a) \cap DOMAIN f.nodes : f.nodes[n].level = 0}
TablesOf(f, a) == UNION {ToSet(f.nodes[n].children) : n \in LeavesOf(f, a)}

LinksOf(f, a) == {[name |-> m.name, to |-> m.to] : m \in MessagesOf(f, a, "link")}
                   \cup UNION {ToSet(m.links) : m \in MessagesOf(f, a, "links")}
EntriesOf(f, a) == UNION {ToSet(f.tables[t].entries) : t \in TablesOf(f, a) \cap DOMAIN f.tables}
ChildrenOf(f, a) ==
  {c \in (IF MessagesOf(f, a, "table") # {} THEN EntriesOf(f, a) ELSE LinksOf(f, a)) :
     c.to # Undefined}

(* The objects that paths of hard links lead to, one level beyond the      *)
(* limit, as <<path, address>>.                                            *)
Below(f, o) == IF KindOf(f, o[2]) = "group"
               THEN {<<Append(o[1], c.name), c.to>> : c \in ChildrenOf(f, o[2])} ELSE {}
Objects(f) ==
  LET at[n \in 0 .. MaxDepth + 1] ==
        IF n = 0 THEN {<<<<>>, f.root>>} ELSE UNION {Below(f, o) : o \in at[n - 1]}
  IN  UNION {at[n] : n \in 0 .. MaxDepth + 1}

(* Where the chain of shared datatypes of a dataset leads.                 *)
Shared(f, a) == {m \in MessagesOf(f, a, "datatype") : m.to # Undefined}
TypeChain(f, a) ==
  LET after[n \in 0 .. MaxHops] ==
        IF n = 0 THEN a
        ELSE IF Shared(f, after[n - 1]) = {} THEN after[n - 1]
             ELSE (CHOOSE m \in Shared(f, after[n - 1]) : TRUE).to
  IN  after

--------------------------------------------------------------------------------
(* What is wrong with a file.                                              *)

Target(f, k) == At(f, k).to

NamedTwice(f, a) ==
  \/ \E k, l \in PlacesOf(f, a, "cont") : k # l /\ Target(f, k) = Target(f, l)
  \/ \E k \in PlacesOf(f, a, "cont") : Target(f, k) = a

BadHeader(f, a) ==
  \/ \E b \in BlocksOf(f, a) : ~Readable(f, b)
  \/ Undefined \in BlocksOf(f, a)
  \/ NamedTwice(f, a)
  \/ Cardinality(BlocksOf(f, a)) > MaxBlocks + f.blocks[a].version - 1

BadMessage(f, a, kinds) == \E kind \in kinds : \E m \in MessagesOf(f, a, kind) : ~m.ok

BadGroup(f, a) ==
  \/ BadMessage(f, a, {"attributes", "table"})
  \/ MessagesOf(f, a, "table") = {} /\ BadMessage(f, a, {"link", "links"})
  \/ Cardinality(NodesOf(f, a)) > MaxNodes + 1
  \/ \E n \in NodesOf(f, a) : n \notin DOMAIN f.nodes \/ ~f.nodes[n].ok
  \/ \E t \in TablesOf(f, a) : ~TableReads(f, t)

BadType(f, a) ==
  BadHeader(f, a) \/ BadMessage(f, a, {"datatype"}) \/ MessagesOf(f, a, "datatype") = {}

BadDataset(f, a) ==
  \/ BadMessage(f, a, {"dataspace", "layout", "pipeline", "fill", "attributes"})
  \/ \E n \in 0 .. MaxHops : BadType(f, TypeChain(f, a)[n])
  \/ Shared(f, TypeChain(f, a)[MaxHops]) # {}

BadObject(f, a) ==
  \/ BadHeader(f, a)
  \/ KindOf(f, a) = "group" /\ BadGroup(f, a)
  \/ KindOf(f, a) = "dataset" /\ BadDataset(f, a)

(* The walk rejects a group with two paths, cyclic or not.                 *)
Rejected(f) ==
  \/ \E o, p \in Objects(f) : o # p /\ o[2] = p[2] /\ KindOf(f, o[2]) = "group"
  \/ \E o \in Objects(f) : Len(o[1]) > MaxDepth /\ KindOf(f, o[2]) = "group"
  \/ \E o \in Objects(f) : BadObject(f, o[2])

(* A B-tree with as many nodes as may be, one of them named twice: whether *)
(* it passes depends on where, for the limit is looked at before a node    *)
(* that was read is passed over.                                           *)
NodePlaces(f, a) ==
  UNION {{<<n, i>> : i \in DOMAIN f.nodes[n].children} :
           n \in {k \in NodesOf(f, a) \cap DOMAIN f.nodes : f.nodes[k].level > 0}}
NodeAt(f, k) == f.nodes[k[1]].children[k[2]]
NodeNamedTwice(f, a) ==
  \/ \E k, l \in NodePlaces(f, a) : k # l /\ NodeAt(f, k) = NodeAt(f, l)
  \/ \E k \in NodePlaces(f, a) : NodeAt(f, k) \in Roots(f, a)
AtNodeLimit(f, a) == Cardinality(NodesOf(f, a)) = MaxNodes + 1 /\ NodeNamedTwice(f, a)

--------------------------------------------------------------------------------
(* What the format asks of a file and the open does not look at.           *)

(* An object has one message of a kind, continuations, links and           *)
(* attributes apart.                                                       *)
OneOfEach(f) ==
  \A a \in DOMAIN f.blocks :
    \A kind \in {"links", "attributes", "datatype", "table", "layout",
                 "dataspace", "pipeline", "fill"} :
      \A m, n \in MessagesOf(f, a, kind) : m = n

(* The links of a group have different names.                              *)
EntryPlaces(f, a) ==
  UNION {UNION {{<<n, i, j>> : j \in DOMAIN f.tables[f.nodes[n].children[i]].entries} :
                  i \in {p \in DOMAIN f.nodes[n].children : f.nodes[n].children[p] \in DOMAIN f.tables}} :
           n \in LeavesOf(f, a)}
EntryAt(f, k) == f.tables[f.nodes[k[1]].children[k[2]]].entries[k[3]]
NamesDiffer(f) ==
  \A a \in DOMAIN f.blocks :
    /\ \A k, l \in PlacesOf(f, a, "link") : At(f, k).name = At(f, l).name => k = l
    /\ \A m \in MessagesOf(f, a, "links") : \A i \in DOMAIN m.links :
         /\ \A j \in DOMAIN m.links : m.links[i].name = m.links[j].name => i = j
         /\ \A k \in PlacesOf(f, a, "link") : At(f, k).name # m.links[i].name
    /\ \A k, l \in EntryPlaces(f, a) : EntryAt(f, k).name = EntryAt(f, l).name => k = l

Conforms(f) == KindOf(f, f.root) = "group" /\ OneOfEach(f) /\ NamesDiffer(f)

--------------------------------------------------------------------------------

(* An open that succeeds lists every group and dataset that a path of hard *)
(* links leads to, once, and nothing else: from_source_reusing(),          *)
(* index.rs:411-442.                                                       *)
IndexIsWhole ==
  pc = "done" =>
    /\ {<<index[i].path, index[i].addr, index[i].kind>> : i \in DOMAIN index}
         = {<<o[1], o[2], KindOf(file, o[2])>> : o \in {p \in Objects(file) : KindOf(file, p[2]) # "type"}}
    /\ Cardinality({index[i].path : i \in DOMAIN index}) = Len(index)

(* An open fails exactly for a file with something wrong on a path the     *)
(* walk takes, and a damaged object no path leads to harms nothing         *)
(* (index.rs:550-618, objheader.rs:160-410).  A B-tree at its limit that   *)
(* names a node twice may pass or fail (btree1.rs:102-110).                *)
OutcomeIsRight ==
  /\ pc = "done" => ~Rejected(file)
  /\ pc = "failed" => \/ Rejected(file)
                      \/ \E o \in Objects(file) :
                           KindOf(file, o[2]) = "group" /\ AtNodeLimit(file, o[2])

(* Every group and dataset has the attributes of its own object header,    *)
(* in all of its blocks, that parse (index.rs:625-644).                    *)
AttributesAreOwn ==
  \A i \in DOMAIN index :
    ToSet(index[i].attributes) =
      {m.name : m \in {k \in MessagesOf(file, index[i].addr, "attribute") : k.ok}}
        \cup UNION {ToSet(m.names) : m \in MessagesOf(file, index[i].addr, "attributes")}

(* The datatype of a dataset is one that an object header holds itself, at *)
(* the end of the dataset's chain (message/mod.rs:68-99).                  *)
TypesResolve ==
  \A i \in DOMAIN index :
    index[i].kind = "dataset" =>
      /\ index[i].type = TypeChain(file, index[i].addr)[MaxHops]
      /\ \A m \in MessagesOf(file, index[i].type, "datatype") : m.to = Undefined

(* Every open ends, however the blocks, B-tree nodes, groups and datatypes *)
(* of a damaged file are chained.                                          *)
OpensEnd == <>(pc \in {"done", "failed"})

(* A departure of the code from its docs: index.rs:207 says that           *)
(* `attributes_complete` is "Whether every attribute was found", and       *)
(* message/mod.rs:169-171 that the count of skipped attributes is returned *)
(* alongside, but build_group() and build_dataset() drop the count         *)
(* (index.rs:627), so an object with an inline attribute that does not     *)
(* parse may be called complete.                                           *)
SkippedInline(f, a) == \E m \in MessagesOf(f, a, "attribute") : ~m.ok

(* Where every inline attribute parses, a list of attributes is called     *)
(* complete exactly when every attribute was found.  For an object of      *)
(* SkippedInline nothing says that it is complete, but a list whose dense  *)
(* part is short is still not called so (index.rs:625-644).                *)
CompleteMeansAll ==
  \A i \in DOMAIN index :
    LET dense == \A m \in MessagesOf(file, index[i].addr, "attributes") : m.complete
    IN  /\ index[i].complete => dense
        /\ dense /\ ~SkippedInline(file, index[i].addr) => index[i].complete

(* What an entry of the index says is what its own object header says:     *)
(* attributes, whether they are all there, and the datatype at the end of  *)
(* its chain (index.rs:550-746).                                           *)
EntriesAreOwn == AttributesAreOwn /\ CompleteMeansAll /\ TypesResolve
================================================================================
