-------------------------------- MODULE NcDims --------------------------------
(***************************************************************************)
(* The dimensions of a netCDF-4 file: NcFile::from_hdf5 in                 *)
(* crates/oxcdf/src/netcdf.rs.  It scans the datasets for dimension        *)
(* scales, then builds the groups, children first, and gives every axis of *)
(* every variable the name of a dimension: its own, the one its            *)
(* DIMENSION_LIST refers to, the one _Netcdf4Coordinates numbers, or one   *)
(* of the group's that fits, or else an invented one.                      *)
(*                                                                         *)
(* A name is a pair: <<"name", n>> for a name in the file, of which only   *)
(* the order of the n matters, <<"phony_dim", n>> for an invented one.     *)
(***************************************************************************)
EXTENDS Integers, Sequences, FiniteSets, SequencesExt

CONSTANTS
  Files,   (* the files that may be opened                                 *)
  MaxId    (* the largest dimension number, i64::MAX                       *)

(* An axis of a dataset: its length, whether it may grow, and what the     *)
(* DIMENSION_LIST has for it: nothing, the address of an object, or a heap *)
(* that cannot be read.                                                    *)
Nothing == 0
BadHeap == -1
Axes == [len : Nat, unlimited : BOOLEAN, ref : Int]

(* A dataset: "scale" is its CLASS, "phantom" what its NAME says, "id" its *)
(* _Netcdf4Dimid, if any, "coords" its _Netcdf4Coordinates, empty if it    *)
(* has none.                                                               *)
Datasets == [name : Nat, addr : Nat \ {Nothing}, scale : BOOLEAN, phantom : BOOLEAN,
             id : SUBSET Nat, axes : Seq(Axes), coords : Seq(Nat)]

(* A group: its datasets in the order of the file, and its child groups.   *)
(* A file is a sequence of groups, children after their parents.           *)
Groups == [datasets : Seq(Datasets), groups : Seq(Nat)]

(* GroupIndex owns its children: no group has two parents.                 *)
ASSUME FilesAssumption ==
  \A f \in Files : /\ f \in Seq(Groups) /\ f # <<>>
                   /\ \A g \in DOMAIN f : ToSet(f[g].groups) \subseteq g + 1 .. Len(f)
                   /\ \A g, h \in DOMAIN f :
                        \A i \in DOMAIN f[g].groups, j \in DOMAIN f[h].groups :
                          f[g].groups[i] = f[h].groups[j] => g = h /\ i = j
ASSUME MaxIdAssumption == MaxId \in Nat

VARIABLES
  file,      (* the HDF5 file, which does not change                       *)
  phase,     (* "scan", "groups", "dimensions", "variables", "axes",       *)
             (* "done" or "failed"                                         *)
  pending,   (* the groups the scan has still to list, the next one first  *)
  at,        (* the dataset the scan, or the current group, has come to    *)
  scales,    (* the dimension scales found, by address                     *)
  byId,      (* the address of the scale a number leads to                 *)
  next,      (* the next free number: next_id, then PhonyDims::next        *)
  stack,     (* the groups being built, [group, child], innermost first    *)
  byName,    (* the datasets of the current group, by name                 *)
  dims,      (* the dimensions of the current group                        *)
  named,     (* the names conventions gave to the current variable's axes  *)
  out,       (* the names its first axes have got                          *)
  variables, (* the variables built: [group, axes, named, names]           *)
  built      (* the dimensions of the groups that are built                *)

vars == <<file, phase, pending, at, scales, byId, next, stack, byName, dims, named, out,
          variables, built>>

Named(n) == <<"name", n>>
Phony(n) == <<"phony_dim", n>>
NoName   == <<"none", 0>>

Init ==
  /\ file \in Files
  /\ phase = "scan"
  /\ pending = <<1>>
  /\ at = 1
  /\ scales = <<>>
  /\ byId = <<>>
  /\ next = 0
  /\ stack = <<>>
  /\ byName = <<>>
  /\ dims = <<>>
  /\ named = <<>>
  /\ out = <<>>
  /\ variables = <<>>
  /\ built = <<>>

(* A function with one more value.                                         *)
With(f, x, v) == [y \in DOMAIN f \cup {x} |-> IF y = x THEN v ELSE f[y]]

--------------------------------------------------------------------------------
(* collect_dimension_scales().                                             *)

(* saturating_add(1), and the += 1 of a release build.                     *)
SatInc(n) == IF n = MaxId THEN MaxId ELSE n + 1
Inc(n)    == IF n = MaxId THEN -MaxId - 1 ELSE n + 1

(* The number of a scale, and the next one free: recorded, or handed out.  *)
ScaleId(d) == IF d.id = {} THEN next ELSE CHOOSE id \in d.id : TRUE
NextId(d)  == IF d.id = {} THEN Inc(next)
              ELSE IF next < SatInc(ScaleId(d)) THEN SatInc(ScaleId(d)) ELSE next

(* A scale as the scan records it.  A scalar counts as of length one.      *)
Scale(d) ==
  [name |-> Named(d.name),
   len |-> IF d.axes = <<>> THEN 1 ELSE d.axes[1].len,
   unlimited |-> d.axes # <<>> /\ d.axes[1].unlimited,
   id |-> ScaleId(d),
   variable |-> ~d.phantom]

(* The next dataset of the group being listed.                             *)
Scan ==
  LET ds == file[Head(pending)].datasets
      d  == ds[at]
  IN  /\ phase = "scan"
      /\ pending # <<>>
      /\ at <= Len(ds)
      /\ at' = at + 1
      /\ scales' = IF d.scale THEN With(scales, d.addr, Scale(d)) ELSE scales
      /\ next' = IF d.scale THEN NextId(d) ELSE next
      /\ UNCHANGED <<file, phase, pending, byId, stack, byName, dims, named, out, variables, built>>

(* datasets_recursive(): a group's own datasets, then its children's.      *)
ScanChildren ==
  /\ phase = "scan"
  /\ pending # <<>>
  /\ at > Len(file[Head(pending)].datasets)
  /\ pending' = file[Head(pending)].groups \o Tail(pending)
  /\ at' = 1
  /\ UNCHANGED <<file, phase, scales, byId, next, stack, byName, dims, named, out, variables, built>>

ScaleIds == {scales[a].id : a \in DOMAIN scales}

(* Mutant: invented numbers start at the number of scales.                 *)
EndScanCounts ==
  /\ phase = "scan"
  /\ pending = <<>>
  /\ phase' = "groups"
  /\ byId' \in {b \in [ScaleIds -> DOMAIN scales] : \A id \in ScaleIds : scales[b[id]].id = id}
  /\ next' = Cardinality(DOMAIN scales)
  /\ stack' = <<[group |-> 1, child |-> 1]>>
  /\ UNCHANGED <<file, pending, at, scales, byName, dims, named, out, variables, built>>

(* The scan is over and the walk starts at the root.  Which scale a number *)
(* leads to that two of them have depends on the order of a hash map.      *)
EndScan ==
  /\ phase = "scan"
  /\ pending = <<>>
  /\ phase' = "groups"
  /\ byId' \in {b \in [ScaleIds -> DOMAIN scales] : \A id \in ScaleIds : scales[b[id]].id = id}
  /\ stack' = <<[group |-> 1, child |-> 1]>>
  /\ UNCHANGED <<file, pending, at, scales, next, byName, dims, named, out, variables, built>>

--------------------------------------------------------------------------------
(* build_group().                                                          *)

Group == Head(stack).group

(* What a stable sort makes of a sequence.                                 *)
StableSorts(s, Before(_, _)) ==
  {[i \in DOMAIN s |-> s[p[i]]] : p \in {q \in [DOMAIN s -> DOMAIN s] :
     \A i, j \in DOMAIN s :
       i < j => \/ Before(s[q[i]], s[q[j]])
                \/ ~Before(s[q[j]], s[q[i]]) /\ q[i] < q[j]}}

ByName(g) == StableSorts(file[g].datasets, LAMBDA d, e : d.name < e.name)

(* The dimension a scale stands for.                                       *)
NamedDim(s) ==
  [name |-> s.name, len |-> s.len, unlimited |-> s.unlimited, id |-> s.id, phony |-> FALSE]

(* The next child group is built before anything of this one.              *)
Descend ==
  LET top  == Head(stack)
      kids == file[top.group].groups
  IN  /\ phase = "groups"
      /\ top.child <= Len(kids)
      /\ stack' = <<[group |-> kids[top.child], child |-> 1],
                    [top EXCEPT !.child = @ + 1]>> \o Tail(stack)
      /\ UNCHANGED <<file, phase, pending, at, scales, byId, next, byName, dims, named, out,
                     variables, built>>

(* The children are built: now the group itself, in the order of names.    *)
Begin ==
  /\ phase = "groups"
  /\ Head(stack).child > Len(file[Group].groups)
  /\ phase' = "dimensions"
  /\ byName' \in ByName(Group)
  /\ at' = 1
  /\ UNCHANGED <<file, pending, scales, byId, next, stack, dims, named, out, variables, built>>

Current == byName[at]
IsScale(d) == d.addr \in DOMAIN scales

(* Collect the dimensions the file names, before any variable.             *)
Collect ==
  /\ phase = "dimensions"
  /\ at <= Len(byName)
  /\ at' = at + 1
  /\ dims' = IF IsScale(Current) THEN Append(dims, NamedDim(scales[Current.addr])) ELSE dims
  /\ UNCHANGED <<file, phase, pending, scales, byId, next, stack, byName, named, out, variables, built>>

Collected ==
  /\ phase = "dimensions"
  /\ at > Len(byName)
  /\ phase' = "variables"
  /\ at' = 1
  /\ UNCHANGED <<file, pending, scales, byId, next, stack, byName, dims, named, out, variables, built>>

(* A dimension without a coordinate variable is not a variable.            *)
SkipDimension ==
  /\ phase = "variables"
  /\ at <= Len(byName)
  /\ IsScale(Current) /\ ~scales[Current.addr].variable
  /\ at' = at + 1
  /\ UNCHANGED <<file, phase, pending, scales, byId, next, stack, byName, dims, named, out, variables, built>>

--------------------------------------------------------------------------------
(* build_variable() and resolve_dimensions().                              *)

IsVariable(d) == IsScale(d) => scales[d.addr].variable

(* resolve_from_dimension_list(): a reference to anything but a scale      *)
(* names nothing.                                                          *)
FromList(d) ==
  [i \in DOMAIN d.axes |-> IF d.axes[i].ref \in DOMAIN scales
                           THEN scales[d.axes[i].ref].name ELSE NoName]

(* resolve_from_coordinates(): all of the numbers lead to a scale, or none *)
(* is used, and only the axes still without a name take theirs.            *)
FromCoordinates(d, ns) ==
  IF Len(d.coords) = Len(ns) /\ ToSet(d.coords) \subseteq DOMAIN byId
  THEN [i \in DOMAIN ns |-> IF ns[i] = NoName THEN scales[byId[d.coords[i]]].name ELSE ns[i]]
  ELSE ns

(* What the conventions name.  A scale of one axis is its own dimension,   *)
(* by the name of the dataset.                                             *)
ByConvention(d) ==
  IF IsScale(d) /\ Len(d.axes) = 1 THEN <<Named(d.name)>>
  ELSE FromCoordinates(d, FromList(d))

ListFails(d) ==
  /\ ~(IsScale(d) /\ Len(d.axes) = 1)
  /\ \E i \in DOMAIN d.axes : d.axes[i].ref = BadHeap

StartVariable ==
  /\ phase = "variables"
  /\ at <= Len(byName)
  /\ IsVariable(Current) /\ ~ListFails(Current)
  /\ phase' = "axes"
  /\ named' = ByConvention(Current)
  /\ out' = <<>>
  /\ UNCHANGED <<file, pending, at, scales, byId, next, stack, byName, dims, variables, built>>

(* A heap that cannot be read fails the whole open.                        *)
VariableFails ==
  /\ phase = "variables"
  /\ at <= Len(byName)
  /\ IsVariable(Current) /\ ListFails(Current)
  /\ phase' = "failed"
  /\ UNCHANGED <<file, pending, at, scales, byId, next, stack, byName, dims, named, out, variables, built>>

(* An axis that has a name keeps it.                                       *)
NamedAxis ==
  LET i == Len(out) + 1 IN
  /\ phase = "axes"
  /\ i <= Len(named)
  /\ named[i] # NoName
  /\ out' = Append(out, named[i])
  /\ UNCHANGED <<file, phase, pending, at, scales, byId, next, stack, byName, dims, named, variables, built>>

(* Mutant: a dimension that grows serves an axis that does not.            *)
FitsLength(i, axis) == dims[i].len = axis.len /\ dims[i].name \notin ToSet(out)

(* PhonyDims::resolve(): a dimension of the group fits if its length and   *)
(* growth match and no earlier axis of the variable has it.                *)
Fits(i, axis) ==
  /\ dims[i].len = axis.len
  /\ dims[i].unlimited = axis.unlimited
  /\ dims[i].name \notin ToSet(out)

FittingAxis ==
  LET axis == Current.axes[Len(out) + 1] IN
  /\ phase = "axes"
  /\ Len(out) < Len(named)
  /\ named[Len(out) + 1] = NoName
  /\ \E i \in DOMAIN dims :
       /\ Fits(i, axis)
       /\ \A j \in 1 .. i - 1 : ~Fits(j, axis)
       /\ out' = Append(out, dims[i].name)
  /\ UNCHANGED <<file, phase, pending, at, scales, byId, next, stack, byName, dims, named, variables, built>>

(* An invented dimension: an empty one is unlimited.                       *)
Invented(axis) ==
  [name |-> Phony(next), len |-> axis.len, unlimited |-> axis.unlimited \/ axis.len = 0,
   id |-> next, phony |-> TRUE]

(* Mutant: every axis without a name gets a dimension of its own.          *)
InventAlways ==
  LET axis == Current.axes[Len(out) + 1] IN
  /\ phase = "axes"
  /\ Len(out) < Len(named)
  /\ named[Len(out) + 1] = NoName
  /\ dims' = Append(dims, Invented(axis))
  /\ out' = Append(out, Phony(next))
  /\ next' = Inc(next)
  /\ UNCHANGED <<file, phase, pending, at, scales, byId, stack, byName, named, variables, built>>

(* Nothing fits: invent a dimension.                                       *)
InventAxis ==
  LET axis == Current.axes[Len(out) + 1] IN
  /\ phase = "axes"
  /\ Len(out) < Len(named)
  /\ named[Len(out) + 1] = NoName
  /\ \A i \in DOMAIN dims : ~Fits(i, axis)
  /\ dims' = Append(dims, Invented(axis))
  /\ out' = Append(out, Phony(next))
  /\ next' = Inc(next)
  /\ UNCHANGED <<file, phase, pending, at, scales, byId, stack, byName, named, variables, built>>

EndVariable ==
  /\ phase = "axes"
  /\ Len(out) = Len(named)
  /\ phase' = "variables"
  /\ at' = at + 1
  /\ variables' = Append(variables, [group |-> Group, axes |-> Current.axes,
                                     named |-> named, names |-> out])
  /\ UNCHANGED <<file, pending, scales, byId, next, stack, byName, dims, named, out, built>>

(* Dimensions are reported in the order of their numbers, then names.      *)
Earlier(d, e) == d.id < e.id \/ (d.id = e.id /\ d.name[2] < e.name[2])

(* The group is built, its dimensions sorted.                              *)
EndGroup ==
  /\ phase = "variables"
  /\ at > Len(byName)
  /\ \E s \in StableSorts(dims, Earlier) : built' = With(built, Group, s)
  /\ stack' = Tail(stack)
  /\ phase' = IF Len(stack) = 1 THEN "done" ELSE "groups"
  /\ dims' = <<>>
  /\ UNCHANGED <<file, pending, at, scales, byId, next, byName, named, out, variables>>

Next ==
  \/ Scan \/ ScanChildren \/ EndScan
  \/ Descend \/ Begin \/ Collect \/ Collected \/ EndGroup
  \/ SkipDimension \/ StartVariable \/ VariableFails \/ EndVariable
  \/ NamedAxis \/ FittingAxis \/ InventAxis

Spec == Init /\ [][Next]_vars

--------------------------------------------------------------------------------

(* The groups that have dimensions, and their dimensions.                  *)
Begun == DOMAIN built \cup (IF phase \in {"dimensions", "variables", "axes"} THEN {Group} ELSE {})
DimsOf(g) == IF g \in DOMAIN built THEN ToSet(built[g]) ELSE ToSet(dims)

(* Dimension d serves an axis that was given its name.                     *)
Serves(d, name, axis) ==
  /\ d.name = name
  /\ d.len = axis.len
  /\ d.unlimited = axis.unlimited \/ (d.len = 0 /\ d.phony)

(* An axis that no convention names has a dimension of its own group, of   *)
(* its length and growth, an empty axis perhaps one that grows             *)
(* (netcdf.rs:659-690).                                                    *)
InventedFits ==
  \A k \in DOMAIN variables :
    LET v == variables[k] IN
    \A i \in DOMAIN v.axes :
      v.named[i] = NoName => \E d \in DimsOf(v.group) : Serves(d, v.names[i], v.axes[i])

(* "An invented number never collides with one the file already uses"      *)
(* (netcdf.rs:648-649), nor with one invented in another group.            *)
NumbersUnique ==
  \A g \in Begun : \A d \in DimsOf(g) :
    d.phony => /\ d.id \notin ScaleIds
               /\ \A h \in Begun : \A e \in DimsOf(h) :
                    e.phony /\ e.id = d.id => h = g /\ e = d

(* Two dimensions of one length and growth, the later invented.            *)
Alike(i, j) ==
  /\ i < j /\ dims[j].phony /\ dims[i].len # 0
  /\ dims[i].len = dims[j].len /\ dims[i].unlimited = dims[j].unlimited

(* A variable of the group has both of them.                               *)
Together(i, j) ==
  \E k \in DOMAIN variables :
    /\ variables[k].group = Group
    /\ {dims[i].name, dims[j].name} \subseteq ToSet(variables[k].names)

(* A dimension is invented only where none would do: a group with two      *)
(* dimensions of one length and growth, the later invented, has a variable *)
(* with both of them on its axes (netcdf.rs:666-673).                      *)
InventedAreNeeded ==
  phase = "variables" => \A i, j \in DOMAIN dims : Alike(i, j) => Together(i, j)

(* An axis without a name that is empty and does not grow.                 *)
Empty(name, axis) == name = NoName /\ axis.len = 0 /\ ~axis.unlimited

(* Every empty axis that does not grow gets an invented dimension of its   *)
(* own, in one variable and across variables (netcdf.rs:679-681).          *)
EmptyAxesApart ==
  \A k, l \in DOMAIN variables :
    LET v == variables[k]
        w == variables[l]
    IN  \A i \in DOMAIN v.axes, j \in DOMAIN w.axes :
          /\ v.group = w.group /\ <<k, i>> # <<l, j>>
          /\ Empty(v.named[i], v.axes[i]) /\ Empty(w.named[j], w.axes[j])
          /\ v.names[i] = w.names[j]
          => v.names[i][1] = "name"

(* A group's dimensions come after its children's, and the numbers         *)
(* invented for it after theirs (netcdf.rs:700-706).                       *)
ChildrenFirst ==
  \A g \in Begun : \A c \in ToSet(file[g].groups) :
    /\ c \in DOMAIN built
    /\ \A d \in DimsOf(g), e \in DimsOf(c) : d.phony /\ e.phony => e.id < d.id

(* Invented dimensions serve the axes they are given to: they have their   *)
(* length and growth, and empty axes share none (netcdf.rs:647-690).       *)
InventedServe == InventedFits /\ EmptyAxesApart

(* The numbers of invented dimensions follow the walk: new, and those of   *)
(* children before their parents' (netcdf.rs:700-706 and 675-690).         *)
NumbersFollowTheWalk == NumbersUnique /\ ChildrenFirst

--------------------------------------------------------------------------------
(* The inductive invariant.                                                *)

FileNames  == {"name"} \X Nat
Names      == FileNames \cup ({"phony_dim"} \X Int)
Scales     == [name : FileNames, len : Nat, unlimited : BOOLEAN, id : Int, variable : BOOLEAN]
Dimensions == [name : Names, len : Nat, unlimited : BOOLEAN, id : Int, phony : BOOLEAN]
Frames     == [group : DOMAIN file, child : Nat \ {0}]
Variables  == [group : DOMAIN file, axes : Seq(Axes), named : Seq(FileNames \cup {NoName}),
               names : Seq(Names)]

(* Types.                                                                  *)
TypeOK ==
  /\ file \in Files
  /\ phase \in {"scan", "groups", "dimensions", "variables", "axes", "done", "failed"}
  /\ pending \in Seq(DOMAIN file)
  /\ at \in Nat \ {0}
  /\ DOMAIN scales \subseteq Nat /\ scales \in [DOMAIN scales -> Scales]
  /\ byId \in [DOMAIN byId -> DOMAIN scales]
  /\ next \in Int
  /\ stack \in Seq(Frames)
  /\ byName \in Seq(Datasets)
  /\ dims \in Seq(Dimensions)
  /\ named \in Seq(FileNames \cup {NoName})
  /\ out \in Seq(Names)
  /\ variables \in Seq(Variables)
  /\ DOMAIN built \subseteq DOMAIN file /\ built \in [DOMAIN built -> Seq(Dimensions)]

Building == phase \in {"groups", "dimensions", "variables", "axes"}
Entered  == DOMAIN built \cup {stack[p].group : p \in DOMAIN stack}

(* What is where in which phase.                                           *)
PhaseInv ==
  /\ phase = "scan" => stack = <<>> /\ DOMAIN built = {} /\ variables = <<>>
  /\ Building => stack # <<>>
  /\ phase \in {"scan", "groups"} => dims = <<>>
  /\ phase = "dimensions" => \A i \in DOMAIN dims : ~dims[i].phony
  /\ \A k \in DOMAIN variables :
       \/ variables[k].group \in DOMAIN built
       \/ phase \in {"variables", "axes", "failed"} /\ stack # <<>> /\ variables[k].group = Group

(* The walk: no group is entered twice, and the children a group has begun *)
(* with are built, except the one being built.                             *)
WalkInv ==
  /\ \A p \in DOMAIN stack :
       /\ stack[p].group \notin DOMAIN built
       /\ \A q \in DOMAIN stack : stack[p].group = stack[q].group => p = q
       /\ stack[p].child <= Len(file[stack[p].group].groups) + 1
       /\ \A i \in 1 .. stack[p].child - 1 :
            \/ file[stack[p].group].groups[i] \in DOMAIN built
            \/ p > 1 /\ file[stack[p].group].groups[i] = stack[p - 1].group
  /\ phase \in {"dimensions", "variables", "axes"} => stack[1].child > Len(file[stack[1].group].groups)
  /\ \A g \in DOMAIN built : ToSet(file[g].groups) \subseteq DOMAIN built
  /\ \A g \in DOMAIN file : \A i \in DOMAIN file[g].groups :
       file[g].groups[i] \in Entered =>
         \/ g \in DOMAIN built
         \/ \E p \in DOMAIN stack : stack[p].group = g /\ i < stack[p].child

(* Invented dimensions are marked by their names, and empty ones grow.     *)
DimsInv ==
  \A i \in DOMAIN dims :
    /\ dims[i].phony => dims[i].name = Phony(dims[i].id) /\ (dims[i].len = 0 => dims[i].unlimited)
    /\ ~dims[i].phony => dims[i].name \in FileNames

(* The variable whose axes are being named.                                *)
AxesInv ==
  /\ \A k \in DOMAIN variables : /\ Len(variables[k].named) = Len(variables[k].axes)
                                  /\ Len(variables[k].names) = Len(variables[k].axes)
  /\ phase = "axes" =>
       /\ at <= Len(byName)
       /\ Len(named) = Len(Current.axes) /\ Len(out) <= Len(named)
       /\ \A i \in DOMAIN out :
            named[i] = NoName => \E d \in ToSet(dims) : Serves(d, out[i], Current.axes[i])

(* A variable, or the one being built, has both dimensions of a pair.      *)
NeededInv ==
  \A i, j \in DOMAIN dims : Alike(i, j) =>
    \/ Together(i, j)
    \/ phase = "axes" /\ {dims[i].name, dims[j].name} \subseteq ToSet(out)

IInv ==
  /\ TypeOK /\ PhaseInv /\ WalkInv /\ DimsInv /\ AxesInv
  /\ InventedFits /\ NeededInv

(* The counter has not come to the end of its range, where it saturates    *)
(* during the scan and wraps after it.                                     *)
CounterFits == next < MaxId

(* The numbers of the dimensions a group invented are below the counter    *)
(* and above all that were invented before.                                *)
NumbersInv ==
  /\ 0 <= next
  /\ \A a \in DOMAIN scales : scales[a].id < next
  /\ \A d \in ToSet(dims) : d.phony =>
       /\ d.id < next /\ d.id \notin ScaleIds
       /\ \A e \in ToSet(dims) : e.phony /\ e.id = d.id => e = d
       /\ \A g \in DOMAIN built : \A e \in ToSet(built[g]) : e.phony => e.id < d.id
  /\ \A g \in DOMAIN built : \A d \in ToSet(built[g]) : d.phony =>
       /\ d.id < next /\ d.id \notin ScaleIds
       /\ \A h \in DOMAIN built : \A e \in ToSet(built[h]) : e.phony =>
            /\ e.id = d.id => h = g /\ e = d
            /\ h \in ToSet(file[g].groups) => e.id < d.id

(* Invented names are of numbers used, and empty axes do not share them.   *)
ApartInv ==
  /\ \A i \in DOMAIN out : out[i] \in FileNames \/ out[i][2] < next
  /\ \A k \in DOMAIN variables : \A i \in DOMAIN variables[k].names :
       variables[k].names[i] \in FileNames \/ variables[k].names[i][2] < next
  /\ phase = "axes" => \A j \in DOMAIN out :
       Empty(named[j], Current.axes[j]) /\ out[j] \notin FileNames =>
         /\ \A i \in DOMAIN out : Empty(named[i], Current.axes[i]) /\ out[i] = out[j] => i = j
         /\ \A k \in DOMAIN variables : \A i \in DOMAIN variables[k].axes :
              Empty(variables[k].named[i], variables[k].axes[i]) => variables[k].names[i] # out[j]
  /\ \A k, l \in DOMAIN variables :
       \A i \in DOMAIN variables[k].axes, j \in DOMAIN variables[l].axes :
         /\ Empty(variables[k].named[i], variables[k].axes[i])
         /\ Empty(variables[l].named[j], variables[l].axes[j])
         /\ variables[k].names[i] = variables[l].names[j]
         /\ variables[k].names[i] \notin FileNames
         => k = l /\ i = j
================================================================================
