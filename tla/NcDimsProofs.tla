----------------------------- MODULE NcDimsProofs -----------------------------
(***************************************************************************)
(* Proofs about NcDims, for every set of files.                            *)
(*                                                                         *)
(* IInv is inductive by itself.  It gives the types, that an axis without  *)
(* a name has a dimension that fits it, and that a dimension is invented   *)
(* only where none would do; the walk is part of it because a group that   *)
(* is built may get no more variables.                                     *)
(*                                                                         *)
(* What the numbers promise needs the counter to stay within its range:    *)
(* under []CounterFits every number handed out is below the counter        *)
(* (NumbersInv), so that the next one is new, and the names made of them   *)
(* are apart (ApartInv).                                                   *)
(***************************************************************************)
EXTENDS NcDims, FiniteSetTheorems, FunctionTheorems, TLAPS

(* What the assumption says of the file at hand.                           *)
LEMMA FileTypes ==
  ASSUME TypeOK
  PROVE  /\ file \in Seq(Groups) /\ 1 \in DOMAIN file
         /\ \A g \in DOMAIN file : /\ file[g].datasets \in Seq(Datasets)
                                   /\ file[g].groups \in Seq(DOMAIN file)
<1>1. file \in Seq(Groups) /\ file # <<>>
  BY FilesAssumption DEF TypeOK
<1>2. ASSUME NEW g \in DOMAIN file
      PROVE  file[g].datasets \in Seq(Datasets) /\ file[g].groups \in Seq(DOMAIN file)
  <2>1. file[g] \in Groups
    BY <1>1
  <2>2. file[g].datasets \in Seq(Datasets) /\ file[g].groups \in Seq(Nat)
    BY <2>1 DEF Groups
  <2>3. \A i \in DOMAIN file[g].groups : file[g].groups[i] \in g + 1 .. Len(file)
    BY FilesAssumption DEF TypeOK, ToSet
  <2>4. g \in 1 .. Len(file) /\ DOMAIN file = 1 .. Len(file)
    BY <1>1
  <2>5. \A i \in DOMAIN file[g].groups : file[g].groups[i] \in DOMAIN file
    BY <2>3, <2>4
  <2>6. QED
    BY <2>2, <2>5
<1>3. QED
  BY <1>1, <1>2

(* The elements of a longer sequence.                                      *)
LEMMA AppendSet ==
  ASSUME NEW S, NEW s \in Seq(S), NEW x \in S
  PROVE  ToSet(Append(s, x)) = ToSet(s) \cup {x}
<1>1. /\ DOMAIN Append(s, x) = 1 .. Len(s) + 1 /\ DOMAIN s = 1 .. Len(s) /\ Len(s) \in Nat
      /\ \A i \in 1 .. Len(s) : Append(s, x)[i] = s[i]
      /\ Append(s, x)[Len(s) + 1] = x
  OBVIOUS
<1>2. 1 .. Len(s) + 1 = (1 .. Len(s)) \cup {Len(s) + 1}
  BY <1>1
<1> DEFINE a == Append(s, x)
<1> HIDE DEF a
<1>3. {a[i] : i \in DOMAIN a} = {s[i] : i \in DOMAIN s} \cup {x}
  BY <1>1, <1>2 DEF a
<1>4. QED
  BY <1>3 DEF a, ToSet

(* The two kinds of names.                                                 *)
LEMMA NameKinds ==
  /\ \A n \in Nat : Named(n) \in FileNames
  /\ \A n \in Int : Phony(n) \in Names /\ Phony(n) \notin FileNames /\ Phony(n)[2] = n
  /\ FileNames \subseteq Names /\ NoName \notin Names
  /\ \A x \in Names : x[2] \in Int
  /\ \A x \in FileNames : x[1] = "name"
BY DEF Named, Phony, NoName, FileNames, Names

(* No dimension comes before itself.                                       *)
LEMMA EarlierIsStrict == \A d \in Dimensions : ~Earlier(d, d)
<1> SUFFICES ASSUME NEW d \in Dimensions PROVE ~Earlier(d, d)
  OBVIOUS
<1>1. d.id \in Int /\ d.name \in Names
  BY DEF Dimensions
<1>2. d.name[2] \in Int
  BY <1>1, NameKinds
<1>3. QED
  BY <1>1, <1>2 DEF Earlier

(* A sort neither loses nor repeats an element.                            *)
LEMMA SortKeeps ==
  ASSUME NEW s \in Seq(Dimensions), NEW t \in StableSorts(s, Earlier)
  PROVE  t \in Seq(Dimensions) /\ ToSet(t) = ToSet(s)
<1> DEFINE Q == {q \in [DOMAIN s -> DOMAIN s] : \A i, j \in DOMAIN s : i < j =>
                   Earlier(s[q[i]], s[q[j]]) \/ (~Earlier(s[q[j]], s[q[i]]) /\ q[i] < q[j])}
<1>0. t \in {[i \in DOMAIN s |-> s[p[i]]] : p \in Q}
  BY DEF StableSorts
<1>1. PICK p \in Q : t = [i \in DOMAIN s |-> s[p[i]]]
  <2> HIDE DEF Q
  <2> QED
    BY <1>0
<1>2. t \in Seq(Dimensions)
  BY <1>1
<1>3. /\ p \in [DOMAIN s -> DOMAIN s]
      /\ \A i, j \in DOMAIN s : i < j =>
           Earlier(s[p[i]], s[p[j]]) \/ (~Earlier(s[p[j]], s[p[i]]) /\ p[i] < p[j])
  OBVIOUS
<1> HIDE DEF Q
<1>4. ASSUME NEW i \in DOMAIN s, NEW j \in DOMAIN s, p[i] = p[j], i < j PROVE FALSE
  <2>1. s[p[i]] \in Dimensions /\ p[i] \in Int
    BY <1>3
  <2>2. QED
    BY <1>3, <1>4, <2>1, EarlierIsStrict
<1>5. p \in Injection(DOMAIN s, DOMAIN s)
  BY <1>3, <1>4 DEF Injection, IsInjective
<1>6. IsFiniteSet(DOMAIN s)
  BY FS_Interval
<1>7. p \in Surjection(DOMAIN s, DOMAIN s)
  BY <1>5, <1>6, FS_Injection
<1>8. \A k \in DOMAIN s : \E i \in DOMAIN s : p[i] = k
  BY <1>7 DEF Surjection
<1>9. DOMAIN t = DOMAIN s /\ \A i \in DOMAIN s : t[i] = s[p[i]] /\ p[i] \in DOMAIN s
  BY <1>1, <1>3
<1>10. {t[i] : i \in DOMAIN s} = {s[i] : i \in DOMAIN s}
  <2>1. ASSUME NEW k \in DOMAIN s PROVE s[k] \in {t[i] : i \in DOMAIN s}
    <3>1. PICK i \in DOMAIN s : p[i] = k
      BY <1>8
    <3>2. t[i] = s[k]
      BY <1>9, <3>1
    <3>3. QED
      BY <3>2
  <2>2. ASSUME NEW i \in DOMAIN s PROVE t[i] \in {s[k] : k \in DOMAIN s}
    BY <1>9
  <2>3. QED
    BY <2>1, <2>2
<1>11. QED
  BY <1>2, <1>9, <1>10 DEF ToSet

(* And the same of the datasets of a group.                                *)
LEMMA ByNameType ==
  ASSUME NEW g \in DOMAIN file, file[g].datasets \in Seq(Datasets), NEW t \in ByName(g)
  PROVE  t \in Seq(Datasets)
BY DEF ByName, StableSorts

(* What the conventions give a variable: a name from the file or none for  *)
(* each of its axes.                                                       *)
LEMMA ConventionType ==
  ASSUME TypeOK, NEW d \in Datasets
  PROVE  ByConvention(d) \in Seq(FileNames \cup {NoName}) /\ Len(ByConvention(d)) = Len(d.axes)
<1>1. d.axes \in Seq(Axes) /\ d.name \in Nat /\ d.coords \in Seq(Nat)
  BY DEF Datasets
<1>2. \A a \in DOMAIN scales : scales[a].name \in FileNames
  BY DEF TypeOK, Scales
<1>3. \A b \in DOMAIN byId : byId[b] \in DOMAIN scales
  BY DEF TypeOK
<1> DEFINE N == FileNames \cup {NoName}
<1> HIDE DEF N
<1>4. \A a \in DOMAIN scales : scales[a].name \in N
  BY <1>2 DEF N
<1>5. NoName \in N /\ Named(d.name) \in N
  BY <1>1, NameKinds DEF N
<1>6. FromList(d) \in Seq(N) /\ Len(FromList(d)) = Len(d.axes)
  BY <1>1, <1>4, <1>5 DEF FromList
<1>7. ASSUME NEW ns \in Seq(N)
      PROVE  FromCoordinates(d, ns) \in Seq(N) /\ Len(FromCoordinates(d, ns)) = Len(ns)
  <2>1. CASE Len(d.coords) = Len(ns) /\ ToSet(d.coords) \subseteq DOMAIN byId
    <3>1. \A i \in DOMAIN ns : d.coords[i] \in DOMAIN byId
      BY <1>1, <2>1 DEF ToSet
    <3>2. \A i \in DOMAIN ns : scales[byId[d.coords[i]]].name \in N
      BY <1>3, <1>4, <3>1
    <3>3. QED
      BY <2>1, <3>2 DEF FromCoordinates
  <2>2. CASE ~(Len(d.coords) = Len(ns) /\ ToSet(d.coords) \subseteq DOMAIN byId)
    BY <2>2 DEF FromCoordinates
  <2>3. QED
    BY <2>1, <2>2
<1>8. <<Named(d.name)>> \in Seq(N) /\ Len(<<Named(d.name)>>) = 1
  BY <1>5
<1>9. ByConvention(d) \in Seq(N) /\ Len(ByConvention(d)) = Len(d.axes)
  BY <1>6, <1>7, <1>8 DEF ByConvention
<1>10. QED
  BY <1>9 DEF N

(* A scale has the type of one.                                            *)
LEMMA ScaleType ==
  ASSUME NEW d \in Datasets, next \in Int
  PROVE  ScaleId(d) \in Int /\ NextId(d) \in Int /\ Scale(d) \in Scales
<1>1. /\ d.name \in Nat /\ d.phantom \in BOOLEAN /\ d.id \in SUBSET Nat /\ d.axes \in Seq(Axes)
  BY DEF Datasets
<1>2. ScaleId(d) \in Int
  BY <1>1 DEF ScaleId
<1>3. \A n \in Int : SatInc(n) \in Int /\ Inc(n) \in Int
  BY MaxIdAssumption DEF SatInc, Inc
<1>4. NextId(d) \in Int
  BY <1>2, <1>3 DEF NextId
<1>5. Named(d.name) \in FileNames
  BY <1>1, NameKinds
<1>6. d.axes # <<>> => d.axes[1].len \in Nat /\ d.axes[1].unlimited \in BOOLEAN
  <2> SUFFICES ASSUME d.axes # <<>> PROVE d.axes[1].len \in Nat /\ d.axes[1].unlimited \in BOOLEAN
    OBVIOUS
  <2>1. 1 \in DOMAIN d.axes
    BY <1>1
  <2>2. d.axes[1] \in Axes
    BY <1>1, <2>1
  <2>3. QED
    BY <2>2 DEF Axes
<1>7. (IF d.axes = <<>> THEN 1 ELSE d.axes[1].len) \in Nat
  BY <1>6
<1>8. (d.axes # <<>> /\ d.axes[1].unlimited) \in BOOLEAN
  OBVIOUS
<1>9. (~d.phantom) \in BOOLEAN
  OBVIOUS
<1>10. Scale(d) \in Scales
  BY <1>2, <1>5, <1>7, <1>8, <1>9 DEF Scale, Scales
<1>11. QED
  BY <1>2, <1>4, <1>10

(* The group being built, and the variable and axis it has come to.        *)
LEMMA Here ==
  ASSUME TypeOK, PhaseInv, Building
  PROVE  Group \in DOMAIN file /\ Head(stack) \in Frames /\ Len(stack) > 0 /\ Group = stack[1].group
<1>1. stack \in Seq(Frames) /\ stack # <<>>
  BY DEF TypeOK, PhaseInv
<1>2. Head(stack) \in Frames /\ Len(stack) > 0 /\ Head(stack) = stack[1]
  BY <1>1
<1>3. QED
  BY <1>2 DEF Group, Frames

LEMMA CurrentType ==
  ASSUME TypeOK, at <= Len(byName)
  PROVE  at \in DOMAIN byName /\ Current \in Datasets /\ Current.axes \in Seq(Axes)
<1>1. byName \in Seq(Datasets) /\ at \in Nat \ {0}
  BY DEF TypeOK
<1>2. at \in DOMAIN byName /\ Current \in Datasets
  BY <1>1 DEF Current
<1>3. QED
  BY <1>2 DEF Datasets

LEMMA AxisType ==
  ASSUME TypeOK, AxesInv, phase = "axes", Len(out) < Len(named)
  PROVE  /\ Len(out) + 1 \in DOMAIN Current.axes /\ Len(out) + 1 \in DOMAIN named
         /\ Current.axes[Len(out) + 1].len \in Nat
         /\ Current.axes[Len(out) + 1].unlimited \in BOOLEAN
<1>1. at <= Len(byName) /\ Len(named) = Len(Current.axes)
  BY DEF AxesInv
<1>2. Current.axes \in Seq(Axes) /\ out \in Seq(Names) /\ named \in Seq(FileNames \cup {NoName})
  BY <1>1, CurrentType DEF TypeOK
<1>3. Len(out) + 1 \in DOMAIN Current.axes /\ Len(out) + 1 \in DOMAIN named
  BY <1>1, <1>2
<1>4. Current.axes[Len(out) + 1] \in Axes
  BY <1>2, <1>3
<1>5. QED
  BY <1>3, <1>4 DEF Axes

(* Every step keeps the types.                                             *)
LEMMA TypeStep ==
  ASSUME TypeOK, PhaseInv, AxesInv, Next
  PROVE  TypeOK'
<1>f. /\ file \in Seq(Groups) /\ 1 \in DOMAIN file
      /\ \A g \in DOMAIN file : file[g].datasets \in Seq(Datasets) /\ file[g].groups \in Seq(DOMAIN file)
  BY FileTypes
<1>1. ASSUME Scan PROVE TypeOK'
  <2> DEFINE d == file[Head(pending)].datasets[at]
  <2>1. Head(pending) \in DOMAIN file
    BY <1>1 DEF Scan, TypeOK
  <2>2. d \in Datasets
    <3> DEFINE ds == file[Head(pending)].datasets
    <3>1. ds \in Seq(Datasets)
      BY <1>f, <2>1
    <3>2. at <= Len(ds) /\ at \in Nat \ {0}
      BY <1>1 DEF Scan, TypeOK
    <3> HIDE DEF ds
    <3>3. ds[at] \in Datasets
      BY <3>1, <3>2
    <3>4. QED
      BY <3>3 DEF ds
  <2>3. d.addr \in Nat
    BY <2>2 DEF Datasets
  <2>4. next \in Int /\ NextId(d) \in Int /\ Scale(d) \in Scales
    BY <2>2, ScaleType DEF TypeOK
  <2>5. /\ scales' = IF d.scale THEN With(scales, d.addr, Scale(d)) ELSE scales
        /\ next' = IF d.scale THEN NextId(d) ELSE next
    BY <1>1 DEF Scan
  <2> HIDE DEF d
  <2>6. next' \in Int
    BY <2>4, <2>5
  <2>7. DOMAIN scales \subseteq DOMAIN scales' /\ DOMAIN scales' \subseteq Nat /\ scales' \in [DOMAIN scales' -> Scales]
    BY <2>3, <2>4, <2>5 DEF TypeOK, With
  <2>8. at' \in Nat \ {0} /\ byId' = byId
    BY <1>1 DEF Scan, TypeOK
  <2>9. byId' \in [DOMAIN byId' -> DOMAIN scales']
    BY <2>7, <2>8 DEF TypeOK
  <2>10. QED
    BY <1>1, <2>6, <2>7, <2>8, <2>9 DEF Scan, TypeOK, Frames, Variables
<1>2. ASSUME ScanChildren PROVE TypeOK'
  <2>1. Head(pending) \in DOMAIN file /\ Tail(pending) \in Seq(DOMAIN file)
    BY <1>2 DEF ScanChildren, TypeOK
  <2>2. pending' \in Seq(DOMAIN file)
    BY <1>2, <1>f, <2>1 DEF ScanChildren
  <2>3. QED
    BY <1>2, <2>2 DEF ScanChildren, TypeOK, Frames, Variables
<1>3. ASSUME EndScan PROVE TypeOK'
  <2>1. stack' \in Seq(Frames)
    BY <1>3, <1>f DEF EndScan, Frames
  <2>2. byId' \in [ScaleIds -> DOMAIN scales]
    BY <1>3 DEF EndScan
  <2>3. byId' \in [DOMAIN byId' -> DOMAIN scales]
    BY <2>2
  <2>4. QED
    BY <1>3, <2>1, <2>3 DEF EndScan, TypeOK, Frames, Variables
<1>4. ASSUME Descend PROVE TypeOK'
  <2>1. Group \in DOMAIN file /\ Head(stack) \in Frames /\ Len(stack) > 0
    BY <1>4, Here DEF Descend, Building
  <2> DEFINE kids == file[Head(stack).group].groups
  <2>2. kids \in Seq(DOMAIN file) /\ Head(stack).child \in Nat \ {0} /\ Head(stack).group \in DOMAIN file
    BY <1>f, <2>1 DEF Frames
  <2>3. kids[Head(stack).child] \in DOMAIN file
    BY <1>4, <2>2 DEF Descend
  <2>4. [group |-> kids[Head(stack).child], child |-> 1] \in Frames
    BY <2>3 DEF Frames
  <2>5. [Head(stack) EXCEPT !.child = @ + 1] \in Frames
    BY <2>1, <2>2 DEF Frames
  <2>6. Tail(stack) \in Seq(Frames)
    BY <2>1 DEF TypeOK
  <2>7. stack' = <<[group |-> kids[Head(stack).child], child |-> 1],
                   [Head(stack) EXCEPT !.child = @ + 1]>> \o Tail(stack)
    BY <1>4 DEF Descend
  <2>8. stack' \in Seq(Frames)
    <3> DEFINE x == [group |-> kids[Head(stack).child], child |-> 1]
               y == [Head(stack) EXCEPT !.child = @ + 1]
    <3>1. x \in Frames /\ y \in Frames /\ stack' = <<x, y>> \o Tail(stack)
      BY <2>4, <2>5, <2>7
    <3> HIDE DEF x, y
    <3>2. QED
      BY <2>6, <3>1
  <2>9. QED
    BY <1>4, <2>8 DEF Descend, TypeOK, Frames, Variables
<1>5. ASSUME Begin PROVE TypeOK'
  <2>1. byName' \in Seq(Datasets)
    BY <1>5, <1>f, Here, ByNameType DEF Begin, Building
  <2>2. QED
    BY <1>5, <2>1 DEF Begin, TypeOK, Frames, Variables
<1>6. ASSUME Collect PROVE TypeOK'
  <2>1. \A a \in DOMAIN scales : NamedDim(scales[a]) \in Dimensions
    <3>1. \A x \in Scales : NamedDim(x) \in Dimensions
      BY NameKinds DEF Scales, Dimensions, NamedDim
    <3>2. QED
      BY <3>1 DEF TypeOK
  <2>2. dims' \in Seq(Dimensions)
    BY <1>6, <2>1 DEF Collect, IsScale, TypeOK
  <2>3. QED
    BY <1>6, <2>2 DEF Collect, TypeOK, Frames, Variables
<1>7. ASSUME Collected PROVE TypeOK'
  BY <1>7 DEF Collected, TypeOK, Frames, Variables
<1>8. ASSUME SkipDimension PROVE TypeOK'
  BY <1>8 DEF SkipDimension, TypeOK, Frames, Variables
<1>9. ASSUME StartVariable PROVE TypeOK'
  <2>1. named' \in Seq(FileNames \cup {NoName})
    BY <1>9, CurrentType, ConventionType DEF StartVariable
  <2>2. QED
    BY <1>9, <2>1 DEF StartVariable, TypeOK, Frames, Variables
<1>10. ASSUME VariableFails PROVE TypeOK'
  BY <1>10 DEF VariableFails, TypeOK, Frames, Variables
<1>11. ASSUME NamedAxis PROVE TypeOK'
  <2>1. named[Len(out) + 1] \in FileNames \cup {NoName} /\ named[Len(out) + 1] # NoName
    BY <1>11 DEF NamedAxis, TypeOK
  <2>2. named[Len(out) + 1] \in Names
    BY <2>1, NameKinds
  <2>3. out' \in Seq(Names)
    BY <1>11, <2>2 DEF NamedAxis, TypeOK
  <2>4. QED
    BY <1>11, <2>3 DEF NamedAxis, TypeOK, Frames, Variables
<1>12. ASSUME FittingAxis PROVE TypeOK'
  <2>1. \A i \in DOMAIN dims : dims[i].name \in Names
    <3>1. \A d \in Dimensions : d.name \in Names
      BY DEF Dimensions
    <3>2. QED
      BY <3>1 DEF TypeOK
  <2>2. out' \in Seq(Names)
    BY <1>12, <2>1 DEF FittingAxis, TypeOK
  <2>3. QED
    BY <1>12, <2>2 DEF FittingAxis, TypeOK, Frames, Variables
<1>13. ASSUME InventAxis PROVE TypeOK'
  <2> DEFINE axis == Current.axes[Len(out) + 1]
  <2>1. axis.len \in Nat /\ axis.unlimited \in BOOLEAN /\ next \in Int
    BY <1>13, AxisType DEF InventAxis, TypeOK
  <2>2. dims' = Append(dims, Invented(axis)) /\ out' = Append(out, Phony(next)) /\ next' = Inc(next)
    BY <1>13 DEF InventAxis
  <2> HIDE DEF axis
  <2>3. Phony(next) \in Names
    BY <2>1, NameKinds
  <2>4. (axis.unlimited \/ axis.len = 0) \in BOOLEAN
    OBVIOUS
  <2>5. Invented(axis) \in Dimensions
    BY <2>1, <2>3, <2>4 DEF Invented, Dimensions
  <2>6. next' \in Int
    BY <2>1, <2>2, MaxIdAssumption DEF Inc
  <2>7. dims' \in Seq(Dimensions) /\ out' \in Seq(Names)
    BY <2>2, <2>3, <2>5 DEF TypeOK
  <2>8. QED
    BY <1>13, <2>6, <2>7 DEF InventAxis, TypeOK, Frames, Variables
<1>14. ASSUME EndVariable PROVE TypeOK'
  <2> DEFINE v == [group |-> Group, axes |-> Current.axes, named |-> named, names |-> out]
  <2>1. Group \in DOMAIN file /\ Current.axes \in Seq(Axes)
    BY <1>14, Here, CurrentType DEF EndVariable, Building, AxesInv
  <2>2. v \in Variables
    BY <2>1 DEF Variables, TypeOK
  <2>3. variables' = Append(variables, v)
    BY <1>14 DEF EndVariable
  <2> HIDE DEF v
  <2>4. variables' \in Seq(Variables)
    BY <2>2, <2>3 DEF TypeOK
  <2>5. QED
    BY <1>14, <2>4 DEF EndVariable, TypeOK, Frames, Variables
<1>15. ASSUME EndGroup PROVE TypeOK'
  <2>1. Group \in DOMAIN file /\ Len(stack) > 0
    BY <1>15, Here DEF EndGroup, Building
  <2>2. PICK s \in StableSorts(dims, Earlier) : built' = With(built, Group, s)
    BY <1>15 DEF EndGroup
  <2>3. s \in Seq(Dimensions)
    BY <2>2, SortKeeps DEF TypeOK
  <2>4. DOMAIN built' \subseteq DOMAIN file /\ built' \in [DOMAIN built' -> Seq(Dimensions)]
    BY <2>1, <2>2, <2>3 DEF TypeOK, With
  <2>5. stack' \in Seq(Frames)
    BY <1>15, <2>1 DEF EndGroup, TypeOK
  <2>6. dims' \in Seq(Dimensions)
    BY <1>15 DEF EndGroup
  <2>7. QED
    BY <1>15, <2>4, <2>5, <2>6 DEF EndGroup, TypeOK, Frames, Variables
<1>16. QED
  BY <1>1, <1>2, <1>3, <1>4, <1>5, <1>6, <1>7, <1>8, <1>9, <1>10, <1>11, <1>12, <1>13, <1>14,
     <1>15 DEF Next

(* The steps that neither enter nor leave a group.                         *)
Inside ==
  \/ Scan \/ ScanChildren \/ Begin \/ Collect \/ Collected \/ SkipDimension \/ StartVariable
  \/ VariableFails \/ NamedAxis \/ FittingAxis \/ InventAxis \/ EndVariable

LEMMA InsideKeeps ==
  ASSUME Inside
  PROVE  /\ file' = file /\ stack' = stack /\ built' = built
         /\ phase = "scan" <=> phase' = "scan"
         /\ phase' \in {"dimensions", "variables", "axes"} => phase \in {"groups", "dimensions", "variables", "axes"}
         /\ phase = "groups" /\ phase' # "groups" => Begin
         /\ phase' = "groups" => phase = "groups"
         /\ phase' # "done"
<1>1. CASE Scan \/ ScanChildren \/ Begin
  BY <1>1 DEF Scan, ScanChildren, Begin
<1>2. CASE Collect \/ Collected \/ SkipDimension \/ StartVariable \/ VariableFails
  BY <1>2 DEF Collect, Collected, SkipDimension, StartVariable, VariableFails
<1>3. CASE NamedAxis \/ FittingAxis \/ InventAxis \/ EndVariable
  BY <1>3 DEF NamedAxis, FittingAxis, InventAxis, EndVariable
<1>4. QED
  BY <1>1, <1>2, <1>3 DEF Inside

LEMMA NextCases == Next <=> Inside \/ EndScan \/ Descend \/ EndGroup
BY DEF Next, Inside

(* The stack after the steps that change it.                               *)
LEMMA DescendStack ==
  ASSUME TypeOK, PhaseInv, Descend
  PROVE  /\ Len(stack) \in Nat \ {0} /\ Len(stack') = Len(stack) + 1
         /\ DOMAIN stack = 1 .. Len(stack) /\ DOMAIN stack' = 1 .. Len(stack) + 1
         /\ stack[1].child \in DOMAIN file[stack[1].group].groups
         /\ stack'[1].group = file[stack[1].group].groups[stack[1].child]
         /\ stack'[1].child = 1
         /\ stack'[2].group = stack[1].group
         /\ stack'[2].child = stack[1].child + 1
         /\ \A p \in 2 .. Len(stack) : stack'[p + 1] = stack[p]
<1>1. Group \in DOMAIN file /\ Head(stack) \in Frames /\ Len(stack) > 0
  BY Here DEF Descend, Building
<1> DEFINE x == [group |-> file[Head(stack).group].groups[Head(stack).child], child |-> 1]
           y == [Head(stack) EXCEPT !.child = @ + 1]
<1>2. stack' = <<x, y>> \o Tail(stack)
  BY DEF Descend
<1>3. /\ x.group = file[Head(stack).group].groups[Head(stack).child] /\ x.child = 1
      /\ y.group = Head(stack).group /\ y.child = Head(stack).child + 1
  BY <1>1 DEF Frames
<1>4. /\ Head(stack).child \in Nat \ {0} /\ Head(stack).group \in DOMAIN file
      /\ Head(stack).child <= Len(file[Head(stack).group].groups)
  BY <1>1 DEF Frames, Descend
<1>5. stack[1].child \in DOMAIN file[stack[1].group].groups
  <2>1. file[Head(stack).group].groups \in Seq(DOMAIN file)
    BY <1>4, FileTypes
  <2>2. Head(stack).child \in DOMAIN file[Head(stack).group].groups
    BY <1>4, <2>1
  <2>3. QED
    BY <1>1, <2>2 DEF TypeOK
<1> HIDE DEF x, y
<1>6. stack \in Seq(Frames)
  BY DEF TypeOK
<1>7. /\ Len(stack) \in Nat \ {0} /\ Len(Tail(stack)) = Len(stack) - 1 /\ Head(stack) = stack[1]
      /\ \A p \in 1 .. Len(stack) - 1 : Tail(stack)[p] = stack[p + 1]
  BY <1>1, <1>6
<1>8. /\ Len(stack') = Len(stack) + 1 /\ DOMAIN stack' = 1 .. Len(stack) + 1
      /\ stack'[1] = x /\ stack'[2] = y
      /\ \A p \in 1 .. Len(stack) - 1 : stack'[p + 2] = Tail(stack)[p]
  BY <1>2, <1>6, <1>7
<1>9. ASSUME NEW p \in 2 .. Len(stack) PROVE stack'[p + 1] = stack[p]
  <2>1. p - 1 \in 1 .. Len(stack) - 1 /\ (p - 1) + 2 = p + 1 /\ (p - 1) + 1 = p
    BY <1>7
  <2>2. QED
    BY <1>7, <1>8, <2>1
<1>10. /\ stack'[1].group = file[stack[1].group].groups[stack[1].child] /\ stack'[1].child = 1
       /\ stack'[2].group = stack[1].group /\ stack'[2].child = stack[1].child + 1
  <2>1. Head(stack) = stack[1] /\ stack'[1] = x /\ stack'[2] = y
    BY <1>7, <1>8
  <2>2. QED
    BY <1>3, <2>1
<1>11. DOMAIN stack = 1 .. Len(stack)
  BY <1>6
<1>12. Len(stack) \in Nat \ {0} /\ Len(stack') = Len(stack) + 1 /\ DOMAIN stack' = 1 .. Len(stack) + 1
  BY <1>7, <1>8
<1>13. QED
  BY <1>5, <1>9, <1>10, <1>11, <1>12

LEMMA EndGroupStack ==
  ASSUME TypeOK, PhaseInv, EndGroup
  PROVE  /\ Len(stack) \in Nat \ {0} /\ Len(stack') = Len(stack) - 1
         /\ DOMAIN stack = 1 .. Len(stack) /\ DOMAIN stack' = 1 .. Len(stack) - 1
         /\ \A p \in 1 .. Len(stack) - 1 : stack'[p] = stack[p + 1]
         /\ Group = stack[1].group /\ Group \in DOMAIN file
         /\ file' = file /\ DOMAIN built' = DOMAIN built \cup {Group}
         /\ \A g \in DOMAIN built : g # Group => built'[g] = built[g]
         /\ ToSet(built'[Group]) = ToSet(dims)
<1>1. Group \in DOMAIN file /\ Len(stack) > 0 /\ Group = stack[1].group
  BY Here DEF EndGroup, Building
<1>2. PICK s \in StableSorts(dims, Earlier) : built' = With(built, Group, s)
  BY DEF EndGroup
<1>3. ToSet(s) = ToSet(dims)
  BY <1>2, SortKeeps DEF TypeOK
<1>4. /\ DOMAIN built' = DOMAIN built \cup {Group} /\ built'[Group] = s
      /\ \A g \in DOMAIN built : g # Group => built'[g] = built[g]
  BY <1>2 DEF With
<1>5. stack' = Tail(stack) /\ stack \in Seq(Frames) /\ file' = file
  BY DEF EndGroup, TypeOK
<1>6. QED
  BY <1>1, <1>3, <1>4, <1>5

(* Which phase goes with what.                                             *)
LEMMA PhaseStep ==
  ASSUME TypeOK, PhaseInv, WalkInv, Next
  PROVE  PhaseInv'
<1>1. CASE EndScan
  <2>1. variables = <<>> /\ dims = <<>> /\ DOMAIN variables = {} /\ stack' # <<>>
    BY <1>1 DEF EndScan, PhaseInv
  <2>2. QED
    BY <1>1, <2>1 DEF EndScan, PhaseInv, Building
<1>2. CASE Descend
  <2>1. stack' # <<>>
    BY <1>2, DescendStack
  <2>2. QED
    BY <1>2, <2>1 DEF Descend, PhaseInv, Building
<1>3. CASE EndGroup
  <2>1. phase' \in {"done", "groups"} /\ dims' = <<>> /\ variables' = variables
        /\ (phase' = "groups" => Len(stack) # 1)
    BY <1>3 DEF EndGroup
  <2>2. phase' = "groups" => stack' # <<>>
    BY <1>3, <2>1, EndGroupStack
  <2>3. \A k \in DOMAIN variables : variables[k].group \in DOMAIN built'
    BY <1>3, EndGroupStack DEF PhaseInv, EndGroup
  <2>4. QED
    BY <2>1, <2>2, <2>3 DEF PhaseInv, Building
<1>4. CASE Scan \/ ScanChildren
  BY <1>4 DEF Scan, ScanChildren, PhaseInv, Building
<1>5. CASE Begin
  <2>1. dims = <<>> /\ DOMAIN dims = {} /\ stack # <<>>
    BY <1>5 DEF Begin, PhaseInv, Building
  <2>2. QED
    BY <1>5, <2>1 DEF Begin, PhaseInv, Building, Group
<1>6. CASE Collect
  <2>1. /\ phase = "dimensions" /\ phase' = phase /\ stack' = stack /\ built' = built /\ variables' = variables
        /\ dims' = IF IsScale(Current) THEN Append(dims, NamedDim(scales[Current.addr])) ELSE dims
    BY <1>6 DEF Collect
  <2>2. NamedDim(scales[Current.addr]).phony = FALSE
    BY DEF NamedDim
  <2> DEFINE x == NamedDim(scales[Current.addr])
  <2>3. ~x.phony /\ (dims' = Append(dims, x) \/ dims' = dims) /\ dims \in Seq(Dimensions)
    BY <2>1, <2>2 DEF TypeOK
  <2> HIDE DEF x
  <2>4. \A i \in DOMAIN dims : ~dims[i].phony
    BY <2>1 DEF PhaseInv
  <2>5. \A i \in DOMAIN dims' : ~dims'[i].phony
    BY <2>3, <2>4
  <2>6. QED
    BY <2>1, <2>5 DEF PhaseInv, Building, Group
<1>7. CASE Collected \/ SkipDimension \/ StartVariable \/ VariableFails
  BY <1>7 DEF Collected, SkipDimension, StartVariable, VariableFails, PhaseInv, Building, Group
<1>8. CASE NamedAxis \/ FittingAxis \/ InventAxis
  BY <1>8 DEF NamedAxis, FittingAxis, InventAxis, PhaseInv, Building, Group
<1>9. CASE EndVariable
  <2>1. /\ phase = "axes" /\ phase' = "variables" /\ stack' = stack /\ built' = built /\ dims' = dims
        /\ variables' = Append(variables, [group |-> Group, axes |-> Current.axes, named |-> named, names |-> out])
    BY <1>9 DEF EndVariable
  <2> DEFINE x == [group |-> Group, axes |-> Current.axes, named |-> named, names |-> out]
  <2>2. x.group = Group /\ variables' = Append(variables, x) /\ variables \in Seq(Variables)
    BY <2>1 DEF TypeOK
  <2> HIDE DEF x
  <2>3. \A k \in DOMAIN variables' : \/ k \in DOMAIN variables /\ variables'[k] = variables[k]
                                     \/ variables'[k].group = Group
    BY <2>2
  <2>4. \A k \in DOMAIN variables' : variables'[k].group \in DOMAIN built \/ variables'[k].group = Group
    BY <2>1, <2>3 DEF PhaseInv
  <2>5. Group' = Group /\ stack # <<>>
    BY <2>1 DEF Group, PhaseInv, Building
  <2>6. QED
    BY <2>1, <2>4, <2>5 DEF PhaseInv, Building
<1>10. QED
  BY <1>1, <1>2, <1>3, <1>4, <1>5, <1>6, <1>7, <1>8, <1>9 DEF Next

(* The groups below a group come after it, and have no other parent.       *)
LEMMA Tree ==
  ASSUME TypeOK
  PROVE  /\ \A g \in DOMAIN file : \A i \in DOMAIN file[g].groups : file[g].groups[i] # 1
         /\ \A g, h \in DOMAIN file : \A i \in DOMAIN file[g].groups, j \in DOMAIN file[h].groups :
              file[g].groups[i] = file[h].groups[j] => g = h /\ i = j
<1>1. ASSUME NEW g \in DOMAIN file, NEW i \in DOMAIN file[g].groups PROVE file[g].groups[i] # 1
  <2>1. file[g].groups[i] \in g + 1 .. Len(file)
    BY FilesAssumption DEF TypeOK, ToSet
  <2>2. g \in Nat \ {0} /\ Len(file) \in Nat
    BY FileTypes
  <2>3. QED
    BY <2>1, <2>2
<1>2. QED
  BY <1>1, FilesAssumption DEF TypeOK

(* The group the walk goes down to has not been entered before.            *)
LEMMA DescendIsNew ==
  ASSUME TypeOK, PhaseInv, WalkInv, Descend
  PROVE  stack'[1].group \notin Entered
<1>1. /\ 1 \in DOMAIN stack /\ stack[1].group \in DOMAIN file
      /\ stack[1].child \in DOMAIN file[stack[1].group].groups
      /\ stack'[1].group = file[stack[1].group].groups[stack[1].child]
  <2>1. stack[1].group \in DOMAIN file
    BY Here DEF Descend, Building
  <2>2. QED
    BY <2>1, DescendStack
<1>2. SUFFICES ASSUME stack'[1].group \in Entered PROVE FALSE
  OBVIOUS
<1>3. \/ stack[1].group \in DOMAIN built
      \/ \E p \in DOMAIN stack : stack[p].group = stack[1].group /\ stack[1].child < stack[p].child
  BY <1>1, <1>2 DEF WalkInv
<1>4. stack[1].group \notin DOMAIN built /\ \A p \in DOMAIN stack : stack[p].group = stack[1].group => p = 1
  BY <1>1 DEF WalkInv
<1>5. stack[1].child < stack[1].child
  BY <1>3, <1>4
<1>6. stack[1].child \in Nat
  <2>1. file[stack[1].group].groups \in Seq(DOMAIN file)
    BY <1>1, FileTypes
  <2>2. QED
    BY <1>1, <2>1
<1>7. QED
  BY <1>5, <1>6

(* Every step keeps the order of the walk.                                 *)
LEMMA WalkStep ==
  ASSUME TypeOK, PhaseInv, WalkInv, Next
  PROVE  WalkInv'
<1>1. CASE Inside
  <2>1. file' = file /\ stack' = stack /\ built' = built /\ Entered' = Entered
    BY <1>1, InsideKeeps DEF Entered
  <2>2. phase' \in {"dimensions", "variables", "axes"} => stack[1].child > Len(file[stack[1].group].groups)
    <3>1. CASE Begin
      <4>1. Head(stack).child > Len(file[Head(stack).group].groups)
        BY <3>1 DEF Begin, Group
      <4>2. Head(stack) = stack[1]
        BY <3>1 DEF Begin, PhaseInv, Building, TypeOK
      <4>3. QED
        BY <4>1, <4>2
    <3>2. CASE ~Begin
      BY <1>1, <3>2, InsideKeeps DEF WalkInv
    <3>3. QED
      BY <3>1, <3>2
  <2>3. QED
    BY <2>1, <2>2 DEF WalkInv
<1>2. CASE EndScan
  <2>1. /\ file' = file /\ DOMAIN built = {} /\ built' = built /\ phase' = "groups"
        /\ DOMAIN stack' = {1} /\ stack'[1].group = 1 /\ stack'[1].child = 1
    BY <1>2 DEF EndScan, PhaseInv
  <2>2. Entered' = {1}
    BY <2>1 DEF Entered
  <2>3. \A g \in DOMAIN file : \A i \in DOMAIN file[g].groups : file[g].groups[i] \notin {1}
    BY Tree
  <2>4. 1 <= Len(file[1].groups) + 1
    <3>1. file[1].groups \in Seq(DOMAIN file)
      BY FileTypes
    <3>2. QED
      BY <3>1
  <2>5. QED
    BY <2>1, <2>2, <2>3, <2>4 DEF WalkInv
<1>3. CASE Descend
  <2> DEFINE n == Len(stack)  new == stack'[1].group  top == stack[1].group
  <2>1. /\ n \in Nat \ {0} /\ DOMAIN stack = 1 .. n /\ DOMAIN stack' = 1 .. n + 1
        /\ stack[1].child \in DOMAIN file[top].groups /\ new = file[top].groups[stack[1].child]
        /\ stack'[1].child = 1 /\ stack'[2].group = top /\ stack'[2].child = stack[1].child + 1
        /\ \A p \in 2 .. n : stack'[p + 1] = stack[p]
    BY <1>3, DescendStack
  <2>2. file' = file /\ built' = built /\ phase' = "groups" /\ new \notin Entered
    BY <1>3, DescendIsNew DEF Descend
  <2>3. top \in DOMAIN file /\ new \in DOMAIN file /\ stack[1].child \in Nat \ {0}
        /\ file[top].groups \in Seq(DOMAIN file)
    <3>1. top \in DOMAIN file
      BY <1>3, Here DEF Descend, Building
    <3>2. file[top].groups \in Seq(DOMAIN file)
      BY <3>1, FileTypes
    <3>3. QED
      BY <2>1, <3>1, <3>2
  <2>4. file[new].groups \in Seq(DOMAIN file)
    BY <2>3, FileTypes
  <2> HIDE DEF n, new, top
  <2>5. \A p \in 1 .. n + 1 : p = 1 \/ p = 2 \/ (p - 1 \in 2 .. n /\ p - 1 \in 1 .. n /\ stack'[p] = stack[p - 1])
    <3>1. ASSUME NEW p \in 1 .. n + 1, p # 1, p # 2
          PROVE  p - 1 \in 2 .. n /\ p - 1 \in 1 .. n /\ stack'[p] = stack[p - 1]
      <4>1. p - 1 \in 2 .. n /\ p - 1 \in 1 .. n /\ (p - 1) + 1 = p
        BY <2>1, <3>1
      <4>2. QED
        BY <2>1, <4>1
    <3>2. QED
      BY <3>1
  <2>6. /\ \A p \in 1 .. n : stack[p].group \in Entered /\ stack[p].group \notin DOMAIN built
        /\ DOMAIN built \subseteq Entered
        /\ \A p, q \in 1 .. n : stack[p].group = stack[q].group => p = q
    BY <2>1 DEF WalkInv, Entered
  <2>7. \A p \in 1 .. n + 1 : stack'[p].group \notin DOMAIN built
    BY <2>1, <2>2, <2>5, <2>6 DEF new, top
  <2>8. \A p, q \in 1 .. n + 1 : stack'[p].group = stack'[q].group => p = q
    <3> SUFFICES ASSUME NEW p \in 1 .. n + 1, NEW q \in 1 .. n + 1, stack'[p].group = stack'[q].group
                 PROVE  p = q
      OBVIOUS
    <3>1. \A r \in 1 .. n + 1 : r # 1 => r - 1 \in 1 .. n /\ stack'[r].group = stack[r - 1].group
      BY <2>1, <2>5 DEF top
    <3>2. CASE p = 1 /\ q # 1
      BY <2>2, <2>6, <3>1, <3>2 DEF new
    <3>3. CASE p # 1 /\ q = 1
      BY <2>2, <2>6, <3>1, <3>3 DEF new
    <3>4. CASE p # 1 /\ q # 1
      <4>1. p - 1 = q - 1
        BY <2>6, <3>1, <3>4
      <4>2. QED
        BY <4>1
    <3>5. QED
      BY <3>2, <3>3, <3>4
  <2>9. \A p \in 1 .. n + 1 : stack'[p].child <= Len(file[stack'[p].group].groups) + 1
    <3>1. 1 <= Len(file[new].groups) + 1
      BY <2>4
    <3>2. stack[1].child + 1 <= Len(file[top].groups) + 1
      BY <2>1, <2>3
    <3>3. \A p \in 1 .. n : stack[p].child <= Len(file[stack[p].group].groups) + 1
      BY <2>1 DEF WalkInv
    <3>4. QED
      BY <2>1, <2>5, <3>1, <3>2, <3>3 DEF new
  <2>10. ASSUME NEW p \in 1 .. n + 1, NEW i \in 1 .. stack'[p].child - 1
         PROVE  \/ file[stack'[p].group].groups[i] \in DOMAIN built
                \/ p > 1 /\ file[stack'[p].group].groups[i] = stack'[p - 1].group
    <3>0. \A q \in 1 .. n : \A j \in 1 .. stack[q].child - 1 :
            \/ file[stack[q].group].groups[j] \in DOMAIN built
            \/ q > 1 /\ file[stack[q].group].groups[j] = stack[q - 1].group
      BY <2>1 DEF WalkInv
    <3>1. CASE p = 1
      BY <2>1, <2>10, <3>1
    <3>2. CASE p = 2
      <4>1. i \in 1 .. stack[1].child
        BY <2>1, <2>3, <2>10, <3>2
      <4>2. CASE i = stack[1].child
        BY <2>1, <3>2, <4>2 DEF new
      <4>3. CASE i # stack[1].child
        <5>1. i \in 1 .. stack[1].child - 1 /\ 1 \in 1 .. n /\ ~(1 > 1)
          BY <2>1, <2>3, <4>1, <4>3
        <5>2. file[stack[1].group].groups[i] \in DOMAIN built
          BY <3>0, <5>1
        <5>3. QED
          BY <2>1, <3>2, <5>2 DEF top
      <4>4. QED
        BY <4>2, <4>3
    <3>3. CASE p # 1 /\ p # 2
      <4>1. p - 1 \in 2 .. n /\ p - 1 \in 1 .. n /\ stack'[p] = stack[p - 1]
        BY <2>5, <3>3
      <4>2. \/ file[stack[p - 1].group].groups[i] \in DOMAIN built
            \/ file[stack[p - 1].group].groups[i] = stack[p - 1 - 1].group
        BY <2>10, <3>0, <4>1
      <4>3. stack'[p - 1].group = stack[p - 1 - 1].group
        <5>1. CASE p = 3
          BY <2>1, <5>1 DEF top
        <5>2. CASE p # 3
          <6>1. p - 1 \in 1 .. n + 1 /\ p - 1 # 1 /\ p - 1 # 2
            BY <2>1, <3>3, <5>2
          <6>2. QED
            BY <2>5, <6>1
        <5>3. QED
          BY <5>1, <5>2
      <4>4. QED
        BY <3>3, <4>1, <4>2, <4>3
    <3>4. QED
      BY <3>1, <3>2, <3>3
  <2>11. ASSUME NEW g \in DOMAIN file, NEW i \in DOMAIN file[g].groups, file[g].groups[i] \in Entered'
         PROVE  \/ g \in DOMAIN built
                \/ \E p \in 1 .. n + 1 : stack'[p].group = g /\ i < stack'[p].child
    <3>1. Entered' = Entered \cup {new}
      <4>1. {stack'[p].group : p \in 1 .. n + 1} = {stack[p].group : p \in 1 .. n} \cup {new}
        <5>1. ASSUME NEW p \in 1 .. n PROVE stack[p].group \in {stack'[q].group : q \in 1 .. n + 1}
          <6>1. p + 1 \in 1 .. n + 1 /\ stack'[p + 1].group = stack[p].group
            <7>1. CASE p = 1
              BY <2>1, <7>1 DEF top
            <7>2. CASE p # 1
              <8>1. p \in 2 .. n /\ p + 1 \in 1 .. n + 1
                BY <2>1, <7>2
              <8>2. QED
                BY <2>1, <8>1
            <7>3. QED
              BY <7>1, <7>2
          <6>2. QED
            BY <6>1
        <5>2. 1 \in 1 .. n + 1 /\ new \in {stack'[q].group : q \in 1 .. n + 1}
          BY <2>1 DEF new
        <5>3. ASSUME NEW p \in 1 .. n + 1 PROVE stack'[p].group \in {stack[q].group : q \in 1 .. n} \cup {new}
          <6>1. p = 1 \/ (p - 1 \in 1 .. n /\ stack'[p].group = stack[p - 1].group)
            BY <2>1, <2>5 DEF top
          <6>2. QED
            BY <6>1 DEF new
        <5>4. QED
          BY <5>1, <5>2, <5>3
      <4>2. QED
        BY <2>1, <2>2, <4>1 DEF Entered
    <3>2. CASE file[g].groups[i] = new
      <4>1. g = top /\ i = stack[1].child
        BY <2>1, <2>3, <3>2, Tree
      <4>2. 2 \in 1 .. n + 1 /\ i < stack'[2].child
        BY <2>1, <2>3, <4>1
      <4>3. QED
        BY <2>1, <4>1, <4>2
    <3>3. CASE file[g].groups[i] \in Entered
      <4>1. g \in DOMAIN built \/ \E p \in 1 .. n : stack[p].group = g /\ i < stack[p].child
        BY <2>1, <3>3 DEF WalkInv
      <4>2. ASSUME NEW p \in 1 .. n, stack[p].group = g, i < stack[p].child
            PROVE  \E q \in 1 .. n + 1 : stack'[q].group = g /\ i < stack'[q].child
        <5>1. CASE p = 1
          <6>1. i \in Int /\ 2 \in 1 .. n + 1
            <7>1. file[g].groups \in Seq(DOMAIN file)
              BY FileTypes
            <7>2. QED
              BY <2>1, <7>1
          <6>2. i < stack'[2].child /\ stack'[2].group = g
            BY <2>1, <2>3, <4>2, <5>1, <6>1 DEF top
          <6>3. QED
            BY <6>1, <6>2
        <5>2. CASE p # 1
          <6>1. p \in 2 .. n /\ p + 1 \in 1 .. n + 1
            BY <2>1, <5>2
          <6>2. QED
            BY <2>1, <4>2, <6>1
        <5>3. QED
          BY <5>1, <5>2
      <4>3. QED
        BY <4>1, <4>2
    <3>4. QED
      BY <2>11, <3>1, <3>2, <3>3
  <2>12. \A g \in DOMAIN built : ToSet(file[g].groups) \subseteq DOMAIN built
    BY DEF WalkInv
  <2>13. QED
    BY <2>1, <2>2, <2>7, <2>8, <2>9, <2>10, <2>11, <2>12 DEF WalkInv
<1>4. CASE EndGroup
  <2> DEFINE n == Len(stack)
  <2>1. /\ n \in Nat \ {0} /\ DOMAIN stack = 1 .. n /\ DOMAIN stack' = 1 .. n - 1
        /\ \A p \in 1 .. n - 1 : stack'[p] = stack[p + 1]
        /\ Group = stack[1].group /\ Group \in DOMAIN file
        /\ file' = file /\ DOMAIN built' = DOMAIN built \cup {Group}
    BY <1>4, EndGroupStack
  <2>2. phase = "variables" /\ phase' \in {"done", "groups"}
    BY <1>4 DEF EndGroup
  <2> HIDE DEF n
  <2>3. /\ \A p \in 1 .. n : stack[p].group \notin DOMAIN built
        /\ \A p, q \in 1 .. n : stack[p].group = stack[q].group => p = q
        /\ \A p \in 1 .. n : stack[p].child <= Len(file[stack[p].group].groups) + 1
        /\ \A p \in 1 .. n : \A i \in 1 .. stack[p].child - 1 :
             \/ file[stack[p].group].groups[i] \in DOMAIN built
             \/ p > 1 /\ file[stack[p].group].groups[i] = stack[p - 1].group
        /\ stack[1].child > Len(file[stack[1].group].groups)
        /\ \A g \in DOMAIN built : ToSet(file[g].groups) \subseteq DOMAIN built
        /\ \A g \in DOMAIN file : \A i \in DOMAIN file[g].groups :
             file[g].groups[i] \in Entered =>
               g \in DOMAIN built \/ \E p \in 1 .. n : stack[p].group = g /\ i < stack[p].child
    BY <2>1, <2>2 DEF WalkInv
  <2>4. \A p \in 1 .. n - 1 : p + 1 \in 1 .. n /\ stack'[p] = stack[p + 1] /\ p + 1 # 1
    BY <2>1
  <2>5. \A p \in 1 .. n - 1 : stack'[p].group \notin DOMAIN built'
    <3>1. ASSUME NEW p \in 1 .. n - 1 PROVE stack'[p].group \notin DOMAIN built'
      <4>1. p + 1 \in 1 .. n /\ 1 \in 1 .. n /\ p + 1 # 1 /\ stack'[p] = stack[p + 1]
        BY <2>1, <2>4
      <4>2. stack[p + 1].group # stack[1].group /\ stack[p + 1].group \notin DOMAIN built
        BY <2>3, <4>1
      <4>3. QED
        BY <2>1, <4>1, <4>2
    <3>2. QED
      BY <3>1
  <2>6. \A p, q \in 1 .. n - 1 : stack'[p].group = stack'[q].group => p = q
    <3>1. ASSUME NEW p \in 1 .. n - 1, NEW q \in 1 .. n - 1, stack'[p].group = stack'[q].group
          PROVE  p = q
      <4>1. p + 1 = q + 1
        BY <2>3, <2>4, <3>1
      <4>2. QED
        BY <4>1
    <3>2. QED
      BY <3>1
  <2>7. \A p \in 1 .. n - 1 : stack'[p].child <= Len(file[stack'[p].group].groups) + 1
    BY <2>3, <2>4
  <2>8. ASSUME NEW p \in 1 .. n - 1, NEW i \in 1 .. stack'[p].child - 1
        PROVE  \/ file[stack'[p].group].groups[i] \in DOMAIN built'
               \/ p > 1 /\ file[stack'[p].group].groups[i] = stack'[p - 1].group
    <3>1. p + 1 \in 1 .. n /\ stack'[p] = stack[p + 1] /\ (p + 1) - 1 = p
      BY <2>1, <2>4
    <3>2. \/ file[stack'[p].group].groups[i] \in DOMAIN built
          \/ file[stack'[p].group].groups[i] = stack[p].group
      <4>1. \A j \in 1 .. stack[p + 1].child - 1 :
              \/ file[stack[p + 1].group].groups[j] \in DOMAIN built
              \/ file[stack[p + 1].group].groups[j] = stack[(p + 1) - 1].group
        BY <2>3, <3>1
      <4>2. QED
        BY <2>8, <3>1, <4>1
    <3>3. p = 1 \/ (p > 1 /\ stack'[p - 1] = stack[p])
      <4>1. ASSUME p # 1 PROVE p > 1 /\ p - 1 \in 1 .. n - 1 /\ (p - 1) + 1 = p
        BY <2>1, <4>1
      <4>2. QED
        BY <2>1, <4>1
    <3>4. QED
      BY <2>1, <3>2, <3>3
  <2>9. ToSet(file[Group].groups) \subseteq DOMAIN built
    <3>1. file[Group].groups \in Seq(DOMAIN file) /\ stack[1].child \in Nat
      <4>1. stack \in Seq(Frames) /\ 1 \in 1 .. n
        BY <2>1 DEF TypeOK
      <4>2. stack[1] \in Frames
        BY <2>1, <4>1
      <4>3. QED
        BY <2>1, <4>2, FileTypes DEF Frames
    <3>2. ASSUME NEW i \in DOMAIN file[Group].groups PROVE file[Group].groups[i] \in DOMAIN built
      <4>1. i \in 1 .. stack[1].child - 1 /\ 1 \in 1 .. n /\ ~(1 > 1)
        BY <2>1, <2>3, <3>1
      <4>2. QED
        BY <2>1, <2>3, <4>1
    <3>3. QED
      BY <3>2 DEF ToSet
  <2>10. \A g \in DOMAIN built' : ToSet(file[g].groups) \subseteq DOMAIN built'
    BY <2>1, <2>3, <2>9
  <2>11. Entered' = Entered
    <3>1. {stack[p].group : p \in 1 .. n} = {stack'[p].group : p \in 1 .. n - 1} \cup {Group}
      <4>1. \A p \in 1 .. n : p = 1 \/ (p - 1 \in 1 .. n - 1 /\ stack'[p - 1] = stack[p])
        <5>1. ASSUME NEW p \in 1 .. n, p # 1 PROVE p - 1 \in 1 .. n - 1 /\ (p - 1) + 1 = p
          BY <2>1, <5>1
        <5>2. QED
          BY <2>1, <5>1
      <4>2. 1 \in 1 .. n
        BY <2>1
      <4>3. QED
        BY <2>1, <2>4, <4>1, <4>2
    <3>2. QED
      BY <2>1, <3>1 DEF Entered
  <2>12. ASSUME NEW g \in DOMAIN file, NEW i \in DOMAIN file[g].groups, file[g].groups[i] \in Entered'
         PROVE  g \in DOMAIN built' \/ \E p \in 1 .. n - 1 : stack'[p].group = g /\ i < stack'[p].child
    <3>1. g \in DOMAIN built \/ \E p \in 1 .. n : stack[p].group = g /\ i < stack[p].child
      BY <2>3, <2>11, <2>12
    <3>2. ASSUME NEW p \in 1 .. n, stack[p].group = g, i < stack[p].child, p # 1
          PROVE  \E q \in 1 .. n - 1 : stack'[q].group = g /\ i < stack'[q].child
      <4>1. p - 1 \in 1 .. n - 1 /\ (p - 1) + 1 = p
        BY <2>1, <3>2
      <4>2. stack'[p - 1] = stack[p]
        BY <2>1, <4>1
      <4>3. QED
        BY <3>2, <4>1, <4>2
    <3>3. QED
      BY <2>1, <3>1, <3>2
  <2>13. QED
    BY <2>1, <2>2, <2>5, <2>6, <2>7, <2>8, <2>10, <2>12 DEF WalkInv
<1>5. QED
  BY <1>1, <1>2, <1>3, <1>4, NextCases

(* A sequence with one more element.                                       *)
LEMMA AppendFacts ==
  ASSUME NEW S, NEW s \in Seq(S), NEW x
  PROVE  /\ DOMAIN Append(s, x) = DOMAIN s \cup {Len(s) + 1} /\ Len(s) + 1 \notin DOMAIN s
         /\ \A i \in DOMAIN s : Append(s, x)[i] = s[i]
         /\ Append(s, x)[Len(s) + 1] = x
OBVIOUS

(* The dimensions a step adds.                                             *)
LEMMA DimsAfter ==
  ASSUME TypeOK, AxesInv, Next
  PROVE  \/ dims' = dims
         \/ EndGroup /\ dims' = <<>>
         \/ /\ Collect /\ Current.addr \in DOMAIN scales /\ scales[Current.addr] \in Scales
            /\ dims' = Append(dims, NamedDim(scales[Current.addr]))
         \/ InventAxis /\ dims' = Append(dims, Invented(Current.axes[Len(out) + 1]))
<1>1. CASE Collect
  BY <1>1 DEF Collect, IsScale, TypeOK
<1>2. CASE InventAxis
  BY <1>2 DEF InventAxis
<1>3. CASE EndGroup
  BY <1>3 DEF EndGroup
<1>4. CASE Scan \/ ScanChildren \/ EndScan \/ Descend \/ Begin \/ Collected
  BY <1>4 DEF Scan, ScanChildren, EndScan, Descend, Begin, Collected
<1>5. CASE SkipDimension \/ StartVariable \/ VariableFails \/ EndVariable \/ NamedAxis \/ FittingAxis
  BY <1>5 DEF SkipDimension, StartVariable, VariableFails, EndVariable, NamedAxis, FittingAxis
<1>6. QED
  BY <1>1, <1>2, <1>3, <1>4, <1>5 DEF Next

(* The dimension an axis invents.                                          *)
LEMMA InventedFacts ==
  ASSUME NEW axis, axis.len \in Nat, axis.unlimited \in BOOLEAN, next \in Int
  PROVE  /\ Invented(axis).phony /\ Invented(axis).name = Phony(next) /\ Invented(axis).id = next
         /\ Invented(axis).len = axis.len
         /\ axis.len = 0 => Invented(axis).unlimited
         /\ axis.len # 0 => Invented(axis).unlimited = axis.unlimited
         /\ Invented(axis) \in Dimensions
         /\ Serves(Invented(axis), Phony(next), axis)
<1>1. /\ Invented(axis).phony = TRUE /\ Invented(axis).name = Phony(next) /\ Invented(axis).id = next
      /\ Invented(axis).len = axis.len /\ Invented(axis).unlimited = (axis.unlimited \/ axis.len = 0)
  BY DEF Invented
<1>2. /\ axis.len = 0 => Invented(axis).unlimited
      /\ axis.len # 0 => Invented(axis).unlimited = axis.unlimited
  BY <1>1
<1>3. (axis.unlimited \/ axis.len = 0) \in BOOLEAN
  OBVIOUS
<1>4. Invented(axis) \in Dimensions
  BY <1>3, NameKinds DEF Invented, Dimensions
<1>5. Serves(Invented(axis), Phony(next), axis)
  BY <1>1, <1>2 DEF Serves
<1>6. QED
  BY <1>1, <1>2, <1>4, <1>5

(* Invented dimensions keep their marks.                                   *)
LEMMA DimsStep ==
  ASSUME TypeOK, AxesInv, DimsInv, Next
  PROVE  DimsInv'
<1> DEFINE Marked(d) == /\ d.phony => d.name = Phony(d.id) /\ (d.len = 0 => d.unlimited)
                        /\ ~d.phony => d.name \in FileNames
<1>1. \A i \in DOMAIN dims : Marked(dims[i])
  BY DEF DimsInv
<1>2. SUFFICES \A i \in DOMAIN dims' : Marked(dims'[i])
  BY DEF DimsInv, Phony
<1>3. CASE dims' = dims
  BY <1>1, <1>3
<1>4. CASE dims' = <<>>
  BY <1>4
<1>5. ASSUME NEW x, Marked(x), dims' = Append(dims, x) PROVE \A i \in DOMAIN dims' : Marked(dims'[i])
  <2> HIDE DEF Marked
  <2>1. dims \in Seq(Dimensions)
    BY DEF TypeOK
  <2>2. QED
    BY <1>1, <1>5, <2>1, AppendFacts
<1>6. ASSUME NEW y \in Scales PROVE Marked(NamedDim(y))
  BY DEF NamedDim, Scales
<1>7. CASE InventAxis
  <2> DEFINE axis == Current.axes[Len(out) + 1]
  <2>1. axis.len \in Nat /\ axis.unlimited \in BOOLEAN /\ next \in Int
    BY <1>7, AxisType DEF InventAxis, TypeOK
  <2>2. dims' = Append(dims, Invented(axis))
    BY <1>7 DEF InventAxis
  <2> HIDE DEF axis
  <2>3. Marked(Invented(axis))
    BY <2>1, InventedFacts
  <2>4. QED
    BY <1>5, <2>2, <2>3
<1> HIDE DEF Marked
<1>8. QED
  BY <1>3, <1>4, <1>5, <1>6, <1>7, DimsAfter

(* The variables and the names a step adds.                                *)
LEMMA VariablesAfter ==
  ASSUME Next
  PROVE  variables' = variables \/ EndVariable
<1>1. CASE Inside
  BY <1>1 DEF Inside, Scan, ScanChildren, Begin, Collect, Collected, SkipDimension, StartVariable,
              VariableFails, NamedAxis, FittingAxis, InventAxis
<1>2. CASE EndScan \/ Descend \/ EndGroup
  BY <1>2 DEF EndScan, Descend, EndGroup
<1>3. QED
  BY <1>1, <1>2, NextCases

LEMMA OutAfter ==
  ASSUME TypeOK, AxesInv, Next
  PROVE  \/ out' = out /\ ~StartVariable /\ ~NamedAxis /\ ~FittingAxis /\ ~InventAxis
         \/ StartVariable /\ out' = <<>>
         \/ /\ NamedAxis \/ FittingAxis \/ InventAxis
            /\ phase = "axes" /\ phase' = "axes" /\ byName' = byName /\ at' = at /\ named' = named
            /\ Len(out) < Len(named)
            /\ \E x \in Names : out' = Append(out, x)
<1>1. CASE StartVariable
  BY <1>1 DEF StartVariable
<1>2. CASE NamedAxis
  <2>1. named[Len(out) + 1] \in FileNames \cup {NoName} /\ named[Len(out) + 1] # NoName /\ Len(out) < Len(named)
    BY <1>2 DEF NamedAxis, TypeOK
  <2>2. named[Len(out) + 1] \in Names
    BY <2>1, NameKinds
  <2>3. QED
    BY <1>2, <2>1, <2>2 DEF NamedAxis
<1>3. CASE FittingAxis
  <2>1. \A d \in Dimensions : d.name \in Names
    BY DEF Dimensions
  <2>2. \A i \in DOMAIN dims : dims[i].name \in Names
    BY <2>1 DEF TypeOK
  <2>3. QED
    BY <1>3, <2>2 DEF FittingAxis
<1>4. CASE InventAxis
  <2>1. Phony(next) \in Names
    BY NameKinds DEF TypeOK
  <2>2. QED
    BY <1>4, <2>1 DEF InventAxis
<1>5. CASE ~StartVariable /\ ~NamedAxis /\ ~FittingAxis /\ ~InventAxis
  <2>1. CASE Scan \/ ScanChildren \/ EndScan \/ Descend \/ Begin \/ Collect \/ Collected \/ EndGroup
    BY <1>5, <2>1 DEF Scan, ScanChildren, EndScan, Descend, Begin, Collect, Collected, EndGroup
  <2>2. CASE SkipDimension \/ VariableFails \/ EndVariable
    BY <1>5, <2>2 DEF SkipDimension, VariableFails, EndVariable
  <2>3. QED
    BY <1>5, <2>1, <2>2 DEF Next
<1>6. QED
  BY <1>1, <1>2, <1>3, <1>4, <1>5

(* The axis a step names is served, if it had no name, by a dimension.     *)
LEMMA AxisServed ==
  ASSUME TypeOK, AxesInv, NamedAxis \/ FittingAxis \/ InventAxis, named[Len(out) + 1] = NoName
  PROVE  \E d \in ToSet(dims') : Serves(d, out'[Len(out) + 1], Current.axes[Len(out) + 1])
<1>0. out \in Seq(Names) /\ dims \in Seq(Dimensions) /\ next \in Int
  BY DEF TypeOK
<1>1. ~NamedAxis
  BY DEF NamedAxis
<1>2. CASE FittingAxis
  <2>1. PICK i \in DOMAIN dims : Fits(i, Current.axes[Len(out) + 1]) /\ out' = Append(out, dims[i].name)
    BY <1>2 DEF FittingAxis
  <2>2. out'[Len(out) + 1] = dims[i].name
    BY <1>0, <2>1, AppendFacts
  <2>3. dims[i] \in ToSet(dims')
    BY <1>2 DEF FittingAxis, ToSet
  <2>4. Serves(dims[i], dims[i].name, Current.axes[Len(out) + 1])
    BY <2>1 DEF Fits, Serves
  <2>5. QED
    BY <2>2, <2>3, <2>4
<1>3. CASE InventAxis
  <2> DEFINE axis == Current.axes[Len(out) + 1]
  <2>1. axis.len \in Nat /\ axis.unlimited \in BOOLEAN
    BY <1>3, AxisType DEF InventAxis
  <2>2. dims' = Append(dims, Invented(axis)) /\ out' = Append(out, Phony(next))
    BY <1>3 DEF InventAxis
  <2> HIDE DEF axis
  <2>3. Serves(Invented(axis), Phony(next), axis) /\ Invented(axis) \in Dimensions
    BY <1>0, <2>1, InventedFacts
  <2>4. Invented(axis) \in ToSet(dims')
    BY <1>0, <2>2, <2>3, AppendSet
  <2>5. out'[Len(out) + 1] = Phony(next)
    BY <1>0, <2>2, AppendFacts
  <2>6. QED
    BY <2>3, <2>4, <2>5 DEF axis
<1>4. QED
  BY <1>1, <1>2, <1>3

(* A step takes no dimension away, but for the end of the group.           *)
LEMMA DimsGrow ==
  ASSUME TypeOK, AxesInv, Next, ~EndGroup
  PROVE  ToSet(dims) \subseteq ToSet(dims')
<1>1. dims \in Seq(Dimensions)
  BY DEF TypeOK
<1>2. ASSUME NEW x, dims' = Append(dims, x) PROVE ToSet(dims) \subseteq ToSet(dims')
  BY <1>1, <1>2, AppendFacts DEF ToSet
<1>3. QED
  BY <1>2, DimsAfter

(* Every step keeps what AxesInv says of the variables.                    *)
LEMMA AxesStep ==
  ASSUME TypeOK, AxesInv, Next
  PROVE  AxesInv'
<1>0. out \in Seq(Names) /\ variables \in Seq(Variables) /\ named \in Seq(FileNames \cup {NoName})
  BY DEF TypeOK
<1>1. \A k \in DOMAIN variables' : /\ Len(variables'[k].named) = Len(variables'[k].axes)
                                   /\ Len(variables'[k].names) = Len(variables'[k].axes)
  <2>1. CASE variables' = variables
    BY <2>1 DEF AxesInv
  <2>2. CASE EndVariable
    <3> DEFINE v == [group |-> Group, axes |-> Current.axes, named |-> named, names |-> out]
    <3>1. Len(v.named) = Len(v.axes) /\ Len(v.names) = Len(v.axes)
      BY <2>2 DEF EndVariable, AxesInv
    <3>2. variables' = Append(variables, v)
      BY <2>2 DEF EndVariable
    <3> HIDE DEF v
    <3>3. QED
      BY <1>0, <3>1, <3>2, AppendFacts DEF AxesInv
  <2>3. QED
    BY <2>1, <2>2, VariablesAfter
<1>2. ASSUME phase' = "axes"
      PROVE  /\ at' <= Len(byName')
             /\ Len(named') = Len(Current'.axes) /\ Len(out') <= Len(named')
             /\ \A i \in DOMAIN out' : named'[i] = NoName =>
                  \E d \in ToSet(dims') : Serves(d, out'[i], Current'.axes[i])
  <2>1. CASE StartVariable
    <3>1. at <= Len(byName) /\ at' = at /\ byName' = byName /\ named' = ByConvention(Current) /\ out' = <<>>
      BY <2>1 DEF StartVariable
    <3>2. Current' = Current
      BY <3>1 DEF Current
    <3>3. Current \in Datasets
      BY <3>1, CurrentType
    <3>4. Len(named') = Len(Current'.axes) /\ Len(named') \in Nat
      BY <3>1, <3>2, <3>3, ConventionType
    <3>5. DOMAIN out' = {} /\ Len(out') = 0
      BY <3>1
    <3>6. QED
      BY <3>1, <3>4, <3>5
  <2>2. CASE NamedAxis \/ FittingAxis \/ InventAxis
    <3>0. ~StartVariable
      BY <2>2 DEF NamedAxis, FittingAxis, InventAxis, StartVariable
    <3>1. /\ phase = "axes" /\ byName' = byName /\ at' = at /\ named' = named /\ Len(out) < Len(named)
      BY <2>2, <3>0, OutAfter
    <3>2. PICK x \in Names : out' = Append(out, x)
      BY <2>2, <3>0, OutAfter
    <3>3. Current' = Current
      BY <3>1 DEF Current
    <3>4. at <= Len(byName) /\ Len(named) = Len(Current.axes)
      BY <3>1 DEF AxesInv
    <3>5. Len(out') <= Len(named)
      BY <1>0, <3>1, <3>2
    <3>6. ASSUME NEW i \in DOMAIN out, named[i] = NoName
          PROVE  \E d \in ToSet(dims') : Serves(d, out'[i], Current.axes[i])
      <4>1. \E d \in ToSet(dims) : Serves(d, out[i], Current.axes[i])
        BY <3>1, <3>6 DEF AxesInv
      <4>2. out'[i] = out[i]
        BY <1>0, <3>2, AppendFacts
      <4>3. ~EndGroup
        BY <3>1 DEF EndGroup
      <4>4. QED
        BY <4>1, <4>2, <4>3, DimsGrow
    <3>7. DOMAIN out' = DOMAIN out \cup {Len(out) + 1}
      BY <1>0, <3>2, AppendFacts
    <3>8. QED
      BY <2>2, <3>1, <3>3, <3>4, <3>5, <3>6, <3>7, AxisServed
  <2>3. CASE ~StartVariable /\ ~NamedAxis /\ ~FittingAxis /\ ~InventAxis
    <3>1. ASSUME Scan \/ ScanChildren \/ EndScan \/ Descend \/ Begin \/ Collect \/ Collected \/ EndGroup
          PROVE  FALSE
      BY <1>2, <3>1 DEF Scan, ScanChildren, EndScan, Descend, Begin, Collect, Collected, EndGroup
    <3>2. ASSUME SkipDimension \/ VariableFails \/ EndVariable PROVE FALSE
      BY <1>2, <3>2 DEF SkipDimension, VariableFails, EndVariable
    <3>3. QED
      BY <2>3, <3>1, <3>2 DEF Next
  <2>4. QED
    BY <2>1, <2>2, <2>3
<1>3. QED
  BY <1>1, <1>2 DEF AxesInv, NoName, Serves

(* No step takes a dimension from a variable that was built.               *)
LEMMA DimsOfGrow ==
  ASSUME TypeOK, PhaseInv, WalkInv, AxesInv, Next, NEW k \in DOMAIN variables
  PROVE  DimsOf(variables[k].group) \subseteq DimsOf(variables[k].group)'
<1> DEFINE g == variables[k].group
<1> DEFINE Old == IF g \in DOMAIN built THEN ToSet(built[g]) ELSE ToSet(dims)
           New == IF g \in DOMAIN built' THEN ToSet(built'[g]) ELSE ToSet(dims')
<1>0. g \in DOMAIN built \/ (stack # <<>> /\ g = Group)
  BY DEF PhaseInv
<1>1. Old \subseteq New
  <2>1. CASE EndGroup
    <3>1. /\ Group = stack[1].group /\ 1 \in DOMAIN stack /\ DOMAIN built' = DOMAIN built \cup {Group}
          /\ \A h \in DOMAIN built : h # Group => built'[h] = built[h]
          /\ ToSet(built'[Group]) = ToSet(dims)
      BY <2>1, EndGroupStack
    <3>2. Group \notin DOMAIN built
      BY <3>1 DEF WalkInv
    <3> HIDE DEF g
    <3>3. QED
      BY <1>0, <3>1, <3>2
  <2>2. CASE ~EndGroup
    <3>1. built' = built
      BY <2>2, NextCases, InsideKeeps DEF EndScan, Descend
    <3>2. ToSet(dims) \subseteq ToSet(dims')
      BY <2>2, DimsGrow
    <3> HIDE DEF g
    <3>3. QED
      BY <3>1, <3>2
  <2>3. QED
    BY <2>1, <2>2
<1>2. QED
  <2>1. DimsOf(g) = Old
    BY DEF DimsOf
  <2>2. k \in DOMAIN variables' /\ variables'[k] = variables[k] => DimsOf(g)' = New
    BY DEF DimsOf, ToSet
  <2>3. k \in DOMAIN variables' /\ variables'[k] = variables[k]
    <3>1. CASE variables' = variables
      BY <3>1
    <3>2. CASE EndVariable
      BY <3>2, AppendFacts DEF EndVariable, TypeOK
    <3>3. QED
      BY <3>1, <3>2, VariablesAfter
  <2>4. QED
    BY <1>1, <2>1, <2>2, <2>3

(* Dimensions go on serving the axes they were given to.                   *)
LEMMA FitsStep ==
  ASSUME TypeOK, PhaseInv, WalkInv, AxesInv, InventedFits, Next
  PROVE  InventedFits'
<1> DEFINE Good(v, D) == \A i \in DOMAIN v.axes : v.named[i] = NoName =>
                           \E d \in D : Serves(d, v.names[i], v.axes[i])
<1>0. variables \in Seq(Variables)
  BY DEF TypeOK
<1>1. ASSUME NEW k \in DOMAIN variables, variables'[k] = variables[k]
      PROVE  Good(variables'[k], DimsOf(variables[k].group)')
  <2>1. Good(variables[k], DimsOf(variables[k].group))
    BY DEF InventedFits
  <2>2. QED
    BY <1>1, <2>1, DimsOfGrow
<1>2. CASE variables' = variables
  BY <1>1, <1>2 DEF InventedFits, Serves, NoName
<1>3. CASE EndVariable
  <2> DEFINE x == [group |-> Group, axes |-> Current.axes, named |-> named, names |-> out]
  <2>0. PICK n : n = Len(variables) + 1
    OBVIOUS
  <2>1. /\ phase = "axes" /\ variables' = Append(variables, x)
        /\ built' = built /\ dims' = dims /\ stack' = stack /\ Len(out) = Len(named)
    BY <1>3 DEF EndVariable
  <2>2. /\ DOMAIN variables' = DOMAIN variables \cup {n} /\ n \notin DOMAIN variables
        /\ \A k \in DOMAIN variables : variables'[k] = variables[k]
        /\ variables'[n] = x
    BY <1>0, <2>0, <2>1, AppendFacts
  <2>3. Group \notin DOMAIN built
    <3>1. Group = stack[1].group /\ 1 \in DOMAIN stack
      BY <2>1, Here DEF Building, TypeOK
    <3>2. QED
      BY <3>1 DEF WalkInv
  <2>4. Good(x, ToSet(dims))
    <3>1. DOMAIN Current.axes = DOMAIN out
      <4>1. Current.axes \in Seq(Axes) /\ out \in Seq(Names) /\ Len(Current.axes) = Len(out)
        BY <2>1, CurrentType DEF AxesInv, TypeOK
      <4>2. QED
        BY <4>1
    <3>2. \A i \in DOMAIN out : named[i] = NoName => \E d \in ToSet(dims) : Serves(d, out[i], Current.axes[i])
      BY <2>1 DEF AxesInv
    <3>3. QED
      BY <3>1, <3>2
  <2>5. DimsOf(variables[n].group)' = ToSet(dims)
    <3>1. variables'[n].group = Group
      BY <2>2
    <3>2. QED
      BY <2>1, <2>3, <3>1 DEF DimsOf, ToSet
  <2> HIDE DEF x
  <2>6. Good(variables'[n], DimsOf(variables[n].group)')
    BY <2>2, <2>4, <2>5
  <2>7. \A k \in DOMAIN variables' : Good(variables'[k], DimsOf(variables[k].group)')
    BY <1>1, <2>2, <2>6
  <2>8. QED
    BY <2>7 DEF InventedFits, Serves, NoName
<1>4. QED
  BY <1>2, <1>3, VariablesAfter

(* The variables of a group stay.                                          *)
LEMMA TogetherStays ==
  ASSUME TypeOK, Inside, NEW i \in DOMAIN dims, NEW j \in DOMAIN dims, dims'[i] = dims[i], dims'[j] = dims[j],
         Together(i, j)
  PROVE  Together(i, j)'
<1>1. PICK k \in DOMAIN variables : /\ variables[k].group = Group
                                   /\ {dims[i].name, dims[j].name} \subseteq ToSet(variables[k].names)
  BY DEF Together
<1>2. k \in DOMAIN variables' /\ variables'[k] = variables[k]
  <2>1. CASE variables' = variables
    BY <2>1
  <2>2. CASE EndVariable
    BY <2>2, AppendFacts DEF EndVariable, TypeOK
  <2>3. QED
    BY <2>1, <2>2, VariablesAfter, NextCases
<1>3. Group' = Group
  BY InsideKeeps DEF Group
<1>4. QED
  BY <1>1, <1>2, <1>3 DEF Together, ToSet

(* Dimensions are invented only for want of another.                       *)
LEMMA NeededStep ==
  ASSUME TypeOK, PhaseInv, PhaseInv', AxesInv, NeededInv, Next
  PROVE  NeededInv'
<1> DEFINE Both(i, j, S) == {dims[i].name, dims[j].name} \subseteq S
<1>0. /\ variables \in Seq(Variables) /\ out \in Seq(Names) /\ dims \in Seq(Dimensions) /\ next \in Int
  BY DEF TypeOK
<1>1. CASE dims' = <<>>
  BY <1>1 DEF NeededInv
<1>2. CASE Collect
  <2>1. phase' = "dimensions"
    BY <1>2 DEF Collect
  <2>2. \A j \in DOMAIN dims' : ~dims'[j].phony
    BY <2>1 DEF PhaseInv
  <2>3. QED
    BY <2>2 DEF NeededInv, Alike
<1>3. ASSUME EndScan \/ Descend \/ EndGroup PROVE dims' = <<>>
  BY <1>3 DEF EndScan, Descend, EndGroup, PhaseInv
<1>4. ASSUME NEW x \in Names, out' = Append(out, x) PROVE ToSet(out') = ToSet(out) \cup {x}
  BY <1>0, <1>4, AppendSet
<1>5. ASSUME Inside, dims' = dims, NEW i \in DOMAIN dims, NEW j \in DOMAIN dims, Alike(i, j)
      PROVE  Together(i, j)' \/ (phase' = "axes" /\ Both(i, j, ToSet(out')))
  <2>1. CASE Together(i, j)
    BY <1>5, <2>1, TogetherStays
  <2>2. CASE phase = "axes" /\ Both(i, j, ToSet(out))
    <3>1. CASE EndVariable
      <4> DEFINE x == [group |-> Group, axes |-> Current.axes, named |-> named, names |-> out]
                 n == Len(variables) + 1
      <4>1. variables' = Append(variables, x) /\ x.group = Group /\ x.names = out /\ stack' = stack
        BY <3>1 DEF EndVariable
      <4> HIDE DEF x
      <4>2. n \in DOMAIN variables' /\ variables'[n] = x
        BY <1>0, <4>1, AppendFacts
      <4>3. Group' = Group
        BY <4>1 DEF Group
      <4> HIDE DEF n
      <4>4. \E k \in DOMAIN variables' : /\ variables'[k].group = Group'
                                         /\ Both(i, j, ToSet(variables'[k].names))
        BY <2>2, <4>1, <4>2, <4>3
      <4>5. QED
        BY <1>5, <4>4 DEF Together, ToSet
    <3>2. CASE NamedAxis \/ FittingAxis
      <4>1. ~StartVariable
        BY <2>2 DEF StartVariable
      <4>2. phase' = "axes" /\ \E x \in Names : out' = Append(out, x)
        BY <3>2, <4>1, OutAfter
      <4>3. QED
        BY <1>4, <2>2, <4>2
    <3>3. CASE InventAxis
      <4>1. ~StartVariable
        BY <2>2 DEF StartVariable
      <4>2. phase' = "axes" /\ \E x \in Names : out' = Append(out, x)
        BY <3>3, <4>1, OutAfter
      <4>3. QED
        BY <1>4, <2>2, <4>2
    <3>4. ASSUME ~EndVariable, ~NamedAxis, ~FittingAxis, ~InventAxis PROVE FALSE
      BY <1>5, <2>2, <3>4 DEF Inside, Scan, ScanChildren, Begin, Collect, Collected, SkipDimension,
                              StartVariable, VariableFails
    <3>5. QED
      BY <3>1, <3>2, <3>3, <3>4
  <2>3. QED
    BY <1>5, <2>1, <2>2 DEF NeededInv
<1>6. CASE Inside /\ dims' = dims
  <2>1. \A i, j \in DOMAIN dims : Alike(i, j)' <=> Alike(i, j)
    BY <1>6 DEF Alike
  <2>2. QED
    BY <1>5, <1>6, <2>1 DEF NeededInv, ToSet
<1>7. CASE InventAxis
  <2> DEFINE axis == Current.axes[Len(out) + 1]
  <2>0. PICK m : m = Len(dims) + 1
    OBVIOUS
  <2>1. /\ phase = "axes" /\ phase' = "axes" /\ dims' = Append(dims, Invented(axis))
        /\ out' = Append(out, Phony(next)) /\ \A i \in DOMAIN dims : ~Fits(i, axis)
    BY <1>7 DEF InventAxis
  <2>2. axis.len \in Nat /\ axis.unlimited \in BOOLEAN
    BY <1>7, AxisType DEF InventAxis
  <2> HIDE DEF axis
  <2>3. /\ Invented(axis).name = Phony(next) /\ Invented(axis).len = axis.len
        /\ axis.len # 0 => Invented(axis).unlimited = axis.unlimited
    BY <1>0, <2>2, InventedFacts
  <2>4. /\ DOMAIN dims' = DOMAIN dims \cup {m} /\ m \notin DOMAIN dims /\ dims'[m] = Invented(axis)
        /\ \A i \in DOMAIN dims : dims'[i] = dims[i]
    BY <1>0, <2>0, <2>1, AppendFacts
  <2>5. ToSet(out') = ToSet(out) \cup {Phony(next)}
    BY <1>0, <1>4, <2>1, NameKinds
  <2>6. \A i \in DOMAIN dims : i \in Int /\ i < m
    BY <1>0, <2>0
  <2>7. ASSUME NEW i \in DOMAIN dims, NEW j \in DOMAIN dims, Alike(i, j)'
        PROVE  Together(i, j)' \/ {dims'[i].name, dims'[j].name} \subseteq ToSet(out')
    <3>1. Alike(i, j)
      BY <2>4, <2>7 DEF Alike
    <3>2. CASE Together(i, j)
      BY <1>7, <2>4, <3>2, TogetherStays DEF Inside
    <3>3. CASE Both(i, j, ToSet(out))
      BY <2>4, <2>5, <3>3
    <3>4. QED
      BY <3>1, <3>2, <3>3 DEF NeededInv
  <2>8. ASSUME NEW i \in DOMAIN dims, Alike(i, m)'
        PROVE  {dims'[i].name, dims'[m].name} \subseteq ToSet(out')
    <3>1. dims[i].len # 0 /\ dims[i].len = axis.len /\ dims[i].unlimited = axis.unlimited
      BY <2>3, <2>4, <2>8 DEF Alike
    <3>2. dims[i].name \in ToSet(out)
      BY <2>1, <3>1 DEF Fits
    <3>3. QED
      BY <2>3, <2>4, <2>5, <3>2
  <2>9. ASSUME NEW i \in DOMAIN dims, Alike(m, i)' PROVE FALSE
    <3>1. m < i /\ i < m /\ i \in Int
      BY <2>6, <2>9 DEF Alike
    <3>2. m \in Int
      BY <1>0, <2>0
    <3>3. QED
      BY <3>1, <3>2
  <2>10. ASSUME Alike(m, m)' PROVE FALSE
    <3>1. m < m /\ m \in Int
      BY <1>0, <2>0, <2>10 DEF Alike
    <3>2. QED
      BY <3>1
  <2>11. \A i, j \in DOMAIN dims' : Alike(i, j)' =>
           Together(i, j)' \/ {dims'[i].name, dims'[j].name} \subseteq ToSet(out')
    BY <2>4, <2>7, <2>8, <2>9, <2>10
  <2>12. QED
    BY <2>1, <2>11 DEF NeededInv, ToSet
<1>8. CASE Inside /\ ~Collect /\ ~InventAxis
  BY <1>1, <1>6, <1>8, DimsAfter, NextCases
<1>9. QED
  BY <1>1, <1>2, <1>3, <1>7, <1>8, NextCases

(* The initial states.                                                     *)
LEMMA InitInv == Init => IInv
<1> SUFFICES ASSUME Init PROVE IInv
  OBVIOUS
<1>1. /\ file \in Files /\ phase = "scan" /\ pending = <<1>> /\ at = 1 /\ next = 0
      /\ scales = <<>> /\ byId = <<>> /\ stack = <<>> /\ byName = <<>> /\ dims = <<>>
      /\ named = <<>> /\ out = <<>> /\ variables = <<>> /\ built = <<>>
  BY DEF Init
<1>2. 1 \in DOMAIN file
  <2>1. file \in Seq(Groups) /\ file # <<>>
    BY <1>1, FilesAssumption
  <2>2. QED
    BY <2>1
<1>3. /\ DOMAIN scales = {} /\ DOMAIN byId = {} /\ DOMAIN stack = {} /\ DOMAIN dims = {}
      /\ DOMAIN variables = {} /\ DOMAIN built = {}
  BY <1>1
<1>4. TypeOK
  BY <1>1, <1>2, <1>3 DEF TypeOK
<1>5. PhaseInv
  BY <1>1, <1>3 DEF PhaseInv, Building
<1>6. WalkInv
  BY <1>1, <1>3 DEF WalkInv, Entered
<1>7. DimsInv /\ AxesInv /\ InventedFits /\ NeededInv
  BY <1>1, <1>3 DEF DimsInv, AxesInv, InventedFits, NeededInv
<1>8. QED
  BY <1>4, <1>5, <1>6, <1>7 DEF IInv

(* Every step preserves the invariant.                                     *)
LEMMA StepInv == IInv /\ [Next]_vars => IInv'
<1> SUFFICES ASSUME IInv, [Next]_vars PROVE IInv'
  OBVIOUS
<1>1. TypeOK /\ PhaseInv /\ WalkInv /\ DimsInv /\ AxesInv /\ InventedFits /\ NeededInv
  BY DEF IInv
<1>2. CASE Next
  <2>1. TypeOK' /\ PhaseInv'
    BY <1>1, <1>2, TypeStep, PhaseStep
  <2>2. WalkInv' /\ DimsInv' /\ AxesInv'
    BY <1>1, <1>2, WalkStep, DimsStep, AxesStep
  <2>3. InventedFits' /\ NeededInv'
    BY <1>1, <1>2, <2>1, FitsStep, NeededStep
  <2>4. QED
    BY <2>1, <2>2, <2>3 DEF IInv
<1>3. CASE UNCHANGED vars
  <2>1. /\ file' = file /\ phase' = phase /\ pending' = pending /\ at' = at /\ scales' = scales
        /\ byId' = byId /\ next' = next /\ stack' = stack /\ byName' = byName /\ dims' = dims
        /\ named' = named /\ out' = out /\ variables' = variables /\ built' = built
    BY <1>3 DEF vars
  <2>2. TypeOK' /\ PhaseInv'
    BY <1>1, <2>1 DEF TypeOK, Frames, Variables, PhaseInv, Building, Group
  <2>3. WalkInv' /\ DimsInv'
    BY <1>1, <2>1 DEF WalkInv, Entered, DimsInv, Phony
  <2>4. AxesInv' /\ InventedFits'
    BY <1>1, <2>1 DEF AxesInv, Current, InventedFits, DimsOf, Serves, ToSet, NoName
  <2>5. NeededInv'
    BY <1>1, <2>1 DEF NeededInv, Alike, Together, Group, ToSet
  <2>6. QED
    BY <2>2, <2>3, <2>4, <2>5 DEF IInv
<1>4. QED
  BY <1>2, <1>3

(* The invariant of the dimensions of a file holds in every behaviour,     *)
(* whatever its tree of groups and its variables.                          *)
THEOREM Invariance == Spec => []IInv
BY InitInv, StepInv, PTL DEF Spec

(* Every variable of the walk keeps its type.                              *)
THEOREM TypeCorrect == Spec => []TypeOK
<1>1. IInv => TypeOK
  BY DEF IInv
<1>2. QED
  BY Invariance, <1>1, PTL

(* A dimension is invented only where none of the group would do: two of   *)
(* one length and growth are on the axes of one variable                   *)
(* (netcdf.rs:666-673).                                                    *)
THEOREM InventedNeeded == Spec => []InventedAreNeeded
<1>1. IInv => InventedAreNeeded
  BY DEF IInv, NeededInv, InventedAreNeeded
<1>2. QED
  BY Invariance, <1>1, PTL

--------------------------------------------------------------------------------
(* The numbers, while the counter fits.                                    *)

(* The steps that touch the scales or the counter.                         *)
LEMMA CounterAfter ==
  ASSUME Next
  PROVE  Scan \/ InventAxis \/ (scales' = scales /\ next' = next)
<1>1. CASE ScanChildren \/ EndScan \/ Descend \/ Begin \/ Collect \/ Collected \/ EndGroup
  BY <1>1 DEF ScanChildren, EndScan, Descend, Begin, Collect, Collected, EndGroup
<1>2. CASE SkipDimension \/ StartVariable \/ VariableFails \/ EndVariable \/ NamedAxis \/ FittingAxis
  BY <1>2 DEF SkipDimension, StartVariable, VariableFails, EndVariable, NamedAxis, FittingAxis
<1>3. QED
  BY <1>1, <1>2 DEF Next

(* A scale leaves the counter above its own number, unless the counter has *)
(* come to its end.                                                        *)
LEMMA ScanNumbers ==
  ASSUME TypeOK, CounterFits, CounterFits', Scan, 0 <= next, \A a \in DOMAIN scales : scales[a].id < next
  PROVE  next <= next' /\ \A a \in DOMAIN scales' : scales'[a].id < next'
<1> DEFINE d == file[Head(pending)].datasets[at]
<1>1. d \in Datasets
  <2> DEFINE ds == file[Head(pending)].datasets
  <2>1. Head(pending) \in DOMAIN file
    BY DEF Scan, TypeOK
  <2>2. ds \in Seq(Datasets) /\ at <= Len(ds) /\ at \in Nat \ {0}
    BY <2>1, FileTypes DEF Scan, TypeOK
  <2> HIDE DEF ds
  <2>3. ds[at] \in Datasets
    BY <2>2
  <2>4. QED
    BY <2>3 DEF ds
<1>2. /\ scales' = IF d.scale THEN With(scales, d.addr, Scale(d)) ELSE scales
      /\ next' = IF d.scale THEN NextId(d) ELSE next
  BY DEF Scan
<1> HIDE DEF d
<1>3. next \in Int /\ next < MaxId /\ next' < MaxId /\ MaxId \in Nat /\ d.id \in SUBSET Nat
  BY <1>1, MaxIdAssumption DEF TypeOK, CounterFits, Datasets
<1>4. CASE ~d.scale
  BY <1>2, <1>3, <1>4
<1>5. CASE d.scale
  <2>1. next <= next' /\ ScaleId(d) < next'
    <3>1. CASE d.id = {}
      <4>1. ScaleId(d) = next /\ next' = next + 1
        <5>1. ScaleId(d) = next /\ NextId(d) = Inc(next)
          BY <3>1 DEF ScaleId, NextId
        <5>2. Inc(next) = next + 1
          BY <1>3 DEF Inc
        <5>3. QED
          BY <1>2, <1>5, <5>1, <5>2
      <4>2. QED
        <5>1. next <= next + 1 /\ next < next + 1
          BY <1>3
        <5>2. QED
          BY <4>1, <5>1
    <3>2. CASE d.id # {}
      <4>1. ScaleId(d) \in Nat
        BY <1>3, <3>2 DEF ScaleId
      <4>2. next' = IF next < SatInc(ScaleId(d)) THEN SatInc(ScaleId(d)) ELSE next
        BY <1>2, <1>5, <3>2 DEF NextId
      <4>3. ScaleId(d) # MaxId
        BY <1>3, <4>1, <4>2 DEF SatInc
      <4>4. SatInc(ScaleId(d)) = ScaleId(d) + 1
        BY <4>3 DEF SatInc
      <4>5. QED
        BY <1>3, <4>1, <4>2, <4>4
    <3>3. QED
      BY <3>1, <3>2
  <2>2. next <= next' /\ ScaleId(d) < next' /\ next' \in Int
    <3>1. next' \in Int
      BY <1>1, <1>2, <1>3, <1>5, ScaleType
    <3>2. QED
      BY <1>3, <2>1, <3>1
  <2>3. Scale(d).id = ScaleId(d)
    BY DEF Scale
  <2>4. \A a \in DOMAIN scales : scales[a].id \in Int
    <3>1. \A x \in Scales : x.id \in Int
      BY DEF Scales
    <3>2. QED
      BY <3>1 DEF TypeOK
  <2>5. \A a \in DOMAIN scales : scales[a].id < next'
    BY <1>3, <2>2, <2>4
  <2>6. DOMAIN scales' = DOMAIN scales \cup {d.addr} /\ \A a \in DOMAIN scales' :
          scales'[a] = IF a = d.addr THEN Scale(d) ELSE scales[a]
    BY <1>2, <1>5 DEF With
  <2>7. \A a \in DOMAIN scales' : scales'[a].id < next'
    BY <2>2, <2>3, <2>5, <2>6
  <2>8. QED
    BY <2>2, <2>7
<1>6. QED
  BY <1>4, <1>5

(* The counter only grows.                                                 *)
LEMMA CounterGrows ==
  ASSUME TypeOK, NumbersInv, CounterFits, CounterFits', Next
  PROVE  next \in Int /\ next <= next' /\ (InventAxis => next' = next + 1)
<1>1. next \in Int /\ next < MaxId
  BY DEF TypeOK, CounterFits
<1>2. InventAxis => next' = next + 1
  BY <1>1 DEF InventAxis, Inc
<1>3. Scan => next <= next'
  BY ScanNumbers DEF NumbersInv
<1>4. QED
  BY <1>1, <1>2, <1>3, CounterAfter

(* No group is below itself.                                               *)
LEMMA OwnParent ==
  ASSUME TypeOK, NEW g \in DOMAIN file
  PROVE  g \notin ToSet(file[g].groups)
<1>1. ToSet(file[g].groups) \subseteq g + 1 .. Len(file)
  BY FilesAssumption DEF TypeOK
<1>2. g \in Nat
  BY FileTypes
<1>3. QED
  BY <1>1, <1>2

(* Every step keeps the numbers in order.                                  *)
LEMMA NumbersStep ==
  ASSUME TypeOK, PhaseInv, WalkInv, AxesInv, NumbersInv, CounterFits, CounterFits', Next
  PROVE  NumbersInv'
<1>0. /\ 0 <= next /\ next \in Int /\ next <= next' /\ next' \in Int
      /\ \A a \in DOMAIN scales : scales[a].id < next
      /\ dims \in Seq(Dimensions)
  BY CounterGrows, TypeStep DEF NumbersInv, TypeOK
<1>1. CASE Scan
  <2>1. /\ dims' = dims /\ dims = <<>> /\ built' = built /\ DOMAIN built = {}
    BY <1>1 DEF Scan, PhaseInv
  <2>2. ToSet(dims') = {}
    BY <2>1 DEF ToSet
  <2>3. \A a \in DOMAIN scales' : scales'[a].id < next'
    BY <1>0, <1>1, ScanNumbers
  <2>4. QED
    BY <1>0, <2>1, <2>2, <2>3 DEF NumbersInv
<1>2. ASSUME ~Scan PROVE scales' = scales /\ ScaleIds' = ScaleIds
  <2>1. scales' = scales
    BY <1>2, CounterAfter DEF InventAxis
  <2>2. QED
    BY <2>1 DEF ScaleIds
<1>3. /\ \A d \in ToSet(dims) : d.phony =>
           /\ d.id < next /\ d.id \notin ScaleIds
           /\ \A e \in ToSet(dims) : e.phony /\ e.id = d.id => e = d
           /\ \A g \in DOMAIN built : \A e \in ToSet(built[g]) : e.phony => e.id < d.id
      /\ \A g \in DOMAIN built : \A d \in ToSet(built[g]) : d.phony =>
           /\ d.id < next /\ d.id \notin ScaleIds
           /\ \A h \in DOMAIN built : \A e \in ToSet(built[h]) : e.phony =>
                /\ e.id = d.id => h = g /\ e = d
                /\ h \in ToSet(file[g].groups) => e.id < d.id
  BY DEF NumbersInv
<1>4. /\ \A d \in ToSet(dims) : d.id \in Int
      /\ \A g \in DOMAIN built : \A d \in ToSet(built[g]) : d.id \in Int
  <2>1. \A d \in Dimensions : d.id \in Int
    BY DEF Dimensions
  <2>2. /\ \A d \in ToSet(dims) : d \in Dimensions
        /\ \A g \in DOMAIN built : \A d \in ToSet(built[g]) : d \in Dimensions
    BY DEF TypeOK, ToSet
  <2>3. QED
    BY <2>1, <2>2
<1>5. CASE ~Scan /\ ~EndGroup
  <2>1. scales' = scales /\ ScaleIds' = ScaleIds /\ built' = built /\ file' = file
    BY <1>2, <1>5, NextCases, InsideKeeps DEF EndScan, Descend
  <2>2. /\ 0 <= next' /\ \A a \in DOMAIN scales : scales[a].id < next'
    <3>1. \A x \in Scales : x.id \in Int
      BY DEF Scales
    <3>2. \A a \in DOMAIN scales : scales[a].id \in Int
      BY <3>1 DEF TypeOK
    <3>3. QED
      BY <1>0, <3>2
  <2>3. \A g \in DOMAIN built : \A d \in ToSet(built[g]) : d.phony => d.id < next'
    BY <1>0, <1>3, <1>4
  <2>4. \A d \in ToSet(dims') : d.phony =>
          /\ d.id < next' /\ d.id \notin ScaleIds
          /\ \A e \in ToSet(dims') : e.phony /\ e.id = d.id => e = d
          /\ \A g \in DOMAIN built : \A e \in ToSet(built[g]) : e.phony => e.id < d.id
    <3>1. CASE dims' = dims
      BY <1>0, <1>3, <1>4, <3>1
    <3>2. CASE Collect /\ scales[Current.addr] \in Scales /\ dims' = Append(dims, NamedDim(scales[Current.addr]))
      <4> DEFINE x == NamedDim(scales[Current.addr])
      <4>1. ~x.phony
        BY DEF NamedDim
      <4>2. x \in Dimensions
        BY <3>2, NameKinds DEF NamedDim, Scales, Dimensions
      <4>3. dims' = Append(dims, x)
        BY <3>2
      <4> HIDE DEF x
      <4>4. ToSet(dims') = ToSet(dims) \cup {x}
        BY <1>0, <4>2, <4>3, AppendSet
      <4>5. QED
        BY <1>0, <1>3, <1>4, <4>1, <4>4
    <3>3. CASE InventAxis /\ dims' = Append(dims, Invented(Current.axes[Len(out) + 1]))
      <4> DEFINE axis == Current.axes[Len(out) + 1]
      <4>1. axis.len \in Nat /\ axis.unlimited \in BOOLEAN /\ dims' = Append(dims, Invented(axis))
        BY <3>3, AxisType DEF InventAxis
      <4> HIDE DEF axis
      <4>2. Invented(axis).id = next /\ Invented(axis) \in Dimensions
        BY <1>0, <4>1, InventedFacts
      <4>3. ToSet(dims') = ToSet(dims) \cup {Invented(axis)}
        BY <1>0, <4>1, <4>2, AppendSet
      <4>4. next' = next + 1
        BY <3>3, CounterGrows
      <4>5. next \notin ScaleIds
        BY <1>0 DEF ScaleIds
      <4> DEFINE x == Invented(axis)
      <4>6. x.id = next /\ ToSet(dims') = ToSet(dims) \cup {x}
        BY <4>2, <4>3
      <4> HIDE DEF x
      <4>7. ASSUME NEW d \in ToSet(dims'), d.phony
            PROVE  /\ d.id < next' /\ d.id \notin ScaleIds
                   /\ \A g \in DOMAIN built : \A e \in ToSet(built[g]) : e.phony => e.id < d.id
        BY <1>0, <1>3, <1>4, <4>4, <4>5, <4>6, <4>7
      <4>8. ASSUME NEW d \in ToSet(dims'), NEW e \in ToSet(dims'), d.phony, e.phony, e.id = d.id
            PROVE  e = d
        <5>1. \A y \in ToSet(dims) : y.phony => y.id < next /\ y.id # next
          BY <1>0, <1>3, <1>4
        <5>2. QED
          BY <1>3, <4>6, <4>8, <5>1
      <4>9. QED
        BY <4>7, <4>8
    <3>4. QED
      BY <1>5, <3>1, <3>2, <3>3, DimsAfter
  <2>5. QED
    BY <1>3, <2>1, <2>2, <2>3, <2>4 DEF NumbersInv, ToSet
<1>6. CASE EndGroup
  <2>1. /\ file' = file /\ DOMAIN built' = DOMAIN built \cup {Group}
        /\ \A g \in DOMAIN built : g # Group => built'[g] = built[g]
        /\ ToSet(built'[Group]) = ToSet(dims)
        /\ Group = stack[1].group /\ 1 \in DOMAIN stack /\ Group \in DOMAIN file
    BY <1>6, EndGroupStack
  <2>2. Group \notin DOMAIN built
    BY <2>1 DEF WalkInv
  <2>3. /\ scales' = scales /\ next' = next /\ ScaleIds' = ScaleIds /\ dims' = <<>>
    BY <1>6 DEF EndGroup, ScaleIds
  <2>4. ToSet(dims') = {}
    BY <2>3 DEF ToSet
  <2>5. ASSUME NEW g \in DOMAIN built', NEW d \in ToSet(built'[g]), d.phony
        PROVE  /\ d.id < next /\ d.id \notin ScaleIds
    BY <1>3, <2>1, <2>2, <2>5
  <2>6. ASSUME NEW g \in DOMAIN built', NEW d \in ToSet(built'[g]), d.phony,
               NEW h \in DOMAIN built', NEW e \in ToSet(built'[h]), e.phony
        PROVE  /\ e.id = d.id => h = g /\ e = d
               /\ h \in ToSet(file[g].groups) => e.id < d.id
    <3>1. CASE g # Group /\ h # Group
      BY <1>3, <2>1, <2>6, <3>1
    <3>2. CASE g = Group /\ h # Group
      <4>1. d \in ToSet(dims) /\ h \in DOMAIN built /\ e \in ToSet(built[h])
        BY <2>1, <2>6, <3>2
      <4>2. e.id < d.id /\ e.id \in Int /\ d.id \in Int
        BY <1>3, <1>4, <2>6, <4>1
      <4>3. QED
        BY <4>2
    <3>3. CASE g # Group /\ h = Group
      <4>1. e \in ToSet(dims) /\ g \in DOMAIN built /\ d \in ToSet(built[g])
        BY <2>1, <2>6, <3>3
      <4>2. d.id < e.id /\ e.id \in Int /\ d.id \in Int
        BY <1>3, <1>4, <2>6, <4>1
      <4>3. h \notin ToSet(file[g].groups)
        BY <2>2, <3>3, <4>1 DEF WalkInv
      <4>4. QED
        BY <4>2, <4>3
    <3>4. CASE g = Group /\ h = Group
      <4>1. d \in ToSet(dims) /\ e \in ToSet(dims)
        BY <2>1, <2>6, <3>4
      <4>2. Group \notin ToSet(file[Group].groups)
        BY <2>1, OwnParent
      <4>3. QED
        BY <1>3, <2>6, <3>4, <4>1, <4>2
    <3>5. QED
      BY <3>1, <3>2, <3>3, <3>4
  <2>7. QED
    BY <1>0, <2>1, <2>3, <2>4, <2>5, <2>6 DEF NumbersInv, ToSet
<1>7. QED
  BY <1>1, <1>5, <1>6

(* The group being built, whose children are built.                        *)
LEMMA CurrentGroup ==
  ASSUME TypeOK, PhaseInv, WalkInv, phase \in {"dimensions", "variables", "axes"}
  PROVE  /\ Group \in DOMAIN file /\ Group \notin DOMAIN built
         /\ ToSet(file[Group].groups) \subseteq DOMAIN built
<1>1. Group \in DOMAIN file /\ Group = stack[1].group /\ Head(stack) \in Frames /\ 1 \in DOMAIN stack /\ Head(stack) = stack[1]
  BY Here DEF Building, TypeOK
<1>2. /\ Group \notin DOMAIN built /\ stack[1].child > Len(file[Group].groups)
      /\ \A i \in 1 .. stack[1].child - 1 : file[Group].groups[i] \in DOMAIN built
  BY <1>1 DEF WalkInv
<1>3. file[Group].groups \in Seq(DOMAIN file) /\ stack[1].child \in Nat
  BY <1>1, FileTypes DEF Frames
<1>4. \A i \in DOMAIN file[Group].groups : i \in 1 .. stack[1].child - 1
  BY <1>2, <1>3
<1>5. QED
  BY <1>1, <1>2, <1>4 DEF ToSet

(* What the numbers say, group by group.                                   *)
LEMMA NumbersFollow ==
  ASSUME IInv, NumbersInv
  PROVE  NumbersFollowTheWalk
<1>0. TypeOK /\ PhaseInv /\ WalkInv
  BY DEF IInv
<1> DEFINE Live == phase \in {"dimensions", "variables", "axes"}
<1>1. ASSUME NEW g \in Begun
      PROVE  \/ g \in DOMAIN built /\ DimsOf(g) = ToSet(built[g])
             \/ Live /\ g = Group /\ g \notin DOMAIN built /\ DimsOf(g) = ToSet(dims)
  BY <1>0, CurrentGroup DEF Begun, DimsOf
<1>2. /\ \A d \in ToSet(dims) : d.phony =>
           /\ d.id \notin ScaleIds
           /\ \A e \in ToSet(dims) : e.phony /\ e.id = d.id => e = d
           /\ \A g \in DOMAIN built : \A e \in ToSet(built[g]) : e.phony => e.id < d.id
      /\ \A g \in DOMAIN built : \A d \in ToSet(built[g]) : d.phony =>
           /\ d.id \notin ScaleIds
           /\ \A h \in DOMAIN built : \A e \in ToSet(built[h]) : e.phony =>
                /\ e.id = d.id => h = g /\ e = d
                /\ h \in ToSet(file[g].groups) => e.id < d.id
  BY DEF NumbersInv
<1>3. /\ \A d \in ToSet(dims) : d.id \in Int
      /\ \A g \in DOMAIN built : \A d \in ToSet(built[g]) : d.id \in Int
  <2>1. \A d \in Dimensions : d.id \in Int
    BY DEF Dimensions
  <2>2. /\ \A d \in ToSet(dims) : d \in Dimensions
        /\ \A g \in DOMAIN built : \A d \in ToSet(built[g]) : d \in Dimensions
    BY <1>0 DEF TypeOK, ToSet
  <2>3. QED
    BY <2>1, <2>2
<1>4. NumbersUnique
  <2> SUFFICES ASSUME NEW g \in Begun, NEW d \in DimsOf(g), d.phony
               PROVE  /\ d.id \notin ScaleIds
                      /\ \A h \in Begun : \A e \in DimsOf(h) : e.phony /\ e.id = d.id => h = g /\ e = d
    BY DEF NumbersUnique
  <2>1. d.id \notin ScaleIds
    BY <1>1, <1>2
  <2>2. ASSUME NEW h \in Begun, NEW e \in DimsOf(h), e.phony, e.id = d.id PROVE h = g /\ e = d
    <3>1. CASE g \in DOMAIN built /\ h \in DOMAIN built
      <4>1. d \in ToSet(built[g]) /\ e \in ToSet(built[h])
        BY <1>1, <3>1
      <4>2. QED
        BY <1>2, <2>2, <3>1, <4>1
    <3>2. CASE g \in DOMAIN built /\ h \notin DOMAIN built
      <4>1. d \in ToSet(built[g]) /\ e \in ToSet(dims)
        BY <1>1, <3>2
      <4>2. d.id < e.id /\ d.id \in Int
        BY <1>2, <1>3, <2>2, <3>2, <4>1
      <4>3. QED
        BY <2>2, <4>2
    <3>3. CASE g \notin DOMAIN built /\ h \in DOMAIN built
      <4>1. d \in ToSet(dims) /\ e \in ToSet(built[h])
        BY <1>1, <3>3
      <4>2. e.id < d.id /\ d.id \in Int
        BY <1>2, <1>3, <2>2, <3>3, <4>1
      <4>3. QED
        BY <2>2, <4>2
    <3>4. CASE g \notin DOMAIN built /\ h \notin DOMAIN built
      <4>1. d \in ToSet(dims) /\ e \in ToSet(dims) /\ g = h
        BY <1>1, <3>4
      <4>2. QED
        BY <1>2, <2>2, <4>1
    <3>5. QED
      BY <3>1, <3>2, <3>3, <3>4
  <2>3. QED
    BY <2>1, <2>2
<1>5. ChildrenFirst
  <2> SUFFICES ASSUME NEW g \in Begun, NEW c \in ToSet(file[g].groups)
               PROVE  /\ c \in DOMAIN built
                      /\ \A d \in DimsOf(g), e \in DimsOf(c) : d.phony /\ e.phony => e.id < d.id
    BY DEF ChildrenFirst
  <2>1. c \in DOMAIN built
    <3>1. CASE g \in DOMAIN built
      BY <1>0, <3>1 DEF WalkInv
    <3>2. CASE Live /\ g = Group
      BY <1>0, <3>2, CurrentGroup
    <3>3. QED
      BY <1>1, <3>1, <3>2
  <2>2. DimsOf(c) = ToSet(built[c])
    BY <2>1 DEF DimsOf
  <2>3. QED
    BY <1>1, <1>2, <2>1, <2>2
<1>6. QED
  BY <1>4, <1>5 DEF NumbersFollowTheWalk

(* Stuttering steps included.                                              *)
LEMMA NumbersKept == IInv /\ NumbersInv /\ CounterFits /\ CounterFits' /\ [Next]_vars => NumbersInv'
<1> SUFFICES ASSUME IInv, NumbersInv, CounterFits, CounterFits', [Next]_vars PROVE NumbersInv'
  OBVIOUS
<1>1. CASE Next
  BY <1>1, NumbersStep DEF IInv
<1>2. CASE UNCHANGED vars
  <2>1. next' = next /\ scales' = scales /\ dims' = dims /\ built' = built /\ file' = file
    BY <1>2 DEF vars
  <2>2. QED
    BY <2>1 DEF NumbersInv, ScaleIds, ToSet
<1>3. QED
  BY <1>1, <1>2

(* As long as the counter has not come to the end of its range, the        *)
(* numbers invented are new and follow the walk, children first            *)
(* (netcdf.rs:648-649 and 700-706).                                        *)
THEOREM NumbersOrdered == Spec /\ []CounterFits => []NumbersFollowTheWalk
<1>1. Init => NumbersInv
  <2> SUFFICES ASSUME Init PROVE NumbersInv
    OBVIOUS
  <2>1. next = 0 /\ DOMAIN scales = {} /\ dims = <<>> /\ DOMAIN built = {}
    BY DEF Init
  <2>2. ToSet(dims) = {}
    BY <2>1 DEF ToSet
  <2>3. QED
    BY <2>1, <2>2 DEF NumbersInv
<1>2. IInv /\ NumbersInv /\ CounterFits /\ CounterFits' /\ [Next]_vars => NumbersInv'
  BY NumbersKept
<1>3. IInv /\ NumbersInv => NumbersFollowTheWalk
  BY NumbersFollow
<1>4. QED
  BY Invariance, <1>1, <1>2, <1>3, PTL DEF Spec

(* The name an axis gets: of a number used, and a number that is new if    *)
(* the axis is empty and its name invented.                                *)
LEMMA AxisName ==
  ASSUME IInv, NumbersInv, CounterFits, CounterFits', Next, NamedAxis \/ FittingAxis \/ InventAxis
  PROVE  \E x \in Names :
           /\ out' = Append(out, x)
           /\ x \in FileNames \/ x[2] < next'
           /\ Empty(named[Len(out) + 1], Current.axes[Len(out) + 1]) => x \in FileNames \/ x[2] = next
<1>0. TypeOK /\ AxesInv /\ DimsInv /\ next \in Int /\ next <= next' /\ next' \in Int
  BY CounterGrows, TypeStep DEF IInv, TypeOK
<1>1. CASE NamedAxis
  <2>1. named[Len(out) + 1] \in FileNames \cup {NoName} /\ named[Len(out) + 1] # NoName
    BY <1>0, <1>1 DEF NamedAxis, TypeOK
  <2>2. out' = Append(out, named[Len(out) + 1])
    BY <1>1 DEF NamedAxis
  <2>3. named[Len(out) + 1] \in FileNames /\ named[Len(out) + 1] \in Names
    BY <2>1, NameKinds
  <2>4. QED
    BY <2>2, <2>3
<1>2. CASE FittingAxis
  <2> DEFINE axis == Current.axes[Len(out) + 1]
  <2>1. PICK i \in DOMAIN dims : Fits(i, axis) /\ out' = Append(out, dims[i].name)
    BY <1>2 DEF FittingAxis
  <2>2. dims[i] \in Dimensions /\ next' = next
    BY <1>0, <1>2 DEF TypeOK, FittingAxis
  <2>3. dims[i].name \in Names /\ dims[i].id \in Int /\ dims[i].unlimited \in BOOLEAN
    BY <2>2 DEF Dimensions
  <2>4. dims[i].phony => dims[i].name[2] = dims[i].id
    BY <1>0, <2>3, NameKinds DEF DimsInv
  <2>5. dims[i].phony => dims[i].id < next
    <3>1. dims[i] \in ToSet(dims)
      BY DEF ToSet
    <3>2. QED
      BY <3>1 DEF NumbersInv
  <2>6. ~dims[i].phony => dims[i].name \in FileNames
    BY <1>0 DEF DimsInv
  <2>7. dims[i].name \in FileNames \/ dims[i].name[2] < next'
    BY <2>2, <2>4, <2>5, <2>6
  <2>8. Empty(named[Len(out) + 1], axis) => dims[i].name \in FileNames
    <3> SUFFICES ASSUME Empty(named[Len(out) + 1], axis) PROVE dims[i].name \in FileNames
      OBVIOUS
    <3>1. dims[i].len = 0 /\ ~dims[i].unlimited
      BY <2>1 DEF Fits, Empty
    <3>2. ~dims[i].phony
      BY <1>0, <3>1 DEF DimsInv
    <3>3. QED
      BY <2>6, <3>2
  <2>9. QED
    BY <2>1, <2>3, <2>7, <2>8
<1>3. CASE InventAxis
  <2>1. out' = Append(out, Phony(next)) /\ next' = next + 1
    BY <1>3, <1>0, CounterGrows DEF InventAxis
  <2>2. Phony(next) \in Names /\ Phony(next)[2] = next
    BY <1>0, NameKinds
  <2>3. Phony(next)[2] < next'
    BY <1>0, <2>1, <2>2
  <2>4. QED
    BY <2>1, <2>2, <2>3
<1>4. QED
  BY <1>1, <1>2, <1>3

(* A larger counter keeps the names below it.                              *)
LEMMA NamesBelow ==
  ASSUME TypeOK, ApartInv, NEW n \in Int, next <= n
  PROVE  /\ \A i \in DOMAIN out : out[i] \in FileNames \/ out[i][2] < n
         /\ \A k \in DOMAIN variables : \A i \in DOMAIN variables[k].names :
              variables[k].names[i] \in FileNames \/ variables[k].names[i][2] < n
<1>1. \A x \in Names : x[2] \in Int /\ next \in Int
  BY NameKinds DEF TypeOK
<1>2. \A i \in DOMAIN out : out[i] \in Names
  BY DEF TypeOK
<1>3. \A k \in DOMAIN variables : \A i \in DOMAIN variables[k].names : variables[k].names[i] \in Names
  <2>1. \A k \in DOMAIN variables : variables[k] \in Variables
    BY DEF TypeOK
  <2>2. \A v \in Variables : v.names \in Seq(Names)
    BY DEF Variables
  <2>3. QED
    BY <2>1, <2>2
<1>4. \A i \in DOMAIN out : out[i] \in FileNames \/ out[i][2] < n
  BY <1>1, <1>2 DEF ApartInv
<1>5. \A k \in DOMAIN variables : \A i \in DOMAIN variables[k].names :
        variables[k].names[i] \in FileNames \/ variables[k].names[i][2] < n
  BY <1>1, <1>3 DEF ApartInv
<1>6. QED
  BY <1>4, <1>5

(* Every step keeps the empty axes apart.                                  *)
LEMMA ApartStep ==
  ASSUME IInv, NumbersInv, ApartInv, CounterFits, CounterFits', Next
  PROVE  ApartInv'
<1>0. TypeOK /\ AxesInv /\ next \in Int /\ next <= next' /\ next' \in Int
  BY CounterGrows, TypeStep DEF IInv, TypeOK
<1>1. /\ \A i \in DOMAIN out : out[i] \in FileNames \/ out[i][2] < next'
      /\ \A k \in DOMAIN variables : \A i \in DOMAIN variables[k].names :
           variables[k].names[i] \in FileNames \/ variables[k].names[i][2] < next'
  BY <1>0, NamesBelow
<1>2. CASE NamedAxis \/ FittingAxis \/ InventAxis
  <2>1. /\ variables' = variables /\ phase = "axes" /\ phase' = "axes" /\ named' = named
        /\ Current' = Current
    BY <1>2 DEF NamedAxis, FittingAxis, InventAxis, Current
  <2>2. PICK x \in Names :
           /\ out' = Append(out, x)
           /\ x \in FileNames \/ x[2] < next'
           /\ Empty(named[Len(out) + 1], Current.axes[Len(out) + 1]) => x \in FileNames \/ x[2] = next
    BY <1>2, AxisName
  <2>3. PICK n : n = Len(out) + 1
    OBVIOUS
  <2>4. /\ DOMAIN out' = DOMAIN out \cup {n} /\ n \notin DOMAIN out
        /\ \A i \in DOMAIN out : out'[i] = out[i]
        /\ out'[n] = x
    BY <1>0, <2>2, <2>3, AppendFacts DEF TypeOK
  <2>5. \A i \in DOMAIN out' : out'[i] \in FileNames \/ out'[i][2] < next'
    BY <1>1, <2>2, <2>4
  <2> DEFINE E(i) == Empty(named[i], Current.axes[i])
             VE(k, i) == Empty(variables[k].named[i], variables[k].axes[i])
  <2>6. ASSUME E(n), x \notin FileNames
        PROVE  /\ \A i \in DOMAIN out : out[i] # x
               /\ \A k \in DOMAIN variables : \A i \in DOMAIN variables[k].axes : variables[k].names[i] # x
    <3>1. x[2] = next /\ ~(x[2] < next)
      BY <1>0, <2>2, <2>3, <2>6
    <3>2. \A k \in DOMAIN variables : DOMAIN variables[k].names = DOMAIN variables[k].axes
      <4>1. \A v \in Variables : v.names \in Seq(Names) /\ v.axes \in Seq(Axes)
        BY DEF Variables
      <4>2. \A k \in DOMAIN variables : variables[k] \in Variables
        BY <1>0 DEF TypeOK
      <4>3. \A k \in DOMAIN variables : Len(variables[k].names) = Len(variables[k].axes)
        BY <1>0 DEF AxesInv
      <4>4. QED
        BY <4>1, <4>2, <4>3
    <3>3. \A k \in DOMAIN variables : \A i \in DOMAIN variables[k].axes :
            variables[k].names[i] \in FileNames \/ variables[k].names[i][2] < next
      BY <3>2 DEF ApartInv
    <3>4. \A i \in DOMAIN out : out[i] \in FileNames \/ out[i][2] < next
      BY DEF ApartInv
    <3>5. QED
      BY <2>6, <3>1, <3>3, <3>4
  <2>7. \A j \in DOMAIN out : E(j) /\ out[j] \notin FileNames =>
          /\ \A i \in DOMAIN out : E(i) /\ out[i] = out[j] => i = j
          /\ \A k \in DOMAIN variables : \A i \in DOMAIN variables[k].axes :
               VE(k, i) => variables[k].names[i] # out[j]
    BY <2>1 DEF ApartInv
  <2>8. \A k, l \in DOMAIN variables :
          \A i \in DOMAIN variables[k].axes, j \in DOMAIN variables[l].axes :
            VE(k, i) /\ VE(l, j) /\ variables[k].names[i] = variables[l].names[j]
            /\ variables[k].names[i] \notin FileNames => k = l /\ i = j
    BY DEF ApartInv
  <2> HIDE DEF E, VE
  <2>9. ASSUME NEW j \in DOMAIN out', E(j), out'[j] \notin FileNames
        PROVE  /\ \A i \in DOMAIN out' : E(i) /\ out'[i] = out'[j] => i = j
               /\ \A k \in DOMAIN variables : \A i \in DOMAIN variables[k].axes :
                    VE(k, i) => variables[k].names[i] # out'[j]
    <3>1. CASE j = n
      BY <2>4, <2>6, <2>9, <3>1
    <3>2. CASE j # n
      <4>1. j \in DOMAIN out /\ out'[j] = out[j]
        BY <2>4, <3>2
      <4>2. ASSUME NEW i \in DOMAIN out', E(i), out'[i] = out'[j] PROVE i = j
        <5>1. i # n
          <6> SUFFICES ASSUME i = n PROVE FALSE
            OBVIOUS
          <6>1. E(n) /\ x = out[j] /\ x \notin FileNames
            BY <2>4, <2>9, <4>1, <4>2
          <6>2. QED
            BY <2>6, <4>1, <6>1
        <5>2. i \in DOMAIN out /\ out'[i] = out[i]
          BY <2>4, <5>1
        <5>3. QED
          BY <2>7, <2>9, <4>1, <4>2, <5>2
      <4>3. QED
        BY <2>7, <2>9, <4>1, <4>2
    <3>3. QED
      BY <3>1, <3>2
  <2>10. \A j \in DOMAIN out' : E(j)' /\ out'[j] \notin FileNames =>
           /\ \A i \in DOMAIN out' : E(i)' /\ out'[i] = out'[j] => i = j
           /\ \A k \in DOMAIN variables : \A i \in DOMAIN variables[k].axes :
                VE(k, i) => variables[k].names[i] # out'[j]
    <3>1. \A i : E(i)' <=> E(i)
      BY <2>1 DEF E
    <3>2. QED
      BY <2>9, <3>1
  <2>11. /\ \A i \in DOMAIN out' : out'[i] \in FileNames \/ out'[i][2] < next'
         /\ \A k \in DOMAIN variables' : \A i \in DOMAIN variables'[k].names :
              variables'[k].names[i] \in FileNames \/ variables'[k].names[i][2] < next'
    BY <1>1, <2>1, <2>5
  <2>12. QED
    BY <2>1, <2>8, <2>10, <2>11 DEF ApartInv, E, VE
<1>3. CASE EndVariable
  <2>1. /\ phase = "axes" /\ Len(out) = Len(named) /\ phase' = "variables" /\ out' = out /\ next' = next
        /\ variables' = Append(variables, [group |-> Group, axes |-> Current.axes,
                                           named |-> named, names |-> out])
    BY <1>3 DEF EndVariable
  <2>2. PICK n : n = Len(variables) + 1
    OBVIOUS
  <2>3. PICK v : v = [group |-> Group, axes |-> Current.axes, named |-> named, names |-> out]
    OBVIOUS
  <2>4. v.axes = Current.axes /\ v.named = named /\ v.names = out /\ variables' = Append(variables, v)
    BY <2>1, <2>3
  <2>5. /\ DOMAIN variables' = DOMAIN variables \cup {n} /\ n \notin DOMAIN variables
        /\ \A k \in DOMAIN variables : variables'[k] = variables[k]
        /\ variables'[n] = v
    BY <1>0, <2>2, <2>4, AppendFacts DEF TypeOK
  <2>6. DOMAIN v.axes = DOMAIN out
    <3>1. Current.axes \in Seq(Axes) /\ out \in Seq(Names) /\ Len(out) = Len(Current.axes)
      BY <1>0, <2>1, CurrentType DEF AxesInv, TypeOK
    <3>2. QED
      BY <2>4, <3>1
  <2>7. \A k \in DOMAIN variables' : \A i \in DOMAIN variables'[k].names :
          variables'[k].names[i] \in FileNames \/ variables'[k].names[i][2] < next'
    BY <1>1, <2>4, <2>5
  <2> DEFINE E(w, i) == Empty(w.named[i], w.axes[i])
  <2>8. \A j \in DOMAIN v.axes : E(v, j) /\ v.names[j] \notin FileNames =>
          /\ \A i \in DOMAIN v.axes : E(v, i) /\ v.names[i] = v.names[j] => i = j
          /\ \A k \in DOMAIN variables : \A i \in DOMAIN variables[k].axes :
               E(variables[k], i) => variables[k].names[i] # v.names[j]
    BY <2>1, <2>4, <2>6 DEF ApartInv
  <2>9. \A k, l \in DOMAIN variables :
          \A i \in DOMAIN variables[k].axes, j \in DOMAIN variables[l].axes :
            E(variables[k], i) /\ E(variables[l], j) /\ variables[k].names[i] = variables[l].names[j]
            /\ variables[k].names[i] \notin FileNames => k = l /\ i = j
    BY DEF ApartInv
  <2> HIDE DEF E
  <2>10. ASSUME NEW k \in DOMAIN variables', NEW l \in DOMAIN variables',
                NEW i \in DOMAIN variables'[k].axes, NEW j \in DOMAIN variables'[l].axes,
                E(variables'[k], i), E(variables'[l], j),
                variables'[k].names[i] = variables'[l].names[j],
                variables'[k].names[i] \notin FileNames
         PROVE  k = l /\ i = j
    <3>1. CASE k = n /\ l = n
      BY <2>5, <2>8, <2>10, <3>1
    <3>2. CASE k = n /\ l # n
      BY <2>5, <2>8, <2>10, <3>2
    <3>3. CASE k # n /\ l = n
      BY <2>5, <2>8, <2>10, <3>3
    <3>4. CASE k # n /\ l # n
      BY <2>5, <2>9, <2>10, <3>4
    <3>5. QED
      BY <3>1, <3>2, <3>3, <3>4
  <2>11. \A k, l \in DOMAIN variables' :
           \A i \in DOMAIN variables'[k].axes, j \in DOMAIN variables'[l].axes :
             /\ Empty(variables'[k].named[i], variables'[k].axes[i])
             /\ Empty(variables'[l].named[j], variables'[l].axes[j])
             /\ variables'[k].names[i] = variables'[l].names[j]
             /\ variables'[k].names[i] \notin FileNames
             => k = l /\ i = j
    BY <2>10 DEF E
  <2>12. phase' # "axes" /\ \A i \in DOMAIN out' : out'[i] \in FileNames \/ out'[i][2] < next'
    BY <1>1, <2>1
  <2>13. QED
    BY <2>7, <2>11, <2>12 DEF ApartInv
<1>4. CASE StartVariable
  <2>1. variables' = variables /\ out' = <<>>
    BY <1>4 DEF StartVariable
  <2>2. DOMAIN out' = {}
    BY <2>1
  <2>3. \A k, l \in DOMAIN variables :
          \A i \in DOMAIN variables[k].axes, j \in DOMAIN variables[l].axes :
            /\ Empty(variables[k].named[i], variables[k].axes[i])
            /\ Empty(variables[l].named[j], variables[l].axes[j])
            /\ variables[k].names[i] = variables[l].names[j]
            /\ variables[k].names[i] \notin FileNames
            => k = l /\ i = j
    BY DEF ApartInv
  <2>4. QED
    BY <1>1, <2>1, <2>2, <2>3 DEF ApartInv
<1>5. ASSUME ~NamedAxis, ~FittingAxis, ~InventAxis, ~EndVariable, ~StartVariable PROVE ApartInv'
  <2>1. variables' = variables /\ out' = out
    BY <1>0, <1>5, VariablesAfter, OutAfter
  <2>2. phase' # "axes"
    BY <1>5 DEF Next, Scan, ScanChildren, EndScan, Descend, Begin, Collect, Collected, EndGroup,
                SkipDimension, VariableFails
  <2>3. \A k, l \in DOMAIN variables :
          \A i \in DOMAIN variables[k].axes, j \in DOMAIN variables[l].axes :
            /\ Empty(variables[k].named[i], variables[k].axes[i])
            /\ Empty(variables[l].named[j], variables[l].axes[j])
            /\ variables[k].names[i] = variables[l].names[j]
            /\ variables[k].names[i] \notin FileNames
            => k = l /\ i = j
    BY DEF ApartInv
  <2>4. QED
    BY <1>1, <2>1, <2>2, <2>3 DEF ApartInv
<1>6. QED
  BY <1>2, <1>3, <1>4, <1>5

(* What that says of the variables built.                                  *)
LEMMA EmptyApart ==
  ASSUME IInv, ApartInv
  PROVE  EmptyAxesApart
<1> SUFFICES ASSUME NEW k \in DOMAIN variables, NEW l \in DOMAIN variables,
                    NEW i \in DOMAIN variables[k].axes, NEW j \in DOMAIN variables[l].axes,
                    <<k, i>> # <<l, j>>,
                    Empty(variables[k].named[i], variables[k].axes[i]),
                    Empty(variables[l].named[j], variables[l].axes[j]),
                    variables[k].names[i] = variables[l].names[j]
             PROVE  variables[k].names[i][1] = "name"
  BY DEF EmptyAxesApart
<1>1. ~(k = l /\ i = j)
  OBVIOUS
<1>2. variables[k].names[i] \in FileNames
  BY <1>1 DEF ApartInv
<1>3. QED
  BY <1>2, NameKinds

(* Invented dimensions serve the axes they are given to, and empty axes    *)
(* share none, as long as the counter has not come to the end of its range *)
(* (netcdf.rs:647-690).                                                    *)
THEOREM InventedServes == Spec /\ []CounterFits => []InventedServe
<1>1. Init => NumbersInv /\ ApartInv
  <2> SUFFICES ASSUME Init PROVE NumbersInv /\ ApartInv
    OBVIOUS
  <2>1. /\ next = 0 /\ DOMAIN scales = {} /\ dims = <<>> /\ DOMAIN built = {}
        /\ DOMAIN out = {} /\ DOMAIN variables = {}
    BY DEF Init
  <2>2. ToSet(dims) = {}
    BY <2>1 DEF ToSet
  <2>3. QED
    BY <2>1, <2>2 DEF NumbersInv, ApartInv
<1>2. IInv /\ NumbersInv /\ CounterFits /\ CounterFits' /\ [Next]_vars => NumbersInv'
  BY NumbersKept
<1>3. IInv /\ NumbersInv /\ ApartInv /\ CounterFits /\ CounterFits' /\ [Next]_vars => ApartInv'
  <2> SUFFICES ASSUME IInv, NumbersInv, ApartInv, CounterFits, CounterFits', [Next]_vars PROVE ApartInv'
    OBVIOUS
  <2>1. CASE Next
    BY <2>1, ApartStep
  <2>2. CASE UNCHANGED vars
    BY <2>2 DEF vars, ApartInv, Current
  <2>3. QED
    BY <2>1, <2>2
<1>4. IInv /\ ApartInv => InventedServe
  BY EmptyApart DEF InventedServe, IInv
<1>5. QED
  BY Invariance, <1>1, <1>2, <1>3, <1>4, PTL DEF Spec
================================================================================
