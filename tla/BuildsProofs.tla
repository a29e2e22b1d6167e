------------------------------ MODULE BuildsProofs ------------------------------
(***************************************************************************)
(* Proofs about VendorCRD, RuntimeValues, FileCopy and ModuleFetch, each   *)
(* on its own.                                                             *)
(*                                                                         *)
(* VendorCRD, for any manifests, command lines, directories and names, and *)
(* any number of runs and failures: what a run that ends well leaves, and  *)
(* that no run removes what timoni has not generated.                      *)
(*                                                                         *)
(* RuntimeValues, for any runtimes, objects, bundle files and attributes:  *)
(* every cluster gets its own values and no value of the wrong type.       *)
(*                                                                         *)
(* FileCopy, for any file systems and budgets: what a copy never touches,  *)
(* what one that ends well holds, and what one that fails has met.         *)
(*                                                                         *)
(* ModuleFetch, whatever the processes, the tags and the failures: a       *)
(* module is built from whole layers of the manifest it is pinned to, and  *)
(* a valid file of the cache stays valid.                                  *)
(***************************************************************************)
EXTENDS VendorCRD, RuntimeValues, FileCopy, ModuleFetch, FiniteSetTheorems,
        SequenceTheorems, WellFoundedInduction, TLAPS

(* Sets of numbers have a least element, and bounded ones a largest.         *)
LEMMA LeastNat ==
    ASSUME NEW T \in SUBSET Nat, T # {}
    PROVE  \E x \in T : \A y \in T : x <= y
<1>1. PICK x \in T : \A y \in T : <<y, x>> \notin OpToRel(<, Nat)
  BY NatLessThanWellFounded, WFMin
<1>2. \A y \in T : ~(y < x)
  BY <1>1 DEF OpToRel
<1> QED
  BY <1>2

LEMMA LargestNat ==
    ASSUME NEW n \in Nat, NEW T \in SUBSET (0..n), T # {}
    PROVE  \E x \in T : \A y \in T : y <= x
<1> DEFINE U == {i \in Nat : \E x \in T : i = n - x}
<1>1. U # {}
  <2>1. PICK x : x \in T
    OBVIOUS
  <2>2. n - x \in U
    BY <2>1
  <2> QED
    BY <2>2
<1>2. PICK u \in U : \A v \in U : u <= v
  <2> HIDE DEF U
  <2>1. U \in SUBSET Nat
    BY DEF U
  <2> QED
    BY <1>1, <2>1, LeastNat
<1>3. PICK x \in T : u = n - x
  BY <1>2
<1>4. ASSUME NEW y \in T PROVE y <= x
  <2>1. n - y \in U
    OBVIOUS
  <2>2. u <= n - y
    BY <1>2, <2>1
  <2> QED
    BY <1>3, <2>2
<1> QED
  BY <1>4

--------------------------------------------------------------------------------
(* VendorCRD. *)

(* What the elements of paths are. *)
Element == STRING \cup Names \cup {"#", "[0]", "[_]", "...", "types_gen.cue"}

PathOf(p) == p \in Seq(Element) /\ \A n \in DOMAIN p : p[n] \notin {"#", "[0]"}

--------------------------------------------------------------------------------
(* Sequences. *)

LEMMA StringPath == ASSUME NEW p \in Seq(STRING) PROVE p \in Seq(Element)
  BY DEF Element

LEMMA NamePath == ASSUME NEW p \in Seq(Names) PROVE p \in Seq(Element)
  BY DEF Element

(* A file is below its key, and only below it. *)
LEMMA GenFilePath ==
    ASSUME NEW k \in Seq(Element)
    PROVE  /\ GenFile(k) \in Seq(Element)
           /\ Len(GenFile(k)) = Len(k) + 1
           /\ \A n \in 1..Len(k) : SubSeq(GenFile(k), 1, n) = SubSeq(k, 1, n)
           /\ SubSeq(GenFile(k), 1, Len(k)) = k
           /\ k # << >> => GenFile(k)[1] = k[1]
<1>1. "types_gen.cue" \in Element
  BY DEF Element
<1>2. /\ GenFile(k) \in Seq(Element) /\ Len(GenFile(k)) = Len(k) + 1
      /\ \A i \in 1..Len(k) : GenFile(k)[i] = k[i]
  BY <1>1 DEF GenFile
<1>3. ASSUME NEW n \in 1..Len(k) PROVE SubSeq(GenFile(k), 1, n) = SubSeq(k, 1, n)
  BY <1>2
<1>4. SubSeq(GenFile(k), 1, Len(k)) = k
  BY <1>2
<1> QED
  BY <1>2, <1>3, <1>4

LEMMA GenFileInjective ==
    ASSUME NEW k \in Seq(Element), NEW e \in Seq(Element), GenFile(k) = GenFile(e)
    PROVE  k = e
<1>1. Len(k) = Len(e)
  BY GenFilePath
<1> QED
  BY <1>1, GenFilePath

(* The first of the natural numbers of a set, and the last of a bounded one. *)
--------------------------------------------------------------------------------
(* What is generated from a schema. *)

SchemaOf(version) ==
    /\ \A p \in version.fields : PathOf(p) /\ p # << >>
    /\ version.marked \subseteq version.fields \cup {<< >>}

LEMMA NoPath == PathOf(<< >>)
  BY DEF PathOf

(* preservePathMatches, of the end of a path, finds the path that is marked. *)
LEMMA PathMatches ==
    ASSUME NEW p, NEW q, PathOf(p), PathOf(q)
    PROVE  PreservePathMatches(<<"#">> \o p, StructPath(q)) <=> p = q
<1> DEFINE r == <<"#">> \o p
           e == [n \in DOMAIN q |-> IF q[n] = "[_]" THEN "[0]" ELSE q[n]]
           c == <<"#">> \o e
<1>1. "#" \in Element /\ "[0]" \in Element
  BY DEF Element
<1>2. p \in Seq(Element) /\ q \in Seq(Element)
  BY DEF PathOf
<1>3. e \in Seq(Element) /\ Len(e) = Len(q) /\ DOMAIN e = 1..Len(q)
  BY <1>1, <1>2
<1>4. /\ r \in Seq(Element) /\ Len(r) = Len(p) + 1 /\ r[1] = "#"
      /\ \A n \in 1..Len(p) : r[n + 1] = p[n]
  BY <1>1, <1>2
<1>5. /\ c \in Seq(Element) /\ Len(c) = Len(q) + 1 /\ c[1] = "#"
      /\ \A n \in 1..Len(q) : c[n + 1] = e[n]
  <2> HIDE DEF e
  <2> QED
    BY <1>1, <1>3
<1>6. c = StructPath(q)
  BY DEF StructPath
<1>7. \A n \in 1..Len(q) : e[n] = IF q[n] = "[_]" THEN "[0]" ELSE q[n]
  BY <1>2
<1>8. DOMAIN c = 1..(Len(q) + 1)
  BY <1>5
<1> HIDE DEF r, c, e
<1>n. Len(p) \in Nat /\ Len(q) \in Nat
  BY <1>2
<1>9. ASSUME p = q PROVE PreservePathMatches(r, c)
  <2>1. Len(c) = Len(r)
    BY <1>4, <1>5, <1>9
  <2>2. ASSUME NEW n \in DOMAIN c PROVE r[n] = c[n] \/ (r[n] = "[_]" /\ c[n] = "[0]")
    <3>1. CASE n = 1
      BY <3>1, <1>4, <1>5
    <3>2. CASE n # 1
      <4>1. n - 1 \in 1..Len(q) /\ n = (n - 1) + 1
        BY <3>2, <1>8, <1>2
      <4>2. r[n] = q[n - 1] /\ c[n] = e[n - 1]
        BY <4>1, <1>4, <1>5, <1>9
      <4> QED
        BY <4>1, <4>2, <1>7
    <3> QED
      BY <3>1, <3>2
  <2>3. \A n \in DOMAIN c : Len(r) - Len(c) + n = n
    BY <2>1, <1>4, <1>8, <1>2
  <2> QED
    BY <2>1, <2>2, <2>3, <1>4 DEF PreservePathMatches
<1>10. ASSUME PreservePathMatches(r, c) PROVE p = q
  <2>1. /\ Len(c) <= Len(r)
        /\ \A n \in DOMAIN c : LET want == r[Len(r) - Len(c) + n]
                               IN  want = c[n] \/ (want = "[_]" /\ c[n] = "[0]")
    BY <1>10 DEF PreservePathMatches
  <2>2. r[Len(r) - Len(c) + 1] = "#"
    <3>1. 1 \in DOMAIN c
      BY <1>8, <1>2
    <3> QED
      BY <2>1, <3>1, <1>5
  <2>3. Len(r) = Len(c)
    <3>1. SUFFICES ASSUME Len(r) # Len(c) PROVE FALSE
      OBVIOUS
    <3>2. Len(r) - Len(c) \in 1..Len(p)
      BY <3>1, <2>1, <1>2, <1>4, <1>5
    <3>3. p[Len(r) - Len(c)] = "#"
      BY <3>2, <2>2, <1>4
    <3>4. Len(r) - Len(c) \in DOMAIN p
      BY <3>2, <1>2
    <3> QED
      BY <3>3, <3>4 DEF PathOf
  <2>4. Len(p) = Len(q)
    <3>1. Len(p) + 1 = Len(q) + 1
      BY <2>3, <1>4, <1>5
    <3> QED
      BY <3>1, <1>n
  <2>5. ASSUME NEW n \in 1..Len(q) PROVE p[n] = q[n]
    <3>1. n + 1 \in DOMAIN c /\ Len(r) - Len(c) + (n + 1) = n + 1
      BY <1>n, <1>8, <2>3, <1>5
    <3>2. r[n + 1] = p[n] /\ c[n + 1] = e[n]
      BY <1>4, <1>5, <2>4
    <3>3. p[n] = e[n] \/ (p[n] = "[_]" /\ e[n] = "[0]")
      BY <2>1, <3>1, <3>2
    <3>4. p[n] # "[0]" /\ q[n] # "[0]"
      <4>1. n \in DOMAIN p /\ n \in DOMAIN q
        BY <1>2, <2>4
      <4> QED
        BY <4>1 DEF PathOf
    <3> QED
      BY <3>3, <3>4, <1>7
  <2> QED
    BY <2>4, <2>5, <1>2
<1> QED
  BY <1>6, <1>9, <1>10 DEF r

(* Unknown fields are taken where the schema says so, and nowhere else. *)
LEMMA EllipsesOf ==
    ASSUME NEW fields, NEW marked, \A p \in fields : PathOf(p)
    PROVE  WithEllipses(fields, marked) =
               fields \cup {Append(p, "...") : p \in marked \cap (fields \cup {<< >>})}
<1> DEFINE all == fields \cup {<< >>}
           marks == PreserveUnknownFieldsPaths(fields, marked)
<1>1. \A p \in all : PathOf(p)
  BY NoPath
<1>2. ASSUME NEW q \in all
      PROVE  (\E r \in marks : PreservePathMatches(r, StructPath(q))) <=> q \in marked \cap all
  <2>1. (\E r \in marks : PreservePathMatches(r, StructPath(q)))
            <=> \E p \in marked \cap all : PreservePathMatches(<<"#">> \o p, StructPath(q))
    BY DEF PreserveUnknownFieldsPaths
  <2> QED
    BY <2>1, <1>1, PathMatches
<1>3. {q \in all : \E r \in marks : PreservePathMatches(r, StructPath(q))} = marked \cap all
  BY <1>2
<1> QED
  BY <1>3 DEF WithEllipses

LEMMA StatusIsLost ==
    ASSUME NEW p \in Seq(Element), p # << >>, p[1] = "status"
    PROVE  Lost(p) /\ Lost(Append(p, "..."))
<1>1. 1 \in DOMAIN p /\ 1..(1 - 1) = {}
  OBVIOUS
<1>2. "..." \in Element
  BY DEF Element
<1>3. 1 \in DOMAIN Append(p, "...") /\ Append(p, "...")[1] = "status"
  BY <1>2
<1>4. Lost(p)
  BY <1>1 DEF Lost
<1>5. Lost(Append(p, "..."))
  BY <1>1, <1>3 DEF Lost
<1> QED
  BY <1>4, <1>5

(* convertCRD has the fields of the schema, and unknown ones where it takes  *)
(* them.                                                                     *)
LEMMA ConvertedAsExpected ==
    ASSUME NEW version, SchemaOf(version)
    PROVE  ConvertCRD(version) = Expected(version)
<1> DEFINE F == version.fields
           M == version.marked
           G == WithoutStatus(F)
<1>1. \A p \in F : PathOf(p) /\ p \in Seq(Element) /\ p # << >>
  BY DEF SchemaOf, PathOf
<1>2. G \subseteq F /\ \A p \in F \ G : p[1] = "status"
  BY DEF WithoutStatus
<1>3. WithEllipses(G, M) = G \cup {Append(p, "...") : p \in M \cap (G \cup {<< >>})}
  BY <1>1, <1>2, EllipsesOf
<1>4. \A p : (\A n \in Walked(p) : p[n] \notin {"status", "info"}) <=> ~Lost(p)
  BY DEF Walked, Lost
<1>5. ConvertCRD(version) = {p \in WithEllipses(G, M) : ~Lost(p)}
  BY <1>4 DEF ConvertCRD
<1>6. \A p \in F \ G : Lost(p) /\ Lost(Append(p, "..."))
  BY <1>1, <1>2, StatusIsLost
<1>7. M \subseteq F \cup {<< >>}
  BY DEF SchemaOf
<1> QED
  BY <1>2, <1>3, <1>5, <1>6, <1>7 DEF Expected

--------------------------------------------------------------------------------
(* The versions that are selected, and their keys. *)

LEMMA SelectedIs ==
    ASSUME NEW l, NEW d
    PROVE  d \in SelectCRDs(l) <=>
               \E n \in SelectKinds(l) : \E i \in FilterVersions(l, l.manifest.objects[n]) : d = <<n, i>>
<1>1. d \in SelectCRDs(l) <=>
          \E n \in SelectKinds(l) : d \in {n} \X FilterVersions(l, l.manifest.objects[n])
  BY DEF SelectCRDs
<1> QED
  BY <1>1

LEMMA AskedIsSelected == Asked = SelectCRDs(line)
<1>1. ASSUME NEW d PROVE d \in Asked <=> d \in SelectCRDs(line)
  <2>1. d \in Asked <=>
            /\ Wanted(d)
            /\ \E n \in ExtractCRDs(line.manifest) : d \in {n} \X DOMAIN line.manifest.objects[n].versions
    BY DEF Asked
  <2>2. d \in Asked <=>
            \E n \in ExtractCRDs(line.manifest) : \E i \in DOMAIN line.manifest.objects[n].versions :
                d = <<n, i>> /\ Wanted(d)
    BY <2>1
  <2>3. ASSUME NEW n \in ExtractCRDs(line.manifest), NEW i \in DOMAIN line.manifest.objects[n].versions
        PROVE  Wanted(<<n, i>>) <=> n \in SelectKinds(line) /\ i \in FilterVersions(line, line.manifest.objects[n])
    BY DEF Wanted, SelectKinds, Selectors, FilterVersions
  <2>4. \A n \in SelectKinds(line) : n \in ExtractCRDs(line.manifest)
    BY DEF SelectKinds
  <2>5. \A n \in SelectKinds(line) : FilterVersions(line, line.manifest.objects[n])
                                        \subseteq DOMAIN line.manifest.objects[n].versions
    BY DEF FilterVersions
  <2> QED
    BY <2>2, <2>3, <2>4, <2>5, SelectedIs
<1> QED
  BY <1>1

IsYAML(l) == l \in Lines /\ l.manifest.objects # Broken

LEMMA CrdTyped ==
    ASSUME NEW l, IsYAML(l), NEW n \in ExtractCRDs(l.manifest)
    PROVE  LET crd == l.manifest.objects[n]
           IN  /\ n \in 1..Len(l.manifest.objects) /\ Len(l.manifest.objects) \in Nat
               /\ crd.group \in Names /\ Singular(crd) \in Names
               /\ Len(crd.versions) \in Nat /\ DOMAIN crd.versions = 1..Len(crd.versions)
               /\ \A i \in DOMAIN crd.versions :
                      crd.versions[i].name \in Names /\ SchemaOf(crd.versions[i])
<1> DEFINE crd == l.manifest.objects[n]
<1>1. /\ Len(l.manifest.objects) \in Nat /\ DOMAIN l.manifest.objects = 1..Len(l.manifest.objects)
      /\ \A i \in Names : Fold[i] \in Names
      /\ crd.kind \in Names /\ crd.group \in Names /\ crd.singular \in Names
      /\ Len(crd.versions) \in Nat /\ DOMAIN crd.versions = 1..Len(crd.versions)
  BY VendorAssumption DEF VendorAssumption, IsYAML
<1>2. \A i \in DOMAIN crd.versions :
          /\ crd.versions[i].name \in Names
          /\ \A p \in crd.versions[i].fields :
                 p \in Seq(STRING) /\ (\A m \in DOMAIN p : p[m] \notin {"#", "[0]"}) /\ p # << >>
          /\ crd.versions[i].marked \subseteq crd.versions[i].fields \cup {<< >>}
  BY VendorAssumption DEF VendorAssumption, IsYAML
<1>3. \A i \in DOMAIN crd.versions : SchemaOf(crd.versions[i])
  BY <1>2, StringPath DEF SchemaOf, PathOf
<1>4. n \in DOMAIN l.manifest.objects
  BY DEF ExtractCRDs
<1>5. Singular(crd) \in Names
  BY <1>1 DEF Singular
<1> QED
  BY <1>1, <1>2, <1>3, <1>4, <1>5

LEMMA KeyOf ==
    ASSUME NEW l, IsYAML(l), NEW d \in SelectCRDs(l)
    PROVE  /\ CrdKey(l, d) \in Seq(Element) /\ Len(CrdKey(l, d)) = 3
           /\ d[1] \in SelectKinds(l) /\ CrdKey(l, d)[1] = l.manifest.objects[d[1]].group
           /\ SchemaOf(VersionOf(l, d))
<1>1. PICK n \in SelectKinds(l) : \E i \in FilterVersions(l, l.manifest.objects[n]) : d = <<n, i>>
  BY SelectedIs
<1>2. PICK i \in FilterVersions(l, l.manifest.objects[n]) : d = <<n, i>>
  BY <1>1
<1>3. n \in ExtractCRDs(l.manifest) /\ i \in DOMAIN l.manifest.objects[n].versions
  BY DEF SelectKinds, FilterVersions
<1> DEFINE crd == l.manifest.objects[n]
<1>4. crd.group \in Names /\ Singular(crd) \in Names /\ crd.versions[i].name \in Names
      /\ SchemaOf(crd.versions[i])
  BY <1>3, CrdTyped
<1>5. CrdKey(l, d) = <<crd.group, Singular(crd), crd.versions[i].name>>
  BY <1>2 DEF CrdKey
<1>6. CrdKey(l, d) \in Seq(Names)
  BY <1>4, <1>5
<1> QED
  BY <1>2, <1>4, <1>5, <1>6, NamePath DEF VersionOf

(* Of the definitions with one key, one is the last. *)
LEMMA FirstTyped ==
    ASSUME NEW l, IsYAML(l), NEW n \in SelectKinds(l)
    PROVE  First(l, n) \in 0..Len(l.kinds) /\ Len(l.kinds) \in Nat
<1>1. Len(l.kinds) \in Nat /\ DOMAIN l.kinds = 1..Len(l.kinds)
  BY VendorAssumption DEF VendorAssumption, IsYAML
<1>2. CASE l.kinds = << >>
  BY <1>1, <1>2 DEF First
<1>3. CASE l.kinds # << >>
  <2> DEFINE S == Selectors(l, l.manifest.objects[n])
  <2>1. S # {} /\ S \subseteq DOMAIN l.kinds
    BY <1>3 DEF SelectKinds, Selectors
  <2>2. PICK s \in S : \A t \in S : s <= t
    <3>1. S \in SUBSET Nat
      BY <1>1, <2>1
    <3> QED
      BY <2>1, <3>1, LeastNat
  <2>3. First(l, n) \in S
    BY <1>3, <2>2 DEF First
  <2> QED
    BY <1>1, <2>1, <2>3
<1> QED
  BY <1>2, <1>3

LEMMA LastExists ==
    ASSUME NEW l, IsYAML(l), NEW k, NEW d \in SelectCRDs(l), CrdKey(l, d) = k
    PROVE  LastOf(l, k) \in SelectCRDs(l) /\ CrdKey(l, LastOf(l, k)) = k
<1> DEFINE D == {e \in SelectCRDs(l) : CrdKey(l, e) = k}
<1>1. \A e \in D : /\ e[1] \in SelectKinds(l) /\ e[1] \in 1..Len(l.manifest.objects)
                   /\ e[2] \in 1..Len(l.manifest.objects[e[1]].versions)
                   /\ e = <<e[1], e[2]>>
  <2> SUFFICES ASSUME NEW n \in SelectKinds(l), NEW i \in FilterVersions(l, l.manifest.objects[n])
               PROVE  /\ n \in 1..Len(l.manifest.objects)
                      /\ i \in 1..Len(l.manifest.objects[n].versions)
    BY SelectedIs
  <2>1. n \in ExtractCRDs(l.manifest) /\ i \in DOMAIN l.manifest.objects[n].versions
    BY DEF SelectKinds, FilterVersions
  <2> QED
    BY <2>1, CrdTyped
<1>2. d \in D
  OBVIOUS
<1> HIDE DEF D
<1>3. PICK f : (\E e \in D : First(l, e[1]) = f) /\ \A e \in D : First(l, e[1]) <= f
  <2> DEFINE T == {First(l, e[1]) : e \in D}
  <2>1. T \in SUBSET (0..Len(l.kinds)) /\ Len(l.kinds) \in Nat
    BY <1>1, <1>2, FirstTyped
  <2>2. T # {}
    BY <1>2
  <2>3. PICK x \in T : \A y \in T : y <= x
    <3> HIDE DEF T
    <3> QED
      BY <2>1, <2>2, LargestNat
  <2> QED
    BY <2>3
<1>4. PICK n : /\ \E e \in D : First(l, e[1]) = f /\ e[1] = n
               /\ \A e \in D : First(l, e[1]) = f => e[1] <= n
  <2> DEFINE E == {e \in D : First(l, e[1]) = f}
             T == {e[1] : e \in E}
  <2>1. PICK e \in E : TRUE
    BY <1>3
  <2>2. T \in SUBSET (0..Len(l.manifest.objects)) /\ Len(l.manifest.objects) \in Nat
    <3>1. e[1] \in ExtractCRDs(l.manifest)
      BY <1>1 DEF SelectKinds
    <3> QED
      BY <1>1, <3>1, CrdTyped
  <2>3. T # {}
    BY <2>1
  <2>4. PICK x \in T : \A y \in T : y <= x
    <3> HIDE DEF T
    <3> QED
      BY <2>2, <2>3, LargestNat
  <2> QED
    BY <2>4
<1>5. PICK g : (<<n, g>> \in D /\ First(l, n) = f) /\ \A e \in D : e[1] = n => e[2] <= g
  <2> DEFINE E == {e \in D : e[1] = n}
             T == {e[2] : e \in E}
             m == Len(l.manifest.objects[n].versions)
  <2>1. PICK e \in D : First(l, e[1]) = f /\ e[1] = n
    BY <1>4
  <2>2. T \in SUBSET (0..m) /\ m \in Nat
    <3>1. n \in ExtractCRDs(l.manifest)
      BY <1>1, <2>1 DEF SelectKinds
    <3> QED
      BY <1>1, <3>1, CrdTyped
  <2>3. T # {}
    BY <2>1
  <2>4. PICK x \in T : \A y \in T : y <= x
    <3> HIDE DEF T, m
    <3> QED
      BY <2>2, <2>3, LargestNat
  <2> QED
    BY <2>1, <2>4, <1>1
<1>6. \A e \in D : ~Before(l, <<n, g>>, e)
  <2> SUFFICES ASSUME NEW e \in D PROVE ~Before(l, <<n, g>>, e)
    OBVIOUS
  <2>1. First(l, e[1]) <= f /\ (First(l, e[1]) = f => e[1] <= n) /\ (e[1] = n => e[2] <= g)
    BY <1>3, <1>4, <1>5
  <2>2. e[1] \in Int /\ e[2] \in Int /\ First(l, e[1]) \in Int
    <3>1. e[1] \in SelectKinds(l)
      BY <1>1
    <3>2. First(l, e[1]) \in 0..Len(l.kinds)
      BY <3>1, FirstTyped
    <3> QED
      BY <1>1, <3>2
  <2>3. n \in Int /\ g \in Int /\ f \in Int
    <3>1. <<n, g>>[1] = n /\ <<n, g>>[2] = g
      OBVIOUS
    <3>2. n \in SelectKinds(l) /\ n \in 1..Len(l.manifest.objects)
          /\ g \in 1..Len(l.manifest.objects[n].versions)
      BY <1>1, <1>5, <3>1
    <3>3. First(l, n) \in 0..Len(l.kinds)
      BY <3>2, FirstTyped
    <3> QED
      BY <3>2, <3>3, <1>5
  <2> QED
    BY <2>1, <2>2, <2>3, <1>5 DEF Before
<1>7. \E x \in SelectCRDs(l) :
          CrdKey(l, x) = k /\ \A e \in SelectCRDs(l) : CrdKey(l, e) = k => ~Before(l, x, e)
  BY <1>5, <1>6 DEF D
<1> QED
  BY <1>7 DEF LastOf

(* Generate gives each key the definitions of a version that has it, as its  *)
(* schema says.                                                              *)
LEMMA GenerateGives ==
    ASSUME NEW l, IsYAML(l)
    PROVE  /\ DOMAIN Generate(l) = {CrdKey(l, d) : d \in SelectCRDs(l)}
           /\ \A k \in DOMAIN Generate(l) :
                  /\ k \in Seq(Element) /\ Len(k) = 3
                  /\ \E d \in SelectCRDs(l) :
                         k = CrdKey(l, d) /\ Generate(l)[k] = Expected(VersionOf(l, d))
<1>1. DOMAIN Generate(l) = {CrdKey(l, d) : d \in SelectCRDs(l)}
  BY DEF Generate
<1>2. ASSUME NEW k \in DOMAIN Generate(l)
      PROVE  /\ k \in Seq(Element) /\ Len(k) = 3
             /\ \E d \in SelectCRDs(l) : k = CrdKey(l, d) /\ Generate(l)[k] = Expected(VersionOf(l, d))
  <2>1. PICK d \in SelectCRDs(l) : CrdKey(l, d) = k
    BY <1>1
  <2>2. LastOf(l, k) \in SelectCRDs(l) /\ CrdKey(l, LastOf(l, k)) = k
    BY <2>1, LastExists
  <2>3. Generate(l)[k] = ConvertCRD(VersionOf(l, LastOf(l, k)))
    BY DEF Generate
  <2>4. ConvertCRD(VersionOf(l, LastOf(l, k))) = Expected(VersionOf(l, LastOf(l, k)))
    BY <2>2, KeyOf, ConvertedAsExpected
  <2> QED
    BY <2>1, <2>2, <2>3, <2>4, KeyOf
<1> QED
  BY <1>1, <1>2

--------------------------------------------------------------------------------
(* The invariant. *)

VendorTypes == line \in Lines /\ DOMAIN tree \subseteq Seq(Element)

(* Definitions are generated from a manifest that was accepted, and those    *)
(* that are not unwritten are in their file until the next run.              *)
Prepared ==
    /\ stage \in {"write", "prune", "done"} => Prepares(line) /\ generated = Generate(line)
    /\ unwritten \subseteq DOMAIN generated
    /\ stage # "write" => unwritten = {}

InPlace ==
    stage \in {"write", "prune", "done"} =>
        \A k \in DOMAIN generated \ unwritten :
            GenFile(k) \in DOMAIN tree /\ tree[GenFile(k)].def = generated[k]

(* Pruning is asked for, and ends when nothing stale is left; without an     *)
(* accepted manifest nothing has changed.                                    *)
Pruning ==
    /\ stage = "prune" => line.prune
    /\ stage = "done" /\ line.prune => Stale = {}

Untouched ==
    /\ stage \in {"select", "listed"} => tree = kept
    /\ stage = "failed" /\ tree # kept => Prepares(line)

VendorInv == VendorTypes /\ Prepared /\ InPlace /\ Pruning /\ Untouched

LEMMA PreparesYAML == ASSUME NEW l \in Lines, Prepares(l) PROVE IsYAML(l)
  BY DEF Prepares, Readable, IsYAML

LEMMA GeneratedKeys ==
    ASSUME VendorInv, stage \in {"write", "prune", "done"}
    PROVE  \A k \in DOMAIN generated : k \in Seq(Element) /\ Len(k) = 3
  BY PreparesYAML, GenerateGives DEF VendorInv, VendorTypes, Prepared

LEMMA VendorStarts == VendorInit => VendorInv
<1> SUFFICES ASSUME VendorInit PROVE VendorInv
  OBVIOUS
<1> USE DEF VendorInit
<1>1. DOMAIN tree \subseteq Seq(Element)
  <2>1. DOMAIN tree \subseteq Seq(STRING)
    BY VendorAssumption DEF VendorAssumption
  <2> QED
    BY <2>1, StringPath
<1>2. VendorTypes
  BY <1>1 DEF VendorTypes
<1>3. Prepared /\ InPlace /\ Pruning /\ Untouched
  BY DEF Prepared, InPlace, Pruning, Untouched
<1> QED
  BY <1>2, <1>3 DEF VendorInv

--------------------------------------------------------------------------------
(* What each step does to the files. *)

(* Directories are made where nothing is, and nothing but the file changes. *)
LEMMA FileWritten ==
    ASSUME NEW t, NEW k, NEW c
    PROVE  LET s == WriteFile(MkdirAll(t, k), GenFile(k), c)
           IN  /\ DOMAIN s = DOMAIN t \cup Parents(k) \cup {GenFile(k)}
               /\ \A p \in DOMAIN t : p # GenFile(k) => s[p] = t[p]
               /\ s[GenFile(k)] \in {c, Linked(c)}
<1> DEFINE m == MkdirAll(t, k)
           s == WriteFile(m, GenFile(k), c)
<1>1. DOMAIN m = DOMAIN t \cup Parents(k) /\ \A p \in DOMAIN t : m[p] = t[p]
  BY DEF MkdirAll
<1> HIDE DEF m
<1>2. DOMAIN s = {GenFile(k)} \cup DOMAIN m /\ s[GenFile(k)] \in {c, Linked(c)}
      /\ \A p \in DOMAIN m : p # GenFile(k) => s[p] = m[p]
  BY DEF WriteFile
<1> QED
  BY <1>1, <1>2 DEF m

LEMMA DirectoriesMade ==
    ASSUME NEW t, NEW k
    PROVE  /\ DOMAIN MkdirAll(t, k) = DOMAIN t \cup Parents(k)
           /\ \A p \in DOMAIN t : MkdirAll(t, k)[p] = t[p]
  BY DEF MkdirAll

LEMMA ParentPaths ==
    ASSUME NEW k \in Seq(Element), Len(k) = 3
    PROVE  Parents(k) \cup {GenFile(k)} \subseteq Seq(Element)
<1>1. \A n \in 1..3 : SubSeq(k, 1, n) \in Seq(Element)
  OBVIOUS
<1> QED
  BY <1>1, GenFilePath DEF Parents

--------------------------------------------------------------------------------
(* Each step keeps the invariant. *)

LEMMA RunKeeps == ASSUME VendorInv, Run PROVE VendorInv'
<1> USE DEF VendorInv, VendorTypes, Run
<1>1. VendorTypes'
  OBVIOUS
<1>2. unwritten = {}
  BY DEF Prepared
<1>3. Prepared' /\ InPlace' /\ Pruning' /\ Untouched'
  BY <1>2 DEF Prepared, InPlace, Pruning, Untouched
<1> QED
  BY <1>1, <1>3

LEMMA SelectKeeps == ASSUME VendorInv, Select PROVE VendorInv'
<1> USE DEF VendorInv, VendorTypes
<1>1. /\ UNCHANGED <<line, tree, kept>> /\ stage = "select" /\ tree = kept /\ unwritten = {}
  BY DEF Select, Untouched, Prepared
<1>2. CASE /\ Prepares(line)
           /\ generated' = Generate(line) /\ unwritten' = DOMAIN generated' /\ stage' = "write"
  <2>1. Prepares(line)'
    BY <1>1, <1>2 DEF Prepares, Readable, WellFormed, Selects
  <2>2. Prepared'
    BY <1>1, <1>2, <2>1 DEF Prepared
  <2>3. InPlace' /\ Pruning' /\ Untouched'
    BY <1>1, <1>2 DEF InPlace, Pruning, Untouched
  <2> QED
    BY <1>1, <2>2, <2>3
<1>3. CASE stage' \in {"listed", "failed"} /\ UNCHANGED <<generated, unwritten>>
  <2>1. Prepared' /\ InPlace' /\ Pruning' /\ Untouched'
    BY <1>1, <1>3 DEF Prepared, InPlace, Pruning, Untouched
  <2> QED
    BY <1>1, <2>1
<1> QED
  BY <1>2, <1>3 DEF Select

LEMMA DefinitionsKeep ==
    ASSUME VendorInv, stage = "write", NEW k \in unwritten,
           UNCHANGED <<line, generated, kept, stage>>,
           tree' = WriteFile(MkdirAll(tree, k), GenFile(k), Definitions(generated[k])),
           unwritten' = unwritten \ {k}
    PROVE  VendorInv'
<1> USE DEF VendorInv
<1>1. k \in DOMAIN generated /\ k \in Seq(Element) /\ Len(k) = 3
  BY GeneratedKeys DEF Prepared
<1>2. /\ DOMAIN tree' = DOMAIN tree \cup Parents(k) \cup {GenFile(k)}
      /\ tree'[GenFile(k)].def = generated[k]
      /\ \A p \in DOMAIN tree : p # GenFile(k) => tree'[p] = tree[p]
  <2>1. tree'[GenFile(k)] \in {Definitions(generated[k]), Linked(Definitions(generated[k]))}
    BY FileWritten
  <2>2. tree'[GenFile(k)].def = generated[k]
    BY <2>1 DEF Definitions, Linked
  <2>3. DOMAIN tree' = DOMAIN tree \cup Parents(k) \cup {GenFile(k)}
    BY FileWritten
  <2>4. \A p \in DOMAIN tree : p # GenFile(k) => tree'[p] = tree[p]
    BY FileWritten
  <2> QED
    BY <2>2, <2>3, <2>4
<1>3. VendorTypes'
  BY <1>1, <1>2, ParentPaths DEF VendorTypes
<1>4. Prepared'
  <2>1. Prepares(line)' /\ Generate(line)' = Generate(line)
    BY DEF Prepared
  <2> QED
    BY <2>1 DEF Prepared
<1>5. InPlace'
  <2> SUFFICES ASSUME NEW e \in DOMAIN generated \ (unwritten \ {k})
               PROVE  GenFile(e) \in DOMAIN tree' /\ tree'[GenFile(e)].def = generated[e]
    BY DEF InPlace
  <2>1. CASE e = k
    BY <1>2, <2>1
  <2>2. CASE e # k
    <3>1. e \in Seq(Element)
      BY GeneratedKeys
    <3>2. GenFile(e) # GenFile(k)
      BY <1>1, <2>2, <3>1, GenFileInjective
    <3>3. GenFile(e) \in DOMAIN tree /\ tree[GenFile(e)].def = generated[e]
      BY <2>2 DEF InPlace
    <3> QED
      BY <1>2, <3>2, <3>3
  <2> QED
    BY <2>1, <2>2
<1>6. Pruning' /\ Untouched'
  BY DEF Pruning, Untouched
<1> QED
  BY <1>3, <1>4, <1>5, <1>6

(* A run that has an accepted manifest may fail. *)
LEMMA FailureKeeps ==
    ASSUME VendorInv, Prepares(line), stage' = "failed", unwritten' = {},
           UNCHANGED <<line, generated, kept>>, DOMAIN tree' \subseteq Seq(Element)
    PROVE  VendorInv'
<1>1. VendorTypes'
  BY DEF VendorInv, VendorTypes
<1>2. Prepares(line)'
  OBVIOUS
<1>3. Prepared' /\ InPlace' /\ Pruning' /\ Untouched'
  BY <1>2 DEF Prepared, InPlace, Pruning, Untouched
<1> QED
  BY <1>1, <1>3 DEF VendorInv

LEMMA CutKeeps ==
    ASSUME VendorInv, stage = "write", NEW k \in unwritten,
           UNCHANGED <<line, generated, kept>>, stage' = "failed", unwritten' = {},
           tree' \in {tree, MkdirAll(tree, k), WriteFile(MkdirAll(tree, k), GenFile(k), Cut)}
    PROVE  VendorInv'
<1>1. k \in Seq(Element) /\ Len(k) = 3 /\ Prepares(line)
  BY GeneratedKeys DEF VendorInv, Prepared
<1>2. tree' = WriteFile(MkdirAll(tree, k), GenFile(k), Cut) =>
          DOMAIN tree' = DOMAIN tree \cup Parents(k) \cup {GenFile(k)}
  BY FileWritten
<1>3. DOMAIN tree' \subseteq DOMAIN tree \cup Parents(k) \cup {GenFile(k)}
  BY <1>2, DirectoriesMade
<1>4. DOMAIN tree' \subseteq Seq(Element)
  BY <1>1, <1>3, ParentPaths DEF VendorInv, VendorTypes
<1> QED
  BY <1>1, <1>4, FailureKeeps

LEMMA WrittenKeeps == ASSUME VendorInv, Written PROVE VendorInv'
<1> USE DEF VendorInv, Written
<1>1. VendorTypes'
  BY DEF VendorTypes
<1>2. stage = "write" /\ stage' \in {"prune", "done"} /\ unwritten = {}
      /\ (stage' = "prune" => line.prune) /\ (stage' = "done" => ~line.prune)
  OBVIOUS
<1>3. Prepares(line)' /\ Generate(line)' = Generate(line)
  BY DEF Prepared
<1>4. Prepared'
  BY <1>2, <1>3 DEF Prepared
<1>5. InPlace'
  BY <1>2 DEF InPlace
<1>6. Pruning' /\ Untouched'
  BY <1>2 DEF Pruning, Untouched
<1> QED
  BY <1>1, <1>4, <1>5, <1>6

(* What is stale is not of this run. *)
LEMMA StaleIs ==
    ASSUME VendorInv, NEW k \in Stale
    PROVE  /\ k \in Seq(Element) /\ Len(k) = 3 /\ k \in DOMAIN tree /\ k[1] \in Groups
           /\ k \notin DOMAIN generated /\ Visited(k)
           /\ GenFile(k) \in DOMAIN tree /\ tree[GenFile(k)].is = "generated"
  BY DEF VendorInv, VendorTypes, Stale, KeyDirs, IsGeneratedByTimoni

(* Removing what is not a file of this run keeps the invariant. *)
LEMMA RemovalKeeps ==
    ASSUME VendorInv, stage = "prune", UNCHANGED <<line, stage, generated, unwritten, kept>>,
           DOMAIN tree' \subseteq DOMAIN tree,
           \A p \in DOMAIN tree' : tree'[p] = tree[p],
           \A k \in DOMAIN generated : GenFile(k) \in DOMAIN tree => GenFile(k) \in DOMAIN tree'
    PROVE  VendorInv'
<1> USE DEF VendorInv
<1>1. VendorTypes'
  BY DEF VendorTypes
<1>2. Prepares(line)' /\ Generate(line)' = Generate(line)
  BY DEF Prepared
<1>3. Prepared'
  BY <1>2 DEF Prepared
<1>4. InPlace'
  BY DEF InPlace, Prepared
<1>5. Pruning' /\ Untouched'
  BY DEF Pruning, Untouched
<1> QED
  BY <1>1, <1>3, <1>4, <1>5

LEMMA EmptyDirRemoved ==
    ASSUME NEW t, NEW p
    PROVE  /\ DOMAIN RemoveEmptyDir(p, t) \in {DOMAIN t, DOMAIN t \ {p}}
           /\ \A q \in DOMAIN RemoveEmptyDir(p, t) : RemoveEmptyDir(p, t)[q] = t[q]
           /\ p \notin DOMAIN RemoveEmptyDir(p, t) /\ p \in DOMAIN t =>
                  \A q \in DOMAIN t : ~IsStrictPrefix(p, q)
<1>1. CASE Empty(p, t)
  BY <1>1 DEF Without, RemoveEmptyDir, Empty
<1>2. CASE ~Empty(p, t)
  BY <1>2 DEF RemoveEmptyDir
<1> QED
  BY <1>1, <1>2

LEMMA PruneVersionKeeps == ASSUME VendorInv, PruneVersion PROVE VendorInv'
<1>1. PICK k \in Stale : tree' = RemoveEmptyDir(k, Without({GenFile(k)}, tree))
  BY DEF PruneVersion
<1> DEFINE t == Without({GenFile(k)}, tree)
<1>2. DOMAIN t = DOMAIN tree \ {GenFile(k)} /\ \A p \in DOMAIN t : t[p] = tree[p]
  BY DEF Without
<1>3. DOMAIN tree' \in {DOMAIN t, DOMAIN t \ {k}} /\ \A p \in DOMAIN tree' : tree'[p] = t[p]
  BY <1>1, EmptyDirRemoved
<1> HIDE DEF t
<1>4. stage = "prune" /\ UNCHANGED <<line, stage, generated, unwritten, kept>>
  BY DEF PruneVersion
<1>5. ASSUME NEW e \in DOMAIN generated, GenFile(e) \in DOMAIN tree PROVE GenFile(e) \in DOMAIN tree'
  <2>1. e \in Seq(Element) /\ Len(e) = 3
    BY <1>4, GeneratedKeys
  <2>2. k \in Seq(Element) /\ Len(k) = 3 /\ e # k
    BY StaleIs
  <2>3. GenFile(e) # GenFile(k)
    BY <2>1, <2>2, GenFileInjective
  <2>4. GenFile(e) # k
    BY <2>1, <2>2, GenFilePath
  <2> QED
    BY <1>2, <1>3, <1>5, <2>3, <2>4
<1>6. DOMAIN tree' \subseteq DOMAIN tree /\ \A p \in DOMAIN tree' : tree'[p] = tree[p]
  BY <1>2, <1>3
<1> QED
  BY <1>4, <1>5, <1>6, RemovalKeeps

LEMMA PruneDirKeeps == ASSUME VendorInv, PruneDir PROVE VendorInv'
<1>1. PICK p \in DOMAIN tree : Len(p) \in {1, 2} /\ tree' = Without({p}, tree)
  BY DEF PruneDir
<1>2. DOMAIN tree' = DOMAIN tree \ {p} /\ \A q \in DOMAIN tree' : tree'[q] = tree[q]
  BY <1>1 DEF Without
<1>3. stage = "prune" /\ UNCHANGED <<line, stage, generated, unwritten, kept>>
  BY DEF PruneDir
<1>4. ASSUME NEW e \in DOMAIN generated PROVE GenFile(e) # p
  <2>1. e \in Seq(Element) /\ Len(e) = 3
    BY <1>3, GeneratedKeys
  <2>2. Len(GenFile(e)) = Len(e) + 1
    BY <2>1, GenFilePath
  <2>3. Len(GenFile(e)) = 4
    BY <2>1, <2>2
  <2>4. Len(p) # 4
    BY <1>1
  <2> QED
    BY <2>3, <2>4, Zenon
<1> QED
  BY <1>2, <1>3, <1>4, RemovalKeeps

LEMMA PruneFailsKeeps == ASSUME VendorInv, PruneFails PROVE VendorInv'
<1>1. stage = "prune" /\ stage' = "failed" /\ UNCHANGED <<line, generated, unwritten, kept>>
  BY DEF PruneFails
<1>2. Prepares(line) /\ unwritten' = {}
  BY <1>1 DEF VendorInv, Prepared
<1>3. DOMAIN tree' \subseteq DOMAIN tree
  BY DEF Without, PruneFails
<1>4. DOMAIN tree' \subseteq Seq(Element)
  BY <1>3 DEF VendorInv, VendorTypes
<1> QED
  BY <1>1, <1>2, <1>4, FailureKeeps

LEMMA PrunedKeeps == ASSUME VendorInv, Pruned PROVE VendorInv'
<1>1. /\ stage = "prune" /\ stage' = "done" /\ Stale = {}
      /\ UNCHANGED <<line, generated, unwritten, tree, kept>>
  BY DEF Pruned
<1>2. VendorTypes'
  BY <1>1 DEF VendorInv, VendorTypes
<1>3. Prepares(line)' /\ Generate(line)' = Generate(line)
  BY <1>1 DEF VendorInv, Prepared
<1>4. Prepared' /\ InPlace' /\ Untouched'
  BY <1>1, <1>3 DEF VendorInv, Prepared, InPlace, Untouched
<1>5. Stale' = Stale
  BY <1>1 DEF Stale, KeyDirs, Groups, Visited, IsDir, IsGeneratedByTimoni
<1>6. Pruning'
  BY <1>1, <1>5 DEF Pruning
<1> QED
  BY <1>2, <1>4, <1>6 DEF VendorInv

LEMMA VendorStutters == ASSUME VendorInv, UNCHANGED vendorVars PROVE VendorInv'
<1> USE DEF vendorVars, VendorInv
<1>1. VendorTypes'
  BY DEF VendorTypes
<1>2. Prepares(line)' <=> Prepares(line)
  OBVIOUS
<1>3. Generate(line)' = Generate(line)
  OBVIOUS
<1>4. Prepared' /\ InPlace' /\ Untouched'
  BY <1>2, <1>3 DEF Prepared, InPlace, Untouched
<1>5. Stale' = Stale
  BY DEF Stale, KeyDirs, Groups, Visited, IsDir, IsGeneratedByTimoni
<1>6. Pruning'
  BY <1>5 DEF Pruning
<1> QED
  BY <1>1, <1>4, <1>6

LEMMA VendorNextKeeps == VendorInv /\ [VendorNext]_vendorVars => VendorInv'
<1> SUFFICES ASSUME VendorInv, [VendorNext]_vendorVars PROVE VendorInv'
  OBVIOUS
<1>1. CASE Run
  BY <1>1, RunKeeps
<1>2. CASE Select
  BY <1>2, SelectKeeps
<1>3. CASE WriteDefinitions
  <2>1. PICK k \in unwritten :
          \/ /\ tree' = WriteFile(MkdirAll(tree, k), GenFile(k), Definitions(generated[k]))
             /\ unwritten' = unwritten \ {k}
             /\ stage' = stage
          \/ /\ tree' \in {tree, MkdirAll(tree, k), WriteFile(MkdirAll(tree, k), GenFile(k), Cut)}
             /\ unwritten' = {}
             /\ stage' = "failed"
    BY <1>3 DEF WriteDefinitions
  <2>2. stage = "write" /\ UNCHANGED <<line, generated, kept>>
    BY <1>3 DEF WriteDefinitions
  <2> QED
    BY <2>1, <2>2, DefinitionsKeep, CutKeeps
<1>4. CASE Written
  BY <1>4, WrittenKeeps
<1>5. CASE PruneVersion
  BY <1>5, PruneVersionKeeps
<1>6. CASE PruneDir
  BY <1>6, PruneDirKeeps
<1>7. CASE PruneFails
  BY <1>7, PruneFailsKeeps
<1>8. CASE Pruned
  BY <1>8, PrunedKeeps
<1>9. CASE VendorStopped \/ UNCHANGED vendorVars
  BY <1>9, VendorStutters DEF VendorStopped
<1> QED
  BY <1>1, <1>2, <1>3, <1>4, <1>5, <1>6, <1>7, <1>8, <1>9 DEF VendorNext

--------------------------------------------------------------------------------
(* What follows from it. *)

LEMMA DoneHas ==
    ASSUME VendorInv, stage = "done"
    PROVE  /\ DOMAIN generated = {CrdKey(line, d) : d \in SelectCRDs(line)}
           /\ \A k \in DOMAIN generated : GenFile(k) \in DOMAIN tree /\ Has(k)
<1>1. IsYAML(line) /\ generated = Generate(line) /\ unwritten = {}
  BY PreparesYAML DEF VendorInv, VendorTypes, Prepared
<1>2. ASSUME NEW k \in DOMAIN generated PROVE GenFile(k) \in DOMAIN tree /\ Has(k)
  <2>1. GenFile(k) \in DOMAIN tree /\ tree[GenFile(k)].def = generated[k]
    BY <1>1 DEF VendorInv, InPlace
  <2>2. PICK d \in SelectCRDs(line) : k = CrdKey(line, d) /\ generated[k] = Expected(VersionOf(line, d))
    BY <1>1, GenerateGives
  <2>3. d \in Asked
    BY AskedIsSelected
  <2> QED
    BY <2>1, <2>2, <2>3 DEF Has
<1> QED
  BY <1>1, <1>2, GenerateGives

LEMMA OutcomeFollows == ASSUME VendorInv PROVE VendorOutcome
<1>1. ASSUME stage = "done", NEW d \in Asked
      PROVE  GenFile(CrdKey(line, d)) \in DOMAIN tree /\ Has(CrdKey(line, d))
  <2>1. d \in SelectCRDs(line)
    BY AskedIsSelected
  <2>2. CrdKey(line, d) \in DOMAIN generated
    BY <1>1, <2>1, DoneHas
  <2> QED
    BY <1>1, <2>2, DoneHas
<1>2. ASSUME stage = "done", line.prune, NEW k \in DOMAIN tree,
             Len(k) = 3, InManifest(k), Visited(k), IsGeneratedByTimoni(GenFile(k))
      PROVE  Has(k)
  <2>1. Stale = {}
    BY <1>2 DEF VendorInv, Pruning
  <2>2. k[1] \in Groups
    BY <1>2 DEF InManifest, Groups
  <2>3. k \in DOMAIN generated
    BY <1>2, <2>1, <2>2 DEF Stale, KeyDirs
  <2> QED
    BY <1>2, <2>3, DoneHas
<1>3. /\ stage \in {"select", "listed"} => tree = kept
      /\ stage = "failed" /\ tree # kept => Prepares(line)
  BY DEF VendorInv, Untouched
<1> QED
  BY <1>1, <1>2, <1>3 DEF VendorOutcome

LEMMA GroupInManifest ==
    ASSUME NEW p, p[1] \in Groups
    PROVE  InManifest(p)
  BY DEF Groups, InManifest

(* What a step may remove. *)
MayGo(p, s) ==
    /\ line.prune /\ InManifest(p)
    /\ \A n \in 1..(Len(p) - 1) : tree[SubSeq(p, 1, n)] = Directory
    /\ IF Len(p) = 4 THEN tree[p].is = "generated" /\ SubSeq(p, 1, 3) \notin DOMAIN generated
       ELSE tree[p] = Directory /\ \A q \in DOMAIN s : ~IsStrictPrefix(p, q)

LEMMA RemovalIsConfined ==
    ASSUME \A p \in DOMAIN tree \cap DOMAIN tree' : tree'[p] = tree[p],
           \A p \in DOMAIN tree \ DOMAIN tree' : MayGo(p, tree')
    PROVE  PruneStep
  BY DEF PruneStep, MayGo

LEMMA StaleFileMayGo ==
    ASSUME VendorInv, stage = "prune", NEW k \in Stale, NEW s
    PROVE  MayGo(GenFile(k), s)
<1>1. /\ k \in Seq(Element) /\ Len(k) = 3 /\ k[1] \in Groups /\ k \notin DOMAIN generated
      /\ Visited(k) /\ tree[GenFile(k)].is = "generated"
  BY StaleIs
<1>2. line.prune
  BY DEF VendorInv, Pruning
<1>3. Len(GenFile(k)) = 4 /\ SubSeq(GenFile(k), 1, 3) = k /\ GenFile(k)[1] = k[1]
      /\ \A n \in 1..3 : SubSeq(GenFile(k), 1, n) = SubSeq(k, 1, n)
  <2>1. k # << >>
    BY <1>1
  <2>2. Len(GenFile(k)) = Len(k) + 1 /\ SubSeq(GenFile(k), 1, Len(k)) = k /\ GenFile(k)[1] = k[1]
        /\ \A n \in 1..Len(k) : SubSeq(GenFile(k), 1, n) = SubSeq(k, 1, n)
    BY <1>1, <2>1, GenFilePath
  <2> QED
    BY <1>1, <2>2
<1>4. InManifest(GenFile(k))
  BY <1>1, <1>3, GroupInManifest
<1>5. \A n \in 1..3 : tree[SubSeq(k, 1, n)] = Directory
  BY <1>1 DEF Visited, IsDir
<1>6. \A n \in 1..(Len(GenFile(k)) - 1) : tree[SubSeq(GenFile(k), 1, n)] = Directory
  <2>1. 1..(Len(GenFile(k)) - 1) = 1..3
    BY <1>3
  <2> QED
    BY <2>1, <1>3, <1>5
<1> QED
  BY <1>1, <1>2, <1>3, <1>4, <1>6 DEF MayGo

LEMMA EmptyDirMayGo ==
    ASSUME VendorInv, stage = "prune", NEW p \in Seq(Element), Len(p) \in 1..3,
           p[1] \in Groups, Visited(p), NEW s, \A q \in DOMAIN s : ~IsStrictPrefix(p, q)
    PROVE  MayGo(p, s)
<1>1. line.prune
  BY DEF VendorInv, Pruning
<1>2. InManifest(p)
  BY GroupInManifest
<1>3. \A n \in 1..Len(p) : tree[SubSeq(p, 1, n)] = Directory
  BY DEF Visited, IsDir
<1>4. SubSeq(p, 1, Len(p)) = p /\ Len(p) # 4
  OBVIOUS
<1>5. tree[p] = Directory
  <2>1. Len(p) \in 1..Len(p)
    OBVIOUS
  <2> QED
    BY <1>3, <1>4, <2>1
<1>6. \A n \in 1..(Len(p) - 1) : n \in 1..Len(p)
  OBVIOUS
<1> QED
  BY <1>1, <1>2, <1>3, <1>4, <1>5, <1>6 DEF MayGo

LEMMA WriteIsConfined == ASSUME VendorInv, WriteDefinitions PROVE PruneStep
<1>1. PICK k \in unwritten :
          tree' \in {WriteFile(MkdirAll(tree, k), GenFile(k), Definitions(generated[k])),
                     tree, MkdirAll(tree, k), WriteFile(MkdirAll(tree, k), GenFile(k), Cut)}
  BY DEF WriteDefinitions
<1>2. k \in DOMAIN generated
  BY DEF VendorInv, Prepared
<1>3. CASE tree' \in {tree, MkdirAll(tree, k)}
  <2>1. \A p \in DOMAIN tree : p \in DOMAIN tree' /\ tree'[p] = tree[p]
    BY <1>3, DirectoriesMade, ZenonT(40)
  <2> QED
    BY <2>1 DEF PruneStep
<1>4. ASSUME NEW c, c.def \in {{}, generated[k]}, tree' = WriteFile(MkdirAll(tree, k), GenFile(k), c)
      PROVE  PruneStep
  <2>1. DOMAIN tree' = DOMAIN tree \cup Parents(k) \cup {GenFile(k)}
    BY <1>4, FileWritten
  <2>2. \A p \in DOMAIN tree : p # GenFile(k) => tree'[p] = tree[p]
    <3>1. \A p \in DOMAIN tree : p # GenFile(k) =>
              WriteFile(MkdirAll(tree, k), GenFile(k), c)[p] = tree[p]
      BY FileWritten, ZenonT(40)
    <3> QED
      BY <1>4, <3>1
  <2>3. tree'[GenFile(k)] \in {c, Linked(c)}
    BY <1>4, FileWritten
  <2>4. tree'[GenFile(k)].def \in {{}, generated[k]}
    BY <1>4, <2>3 DEF Linked
  <2> QED
    BY <1>2, <2>1, <2>2, <2>4 DEF PruneStep
<1>5. Definitions(generated[k]).def \in {{}, generated[k]} /\ Cut.def \in {{}, generated[k]}
  BY DEF Definitions, Cut
<1> QED
  BY <1>1, <1>3, <1>4, <1>5

LEMMA PruneVersionIsConfined == ASSUME VendorInv, PruneVersion PROVE PruneStep
<1>1. PICK k \in Stale : tree' = RemoveEmptyDir(k, Without({GenFile(k)}, tree))
  BY DEF PruneVersion
<1> DEFINE t == Without({GenFile(k)}, tree)
<1>2. DOMAIN t = DOMAIN tree \ {GenFile(k)} /\ \A p \in DOMAIN t : t[p] = tree[p]
  BY DEF Without
<1>3. /\ DOMAIN tree' \in {DOMAIN t, DOMAIN t \ {k}} /\ \A q \in DOMAIN tree' : tree'[q] = t[q]
      /\ k \notin DOMAIN tree' /\ k \in DOMAIN t => \A q \in DOMAIN t : ~IsStrictPrefix(k, q)
  BY <1>1, EmptyDirRemoved
<1> HIDE DEF t
<1>4. stage = "prune"
  BY DEF PruneVersion
<1>5. \A p \in DOMAIN tree \cap DOMAIN tree' : tree'[p] = tree[p]
  BY <1>2, <1>3
<1>6. ASSUME NEW p \in DOMAIN tree \ DOMAIN tree' PROVE MayGo(p, tree')
  <2>1. CASE p = GenFile(k)
    BY <1>4, <2>1, StaleFileMayGo
  <2>2. CASE p # GenFile(k)
    <3>1. p = k /\ k \in DOMAIN t /\ k \notin DOMAIN tree'
      BY <1>2, <1>3, <2>2
    <3>2. \A q \in DOMAIN tree' : ~IsStrictPrefix(k, q)
      BY <1>3, <3>1
    <3>3. k \in Seq(Element) /\ Len(k) = 3 /\ k[1] \in Groups /\ Visited(k)
      BY StaleIs
    <3>4. Len(k) \in 1..3
      BY <3>3
    <3> QED
      BY <1>4, <3>1, <3>2, <3>3, <3>4, EmptyDirMayGo
  <2> QED
    BY <2>1, <2>2
<1> QED
  BY <1>5, <1>6, RemovalIsConfined

LEMMA PruneDirIsConfined == ASSUME VendorInv, PruneDir PROVE PruneStep
<1>1. PICK p \in DOMAIN tree :
          /\ Len(p) \in {1, 2} /\ p[1] \in Groups
          /\ Visited(p) /\ Empty(p, tree)
          /\ tree' = Without({p}, tree)
  BY DEF PruneDir
<1>2. DOMAIN tree' = DOMAIN tree \ {p} /\ \A q \in DOMAIN tree' : tree'[q] = tree[q]
  BY <1>1 DEF Without
<1>3. \A q \in DOMAIN tree' : ~IsStrictPrefix(p, q)
  BY <1>1, <1>2 DEF Empty
<1>4. stage = "prune"
  BY DEF PruneDir
<1>5. p \in Seq(Element) /\ Len(p) \in 1..3
  BY <1>1 DEF VendorInv, VendorTypes
<1>6. MayGo(p, tree')
  BY <1>1, <1>3, <1>4, <1>5, EmptyDirMayGo
<1> QED
  BY <1>2, <1>6, RemovalIsConfined

LEMMA PruneFailsIsConfined == ASSUME VendorInv, PruneFails PROVE PruneStep
<1>1. stage = "prune"
  BY DEF PruneFails
<1>2. CASE UNCHANGED tree
  BY <1>2 DEF PruneStep
<1>3. ASSUME NEW k \in Stale, tree' = Without({GenFile(k)}, tree) PROVE PruneStep
  <2>1. DOMAIN tree' = DOMAIN tree \ {GenFile(k)} /\ \A p \in DOMAIN tree' : tree'[p] = tree[p]
    BY <1>3 DEF Without
  <2>2. MayGo(GenFile(k), tree')
    BY <1>1, StaleFileMayGo
  <2> QED
    BY <2>1, <2>2, RemovalIsConfined
<1> QED
  BY <1>2, <1>3 DEF PruneFails

LEMMA StepIsConfined == ASSUME VendorInv, VendorNext PROVE PruneStep
<1>1. CASE UNCHANGED tree
  BY <1>1 DEF PruneStep
<1>2. Run \/ Select \/ Written \/ Pruned \/ VendorStopped => UNCHANGED tree
  BY DEF Run, Select, Written, Pruned, VendorStopped, vendorVars
<1> QED
  BY <1>1, <1>2, WriteIsConfined, PruneVersionIsConfined, PruneDirIsConfined, PruneFailsIsConfined
     DEF VendorNext

(* The invariant holds in every state, whatever failed before.               *)
THEOREM VendorInvariant == VendorSpec => []VendorInv
<1> QED
  BY VendorStarts, VendorNextKeeps, PTL DEF VendorSpec

(* VendorOutcome: a run of mod vendor crd that ends well leaves the          *)
(* definitions of what it selected, as the schemas say, and with --prune     *)
(* nothing else of timoni's; a refused one leaves what was there.            *)
THEOREM VendorOutcomeHolds == VendorSpec => []VendorOutcome
<1>1. VendorInv => VendorOutcome
  BY OutcomeFollows
<1> QED
  BY <1>1, VendorInvariant, PTL

(* VendorPruneConfined: nothing is removed but what timoni has generated, in *)
(* a group of the manifest, under --prune and not through a link.            *)
THEOREM VendorPruneConfinedHolds == VendorSpec => VendorPruneConfined
<1>1. VendorInv /\ [VendorNext]_vendorVars => [PruneStep]_vendorVars
  BY StepIsConfined
<1> QED
  BY <1>1, VendorInvariant, PTL DEF VendorSpec, VendorPruneConfined

--------------------------------------------------------------------------------
(* RuntimeValues. *)

(* The values that have been read on a cluster, and the definitions of what  *)
(* is injected in a field.                                                   *)
ReadSoFar(c, k) == {n \in Sources(c, k) : n < ref}

Good(c, f) == ValueOf(c, f.name) \in AcceptedBy[f.type]
Bad(c, f) == Named(c, f.name) /\ ~Good(c, f)

InjectedValue(c, f) == IF Named(c, f.name) /\ Good(c, f) THEN ValueOf(c, f.name) ELSE f.value

(* A refused value of a file is followed by one that is taken, before field m. *)
CoveredBefore(c, fields, m) ==
    \A j \in DOMAIN fields : j < m /\ Bad(c, fields[j]) =>
        \E k \in DOMAIN fields : j < k /\ k < m /\ Named(c, fields[k].name) /\ Good(c, fields[k])

Covered(c, fields) ==
    \A j \in DOMAIN fields : Bad(c, fields[j]) =>
        \E k \in DOMAIN fields : k > j /\ Named(c, fields[k].name) /\ Good(c, fields[k])

IsInjected(i, j) == i < at[1] \/ (i = at[1] /\ j < at[2])

--------------------------------------------------------------------------------
(* The invariant. *)

InCluster == {"cluster", "read", "inject"}

ValuesTypes ==
    /\ plan \in Plans
    /\ targets \subseteq SelectClusters(plan)
    /\ pc \in InCluster => targets # {}
    /\ pc = "done" => targets = {}
    /\ pc = "runtime" => built = << >>
    /\ ref \in Nat \ {0}
    /\ at[1] \in Nat \ {0} /\ at[2] \in Nat \ {0}
    /\ \E S : built \in Seq(S)

(* A value is that of the last object read so far that has it.               *)
ReadInv ==
    pc = "read" => \A k :
        /\ k \in DOMAIN values <=> ReadSoFar(Current, k) # {} \/ (Bundled /\ k \in DOMAIN Environment(plan))
        /\ k \in DOMAIN values =>
               values[k] = IF ReadSoFar(Current, k) # {}
                           THEN Extracted(Current, Refs(plan)[Max(ReadSoFar(Current, k))])[k]
                           ELSE plan.env[k]

(* All are read before the first is injected. *)
InjectInv ==
    pc = "inject" => \A k :
        /\ k \in DOMAIN values <=> Named(Current, k)
        /\ k \in DOMAIN values => values[k] = ValueOf(Current, k)

SameShape(file, from) ==
    /\ DOMAIN file = DOMAIN from /\ file.parses = from.parses
    /\ DOMAIN file.fields = DOMAIN from.fields
    /\ \A j \in DOMAIN from.fields :
           /\ DOMAIN file.fields[j] = DOMAIN from.fields[j]
           /\ file.fields[j].name = from.fields[j].name
           /\ file.fields[j].type = from.fields[j].type

SourcesInv ==
    pc = "inject" =>
        /\ DOMAIN sources = DOMAIN SourceFiles(plan)
        /\ \A i \in DOMAIN sources :
               LET fields == SourceFiles(plan)[i].fields
               IN  /\ SameShape(sources[i], SourceFiles(plan)[i])
                   /\ \A j \in DOMAIN fields : sources[i].fields[j].value =
                          IF IsInjected(i, j) THEN InjectedValue(Current, fields[j]) ELSE fields[j].value
                   /\ i < at[1] => Covered(Current, fields)
                   /\ i = at[1] /\ ~err => CoveredBefore(Current, fields, at[2])

SoundBuild(b) ==
    LET c == Clusters(plan)[b.cluster]
    IN  /\ b.cluster \in SelectClusters(plan)
        /\ \A k \in DOMAIN b.values : Named(c, k) /\ b.values[k] = ValueOf(c, k)
        /\ \A i \in DOMAIN SourceFiles(plan) :
               LET fields == SourceFiles(plan)[i].fields
               IN  /\ \A j \in DOMAIN fields : b.files[i].fields[j].value = InjectedValue(c, fields[j])
                   /\ Covered(c, fields)

BuiltInv ==
    /\ \A n \in DOMAIN built : SoundBuild(built[n])
    /\ \A n \in DOMAIN built : \A i \in targets : built[n].cluster < i
    /\ \A m, n \in DOMAIN built : m < n => built[m].cluster < built[n].cluster
    /\ pc \in InCluster \cup {"done"} =>
           \A i \in SelectClusters(plan) \ targets : \E n \in DOMAIN built : built[n].cluster = i

ValuesInv == ValuesTypes /\ ReadInv /\ InjectInv /\ SourcesInv /\ BuiltInv

--------------------------------------------------------------------------------
(* What depends on the command line alone. *)

LEMMA PlanSame ==
    ASSUME plan' = plan
    PROVE  /\ \A c, k : (Named(c, k)' <=> Named(c, k)) /\ ValueOf(c, k)' = ValueOf(c, k)
           /\ \A c, k : Sources(c, k)' = Sources(c, k)
           /\ \A c, r : Extracted(c, r)' = Extracted(c, r)
           /\ (Bundled' <=> Bundled)
<1>1. Bundled' <=> Bundled
  BY DEF Bundled
<1>2. ASSUME NEW c, NEW k PROVE Sources(c, k)' = Sources(c, k)
  BY DEF Sources, Missing
<1>3. ASSUME NEW c, NEW r PROVE Extracted(c, r)' = Extracted(c, r)
  BY DEF Extracted, Object
<1>4. ASSUME NEW c, NEW k PROVE Named(c, k)' <=> Named(c, k)
  BY <1>1, <1>2 DEF Named
<1>5. ASSUME NEW c, NEW k PROVE ValueOf(c, k)' = ValueOf(c, k)
  BY <1>1, <1>2, <1>3 DEF ValueOf
<1> QED
  BY <1>1, <1>2, <1>3, <1>4, <1>5

LEMMA SoundStays ==
    ASSUME plan' = plan
    PROVE  /\ \A c, f : (Good(c, f)' <=> Good(c, f)) /\ (Bad(c, f)' <=> Bad(c, f))
           /\ \A c, f : InjectedValue(c, f)' = InjectedValue(c, f)
           /\ \A c, fields : Covered(c, fields)' <=> Covered(c, fields)
           /\ \A c, fields, m : CoveredBefore(c, fields, m)' <=> CoveredBefore(c, fields, m)
           /\ \A b : SoundBuild(b)' <=> SoundBuild(b)
<1>1. ASSUME NEW c, NEW f PROVE (Good(c, f)' <=> Good(c, f)) /\ (Bad(c, f)' <=> Bad(c, f))
  BY PlanSame DEF Good, Bad
<1>2. ASSUME NEW c, NEW f PROVE InjectedValue(c, f)' = InjectedValue(c, f)
  BY <1>1, PlanSame DEF InjectedValue
<1>3. ASSUME NEW c, NEW fields PROVE Covered(c, fields)' <=> Covered(c, fields)
  BY <1>1, PlanSame DEF Covered
<1>4. ASSUME NEW c, NEW fields, NEW m PROVE CoveredBefore(c, fields, m)' <=> CoveredBefore(c, fields, m)
  BY <1>1, PlanSame DEF CoveredBefore
<1>5. ASSUME NEW b PROVE SoundBuild(b)' <=> SoundBuild(b)
  BY <1>2, <1>3, PlanSame DEF SoundBuild
<1> QED
  BY <1>1, <1>2, <1>3, <1>4, <1>5

LEMMA FilesTyped ==
    ASSUME plan \in Plans
    PROVE  LET source == SourceFiles(plan)
           IN  /\ Len(source) \in Nat /\ DOMAIN source = 1..Len(source)
               /\ \A i \in DOMAIN source :
                      /\ {"parses", "fields"} \subseteq DOMAIN source[i]
                      /\ Len(source[i].fields) \in Nat
                      /\ DOMAIN source[i].fields = 1..Len(source[i].fields)
                      /\ \A j \in DOMAIN source[i].fields :
                             {"name", "type", "value"} \subseteq DOMAIN source[i].fields[j]
<1>1. CASE plan.kind = "runtime"
  BY <1>1 DEF SourceFiles
<1>2. CASE plan.kind # "runtime"
  BY <1>2, ValuesAssumption DEF SourceFiles, ValuesAssumption
<1> QED
  BY <1>1, <1>2

LEMMA RefsTyped ==
    ASSUME plan \in Plans
    PROVE  Len(Refs(plan)) \in Nat /\ DOMAIN Refs(plan) = 1..Len(Refs(plan))
<1>1. CASE plan.kind = "vet" /\ plan.offline
  BY <1>1 DEF Refs
<1>2. CASE ~(plan.kind = "vet" /\ plan.offline)
  BY <1>2, ValuesAssumption DEF Refs, ValuesAssumption
<1> QED
  BY <1>1, <1>2

LEMMA ClustersTyped == ASSUME plan \in Plans PROVE SelectClusters(plan) \subseteq Nat
<1>1. DOMAIN Clusters(plan) \subseteq Nat
  <2>1. CASE plan.clusters = << >>
    BY <2>1 DEF Clusters
  <2>2. CASE plan.clusters # << >>
    BY <2>2, ValuesAssumption DEF Clusters, ValuesAssumption
  <2> QED
    BY <2>1, <2>2
<1> QED
  BY <1>1 DEF SelectClusters

LEMMA NextCluster ==
    ASSUME ValuesTypes, pc \in InCluster
    PROVE  /\ Min(targets) \in targets /\ \A i \in targets : Min(targets) <= i
           /\ targets \subseteq Nat
           /\ Current = Clusters(plan)[Min(targets)]
<1>1. targets \in SUBSET Nat /\ targets # {}
  BY ClustersTyped DEF ValuesTypes
<1>2. PICK x \in targets : \A y \in targets : x <= y
  BY <1>1, LeastNat
<1> QED
  BY <1>1, <1>2 DEF Min, Current

LEMMA SameCluster == ASSUME UNCHANGED <<plan, targets>> PROVE Current' = Current
  BY DEF Current

--------------------------------------------------------------------------------
(* Each step keeps the invariant. *)

LEMMA ValuesStart == ValuesInit => ValuesInv
<1> SUFFICES ASSUME ValuesInit PROVE ValuesInv
  OBVIOUS
<1> USE DEF ValuesInit
<1>1. << >> \in Seq({})
  OBVIOUS
<1>2. ValuesTypes
  BY <1>1 DEF ValuesTypes, InCluster
<1>3. ReadInv /\ InjectInv /\ SourcesInv /\ BuiltInv
  BY DEF ReadInv, InjectInv, SourcesInv, BuiltInv, InCluster
<1> QED
  BY <1>2, <1>3 DEF ValuesInv

(* What has been built stays. *)
LEMMA BuiltStays ==
    ASSUME BuiltInv, UNCHANGED <<plan, targets, built>>,
           pc' \in InCluster \cup {"done"} => pc \in InCluster \cup {"done"}
    PROVE  BuiltInv'
<1>1. ASSUME NEW n \in DOMAIN built PROVE SoundBuild(built[n])'
  <2>1. SoundBuild(built[n])
    BY DEF BuiltInv
  <2> DEFINE b == built[n]
  <2>2. b' = b
    OBVIOUS
  <2> QED
    BY <2>1, SoundStays
<1>2. SelectClusters(plan)' = SelectClusters(plan)
  OBVIOUS
<1> QED
  BY <1>1, <1>2 DEF BuiltInv

LEMMA FailKeeps == ASSUME ValuesInv, Fail PROVE ValuesInv'
<1> USE DEF Fail
<1>1. ValuesTypes'
  BY DEF ValuesInv, ValuesTypes, InCluster
<1>2. BuiltInv'
  BY BuiltStays DEF ValuesInv, InCluster
<1>3. ReadInv' /\ InjectInv' /\ SourcesInv'
  BY DEF ReadInv, InjectInv, SourcesInv
<1> QED
  BY <1>1, <1>2, <1>3 DEF ValuesInv

LEMMA BuildRuntimeKeeps == ASSUME ValuesInv, BuildRuntime, ~Fail PROVE ValuesInv'
<1>1. /\ pc = "runtime" /\ pc' = "cluster" /\ targets' = SelectClusters(plan)
      /\ UNCHANGED <<plan, values, ref, sources, at, err, built>>
      /\ SelectClusters(plan) # {}
  BY DEF BuildRuntime, SelectsClusters
<1>2. built = << >>
  BY <1>1 DEF ValuesInv, ValuesTypes
<1>3. ValuesTypes'
  BY <1>1 DEF ValuesInv, ValuesTypes, InCluster
<1>4. ReadInv' /\ InjectInv' /\ SourcesInv' /\ BuiltInv'
  BY <1>1, <1>2 DEF ReadInv, InjectInv, SourcesInv, BuiltInv
<1> QED
  BY <1>3, <1>4 DEF ValuesInv

LEMMA EnterClusterKeeps == ASSUME ValuesInv, EnterCluster PROVE ValuesInv'
<1>1. /\ pc = "cluster" /\ pc' = "read" /\ ref' = 1
      /\ values' = IF plan.kind = "runtime" THEN NoValues ELSE Environment(plan)
      /\ UNCHANGED <<plan, targets, sources, at, err, built>>
  BY DEF EnterCluster
<1>2. ValuesTypes'
  BY <1>1 DEF ValuesInv, ValuesTypes, InCluster
<1>3. BuiltInv'
  BY <1>1, BuiltStays DEF ValuesInv, InCluster
<1>4. \A c, k : ReadSoFar(c, k)' = {}
  <2>1. \A c, k : Sources(c, k) \subseteq Nat \ {0}
    BY RefsTyped DEF Sources, ValuesInv, ValuesTypes
  <2>2. \A c, k : Sources(c, k)' = Sources(c, k)
    BY <1>1, PlanSame
  <2> QED
    BY <1>1, <2>1, <2>2 DEF ReadSoFar
<1>5. DOMAIN NoValues = {}
  BY DEF NoValues
<1>6. \A k : k \in DOMAIN Environment(plan) => Environment(plan)[k] = plan.env[k]
  BY <1>5 DEF Environment
<1>7. ReadInv'
  <2>1. SUFFICES ASSUME NEW k
                 PROVE  /\ k \in DOMAIN values' <=> Bundled /\ k \in DOMAIN Environment(plan)
                        /\ k \in DOMAIN values' => values'[k] = plan.env[k]
    BY <1>1, <1>4, PlanSame DEF ReadInv
  <2> QED
    BY <1>1, <1>5, <1>6 DEF Bundled
<1>8. InjectInv' /\ SourcesInv'
  BY <1>1 DEF InjectInv, SourcesInv
<1> QED
  BY <1>2, <1>3, <1>7, <1>8 DEF ValuesInv

LEMMA SoFarGrows ==
    ASSUME ValuesInv, pc = "read", ref <= Len(Refs(plan)), UNCHANGED <<plan, targets>>,
           ref' = ref + 1, NEW k
    PROVE  LET r == Refs(plan)[ref]
               new == ~Missing(Current, r) /\ k \in DOMAIN r.fields
           IN  /\ new => ReadSoFar(Current, k)' = ReadSoFar(Current, k) \cup {ref}
               /\ new => Max(ReadSoFar(Current, k))' = ref
               /\ ~new => ReadSoFar(Current, k)' = ReadSoFar(Current, k)
<1> DEFINE S == Sources(Current, k)
           new == ~Missing(Current, Refs(plan)[ref]) /\ k \in DOMAIN Refs(plan)[ref].fields
<1>1. Sources(Current, k)' = S
  <2>1. Current' = Current
    BY SameCluster
  <2> QED
    BY <2>1 DEF Sources, Missing
<1>2. ReadSoFar(Current, k)' = {n \in S : n < ref + 1} /\ ReadSoFar(Current, k) = {n \in S : n < ref}
  BY <1>1 DEF ReadSoFar
<1>3. ref \in DOMAIN Refs(plan) /\ DOMAIN Refs(plan) \subseteq Nat /\ ref \in Nat
  BY RefsTyped DEF ValuesInv, ValuesTypes
<1>4. S \subseteq Nat /\ (ref \in S <=> new)
  BY <1>3 DEF Sources
<1>5. \A n \in S : n < ref + 1 <=> n < ref \/ n = ref
  BY <1>3, <1>4
<1>6. new => ReadSoFar(Current, k)' = ReadSoFar(Current, k) \cup {ref}
  BY <1>2, <1>4, <1>5
<1>7. ~new => ReadSoFar(Current, k)' = ReadSoFar(Current, k)
  BY <1>2, <1>4, <1>5
<1>8. ASSUME new PROVE Max(ReadSoFar(Current, k))' = ref
  <2> DEFINE T == {n \in S : n < ref + 1}
  <2>1. ref \in T /\ \A n \in T : ref >= n
    BY <1>3, <1>4, <1>8
  <2>2. \A x \in T : (\A n \in T : x >= n) => x = ref
    BY <1>3, <1>4, <2>1
  <2>3. Max(T) = ref
    BY <2>1, <2>2 DEF Max
  <2> QED
    BY <1>2, <2>3
<1> QED
  BY <1>6, <1>7, <1>8

LEMMA ReadRefKeeps == ASSUME ValuesInv, ReadRef, ~Fail PROVE ValuesInv'
<1> DEFINE r == Refs(plan)[ref]
<1>1. /\ pc = "read" /\ ref <= Len(Refs(plan)) /\ ref' = ref + 1
      /\ UNCHANGED <<plan, pc, targets, sources, at, err, built>>
      /\ \/ Missing(Current, r) /\ values' = values
         \/ ~Missing(Current, r) /\ values' = Over(Extracted(Current, r), values)
  BY DEF ReadRef
<1>2. ValuesTypes'
  BY <1>1 DEF ValuesInv, ValuesTypes, InCluster
<1>3. BuiltInv'
  BY <1>1, BuiltStays DEF ValuesInv, InCluster
<1>4. InjectInv' /\ SourcesInv'
  BY <1>1 DEF InjectInv, SourcesInv
<1>5. /\ Current' = Current
      /\ \A k : Extracted(Current, k)' = Extracted(Current, k)
  BY <1>1, SameCluster, PlanSame DEF Extracted, Object
<1>6. DOMAIN Extracted(Current, r) = DOMAIN r.fields
  BY DEF Extracted
<1>7. ASSUME NEW k
      PROVE  /\ k \in DOMAIN values' <=>
                    ReadSoFar(Current, k)' # {} \/ (Bundled /\ k \in DOMAIN Environment(plan))
             /\ k \in DOMAIN values' =>
                    values'[k] = IF ReadSoFar(Current, k)' # {}
                                 THEN Extracted(Current, Refs(plan)[Max(ReadSoFar(Current, k))'])[k]
                                 ELSE plan.env[k]
  <2> DEFINE R == ReadSoFar(Current, k)
             e == Extracted(Current, r)
  <2>1. /\ k \in DOMAIN values <=> R # {} \/ (Bundled /\ k \in DOMAIN Environment(plan))
        /\ k \in DOMAIN values =>
               values[k] = IF R # {} THEN Extracted(Current, Refs(plan)[Max(R)])[k] ELSE plan.env[k]
    BY <1>1 DEF ValuesInv, ReadInv
  <2>2. CASE ~Missing(Current, r) /\ k \in DOMAIN r.fields
    <3>1. ReadSoFar(Current, k)' = R \cup {ref} /\ Max(ReadSoFar(Current, k))' = ref
      BY <1>1, <2>2, SoFarGrows
    <3>2. values' = Over(e, values)
      BY <1>1, <2>2
    <3>3. k \in DOMAIN values' /\ values'[k] = e[k]
      BY <1>6, <2>2, <3>2 DEF Over
    <3>4. ReadSoFar(Current, k)' # {}
      BY <3>1
    <3> QED
      BY <3>1, <3>3, <3>4
  <2>3. CASE ~(~Missing(Current, r) /\ k \in DOMAIN r.fields)
    <3>1. ReadSoFar(Current, k)' = R
      BY <1>1, <2>3, SoFarGrows
    <3>2. Max(ReadSoFar(Current, k))' = Max(R)
      BY <3>1
    <3>3. (k \in DOMAIN values' <=> k \in DOMAIN values) /\ (k \in DOMAIN values => values'[k] = values[k])
      BY <1>1, <1>6, <2>3 DEF Over
    <3> QED
      BY <2>1, <3>1, <3>2, <3>3
  <2> QED
    BY <2>2, <2>3
<1>8. ReadInv'
  <2>1. /\ Bundled' <=> Bundled
        /\ Environment(plan)' = Environment(plan) /\ Refs(plan)' = Refs(plan) /\ plan.env' = plan.env
    BY <1>1, PlanSame
  <2>2. SUFFICES ASSUME NEW k
        PROVE /\ k \in DOMAIN values' <=>
                    ReadSoFar(Current, k)' # {} \/ (Bundled' /\ k \in DOMAIN Environment(plan)')
              /\ k \in DOMAIN values' =>
                    values'[k] = IF ReadSoFar(Current, k)' # {}
                                 THEN Extracted(Current, Refs(plan)[Max(ReadSoFar(Current, k))])'[k]
                                 ELSE plan.env'[k]
    BY DEF ReadInv
  <2>3. Extracted(Current, Refs(plan)[Max(ReadSoFar(Current, k))])'
            = Extracted(Current, Refs(plan)[Max(ReadSoFar(Current, k))'])
    BY <1>1, <1>5 DEF Extracted, Object
  <2> QED
    BY <2>1, <2>3, <1>7
<1> QED
  BY <1>2, <1>3, <1>4, <1>8 DEF ValuesInv

LEMMA ReadDoneKeeps == ASSUME ValuesInv, ReadDone PROVE ValuesInv'
<1>1. /\ pc = "read" /\ pc' = "inject" /\ ref > Len(Refs(plan))
      /\ values' = IF plan.kind = "runtime" THEN values ELSE Over(Info(Current), values)
      /\ sources' = SourceFiles(plan) /\ at' = <<1, 1>> /\ err' = FALSE
      /\ UNCHANGED <<plan, targets, ref, built>>
  BY DEF ReadDone
<1>2. ValuesTypes'
  BY <1>1 DEF ValuesInv, ValuesTypes, InCluster
<1>3. BuiltInv'
  BY <1>1, BuiltStays DEF ValuesInv, InCluster
<1>4. ReadInv'
  BY <1>1 DEF ReadInv
<1>5. Current' = Current
  BY <1>1, SameCluster
<1>6. ASSUME NEW k
      PROVE  /\ k \in DOMAIN values' <=> Named(Current, k)
             /\ k \in DOMAIN values' => values'[k] = ValueOf(Current, k)
  <2>1. ReadSoFar(Current, k) = Sources(Current, k)
    <3>1. DOMAIN Refs(plan) = 1..Len(Refs(plan)) /\ Len(Refs(plan)) \in Nat /\ ref \in Nat
      BY RefsTyped DEF ValuesInv, ValuesTypes
    <3>2. \A n \in Sources(Current, k) : n < ref
      BY <1>1, <3>1 DEF Sources
    <3> QED
      BY <3>2 DEF ReadSoFar
  <2>2. /\ k \in DOMAIN values <=> Sources(Current, k) # {} \/ (Bundled /\ k \in DOMAIN Environment(plan))
        /\ k \in DOMAIN values =>
               values[k] = IF Sources(Current, k) # {}
                           THEN Extracted(Current, Refs(plan)[Max(Sources(Current, k))])[k]
                           ELSE plan.env[k]
    BY <1>1, <2>1 DEF ValuesInv, ReadInv
  <2>3. CASE Bundled /\ k \in DOMAIN Info(Current)
    <3>1. k \in DOMAIN values' /\ values'[k] = Info(Current)[k]
      BY <1>1, <2>3 DEF Over, Bundled
    <3> QED
      BY <2>3, <3>1 DEF Named, ValueOf
  <2>4. CASE ~(Bundled /\ k \in DOMAIN Info(Current))
    <3>1. (k \in DOMAIN values' <=> k \in DOMAIN values) /\ (k \in DOMAIN values => values'[k] = values[k])
      BY <1>1, <2>4 DEF Over, Bundled
    <3> QED
      BY <2>2, <2>4, <3>1 DEF Named, ValueOf
  <2> QED
    BY <2>3, <2>4
<1>7. InjectInv'
  BY <1>1, <1>5, <1>6, PlanSame DEF InjectInv
<1>8. SourcesInv'
  <2> DEFINE F == SourceFiles(plan)
  <2>1. /\ Len(F) \in Nat /\ DOMAIN F = 1..Len(F)
        /\ \A i \in DOMAIN F : Len(F[i].fields) \in Nat /\ DOMAIN F[i].fields = 1..Len(F[i].fields)
    BY FilesTyped DEF ValuesInv, ValuesTypes
  <2>2. at'[1] = 1 /\ at'[2] = 1
    BY <1>1
  <2>3. ASSUME NEW i \in DOMAIN F, NEW j \in DOMAIN F[i].fields PROVE ~IsInjected(i, j)'
    BY <2>1, <2>2 DEF IsInjected
  <2>4. \A i \in DOMAIN F : ~(i < at'[1])
    BY <2>1, <2>2
  <2>6. F' = F
    BY <1>1
  <2>5. ASSUME NEW i \in DOMAIN F PROVE CoveredBefore(Current, F[i].fields, at[2])'
    <3>1. \A a \in DOMAIN F[i].fields : ~(a < 1)
      BY <2>1
    <3> QED
      BY <2>2, <2>6, <3>1 DEF CoveredBefore
  <2> QED
    BY <1>1, <2>3, <2>4, <2>5, <2>6 DEF SourcesInv, SameShape
<1> QED
  BY <1>2, <1>3, <1>4, <1>7, <1>8 DEF ValuesInv

(* What the injector does to a file. *)
LEMMA FieldReplaced ==
    ASSUME NEW s, NEW i \in DOMAIN s, NEW j \in DOMAIN s[i].fields, NEW v,
           "fields" \in DOMAIN s[i], "value" \in DOMAIN s[i].fields[j], NEW t,
           t = [s EXCEPT ![i].fields[j].value = v]
    PROVE  /\ DOMAIN t = DOMAIN s
           /\ \A a \in DOMAIN s : SameShape(t[a], s[a])
           /\ t[i].fields[j].value = v
           /\ \A a \in DOMAIN s : \A b \in DOMAIN s[a].fields :
                  a # i \/ b # j => t[a].fields[b].value = s[a].fields[b].value
<1> DEFINE f == s[i].fields
           g == [f[j] EXCEPT !.value = v]
           h == [f EXCEPT ![j] = g]
           file == [s[i] EXCEPT !.fields = h]
<1>1. t = [s EXCEPT ![i] = file]
  OBVIOUS
<1>2. /\ DOMAIN g = DOMAIN f[j] /\ g.value = v
      /\ g.name = f[j].name /\ g.type = f[j].type
  OBVIOUS
<1> HIDE DEF g
<1>3. DOMAIN h = DOMAIN f /\ h[j] = g /\ \A b \in DOMAIN f : b # j => h[b] = f[b]
  OBVIOUS
<1> HIDE DEF h
<1>4. DOMAIN file = DOMAIN s[i] /\ file.fields = h /\ file.parses = s[i].parses
  OBVIOUS
<1> HIDE DEF file
<1>5. DOMAIN t = DOMAIN s /\ t[i] = file /\ \A a \in DOMAIN s : a # i => t[a] = s[a]
  BY <1>1
<1>6. ASSUME NEW a \in DOMAIN s PROVE SameShape(t[a], s[a])
  <2>1. CASE a = i
    <3>1. ASSUME NEW b \in DOMAIN f
          PROVE  DOMAIN h[b] = DOMAIN f[b] /\ h[b].name = f[b].name /\ h[b].type = f[b].type
      BY <1>2, <1>3
    <3> QED
      BY <1>3, <1>4, <1>5, <2>1, <3>1 DEF SameShape
  <2>2. CASE a # i
    BY <1>5, <2>2 DEF SameShape
  <2> QED
    BY <2>1, <2>2
<1>7. t[i].fields[j].value = v
  BY <1>2, <1>3, <1>4, <1>5
<1>8. ASSUME NEW a \in DOMAIN s, NEW b \in DOMAIN s[a].fields, a # i \/ b # j
      PROVE  t[a].fields[b].value = s[a].fields[b].value
  BY <1>3, <1>4, <1>5, <1>8
<1> QED
  BY <1>5, <1>6, <1>7, <1>8

(* The injector keeps what it has done to the other fields. *)
LEMMA InjectFieldKeeps == ASSUME ValuesInv, InjectField PROVE ValuesInv'
<1> DEFINE i == at[1]
           j == at[2]
           f == sources[i].fields[j]
           F == SourceFiles(plan)
           fields == F[i].fields
           o == fields[j]
<1>1. /\ pc = "inject" /\ i <= Len(sources) /\ j <= Len(sources[i].fields)
      /\ at' = <<i, j + 1>>
      /\ UNCHANGED <<plan, pc, targets, values, ref, built>>
  BY DEF InjectField, AtFile, CurrentFile, CurrentField
<1>a. \/ ~Matches(f) /\ UNCHANGED <<sources, err>>
      \/ /\ Matches(f) /\ Fits(f)
         /\ sources' = [sources EXCEPT ![i].fields[j].value = values[f.name]]
         /\ err' = FALSE
      \/ Matches(f) /\ ~Fits(f) /\ err' = TRUE /\ UNCHANGED sources
  BY DEF InjectField, AtFile, CurrentFile, CurrentField
<1>2. at'[1] = i /\ at'[2] = j + 1 /\ i \in Nat \ {0} /\ j \in Nat \ {0}
  <2>1. i \in Nat \ {0} /\ j \in Nat \ {0}
    BY DEF ValuesInv, ValuesTypes
  <2> QED
    BY <1>1, <2>1
<1>3. ValuesTypes'
  BY <1>1, <1>2 DEF ValuesInv, ValuesTypes, InCluster
<1>4. BuiltInv'
  BY <1>1, BuiltStays DEF ValuesInv, InCluster
<1>5. ReadInv'
  BY <1>1 DEF ReadInv
<1>6. Current' = Current
  BY <1>1, SameCluster
<1>7. InjectInv'
  BY <1>1, <1>6, PlanSame DEF ValuesInv, InjectInv
<1>8. /\ DOMAIN sources = DOMAIN F
      /\ \A a \in DOMAIN F :
             /\ SameShape(sources[a], F[a])
             /\ \A b \in DOMAIN F[a].fields : sources[a].fields[b].value =
                    IF IsInjected(a, b) THEN InjectedValue(Current, F[a].fields[b]) ELSE F[a].fields[b].value
             /\ a < i => Covered(Current, F[a].fields)
             /\ a = i /\ ~err => CoveredBefore(Current, F[a].fields, j)
  BY <1>1 DEF ValuesInv, SourcesInv
<1>9. /\ DOMAIN F = 1..Len(F) /\ Len(F) \in Nat
      /\ \A a \in DOMAIN F :
             /\ {"parses", "fields"} \subseteq DOMAIN F[a]
             /\ Len(F[a].fields) \in Nat /\ DOMAIN F[a].fields = 1..Len(F[a].fields)
             /\ \A b \in DOMAIN F[a].fields : {"name", "type", "value"} \subseteq DOMAIN F[a].fields[b]
  BY FilesTyped DEF ValuesInv, ValuesTypes
<1>10. i \in DOMAIN F /\ j \in DOMAIN fields
  <2>1. DOMAIN sources = 1..Len(F) /\ Len(F) \in Nat
    BY <1>8, <1>9
  <2>2. Len(sources) = Len(F)
    BY <2>1
  <2>3. i \in 1..Len(F)
    BY <1>1, <1>2, <2>1, <2>2
  <2>4. i \in DOMAIN F
    BY <1>9, <2>3
  <2>5. SameShape(sources[i], F[i])
    BY <1>8, <2>4
  <2>6. /\ DOMAIN fields = 1..Len(fields) /\ Len(fields) \in Nat
        /\ DOMAIN sources[i].fields = DOMAIN fields
    BY <1>9, <2>4, <2>5 DEF SameShape
  <2>7. Len(sources[i].fields) = Len(fields)
    BY <2>6
  <2>8. j \in 1..Len(fields)
    BY <1>1, <1>2, <2>6, <2>7
  <2> QED
    BY <2>4, <2>6, <2>8
<1>11. /\ f.name = o.name /\ f.type = o.type /\ f.value = o.value
       /\ j \in DOMAIN sources[i].fields
       /\ "fields" \in DOMAIN sources[i] /\ "value" \in DOMAIN f
  <2>1. ~IsInjected(i, j)
    BY <1>2 DEF IsInjected
  <2> QED
    BY <1>8, <1>9, <1>10, <2>1 DEF SameShape
<1>12. /\ Matches(f) <=> Named(Current, o.name)
       /\ Matches(f) => values[f.name] = ValueOf(Current, o.name)
       /\ Matches(f) => (Fits(f) <=> Good(Current, o))
  BY <1>1, <1>11 DEF ValuesInv, InjectInv, Matches, Fits, Good
<1>13. /\ DOMAIN sources' = DOMAIN F
       /\ \A a \in DOMAIN F : SameShape(sources'[a], F[a])
       /\ sources'[i].fields[j].value = InjectedValue(Current, o)
       /\ \A a \in DOMAIN F : \A b \in DOMAIN F[a].fields :
              a # i \/ b # j => sources'[a].fields[b].value = sources[a].fields[b].value
  <2>1. CASE Matches(f) /\ Fits(f)
    <3>1. sources' = [sources EXCEPT ![i].fields[j].value = values[f.name]]
      BY <1>a, <2>1
    <3>2. /\ DOMAIN sources' = DOMAIN sources
          /\ \A a \in DOMAIN sources : SameShape(sources'[a], sources[a])
          /\ sources'[i].fields[j].value = values[f.name]
          /\ \A a \in DOMAIN sources : \A b \in DOMAIN sources[a].fields :
                 a # i \/ b # j => sources'[a].fields[b].value = sources[a].fields[b].value
      <4> DEFINE s == sources
                 t == sources'
                 v == values[f.name]
      <4>1. /\ i \in DOMAIN s /\ j \in DOMAIN s[i].fields
            /\ "fields" \in DOMAIN s[i] /\ "value" \in DOMAIN s[i].fields[j]
            /\ t = [s EXCEPT ![i].fields[j].value = v]
        BY <1>8, <1>10, <1>11, <3>1
      <4> HIDE DEF s, t, v, i, j
      <4>2. /\ DOMAIN t = DOMAIN s
            /\ \A a \in DOMAIN s : SameShape(t[a], s[a])
            /\ t[i].fields[j].value = v
            /\ \A a \in DOMAIN s : \A b \in DOMAIN s[a].fields :
                   a # i \/ b # j => t[a].fields[b].value = s[a].fields[b].value
        BY <4>1, FieldReplaced
      <4> QED
        BY <4>2 DEF s, t, v
    <3>3. values[f.name] = InjectedValue(Current, o)
      BY <1>12, <2>1 DEF InjectedValue
    <3>4. \A a \in DOMAIN F : DOMAIN sources[a].fields = DOMAIN F[a].fields
      BY <1>8 DEF SameShape
    <3>5. ASSUME NEW a \in DOMAIN F PROVE SameShape(sources'[a], F[a])
      <4>1. SameShape(sources'[a], sources[a]) /\ SameShape(sources[a], F[a])
        BY <1>8, <3>2
      <4> QED
        BY <4>1 DEF SameShape
    <3>6. DOMAIN sources' = DOMAIN F /\ sources'[i].fields[j].value = InjectedValue(Current, o)
      BY <1>8, <3>2, <3>3
    <3>7. ASSUME NEW a \in DOMAIN F, NEW b \in DOMAIN F[a].fields, a # i \/ b # j
          PROVE  sources'[a].fields[b].value = sources[a].fields[b].value
      <4>1. a \in DOMAIN sources /\ b \in DOMAIN sources[a].fields
        BY <1>8, <3>4
      <4> QED
        BY <3>2, <3>7, <4>1
    <3> QED
      BY <3>5, <3>6, <3>7
  <2>2. CASE ~(Matches(f) /\ Fits(f))
    <3>1. sources' = sources
      BY <1>a, <2>2
    <3>2. o.value = InjectedValue(Current, o)
      BY <1>12, <2>2 DEF InjectedValue
    <3> QED
      BY <1>8, <1>11, <3>1, <3>2
  <2> QED
    BY <2>1, <2>2
<1>14. ASSUME NEW a \in DOMAIN F, NEW b \in DOMAIN F[a].fields
       PROVE  sources'[a].fields[b].value =
                  IF IsInjected(a, b)' THEN InjectedValue(Current, F[a].fields[b]) ELSE F[a].fields[b].value
  <2>1. a \in Nat /\ b \in Nat
    BY <1>9
  <2>2. CASE a = i /\ b = j
    <3>1. IsInjected(a, b)'
      BY <1>2, <2>2 DEF IsInjected
    <3> QED
      BY <1>13, <2>2, <3>1
  <2>3. CASE a # i \/ b # j
    <3>1. IsInjected(a, b)' <=> IsInjected(a, b)
      BY <1>2, <2>1, <2>3 DEF IsInjected
    <3>2. sources[a].fields[b].value =
              IF IsInjected(a, b) THEN InjectedValue(Current, F[a].fields[b]) ELSE F[a].fields[b].value
      BY <1>8
    <3>3. sources'[a].fields[b].value = sources[a].fields[b].value
      BY <1>13, <2>3
    <3> QED
      BY <3>1, <3>2, <3>3
  <2> QED
    BY <2>2, <2>3
<1>15. ~err' => CoveredBefore(Current, fields, j + 1)
  <2>1. \A b \in DOMAIN fields : b \in Nat
    BY <1>9, <1>10
  <2>2. CASE ~Matches(f)
    <3>1. ~Bad(Current, o)
      BY <1>12, <2>2 DEF Bad
    <3>2. ~err => CoveredBefore(Current, fields, j)
      BY <1>8, <1>10
    <3>3. err' = err
      BY <1>a, <2>2
    <3>4. ~err' => CoveredBefore(Current, fields, j)
      BY <3>2, <3>3
    <3> QED
      BY <1>2, <2>1, <3>1, <3>4 DEF CoveredBefore
  <2>3. CASE Matches(f) /\ Fits(f)
    <3>1. Named(Current, o.name) /\ Good(Current, o) /\ ~Bad(Current, o)
      BY <1>12, <2>3 DEF Bad
    <3> QED
      BY <1>2, <1>10, <2>1, <3>1 DEF CoveredBefore
  <2>4. CASE Matches(f) /\ ~Fits(f)
    BY <1>a, <2>4
  <2> QED
    BY <2>2, <2>3, <2>4
<1>16. SourcesInv'
  <2>1. /\ F' = F
        /\ \A a : (Covered(Current, F[a].fields)' <=> Covered(Current, F[a].fields))
        /\ (CoveredBefore(Current, F[i].fields, at[2])' <=> CoveredBefore(Current, fields, j + 1))
    <3>1. F' = F
      BY <1>1
    <3> QED
      BY <1>1, <1>2, <1>6, <3>1, SoundStays
  <2>2. \A a \in DOMAIN F : \A b \in DOMAIN F[a].fields :
            InjectedValue(Current, F[a].fields[b])' = InjectedValue(Current, F[a].fields[b])
    BY <1>1, <1>6, <2>1, SoundStays
  <2>3. \A a \in DOMAIN F : a < at'[1] => Covered(Current, F[a].fields)'
    BY <1>2, <1>8, <2>1
  <2>4. ~err' => CoveredBefore(Current, F[i].fields, at[2])'
    BY <1>15, <2>1
  <2>5. ASSUME NEW a \in DOMAIN F
        PROVE  /\ SameShape(sources'[a], F[a])
               /\ \A b \in DOMAIN F[a].fields : sources'[a].fields[b].value =
                      IF IsInjected(a, b)' THEN InjectedValue(Current, F[a].fields[b])' ELSE F[a].fields[b].value
               /\ a < at'[1] => Covered(Current, F[a].fields)'
               /\ a = at'[1] /\ ~err' => CoveredBefore(Current, F[a].fields, at[2])'
    <3>1. \A b \in DOMAIN F[a].fields : sources'[a].fields[b].value =
              IF IsInjected(a, b)' THEN InjectedValue(Current, F[a].fields[b])' ELSE F[a].fields[b].value
      BY <1>14, <2>2
    <3>2. a = at'[1] /\ ~err' => CoveredBefore(Current, F[a].fields, at[2])'
      BY <1>2, <2>4
    <3> QED
      BY <1>13, <2>3, <3>1, <3>2
  <2> QED
    BY <1>13, <2>1, <2>5 DEF SourcesInv
<1> QED
  BY <1>3, <1>4, <1>5, <1>7, <1>16 DEF ValuesInv

(* A file is left when no refused value is the last thing that happened to it. *)
LEMMA InjectedKeeps == ASSUME ValuesInv, Injected, ~Fail PROVE ValuesInv'
<1> DEFINE i == at[1]
           F == SourceFiles(plan)
           fields == F[i].fields
<1>1. /\ pc = "inject" /\ i <= Len(sources) /\ at[2] > Len(sources[i].fields) /\ ~err
      /\ at' = <<i + 1, 1>>
      /\ UNCHANGED <<plan, pc, targets, values, ref, sources, err, built>>
  BY DEF Injected, AtFile, CurrentFile
<1>2. at'[1] = i + 1 /\ at'[2] = 1 /\ i \in Nat \ {0} /\ at[2] \in Nat \ {0}
  BY <1>1 DEF ValuesInv, ValuesTypes
<1>3. ValuesTypes'
  BY <1>1, <1>2 DEF ValuesInv, ValuesTypes, InCluster
<1>4. BuiltInv'
  BY <1>1, BuiltStays DEF ValuesInv, InCluster
<1>5. ReadInv'
  BY <1>1 DEF ReadInv
<1>6. Current' = Current
  BY <1>1, SameCluster
<1>7. InjectInv'
  BY <1>1, <1>6, PlanSame DEF ValuesInv, InjectInv
<1>8. /\ DOMAIN sources = DOMAIN F
      /\ \A a \in DOMAIN F :
             /\ SameShape(sources[a], F[a])
             /\ \A b \in DOMAIN F[a].fields : sources[a].fields[b].value =
                    IF IsInjected(a, b) THEN InjectedValue(Current, F[a].fields[b]) ELSE F[a].fields[b].value
             /\ a < i => Covered(Current, F[a].fields)
             /\ a = i => CoveredBefore(Current, F[a].fields, at[2])
  BY <1>1 DEF ValuesInv, SourcesInv
<1>9. /\ DOMAIN F = 1..Len(F) /\ Len(F) \in Nat
      /\ \A a \in DOMAIN F : Len(F[a].fields) \in Nat /\ DOMAIN F[a].fields = 1..Len(F[a].fields)
  BY FilesTyped DEF ValuesInv, ValuesTypes
<1>10. i \in DOMAIN F /\ \A j \in DOMAIN fields : j < at[2]
  <2>1. Len(sources) = Len(F)
    BY <1>8, <1>9
  <2>2. i \in DOMAIN F
    BY <1>1, <1>2, <1>9, <2>1
  <2>3. Len(sources[i].fields) = Len(fields)
    BY <1>8, <1>9, <2>2 DEF SameShape
  <2> QED
    BY <1>1, <1>2, <1>9, <2>2, <2>3
<1>11. Covered(Current, fields)
  <2>1. CoveredBefore(Current, fields, at[2])
    BY <1>8, <1>10
  <2> QED
    BY <1>10, <2>1 DEF Covered, CoveredBefore
<1>12. SourcesInv'
  <2>1. /\ F' = F
        /\ \A a : (Covered(Current, F[a].fields)' <=> Covered(Current, F[a].fields))
        /\ \A a : \A b : InjectedValue(Current, F[a].fields[b])' = InjectedValue(Current, F[a].fields[b])
    <3>1. F' = F
      BY <1>1
    <3> QED
      BY <1>1, <1>6, <3>1, SoundStays
  <2>2. ASSUME NEW a \in DOMAIN F, NEW b \in DOMAIN F[a].fields
        PROVE  IsInjected(a, b)' <=> IsInjected(a, b)
    BY <1>2, <1>9, <1>10 DEF IsInjected
  <2>3. ASSUME NEW a \in DOMAIN F, a < at'[1] PROVE Covered(Current, F[a].fields)'
    <3>1. a < i \/ a = i
      BY <1>2, <1>9, <2>3
    <3> QED
      BY <1>8, <1>11, <2>1, <3>1
  <2>4. ASSUME NEW a \in DOMAIN F PROVE CoveredBefore(Current, F[a].fields, at[2])'
    <3>1. \A b \in DOMAIN F[a].fields : ~(b < 1)
      BY <1>9
    <3> QED
      BY <1>2, <2>1, <3>1 DEF CoveredBefore
  <2> QED
    BY <1>1, <1>8, <2>1, <2>2, <2>3, <2>4 DEF SourcesInv
<1> QED
  BY <1>3, <1>4, <1>5, <1>7, <1>12 DEF ValuesInv

(* A bundle is built when every field has been injected. *)
LEMMA BuildKeeps == ASSUME ValuesInv, Build, ~Fail PROVE ValuesInv'
<1> DEFINE F == SourceFiles(plan)
           now == Min(targets)
           b == [cluster |-> now, values |-> values, files |-> sources]
           n == Len(built) + 1
<1>1. /\ pc = "inject" /\ at[1] > Len(sources)
      /\ built' = Append(built, b)
      /\ targets' = targets \ {now}
      /\ pc' = IF targets' = {} THEN "done" ELSE "cluster"
      /\ UNCHANGED <<plan, values, ref, sources, at, err>>
  BY DEF Build
<1>2. /\ now \in targets /\ \A t \in targets : now <= t
      /\ targets \subseteq Nat /\ Current = Clusters(plan)[now]
  BY <1>1, NextCluster DEF ValuesInv, InCluster
<1> HIDE DEF now
<1>3. PICK S : built \in Seq(S)
  BY DEF ValuesInv, ValuesTypes
<1>4. /\ Len(built) \in Nat /\ DOMAIN built = 1..Len(built)
      /\ built' \in Seq(S \cup {b})
      /\ DOMAIN built' = DOMAIN built \cup {n} /\ n \notin DOMAIN built
      /\ built'[n] = b /\ \A m \in DOMAIN built : built'[m] = built[m] /\ m < n
  BY <1>1, <1>3
<1>5. targets \subseteq SelectClusters(plan)
  BY DEF ValuesInv, ValuesTypes
<1>6. ValuesTypes'
  <2>1. \E T : built' \in Seq(T)
    BY <1>4
  <2> QED
    BY <1>1, <2>1 DEF ValuesInv, ValuesTypes, InCluster
<1>7. ReadInv' /\ InjectInv' /\ SourcesInv'
  BY <1>1 DEF ReadInv, InjectInv, SourcesInv
<1>8. SoundBuild(b)
  <2>1. b.cluster = now /\ b.values = values /\ b.files = sources
    OBVIOUS
  <2> HIDE DEF b
  <2>2. \A k \in DOMAIN values : Named(Current, k) /\ values[k] = ValueOf(Current, k)
    BY <1>1 DEF ValuesInv, InjectInv
  <2>3. ASSUME NEW i \in DOMAIN F
        PROVE  /\ Covered(Current, F[i].fields)
               /\ \A j \in DOMAIN F[i].fields :
                      sources[i].fields[j].value = InjectedValue(Current, F[i].fields[j])
    <3>1. DOMAIN sources = DOMAIN F /\ Len(F) \in Nat /\ DOMAIN F = 1..Len(F)
      BY <1>1, FilesTyped DEF ValuesInv, ValuesTypes, SourcesInv
    <3>2. i < at[1] /\ \A j : IsInjected(i, j)
      BY <1>1, <3>1 DEF IsInjected, ValuesInv, ValuesTypes
    <3> QED
      BY <1>1, <3>1, <3>2 DEF ValuesInv, SourcesInv
  <2> QED
    BY <1>2, <1>5, <2>1, <2>2, <2>3 DEF SoundBuild
<1>9. b.cluster = now
  OBVIOUS
<1> HIDE DEF b
<1>10. BuiltInv'
  <2>1. /\ \A m \in DOMAIN built : SoundBuild(built[m])
        /\ \A m \in DOMAIN built : \A t \in targets : built[m].cluster < t
        /\ \A l, m \in DOMAIN built : l < m => built[l].cluster < built[m].cluster
        /\ \A t \in SelectClusters(plan) \ targets : \E m \in DOMAIN built : built[m].cluster = t
    BY <1>1 DEF ValuesInv, BuiltInv, InCluster
  <2>2. \A x : SoundBuild(x)' <=> SoundBuild(x)
    BY <1>1, SoundStays
  <2>3. \A m \in DOMAIN built' : SoundBuild(built[m])'
    <3>1. ASSUME NEW m \in DOMAIN built' PROVE SoundBuild(built'[m])
      BY <1>4, <1>8, <2>1
    <3> QED
      BY <2>2, <3>1
  <2>4. ASSUME NEW m \in DOMAIN built', NEW t \in targets' PROVE built'[m].cluster < t
    <3>1. t \in targets /\ t # now /\ t \in Nat /\ now \in Nat /\ now <= t
      BY <1>1, <1>2
    <3>2. CASE m \in DOMAIN built
      BY <1>4, <2>1, <3>1, <3>2
    <3>3. CASE m = n
      <4>1. built'[m].cluster = now
        BY <1>4, <1>9, <3>3
      <4> QED
        BY <3>1, <4>1
    <3> QED
      BY <1>4, <3>2, <3>3
  <2>5. \A l, m \in DOMAIN built' : l < m => built'[l].cluster < built'[m].cluster
    BY <1>2, <1>4, <1>9, <2>1
  <2>6. \A t \in SelectClusters(plan) \ targets' : \E m \in DOMAIN built' : built'[m].cluster = t
    BY <1>1, <1>4, <1>9, <2>1
  <2>7. SelectClusters(plan)' = SelectClusters(plan)
    BY <1>1
  <2> QED
    BY <2>3, <2>4, <2>5, <2>6, <2>7 DEF BuiltInv
<1> QED
  BY <1>6, <1>7, <1>10 DEF ValuesInv

LEMMA NoValuesStep == ASSUME ValuesInv, UNCHANGED valueVars PROVE ValuesInv'
<1> USE DEF valueVars
<1>1. ValuesTypes'
  BY DEF ValuesInv, ValuesTypes
<1>2. BuiltInv'
  BY BuiltStays DEF ValuesInv
<1>3. Current' = Current
  BY SameCluster
<1>4. ReadInv'
  <2>1. \A k : ReadSoFar(Current, k)' = ReadSoFar(Current, k)
    BY <1>3, PlanSame, SMTT(30) DEF ReadSoFar
  <2>2. \A k : Extracted(Current, Refs(plan)[Max(ReadSoFar(Current, k))])'
                 = Extracted(Current, Refs(plan)[Max(ReadSoFar(Current, k))])
    BY <1>3, <2>1 DEF Extracted, Object
  <2> QED
    BY <2>1, <2>2, PlanSame DEF ReadInv, ValuesInv
<1>5. InjectInv'
  BY <1>3, PlanSame DEF InjectInv, ValuesInv
<1>6. SourcesInv'
  <2> DEFINE F == SourceFiles(plan)
  <2>1. F' = F
    OBVIOUS
  <2>2. /\ \A a : (Covered(Current, F[a].fields)' <=> Covered(Current, F[a].fields))
        /\ \A a : (CoveredBefore(Current, F[a].fields, at[2])' <=> CoveredBefore(Current, F[a].fields, at[2]))
        /\ \A a : \A b : InjectedValue(Current, F[a].fields[b])' = InjectedValue(Current, F[a].fields[b])
    BY <1>3, <2>1, SoundStays
  <2>3. \A a, b : IsInjected(a, b)' <=> IsInjected(a, b)
    BY DEF IsInjected
  <2> QED
    BY <2>1, <2>2, <2>3 DEF SourcesInv, ValuesInv
<1> QED
  BY <1>1, <1>2, <1>4, <1>5, <1>6 DEF ValuesInv

LEMMA ValuesNextKeeps == ASSUME ValuesInv, [ValuesNext]_valueVars PROVE ValuesInv'
<1>1. CASE Fail
  BY <1>1, FailKeeps
<1>2. CASE BuildRuntime /\ ~Fail
  BY <1>2, BuildRuntimeKeeps
<1>3. CASE EnterCluster
  BY <1>3, EnterClusterKeeps
<1>4. CASE ReadRef /\ ~Fail
  BY <1>4, ReadRefKeeps
<1>5. CASE ReadFails
  BY <1>5, FailKeeps DEF ReadFails
<1>6. CASE ReadDone
  BY <1>6, ReadDoneKeeps
<1>7. CASE ParseFails
  BY <1>7, FailKeeps DEF ParseFails
<1>8. CASE InjectField
  BY <1>8, InjectFieldKeeps
<1>9. CASE Injected /\ ~Fail
  BY <1>9, InjectedKeeps
<1>10. CASE Build /\ ~Fail
  BY <1>10, BuildKeeps
<1>11. CASE ValuesStopped \/ UNCHANGED valueVars
  BY <1>11, NoValuesStep DEF ValuesStopped
<1> QED
  BY <1>1, <1>2, <1>3, <1>4, <1>5, <1>6, <1>7, <1>8, <1>9, <1>10, <1>11 DEF ValuesNext

--------------------------------------------------------------------------------
(* ValuesInv is an inductive invariant: the values in hand are those of the  *)
(* objects read so far, the files those of the command line with the fields  *)
(* before `at` injected (runtime/reader.go, engine/runtime_injector.go).     *)
THEOREM ValuesInvariant == ValuesSpec => []ValuesInv
  BY ValuesStart, ValuesNextKeeps, PTL DEF ValuesSpec

(* Every bundle that is built has the values of its own cluster, and all     *)
(* selected clusters get one, in their order, whatever runtime and files     *)
(* there are (cmd/timoni/bundle_apply.go).                                   *)
THEOREM BuiltAsReadHolds == ValuesSpec => []BuiltAsRead
<1>1. ASSUME ValuesInv PROVE BuiltAsRead
  <2>1. ASSUME NEW n \in DOMAIN built
        PROVE  LET b == built[n]
                   c == Clusters(plan)[b.cluster]
               IN  /\ b.cluster \in SelectClusters(plan)
                   /\ \A m \in DOMAIN built : m < n => built[m].cluster < b.cluster
                   /\ \A k \in DOMAIN b.values : Named(c, k) /\ b.values[k] = ValueOf(c, k)
                   /\ \A i \in DOMAIN SourceFiles(plan) : \A j \in DOMAIN SourceFiles(plan)[i].fields :
                          b.files[i].fields[j].value = InjectedValue(c, SourceFiles(plan)[i].fields[j])
    <3>1. SoundBuild(built[n])
      BY <1>1 DEF ValuesInv, BuiltInv
    <3>2. \A m \in DOMAIN built : m < n => built[m].cluster < built[n].cluster
      BY <1>1 DEF ValuesInv, BuiltInv
    <3> QED
      BY <3>1, <3>2 DEF SoundBuild
  <2>2. pc = "done" => \A i \in SelectClusters(plan) : \E n \in DOMAIN built : built[n].cluster = i
    BY <1>1 DEF ValuesInv, ValuesTypes, BuiltInv
  <2> QED
    BY <2>1, <2>2 DEF BuiltAsRead, InjectedValue, Good
<1> QED
  BY <1>1, ValuesInvariant, PTL

(* How far a refused value may be hidden: it is never in the bundle, and the *)
(* bundle is built only when a later field of the same file took its value   *)
(* (engine/runtime_injector.go).                                             *)
RefusedThenTaken ==
    \A n \in DOMAIN built : \A i \in DOMAIN SourceFiles(plan) :
        LET c == Clusters(plan)[built[n].cluster]
            fields == SourceFiles(plan)[i].fields
        IN  \A j \in DOMAIN fields :
                Bad(c, fields[j]) =>
                    /\ built[n].files[i].fields[j].value = fields[j].value
                    /\ \E k \in DOMAIN fields :
                           k > j /\ Named(c, fields[k].name) /\ Good(c, fields[k])

(* The command fails on a value of the wrong type unless a later field of    *)
(* the same file takes its value, for any runtime, objects and files.        *)
THEOREM RefusedThenTakenHolds == ValuesSpec => []RefusedThenTaken
<1>1. ASSUME ValuesInv PROVE RefusedThenTaken
  <2>1. SUFFICES ASSUME NEW n \in DOMAIN built, NEW i \in DOMAIN SourceFiles(plan),
                        NEW j \in DOMAIN SourceFiles(plan)[i].fields,
                        Bad(Clusters(plan)[built[n].cluster], SourceFiles(plan)[i].fields[j])
                 PROVE  LET c == Clusters(plan)[built[n].cluster]
                            fields == SourceFiles(plan)[i].fields
                        IN  /\ built[n].files[i].fields[j].value = fields[j].value
                            /\ \E k \in DOMAIN fields : k > j /\ Named(c, fields[k].name) /\ Good(c, fields[k])
    BY DEF RefusedThenTaken
  <2>2. SoundBuild(built[n])
    BY <1>1 DEF ValuesInv, BuiltInv
  <2> QED
    BY <2>1, <2>2 DEF SoundBuild, Covered, InjectedValue, Bad
<1> QED
  BY <1>1, ValuesInvariant, PTL

--------------------------------------------------------------------------------
(* FileCopy. *)

(* The next step on a path from prev: in the destination, and on the way to it. *)
PlaceStep(rel, prev, k) ==
    IF prev = Nowhere THEN Nowhere
    ELSE LET q == Follow(Append(prev, rel[k])) IN IF IsPrefix(root, q) THEN q ELSE Nowhere

Placed(rel, n, f) == f = [k \in 0..n |-> IF k = 0 THEN root ELSE PlaceStep(rel, f[k - 1], k)]

(* A function that is defined by recursion is there: the one for n - 1,      *)
(* continued.                                                                *)
LEMMA PlacedExists == ASSUME NEW rel, NEW n \in Nat PROVE \E f : Placed(rel, n, f)
<1> DEFINE T == {i \in Nat : ~\E f : Placed(rel, i, f)}
<1> SUFFICES ASSUME T # {} PROVE FALSE
  OBVIOUS
<1>1. PICK m \in T : \A y \in T : m <= y
  <2> HIDE DEF T
  <2>1. T \in SUBSET Nat
    BY DEF T
  <2> QED
    BY <2>1, LeastNat
<1>2. CASE m = 0
  <2> DEFINE g == [k \in 0..0 |-> root]
  <2>1. Placed(rel, 0, g)
    BY DEF Placed
  <2> QED
    BY <1>2, <2>1
<1>3. CASE m # 0
  <2>1. m - 1 \in Nat /\ m - 1 \notin T
    BY <1>1, <1>3
  <2>2. PICK f : Placed(rel, m - 1, f)
    BY <2>1
  <2> DEFINE g == [k \in 0..m |-> IF k < m THEN f[k] ELSE PlaceStep(rel, f[m - 1], m)]
  <2>3. ASSUME NEW k \in 0..m PROVE g[k] = IF k = 0 THEN root ELSE PlaceStep(rel, g[k - 1], k)
    <3>1. CASE k < m
      <4>1. k \in 0..(m - 1) /\ g[k] = f[k] /\ (k # 0 => g[k - 1] = f[k - 1])
        BY <3>1
      <4>2. f[k] = IF k = 0 THEN root ELSE PlaceStep(rel, f[k - 1], k)
        BY <2>2, <4>1 DEF Placed
      <4> QED
        BY <4>1, <4>2
    <3>2. CASE k = m
      BY <1>3, <3>2
    <3> QED
      BY <3>1, <3>2
  <2>4. Placed(rel, m, g)
    BY <2>3 DEF Placed
  <2> QED
    BY <2>4
<1> QED
  BY <1>2, <1>3

LEMMA PlacedLast ==
    ASSUME NEW rel, NEW n \in Nat, NEW f, Placed(rel, n, f)
    PROVE  f[n] = IF n = 0 THEN root ELSE PlaceStep(rel, f[n - 1], n)
  BY DEF Placed

(* Whatever links there are, a place is below the destination.               *)
LEMMA PlaceIs ==
    ASSUME root \in Paths, NEW rel, Len(rel) \in Nat
    PROVE  Place(rel) = Nowhere \/ IsPrefix(root, Place(rel))
<1> DEFINE places == CHOOSE f : Placed(rel, Len(rel), f)
<1>1. Place(rel) = places[Len(rel)]
  BY DEF Place, Placed, PlaceStep
<1>2. Placed(rel, Len(rel), places)
  BY PlacedExists
<1> HIDE DEF places
<1>3. places[Len(rel)] = IF Len(rel) = 0 THEN root ELSE PlaceStep(rel, places[Len(rel) - 1], Len(rel))
  BY <1>2, PlacedLast
<1>4. IsPrefix(root, root)
  BY DEF Paths, IsPrefix
<1> QED
  BY <1>1, <1>3, <1>4 DEF PlaceStep

(* The same for the way to the destination. *)
ResolveStep(p, prev, k) ==
    LET q == Append(prev, p[k]) IN IF Exists(Follow(q)) THEN Follow(q) ELSE q

Reached(p, n, f) == f = [k \in 0..n |-> IF k = 0 THEN << >> ELSE ResolveStep(p, f[k - 1], k)]

LEMMA ReachedExists == ASSUME NEW p, NEW n \in Nat PROVE \E f : Reached(p, n, f)
<1> DEFINE T == {i \in Nat : ~\E f : Reached(p, i, f)}
<1> SUFFICES ASSUME T # {} PROVE FALSE
  OBVIOUS
<1>1. PICK m \in T : \A y \in T : m <= y
  <2> HIDE DEF T
  <2>1. T \in SUBSET Nat
    BY DEF T
  <2> QED
    BY <2>1, LeastNat
<1>2. CASE m = 0
  <2> DEFINE g == [k \in 0..0 |-> << >>]
  <2>1. Reached(p, 0, g)
    BY DEF Reached
  <2> QED
    BY <1>2, <2>1
<1>3. CASE m # 0
  <2>1. m - 1 \in Nat /\ m - 1 \notin T
    BY <1>1, <1>3
  <2>2. PICK f : Reached(p, m - 1, f)
    BY <2>1
  <2> DEFINE g == [k \in 0..m |-> IF k < m THEN f[k] ELSE ResolveStep(p, f[m - 1], m)]
  <2>3. ASSUME NEW k \in 0..m PROVE g[k] = IF k = 0 THEN << >> ELSE ResolveStep(p, g[k - 1], k)
    <3>1. CASE k < m
      <4>1. k \in 0..(m - 1) /\ g[k] = f[k] /\ (k # 0 => g[k - 1] = f[k - 1])
        BY <3>1
      <4>2. f[k] = IF k = 0 THEN << >> ELSE ResolveStep(p, f[k - 1], k)
        BY <2>2, <4>1 DEF Reached
      <4> QED
        BY <4>1, <4>2
    <3>2. CASE k = m
      BY <1>3, <3>2
    <3> QED
      BY <3>1, <3>2
  <2>4. Reached(p, m, g)
    BY <2>3 DEF Reached
  <2> QED
    BY <2>4
<1> QED
  BY <1>2, <1>3

LEMMA ReachedAt ==
    ASSUME NEW p, NEW n \in Nat, NEW f, Reached(p, n, f), NEW k \in 0..n
    PROVE  f[k] = IF k = 0 THEN << >> ELSE ResolveStep(p, f[k - 1], k)
  BY DEF Reached

(* The links of a file system lead to paths of it, so a destination is one.  *)
LEMMA ResolvedIs ==
    ASSUME fs \in Systems, NEW p \in Paths
    PROVE  Resolved(p) \in Paths
<1> DEFINE n == Len(p)
           real == CHOOSE f : Reached(p, n, f)
<1>1. Resolved(p) = real[n]
  BY DEF Resolved, Reached, ResolveStep
<1>2. n \in Nat /\ Reached(p, n, real)
  BY ReachedExists DEF Paths
<1> HIDE DEF real
<1>3. ASSUME NEW q \in Paths, NEW k \in 1..n PROVE ResolveStep(p, q, k) \in Paths
  <2>1. Append(q, p[k]) \in Paths
    BY <1>3 DEF Paths
  <2>2. \A x \in DOMAIN fs : fs[x].kind = "link" => fs[x].to \in Paths
    BY CopyAssumption DEF CopyAssumption
  <2> QED
    BY <2>1, <2>2 DEF ResolveStep, Follow, Is, Exists
<1> DEFINE T == {k \in 0..n : real[k] \notin Paths}
<1>4. T = {}
  <2> SUFFICES ASSUME T # {} PROVE FALSE
    OBVIOUS
  <2>1. PICK m \in T : \A y \in T : m <= y
    <3> HIDE DEF T
    <3>1. T \in SUBSET Nat
      BY <1>2 DEF T
    <3> QED
      BY <3>1, LeastNat
  <2>2. CASE m = 0
    <3>1. real[0] = << >>
      <4>1. 0 \in 0..n
        BY <1>2
      <4> HIDE DEF n
      <4> QED
        BY <1>2, <4>1 DEF Reached
    <3>2. << >> \in Paths
      BY DEF Paths
    <3> QED
      BY <2>1, <2>2, <3>1, <3>2
  <2>3. CASE m # 0
    <3>1. m \in 1..n /\ m - 1 \in 0..n /\ real[m - 1] \in Paths
      BY <1>2, <2>1, <2>3
    <3>2. real[m] = ResolveStep(p, real[m - 1], m)
      BY <1>2, <2>3, <3>1, ReachedAt
    <3> QED
      BY <1>3, <2>1, <3>1, <3>2
  <2> QED
    BY <2>2, <2>3
<1> QED
  BY <1>1, <1>2, <1>4

--------------------------------------------------------------------------------
(* The invariant. *)

IsSequence(s) == \E S : s \in Seq(S)

PlaceInv ==
    /\ before \in Systems
    /\ dst \in Targets /\ root \in Paths
    /\ copy = "start" => fs = before /\ stack = << >> /\ visiting = {} /\ entries = 0
    /\ Nowhere \notin DOMAIN fs

EntriesInv ==
    /\ entries \in 0..MaxEntries
    /\ IsFiniteSet(DOMAIN fs)
    /\ Cardinality(DOMAIN fs \ DOMAIN before) <= entries + Len(root) + 1

StackInv ==
    /\ IsSequence(stack)
    /\ \A k \in DOMAIN stack :
           /\ {"phys", "rel", "todo", "mode"} \subseteq DOMAIN stack[k]
           /\ IsSequence(stack[k].rel)
    /\ copy = "tree" => stack # << >>
    /\ visiting \subseteq {stack[k].phys : k \in DOMAIN stack}

CopyInv ==
    /\ copy \in {"start", "tree", "done"} \cup Errors
    /\ PlaceInv /\ EntriesInv /\ StackInv /\ WritesConfined

LEMMA CopyStart == CopyInit => CopyInv
<1> SUFFICES ASSUME CopyInit PROVE CopyInv
  OBVIOUS
<1> USE DEF CopyInit
<1>1. /\ fs \in Systems /\ before = fs /\ MaxEntries \in Nat
      /\ IsFiniteSet(DOMAIN fs) /\ DOMAIN fs \subseteq Paths
  BY CopyAssumption DEF CopyAssumption
<1>2. Nowhere \notin Paths
  BY DEF Nowhere, Paths
<1>3. << >> \in Seq({})
  OBVIOUS
<1>4. PlaceInv
  BY <1>1, <1>2 DEF PlaceInv, Paths
<1>5. EntriesInv
  <2>1. DOMAIN fs \ DOMAIN before = {} /\ Cardinality({}) = 0
    BY <1>1, FS_EmptySet
  <2>2. Len(root) = 0 /\ entries = 0
    OBVIOUS
  <2>3. 0 <= 0 + 0 + 1 /\ 0 \in 0..MaxEntries
    BY <1>1
  <2> QED
    BY <1>1, <2>1, <2>2, <2>3 DEF EntriesInv
<1>6. StackInv
  BY <1>3 DEF StackInv, IsSequence
<1>7. WritesConfined
  BY <1>1 DEF WritesConfined
<1> QED
  BY <1>4, <1>5, <1>6, <1>7 DEF CopyInv

LEMMA OnTheWayIs ==
    ASSUME NEW p \in Paths
    PROVE  /\ OnTheWay(p) \subseteq Paths
           /\ IsFiniteSet(OnTheWay(p)) /\ Cardinality(OnTheWay(p)) \in Nat
           /\ Cardinality(OnTheWay(p)) <= Len(p) + 1
<1> DEFINE n == Len(p)
           f == [k \in 0..n |-> SubSeq(p, 1, k)]
<1>1. n \in Nat /\ IsFiniteSet(0..n) /\ Cardinality(0..n) = n + 1
  BY FS_Interval DEF Paths
<1>2. f \in Surjection(0..n, OnTheWay(p))
  BY DEF Surjection, OnTheWay
<1>3. IsFiniteSet(OnTheWay(p)) /\ Cardinality(OnTheWay(p)) <= n + 1
  BY <1>1, <1>2, FS_Surjection
<1>4. ASSUME NEW k \in 0..n PROVE SubSeq(p, 1, k) \in Paths
  BY <1>1 DEF Paths
<1> QED
  BY <1>3, <1>4, FS_CardinalityType DEF OnTheWay

LEMMA NowhereIsNoPath == Nowhere \notin Paths
  BY DEF Nowhere, Paths

(* Once the destination is known, the call goes on in it.                    *)
LEMMA StartKeeps == ASSUME CopyInv, Start PROVE CopyInv'
<1> DEFINE new == DOMAIN fs' \ DOMAIN before'
           way == OnTheWay(root')
<1>1. /\ copy = "start" /\ root' = Resolved(dst) /\ UNCHANGED <<before, dst>>
      /\ \/ /\ copy' \in Errors /\ UNCHANGED <<fs, stack, visiting, entries>>
         \/ /\ copy' = "tree" /\ UNCHANGED entries
            /\ fs' = MadeOnTheWay(root')
            /\ stack' = <<Frame(fs, Source, << >>)>>
            /\ visiting' \subseteq {Source}
  BY DEF Start, Ends, Errors, given
<1>2. /\ fs = before /\ entries' = 0 /\ stack = << >> /\ visiting = {} /\ fs \in Systems
  BY <1>1 DEF CopyInv, PlaceInv
<1>3. /\ MaxEntries \in Nat
      /\ DOMAIN fs \subseteq Paths /\ IsFiniteSet(DOMAIN fs)
      /\ dst \in Targets /\ dst \in Paths
  BY <1>2, CopyAssumption DEF CopyInv, PlaceInv, CopyAssumption
<1>4. root' \in Paths
  BY <1>1, <1>2, <1>3, ResolvedIs
<1>5. /\ way \subseteq Paths /\ IsFiniteSet(way) /\ Cardinality(way) \in Nat
      /\ Cardinality(way) <= Len(root') + 1 /\ Len(root') \in Nat
  BY <1>4, OnTheWayIs DEF Paths
<1>6. /\ DOMAIN fs' \subseteq DOMAIN fs \cup way
      /\ DOMAIN fs \subseteq DOMAIN fs'
      /\ \A p \in DOMAIN fs' : fs'[p] = IF p \in DOMAIN fs THEN fs[p] ELSE Dir("rw")
  BY <1>1 DEF MadeOnTheWay, Exists
<1> HIDE DEF way
<1>7. IsFiniteSet(DOMAIN fs') /\ Cardinality(new) <= Len(root') + 1
  <2>1. IsFiniteSet(DOMAIN fs \cup way)
    BY <1>3, <1>5, FS_Union
  <2>2. IsFiniteSet(DOMAIN fs')
    BY <1>6, <2>1, FS_Subset
  <2>3. new \in SUBSET way
    BY <1>1, <1>2, <1>6
  <2>4. Cardinality(new) <= Cardinality(way) /\ Cardinality(new) \in Nat
    BY <1>5, <2>3, FS_Subset, FS_CardinalityType
  <2> QED
    BY <1>5, <2>2, <2>4
<1>8. PlaceInv'
  BY <1>1, <1>2, <1>3, <1>4, <1>5, <1>6, NowhereIsNoPath DEF PlaceInv, Errors
<1>9. EntriesInv'
  BY <1>1, <1>2, <1>3, <1>5, <1>7 DEF EntriesInv
<1>10. StackInv'
  <2>1. CASE UNCHANGED <<stack, visiting>> /\ copy' \in Errors
    BY <1>1, <2>1 DEF CopyInv, StackInv, IsSequence, Errors
  <2>2. CASE stack' = <<Frame(fs, Source, << >>)>> /\ visiting' \subseteq {Source}
    <3> DEFINE top == Frame(fs, Source, << >>)
    <3>1. /\ {"phys", "rel", "todo", "mode"} \subseteq DOMAIN top
          /\ top.phys = Source /\ top.rel = << >>
      BY DEF Frame
    <3>2. IsSequence(<< >>)
      <4>1. << >> \in Seq({})
        OBVIOUS
      <4> QED
        BY <4>1 DEF IsSequence
    <3> HIDE DEF top
    <3>3. stack' \in Seq({top}) /\ DOMAIN stack' = {1} /\ stack'[1] = top
      BY <2>2 DEF top
    <3>4. IsSequence(stack')
      BY <3>3 DEF IsSequence
    <3>5. visiting' \subseteq {stack'[k].phys : k \in DOMAIN stack'}
      BY <2>2, <3>1, <3>3
    <3>6. stack' # << >>
      BY <3>3
    <3> QED
      BY <3>1, <3>2, <3>3, <3>4, <3>5, <3>6 DEF StackInv
  <2> QED
    BY <1>1, <2>1, <2>2
<1>11. WritesConfined'
  BY <1>1, <1>2, <1>6 DEF WritesConfined, way
<1> QED
  BY <1>1, <1>8, <1>9, <1>10, <1>11 DEF CopyInv

(* What a step does to the file system is below the destination, one path at *)
(* a time and each one counted.                                              *)
LEMMA WriteKeeps ==
    ASSUME CopyInv, copy = "tree", copy' # "start", UNCHANGED <<given, root>>,
           entries' = entries + 1, entries < MaxEntries,
           NEW q, DOMAIN fs' \in {DOMAIN fs, DOMAIN fs \cup {q}},
           \A p \in DOMAIN fs : p # q => fs'[p] = fs[p],
           q \notin DOMAIN fs' \/ (q # Nowhere /\ IsPrefix(root, q))
    PROVE  PlaceInv' /\ EntriesInv' /\ WritesConfined'
<1> DEFINE old == DOMAIN fs \ DOMAIN before
           new == DOMAIN fs' \ DOMAIN before'
<1>1. /\ PlaceInv /\ EntriesInv /\ WritesConfined
      /\ MaxEntries \in Nat /\ Len(root) \in Nat /\ entries \in Nat
      /\ before' = before /\ dst' = dst /\ root' = root
  BY CopyAssumption DEF CopyInv, CopyAssumption, EntriesInv, PlaceInv, Paths, given
<1>2. PlaceInv'
  BY <1>1 DEF PlaceInv
<1>3. EntriesInv'
  <2>1. IsFiniteSet(DOMAIN fs) /\ IsFiniteSet(DOMAIN fs \cup {q})
    BY <1>1, FS_AddElement DEF EntriesInv
  <2>2. IsFiniteSet(DOMAIN fs')
    BY <2>1
  <2>3. IsFiniteSet(old) /\ Cardinality(old) \in Nat
    BY <2>1, FS_Difference, FS_CardinalityType
  <2>4. IsFiniteSet(old \cup {q}) /\ Cardinality(old \cup {q}) \in Nat
        /\ Cardinality(old \cup {q}) <= Cardinality(old) + 1
    <3> HIDE DEF old
    <3>1. IsFiniteSet(old \cup {q})
      BY <2>3, FS_AddElement
    <3>2. Cardinality(old \cup {q}) = IF q \in old THEN Cardinality(old) ELSE Cardinality(old) + 1
      BY <2>3, FS_AddElement
    <3> QED
      BY <2>3, <3>1, <3>2
  <2>5. new \in SUBSET (old \cup {q})
    BY <1>1
  <2>6. Cardinality(new) <= Cardinality(old \cup {q}) /\ Cardinality(new) \in Nat
    BY <2>4, <2>5, FS_Subset, FS_CardinalityType
  <2>7. Cardinality(old) <= entries + Len(root) + 1
    BY <1>1 DEF EntriesInv
  <2>8. Cardinality(new) <= entries' + Len(root') + 1
    <3> HIDE DEF old, new
    <3> QED
      BY <1>1, <2>3, <2>4, <2>6, <2>7
  <2> QED
    BY <1>1, <2>2, <2>8 DEF EntriesInv
<1>4. WritesConfined'
  <2>1. SUFFICES ASSUME NEW p \in DOMAIN fs' \cup DOMAIN before, ~IsPrefix(root, p)
                 PROVE  /\ p \in DOMAIN fs'
                        /\ p \in DOMAIN before => fs'[p] = before[p]
                        /\ p \notin DOMAIN before => p \in OnTheWay(root) /\ fs'[p] = Dir("rw")
    BY <1>1 DEF WritesConfined
  <2>2. p \in DOMAIN fs \cup DOMAIN before /\ (p # q \/ q \notin DOMAIN fs')
    BY <2>1
  <2>3. /\ p \in DOMAIN fs
        /\ p \in DOMAIN before => fs[p] = before[p]
        /\ p \notin DOMAIN before => p \in OnTheWay(root) /\ fs[p] = Dir("rw")
    BY <1>1, <2>1, <2>2 DEF WritesConfined
  <2> QED
    BY <2>2, <2>3
<1> QED
  BY <1>2, <1>3, <1>4

LEMMA NothingWritten ==
    ASSUME CopyInv, copy' # "start", UNCHANGED <<given, root, fs, entries>>
    PROVE  PlaceInv' /\ EntriesInv' /\ WritesConfined'
  BY DEF CopyInv, PlaceInv, EntriesInv, WritesConfined, given

LEMMA FrameOf ==
    ASSUME StackInv, stack # << >>
    PROVE  /\ Len(stack) \in Nat /\ DOMAIN stack = 1..Len(stack) /\ Len(stack) \in DOMAIN stack
           /\ Top = stack[Len(stack)] /\ IsSequence(Top.rel)
           /\ \A n : IsSequence(Rel(n)) /\ Len(Rel(n)) \in Nat
<1>1. PICK S : stack \in Seq(S)
  BY DEF StackInv, IsSequence
<1>2. Len(stack) \in Nat /\ DOMAIN stack = 1..Len(stack) /\ Len(stack) \in DOMAIN stack
  BY <1>1
<1>3. Top = stack[Len(stack)] /\ IsSequence(Top.rel)
  BY <1>2 DEF Top, Last, StackInv
<1>4. ASSUME NEW n PROVE IsSequence(Rel(n)) /\ Len(Rel(n)) \in Nat
  <2>1. PICK T : Top.rel \in Seq(T)
    BY <1>3 DEF IsSequence
  <2>2. Append(Top.rel, n) \in Seq(T \cup {n})
    BY <2>1
  <2> QED
    BY <2>2 DEF IsSequence, Rel
<1> QED
  BY <1>2, <1>3, <1>4

(* An entry of the innermost directory is taken. *)
LEMMA TakenIs ==
    ASSUME StackInv, stack # << >>, NEW n
    PROVE  LET s == Taken(n)
           IN  /\ IsSequence(s) /\ DOMAIN s = DOMAIN stack /\ Len(s) = Len(stack) /\ s # << >>
               /\ \A k \in DOMAIN stack :
                      /\ {"phys", "rel", "todo", "mode"} \subseteq DOMAIN s[k]
                      /\ s[k].phys = stack[k].phys /\ s[k].rel = stack[k].rel
<1> DEFINE l == Len(stack)
           top == [stack[l] EXCEPT !.todo = @ \ {n}]
           s == [stack EXCEPT ![l] = top]
<1>1. l \in Nat /\ DOMAIN stack = 1..l /\ l \in DOMAIN stack
  BY FrameOf
<1>2. Taken(n) = s
  BY DEF Taken
<1>3. /\ {"phys", "rel", "todo", "mode"} \subseteq DOMAIN top
      /\ top.phys = stack[l].phys /\ top.rel = stack[l].rel
  BY <1>1 DEF StackInv
<1> HIDE DEF top
<1>4. s \in [1..l -> {stack[k] : k \in 1..l} \cup {top}]
  BY <1>1
<1>5. s \in Seq({stack[k] : k \in 1..l} \cup {top}) /\ Len(s) = l
  BY <1>1, <1>4
<1>6. \A k \in DOMAIN stack : s[k] = IF k = l THEN top ELSE stack[k]
  BY <1>1
<1>7. s # << >>
  BY <1>1, <1>5
<1> HIDE DEF s
<1>8. IsSequence(s) /\ DOMAIN s = DOMAIN stack
  BY <1>1, <1>5 DEF IsSequence
<1>9. ASSUME NEW k \in DOMAIN stack
      PROVE  /\ {"phys", "rel", "todo", "mode"} \subseteq DOMAIN s[k]
             /\ s[k].phys = stack[k].phys /\ s[k].rel = stack[k].rel
  BY <1>3, <1>6 DEF StackInv
<1> QED
  BY <1>2, <1>5, <1>7, <1>8, <1>9

LEMMA TakenKeeps ==
    ASSUME StackInv, stack # << >>, NEW n, stack' = Taken(n), visiting' = visiting
    PROVE  StackInv'
<1>1. visiting' \subseteq {stack'[k].phys : k \in DOMAIN stack'}
  BY TakenIs DEF StackInv
<1> QED
  BY <1>1, TakenIs DEF StackInv

LEMMA ErrorKeeps ==
    ASSUME CopyInv, copy = "tree", NEW n, Count(n), NEW how \in Errors \cup {"tree"},
           stack' = Taken(n), copy' = how, UNCHANGED <<given, root, fs, visiting>>
    PROVE  CopyInv'
<1>1. stack # << >> /\ StackInv /\ Nowhere \notin DOMAIN fs /\ how # "start"
  BY DEF CopyInv, StackInv, PlaceInv, Errors
<1>2. StackInv'
  BY <1>1, TakenKeeps
<1>3. PlaceInv' /\ EntriesInv' /\ WritesConfined'
  BY <1>1, WriteKeeps DEF Count
<1> QED
  BY <1>2, <1>3 DEF CopyInv

LEMMA PutIs ==
    ASSUME NEW q, NEW e
    PROVE  /\ DOMAIN Put(q, e) = DOMAIN fs \cup {q}
           /\ \A p \in DOMAIN fs : p # q => Put(q, e)[p] = fs[p]
  BY DEF Put

LEMMA WriteFileKeeps ==
    ASSUME CopyInv, copy = "tree", NEW n, Count(n), NEW phys, Write(n, phys), UNCHANGED <<given, root>>
    PROVE  CopyInv'
<1> DEFINE q == Place(Rel(n))
<1>1. stack # << >> /\ StackInv /\ root \in Paths
  BY DEF CopyInv, StackInv, PlaceInv
<1>2. q = Nowhere \/ IsPrefix(root, q)
  BY <1>1, FrameOf, PlaceIs
<1> HIDE DEF q
<1>3. CASE /\ q # Nowhere /\ fs' = Put(q, fs[phys])
           /\ stack' = Taken(n) /\ UNCHANGED <<visiting, copy>>
  <2>1. StackInv'
    BY <1>1, <1>3, TakenKeeps
  <2>2. PlaceInv' /\ EntriesInv' /\ WritesConfined'
    <3>1. DOMAIN fs' = DOMAIN fs \cup {q} /\ \A p \in DOMAIN fs : p # q => fs'[p] = fs[p]
      BY <1>3, PutIs, ZenonT(40)
    <3>2. q # Nowhere /\ IsPrefix(root, q) /\ copy' # "start"
      BY <1>2, <1>3
    <3> QED
      BY <3>1, <3>2, WriteKeeps DEF Count
  <2> QED
    BY <1>3, <2>1, <2>2 DEF CopyInv
<1>4. CASE Error(n, "write")
  BY <1>4, ErrorKeeps DEF Error, Errors
<1> QED
  BY <1>3, <1>4 DEF Write, q

LEMMA EnterKeeps ==
    ASSUME CopyInv, copy = "tree", NEW n, Count(n), NEW phys, Enter(n, phys), UNCHANGED <<given, root>>
    PROVE  CopyInv'
<1> DEFINE q == Place(Rel(n))
           made == IF Exists(q) THEN fs ELSE Put(q, Dir("rw"))
           top == Frame(made, phys, Rel(n))
           s == Taken(n)
<1>1. stack # << >> /\ StackInv /\ root \in Paths /\ Nowhere \notin DOMAIN fs
  BY DEF CopyInv, StackInv, PlaceInv
<1>2. /\ q = Nowhere \/ IsPrefix(root, q)
      /\ IsSequence(Rel(n))
  BY <1>1, FrameOf, PlaceIs
<1>3. CASE /\ q # Nowhere /\ fs' = made
           /\ stack' = Append(s, top) /\ copy' = copy
           /\ visiting' \subseteq visiting \cup {phys}
  <2>1. /\ IsSequence(s) /\ DOMAIN s = DOMAIN stack
        /\ \A k \in DOMAIN stack :
               /\ {"phys", "rel", "todo", "mode"} \subseteq DOMAIN s[k]
               /\ s[k].phys = stack[k].phys /\ s[k].rel = stack[k].rel
    BY <1>1, TakenIs
  <2>2. /\ {"phys", "rel", "todo", "mode"} \subseteq DOMAIN top
        /\ top.phys = phys /\ top.rel = Rel(n)
    BY DEF Frame
  <2>3. StackInv'
    <3> HIDE DEF s, top, made, q
    <3>1. PICK S : s \in Seq(S)
      BY <2>1 DEF IsSequence
    <3> DEFINE l == Len(s)
    <3>2. /\ stack' \in Seq(S \cup {top}) /\ stack' # << >>
          /\ DOMAIN stack' = DOMAIN s \cup {l + 1} /\ stack'[l + 1] = top
          /\ \A k \in DOMAIN s : stack'[k] = s[k]
      BY <1>3, <3>1
    <3> HIDE DEF l
    <3>3. IsSequence(stack')
      BY <3>2 DEF IsSequence
    <3>4. ASSUME NEW k \in DOMAIN stack'
          PROVE  /\ {"phys", "rel", "todo", "mode"} \subseteq DOMAIN stack'[k]
                 /\ IsSequence(stack'[k].rel)
      BY <1>1, <1>2, <2>1, <2>2, <3>2 DEF StackInv
    <3>5. visiting' \subseteq {stack'[k].phys : k \in DOMAIN stack'}
      BY <1>1, <1>3, <2>1, <2>2, <3>2 DEF StackInv
    <3> QED
      BY <3>2, <3>3, <3>4, <3>5 DEF StackInv
  <2>4. PlaceInv' /\ EntriesInv' /\ WritesConfined'
    <3>1. /\ DOMAIN fs' \in {DOMAIN fs, DOMAIN fs \cup {q}}
          /\ \A p \in DOMAIN fs : p # q => fs'[p] = fs[p]
      BY <1>3, PutIs, ZenonT(40)
    <3>2. q # Nowhere /\ IsPrefix(root, q) /\ copy' # "start"
      BY <1>2, <1>3
    <3> HIDE DEF q
    <3> QED
      BY <3>1, <3>2, WriteKeeps DEF Count
  <2> QED
    BY <1>3, <2>3, <2>4 DEF CopyInv
<1>4. CASE Error(n, "cycle") \/ Error(n, "write")
  BY <1>4, ErrorKeeps DEF Error, Errors
<1>5. Is(q, "dir") => q # Nowhere
  BY <1>1 DEF Is, Exists
<1>6. \/ /\ q # Nowhere /\ fs' = made /\ stack' = Append(s, top) /\ copy' = copy
         /\ visiting' = IF follow THEN visiting \cup {phys} ELSE visiting
      \/ Error(n, "cycle") \/ Error(n, "write")
  <2> HIDE DEF q
  <2> QED
    BY <1>5 DEF Enter, q
<1> QED
  BY <1>3, <1>4, <1>6

LEMMA LeaveKeeps ==
    ASSUME CopyInv, copy = "tree", Leave, UNCHANGED <<given, root>>
    PROVE  CopyInv'
<1> DEFINE q == Place(Top.rel)
           l == Len(stack)
<1>1. stack # << >> /\ StackInv /\ root \in Paths /\ Nowhere \notin DOMAIN fs
  BY DEF CopyInv, StackInv, PlaceInv
<1>2. /\ l \in Nat /\ DOMAIN stack = 1..l /\ l \in DOMAIN stack /\ Top = stack[l]
      /\ IsSequence(Top.rel)
  BY <1>1, FrameOf
<1>3. q = Nowhere \/ IsPrefix(root, q)
  <2>1. Len(Top.rel) \in Nat
    BY <1>2 DEF IsSequence
  <2> QED
    BY <1>1, <2>1, PlaceIs
<1>4. /\ DOMAIN fs' = DOMAIN fs /\ \A p \in DOMAIN fs : p # q => fs'[p] = fs[p]
      /\ stack' = Front(stack) /\ visiting' = visiting \ {Top.phys}
      /\ copy' = (IF l = 1 THEN "done" ELSE copy) /\ entries' = entries
  BY DEF Leave
<1> HIDE DEF q
<1>5. PICK S : stack \in Seq(S)
  BY <1>1 DEF StackInv, IsSequence
<1>6. stack' \in Seq(S) /\ DOMAIN stack' = 1..(l - 1) /\ \A k \in 1..(l - 1) : stack'[k] = stack[k]
  BY <1>2, <1>4, <1>5 DEF Front
<1>7. StackInv'
  <2>1. IsSequence(stack')
    BY <1>6 DEF IsSequence
  <2>2. copy' = "tree" => stack' # << >>
    BY <1>2, <1>4, <1>6
  <2>3. ASSUME NEW x \in visiting' PROVE \E k \in DOMAIN stack' : stack'[k].phys = x
    <3>1. PICK k \in DOMAIN stack : stack[k].phys = x
      BY <1>1, <1>4, <2>3 DEF StackInv
    <3>2. k # l
      BY <1>2, <1>4, <2>3, <3>1
    <3> QED
      BY <1>2, <1>6, <3>1, <3>2
  <2>4. \A k \in DOMAIN stack' : k \in DOMAIN stack /\ stack'[k] = stack[k]
    BY <1>2, <1>6
  <2> QED
    BY <1>1, <2>1, <2>2, <2>3, <2>4 DEF StackInv
<1>8. /\ PlaceInv /\ EntriesInv /\ WritesConfined
      /\ before' = before /\ dst' = dst /\ root' = root /\ copy' # "start"
  BY <1>4 DEF CopyInv, given
<1>9. PlaceInv' /\ EntriesInv'
  BY <1>4, <1>8 DEF PlaceInv, EntriesInv
<1>10. WritesConfined'
  BY <1>1, <1>3, <1>4, <1>8 DEF WritesConfined
<1> QED
  BY <1>4, <1>7, <1>9, <1>10 DEF CopyInv

LEMMA CopyNextKeeps == ASSUME CopyInv, [CopyNext]_copyVars PROVE CopyInv'
<1>1. CASE Start
  BY <1>1, StartKeeps
<1>2. CASE Copy
  <2>1. copy = "tree" /\ UNCHANGED <<given, root>> /\ stack # << >> /\ StackInv
    BY <1>2 DEF Copy, CopyInv, StackInv
  <2>2. CASE Leave
    BY <2>1, <2>2, LeaveKeeps
  <2>3. ASSUME NEW n, CopyTree(n) PROVE CopyInv'
    <3>1. CASE SkipEntry(n)
      <4>1. StackInv'
        BY <2>1, <3>1, TakenKeeps DEF SkipEntry
      <4>2. PlaceInv' /\ EntriesInv' /\ WritesConfined'
        BY <2>1, <3>1, NothingWritten DEF SkipEntry
      <4> QED
        BY <3>1, <4>1, <4>2 DEF SkipEntry, CopyInv
    <3>2. CASE CountFails(n)
      <4>1. copy' = "limit" /\ UNCHANGED <<fs, stack, visiting, entries>>
        BY <3>2 DEF CountFails, Ends
      <4>2. StackInv'
        BY <2>1, <4>1 DEF StackInv, IsSequence
      <4>3. PlaceInv' /\ EntriesInv' /\ WritesConfined'
        BY <2>1, <4>1, NothingWritten
      <4> QED
        BY <4>1, <4>2, <4>3 DEF CopyInv, Errors
    <3>3. CASE Count(n) /\ \E phys : Enter(n, phys)
      BY <2>1, <3>3, EnterKeeps
    <3>4. CASE Count(n) /\ \E phys : Write(n, phys)
      BY <2>1, <3>4, WriteFileKeeps
    <3>5. CASE Count(n) /\ Pass(n)
      BY <2>1, <3>5, ErrorKeeps DEF Pass
    <3>6. CASE Count(n) /\ Error(n, "dangling")
      BY <2>1, <3>6, ErrorKeeps DEF Error, Errors
    <3>7. Count(n) /\ (CopyEntry(n) \/ CopySymlink(n)) =>
              \/ Pass(n) \/ Error(n, "dangling")
              \/ \E phys : Enter(n, phys) \/ Write(n, phys)
      BY DEF CopyEntry, CopySymlink
    <3> QED
      BY <2>3, <3>1, <3>2, <3>3, <3>4, <3>5, <3>6, <3>7 DEF CopyTree
  <2> QED
    BY <1>2, <2>2, <2>3 DEF Copy
<1>3. CASE CopyQuiet \/ UNCHANGED copyVars
  <2> USE DEF copyVars
  <2>1. UNCHANGED copyVars
    BY <1>3 DEF CopyQuiet
  <2> QED
    BY <2>1 DEF CopyInv, PlaceInv, EntriesInv, StackInv, WritesConfined, IsSequence
<1> QED
  BY <1>1, <1>2, <1>3 DEF CopyNext

--------------------------------------------------------------------------------
(* CopyInv is an inductive invariant: every write is counted and goes below  *)
(* the opened root, and the directories on the recursion path are those of   *)
(* the calls that have not returned (internal/fscopy/fscopy.go).             *)
THEOREM CopyInvariant == CopySpec => []CopyInv
  BY CopyStart, CopyNextKeeps, PTL DEF CopySpec

(* However source, destination and other directories are linked, a copy      *)
(* makes or changes nothing outside of the destination, but directories on   *)
(* the way to it, and never more than its budget (CopyDir).                  *)
THEOREM CopyConfinedHolds == CopySpec => []CopyConfined
<1>1. ASSUME CopyInv PROVE CopyConfined
  <2> DEFINE more == Cardinality(DOMAIN fs \ DOMAIN before)
  <2>1. MaxEntries \in Nat /\ entries \in 0..MaxEntries /\ Len(root) \in Nat
        /\ more <= entries + Len(root) + 1
    BY <1>1, CopyAssumption DEF CopyInv, EntriesInv, CopyAssumption, PlaceInv, Paths
  <2>2. more \in Nat
    BY <1>1, FS_Difference, FS_CardinalityType DEF CopyInv, EntriesInv
  <2>3. more <= MaxEntries + Len(root) + 1
    <3> HIDE DEF more
    <3> QED
      BY <2>1, <2>2
  <2> QED
    BY <1>1, <2>1, <2>3 DEF CopyInv, StackInv, CopyConfined, CopyTypeOK
<1> QED
  BY <1>1, CopyInvariant, PTL

--------------------------------------------------------------------------------
(* Paths, and the entries of a directory. *)

FileNames == STRING \ {"nowhere"}

LEMMA PrefixIs ==
    ASSUME NEW s \in Paths, NEW t \in Paths
    PROVE  IsPrefix(s, t) <=> Len(s) <= Len(t) /\ \A i \in 1..Len(s) : s[i] = t[i]
<1> DEFINE a == SubSeq(s, 1, Len(s))
           b == SubSeq(t, 1, Len(s))
<1>1. s \in Seq(FileNames) /\ t \in Seq(FileNames) /\ Len(s) \in Nat /\ Len(t) \in Nat
  BY DEF Paths, FileNames
<1>2. ASSUME Len(s) <= Len(t)
      PROVE  /\ a \in Seq(FileNames) /\ b \in Seq(FileNames)
             /\ Len(a) = Len(s) /\ Len(b) = Len(s)
             /\ \A i \in 1..Len(s) : a[i] = s[i] /\ b[i] = t[i]
  <2>1. (\A i \in 1..Len(s) : s[i] \in FileNames) /\ \A i \in 1..Len(s) : t[i] \in FileNames
    BY <1>1, <1>2
  <2> QED
    BY <1>1, <2>1, SubSeqProperties
<1> HIDE DEF a, b
<1>3. ASSUME Len(s) <= Len(t), \A i \in 1..Len(s) : s[i] = t[i] PROVE a = b
  <2>1. Len(a) = Len(b) /\ \A i \in 1..Len(a) : a[i] = b[i]
    BY <1>2, <1>3
  <2> QED
    BY <1>2, <1>3, <2>1, SeqEqual
<1>4. IsPrefix(s, t) <=> Len(s) <= Len(t) /\ a = b
  BY DEF IsPrefix, a, b
<1> QED
  BY <1>2, <1>3, <1>4

LEMMA AppendIs ==
    ASSUME NEW p \in Paths, NEW n \in FileNames
    PROVE  /\ Append(p, n) \in Paths /\ Len(Append(p, n)) = Len(p) + 1 /\ Len(p) \in Nat
           /\ \A i \in 1..Len(p) : Append(p, n)[i] = p[i]
           /\ Append(p, n)[Len(p) + 1] = n
           /\ Append(p, n) # << >>
  BY DEF Paths, FileNames

LEMMA PathsEqual ==
    ASSUME NEW p \in Paths, NEW q \in Paths, Len(p) = Len(q), \A i \in 1..Len(p) : p[i] = q[i]
    PROVE  p = q
  BY SeqEqual DEF Paths

LEMMA FrontLastIs ==
    ASSUME NEW q \in Paths, q # << >>
    PROVE  /\ Front(q) \in Paths /\ Len(Front(q)) = Len(q) - 1 /\ Len(q) \in Nat \ {0}
           /\ \A i \in 1..(Len(q) - 1) : Front(q)[i] = q[i]
           /\ Last(q) \in FileNames /\ Last(q) = q[Len(q)]
           /\ q = Append(Front(q), Last(q))
<1>1. q \in Seq(FileNames) /\ Len(q) \in Nat \ {0}
  BY EmptySeq DEF Paths, FileNames
<1>2. \A i \in 1..(Len(q) - 1) : q[i] \in FileNames
  BY <1>1
<1>3. /\ Front(q) \in Seq(FileNames) /\ Len(Front(q)) = Len(q) - 1
      /\ \A i \in 1..(Len(q) - 1) : Front(q)[i] = q[i]
  <2> DEFINE m == Len(q) - 1
             s == SubSeq(q, 1, m)
  <2>1. m \in Nat /\ m \in Int /\ 1 \in Int /\ \A i \in 1..m : q[i] \in FileNames
    BY <1>1, <1>2
  <2>2. Front(q) = s
    BY DEF Front
  <2> HIDE DEF m
  <2>3. /\ s \in Seq(FileNames) /\ Len(s) = (IF 1 <= m THEN m - 1 + 1 ELSE 0)
        /\ \A i \in 1..(m - 1 + 1) : s[i] = q[1 + i - 1]
    BY <2>1, SubSeqProperties
  <2> HIDE DEF s
  <2>4. s \in Seq(FileNames) /\ Len(s) = m /\ \A i \in 1..m : s[i] = q[i]
    BY <2>1, <2>3
  <2> QED
    BY <2>2, <2>4 DEF m
<1>4. Front(q) \in Paths /\ Last(q) \in FileNames /\ Last(q) = q[Len(q)]
  BY <1>1, <1>3 DEF Last, Paths, FileNames
<1>5. q = Append(Front(q), Last(q))
  <2> DEFINE a == Front(q)
             n == Last(q)
             r == Append(a, n)
             m == Len(q)
  <2>1. a \in Paths /\ n \in FileNames /\ m \in Nat \ {0} /\ Len(a) = m - 1 /\ n = q[m]
        /\ \A i \in 1..(m - 1) : a[i] = q[i]
    BY <1>1, <1>3, <1>4
  <2> HIDE DEF a, n, m
  <2>2. r \in Paths /\ Len(r) = Len(a) + 1 /\ r[Len(a) + 1] = n /\ \A i \in 1..Len(a) : r[i] = a[i]
    BY <2>1, AppendIs
  <2> HIDE DEF r
  <2>3. r \in Paths /\ Len(r) = m /\ r[m] = n /\ \A i \in 1..(m - 1) : r[i] = q[i]
    BY <2>1, <2>2
  <2>4. \A i \in 1..m : r[i] = q[i]
    BY <2>1, <2>3
  <2> QED
    BY <2>3, <2>4, PathsEqual DEF m, r, a, n
<1> QED
  BY <1>1, <1>3, <1>4, <1>5

LEMMA FrontOfAppend ==
    ASSUME NEW p \in Paths, NEW n \in FileNames
    PROVE  Front(Append(p, n)) = p /\ Last(Append(p, n)) = n
<1> DEFINE q == Append(p, n)
<1>1. q \in Paths /\ Len(q) = Len(p) + 1 /\ Len(p) \in Nat /\ q # << >>
      /\ (\A i \in 1..Len(p) : q[i] = p[i]) /\ q[Len(p) + 1] = n
  BY AppendIs
<1> HIDE DEF q
<1>2. Front(q) \in Paths /\ Len(Front(q)) = Len(p) /\ \A i \in 1..Len(p) : Front(q)[i] = p[i]
  <2> DEFINE a == Front(q)
  <2>1. a \in Paths /\ Len(a) = Len(q) - 1 /\ \A i \in 1..(Len(q) - 1) : a[i] = q[i]
    BY <1>1, FrontLastIs
  <2> HIDE DEF a
  <2>2. a \in Paths /\ Len(a) = Len(p) /\ \A i \in 1..Len(p) : a[i] = p[i]
    BY <1>1, <2>1
  <2> QED
    BY <2>2 DEF a
<1>3. Front(q) = p
  BY <1>2, PathsEqual
<1> QED
  BY <1>1, <1>3 DEF Last, q

LEMMA NamesAre ==
    ASSUME NEW f, DOMAIN f \subseteq Paths, NEW folder \in Paths, NEW n
    PROVE  n \in EntryNames(f, folder) <=> n \in FileNames /\ Append(folder, n) \in DOMAIN f
<1>1. ASSUME n \in EntryNames(f, folder) PROVE n \in FileNames /\ Append(folder, n) \in DOMAIN f
  <2>1. PICK q \in DOMAIN f : q # << >> /\ Front(q) = folder /\ Last(q) = n
    BY <1>1 DEF EntryNames
  <2> QED
    BY <2>1, FrontLastIs
<1>2. ASSUME n \in FileNames, Append(folder, n) \in DOMAIN f PROVE n \in EntryNames(f, folder)
  BY <1>2, AppendIs, FrontOfAppend DEF EntryNames
<1> QED
  BY <1>1, <1>2

LEMMA NamesFinite ==
    ASSUME NEW f, IsFiniteSet(DOMAIN f), NEW folder
    PROVE  IsFiniteSet(EntryNames(f, folder))
<1> DEFINE Q == {q \in DOMAIN f : q # << >> /\ Front(q) = folder}
           g == [q \in Q |-> Last(q)]
<1>1. IsFiniteSet(Q)
  BY FS_Subset
<1>2. g \in Surjection(Q, EntryNames(f, folder))
  BY DEF Surjection, EntryNames
<1> QED
  BY <1>1, <1>2, FS_Surjection
--------------------------------------------------------------------------------
(* The tree that a source stands for: what unfolding it gives is closed, and *)
(* nothing else.                                                             *)

Base == [rel |-> << >>, link |-> FALSE, from |-> Source, above |-> {}]

Deeper(set) ==
    {e \in UNION {{Below(d, n) : n \in EntryNames(before, d.from)} : d \in {d \in set : Opened(d)}} :
        Counted(e)}

Levels(n, f) == f = [k \in 0..n |-> IF k = 0 THEN {Base} ELSE Deeper(f[k - 1])]

LEMMA LevelsExist == ASSUME NEW n \in Nat PROVE \E f : Levels(n, f)
<1> DEFINE T == {i \in Nat : ~\E f : Levels(i, f)}
<1> SUFFICES ASSUME T # {} PROVE FALSE
  OBVIOUS
<1>1. PICK m \in T : \A y \in T : m <= y
  <2> HIDE DEF T
  <2>1. T \in SUBSET Nat
    BY DEF T
  <2> QED
    BY <2>1, LeastNat
<1>2. CASE m = 0
  <2> DEFINE g == [k \in 0..0 |-> {Base}]
  <2>1. Levels(0, g)
    BY DEF Levels
  <2> QED
    BY <1>2, <2>1
<1>3. CASE m # 0
  <2>1. m - 1 \in Nat /\ m - 1 \notin T
    BY <1>1, <1>3
  <2>2. PICK f : Levels(m - 1, f)
    BY <2>1
  <2> DEFINE g == [k \in 0..m |-> IF k < m THEN f[k] ELSE Deeper(f[m - 1])]
  <2>3. ASSUME NEW k \in 0..m PROVE g[k] = IF k = 0 THEN {Base} ELSE Deeper(g[k - 1])
    <3>1. CASE k < m
      <4>1. k \in 0..(m - 1) /\ g[k] = f[k] /\ (k # 0 => g[k - 1] = f[k - 1])
        BY <3>1
      <4>2. f[k] = IF k = 0 THEN {Base} ELSE Deeper(f[k - 1])
        BY <2>2, <4>1 DEF Levels
      <4> QED
        BY <4>1, <4>2
    <3>2. CASE k = m
      BY <1>3, <3>2
    <3> QED
      BY <3>1, <3>2
  <2>4. Levels(m, g)
    BY <2>3 DEF Levels
  <2> QED
    BY <2>4
<1> QED
  BY <1>2, <1>3

LEMMA LevelAt ==
    ASSUME NEW n \in Nat, NEW f, Levels(n, f), NEW k \in 0..n
    PROVE  f[k] = IF k = 0 THEN {Base} ELSE Deeper(f[k - 1])
  BY DEF Levels

CopyEntries == [rel : Paths, link : BOOLEAN, from : Paths, above : SUBSET Dirs]

LEMMA EntryKinds ==
    ASSUME NEW a, NEW b, NEW c
    PROVE  /\ "kind" \in DOMAIN File(a, b) /\ File(a, b).kind = "file"
           /\ "kind" \in DOMAIN Dir(b) /\ Dir(b).kind = "dir"
           /\ "kind" \in DOMAIN Link(c) /\ Link(c).kind = "link"
           /\ "kind" \in DOMAIN Pipe /\ Pipe.kind = "pipe"
<1>1. "kind" \in DOMAIN File(a, b) /\ File(a, b).kind = "file"
  BY DEF File
<1>2. "kind" \in DOMAIN Dir(b) /\ Dir(b).kind = "dir"
  BY DEF Dir
<1>3. "kind" \in DOMAIN Link(c) /\ Link(c).kind = "link"
  BY DEF Link
<1>4. "kind" \in DOMAIN Pipe /\ Pipe.kind = "pipe"
  BY DEF Pipe
<1> QED
  BY <1>1, <1>2, <1>3, <1>4

LEMMA SystemIs ==
    ASSUME before \in Systems
    PROVE  /\ IsFiniteSet(DOMAIN before) /\ DOMAIN before \subseteq Paths
           /\ IsFiniteSet(Dirs) /\ Cardinality(Dirs) \in Nat
           /\ Source \in Dirs /\ Source \in Paths /\ Base \in CopyEntries
           /\ \A p \in DOMAIN before :
                  /\ "kind" \in DOMAIN before[p] /\ before[p].kind \in {"file", "dir", "link", "pipe"}
                  /\ before[p].kind = "dir" => before[p] = Dir(before[p].mode)
                  /\ before[p].kind = "link" => before[p].to \in Paths
                  /\ before[p].kind = "link" /\ before[p].to \in DOMAIN before =>
                         before[before[p].to].kind # "link"
                  /\ p # << >> => Front(p) \in DOMAIN before /\ before[Front(p)].kind = "dir"
<1>1. /\ IsFiniteSet(DOMAIN before) /\ DOMAIN before \subseteq Paths
      /\ Source \in DOMAIN before /\ before[Source].kind = "dir"
      /\ \A p \in DOMAIN before :
            /\ before[p] \in {File(before[p].data, before[p].mode), Dir(before[p].mode), Link(before[p].to), Pipe}
            /\ before[p].kind = "link" => before[p].to \in Paths
            /\ before[p].kind = "link" /\ before[p].to \in DOMAIN before =>
                   before[before[p].to].kind # "link"
            /\ p # << >> => Front(p) \in DOMAIN before /\ before[Front(p)].kind = "dir"
  BY CopyAssumption DEF CopyAssumption
<1>6. ASSUME NEW p \in DOMAIN before
      PROVE  /\ "kind" \in DOMAIN before[p] /\ before[p].kind \in {"file", "dir", "link", "pipe"}
             /\ before[p].kind = "dir" => before[p] = Dir(before[p].mode)
  <2> DEFINE a == before[p].data
             b == before[p].mode
             c == before[p].to
  <2> HIDE DEF a, b, c
  <2>0. before[p] \in {File(a, b), Dir(b), Link(c), Pipe}
    BY <1>1 DEF a, b, c
  <2>1. CASE before[p] = File(a, b)
    BY <2>1, EntryKinds
  <2>2. CASE before[p] = Dir(b)
    <3>1. "kind" \in DOMAIN before[p] /\ before[p].kind = "dir"
      BY <2>2, EntryKinds
    <3> QED
      BY <2>2, <3>1 DEF b
  <2>3. CASE before[p] = Link(c)
    BY <2>3, EntryKinds
  <2>4. CASE before[p] = Pipe
    BY <2>4, EntryKinds
  <2> QED
    BY <2>0, <2>1, <2>2, <2>3, <2>4
<1>2. Dirs \in SUBSET DOMAIN before /\ Source \in Dirs
  BY <1>1 DEF Dirs
<1>3. IsFiniteSet(Dirs) /\ Cardinality(Dirs) \in Nat
  BY <1>1, <1>2, FS_Subset, FS_CardinalityType
<1>4. << >> \in Paths
  BY DEF Paths
<1>5. Source \in Paths /\ Base \in CopyEntries
  BY <1>1, <1>2, <1>4 DEF Base, CopyEntries
<1> QED
  BY <1>1, <1>2, <1>3, <1>5, <1>6

LEMMA BelowIs ==
    ASSUME before \in Systems, NEW d \in CopyEntries, d.from \in Dirs, NEW n \in EntryNames(before, d.from)
    PROVE  /\ n \in FileNames /\ Append(d.from, n) \in DOMAIN before
           /\ Below(d, n) \in CopyEntries
           /\ Below(d, n).rel = Append(d.rel, n) /\ Below(d, n).above = d.above \cup {d.from}
           /\ LET q == Append(d.from, n)
              IN  /\ Below(d, n).link = (before[q].kind = "link")
                  /\ Below(d, n).from = IF before[q].kind = "link" THEN before[q].to ELSE q
<1>1. n \in FileNames /\ Append(d.from, n) \in DOMAIN before
  BY SystemIs, NamesAre DEF CopyEntries
<1>2. Append(d.from, n) \in Paths /\ Append(d.rel, n) \in Paths
  BY <1>1, SystemIs, AppendIs DEF CopyEntries
<1>3. before[Append(d.from, n)].kind = "link" => before[Append(d.from, n)].to \in Paths
  BY <1>1, SystemIs
<1> DEFINE q == Append(d.from, n)
           r == Append(d.rel, n)
<1> HIDE DEF q, r
<1>4. /\ Below(d, n).rel = r /\ Below(d, n).above = d.above \cup {d.from}
      /\ Below(d, n).link = (before[q].kind = "link")
      /\ Below(d, n).from = IF before[q].kind = "link" THEN before[q].to ELSE q
      /\ Below(d, n) = [rel |-> r, link |-> before[q].kind = "link",
                        from |-> IF before[q].kind = "link" THEN before[q].to ELSE q,
                        above |-> d.above \cup {d.from}]
  BY DEF Below, q, r
<1>5. /\ r \in Paths /\ q \in Paths /\ (before[q].kind = "link" => before[q].to \in Paths)
      /\ d.above \cup {d.from} \in SUBSET Dirs
  BY <1>2, <1>3 DEF CopyEntries, q, r
<1>6. Below(d, n) \in CopyEntries
  BY <1>4, <1>5 DEF CopyEntries
<1> QED
  BY <1>1, <1>4, <1>6 DEF q, r

LEMMA DeeperIs ==
    ASSUME NEW set, NEW e
    PROVE  e \in Deeper(set) <=>
               /\ Counted(e)
               /\ \E d \in set : Opened(d) /\ \E n \in EntryNames(before, d.from) : e = Below(d, n)
  BY DEF Deeper

LEMMA DeeperFinite ==
    ASSUME before \in Systems, NEW set, IsFiniteSet(set)
    PROVE  IsFiniteSet(Deeper(set))
<1> DEFINE open == {d \in set : Opened(d)}
           Of(d) == {Below(d, n) : n \in EntryNames(before, d.from)}
           g == [d \in open |-> Of(d)]
           all == {Of(d) : d \in open}
<1>1. IsFiniteSet(open)
  BY FS_Subset
<1>2. IsFiniteSet(all)
  <2>1. g \in Surjection(open, all)
    BY DEF Surjection
  <2> QED
    BY <1>1, <2>1, FS_Surjection
<1>3. ASSUME NEW d PROVE IsFiniteSet(Of(d))
  <2> DEFINE N == EntryNames(before, d.from)
             h == [n \in N |-> Below(d, n)]
  <2>1. IsFiniteSet(N)
    BY SystemIs, NamesFinite
  <2> HIDE DEF N
  <2>2. h \in Surjection(N, Of(d))
    BY DEF Surjection, N
  <2> QED
    BY <2>1, <2>2, FS_Surjection
<1>4. IsFiniteSet(UNION all)
  <2>1. \A s \in all : IsFiniteSet(s)
    BY <1>3
  <2> HIDE DEF all
  <2> QED
    BY <1>2, <2>1, FS_UNION
<1>5. Deeper(set) \in SUBSET UNION all
  BY DEF Deeper
<1> QED
  BY <1>4, <1>5, FS_Subset

(* Below a directory of some depth are as many directories as its depth.     *)
LEMMA LevelsTyped ==
    ASSUME before \in Systems, NEW n \in Nat, NEW f, Levels(n, f)
    PROVE  \A k \in 0..n : /\ IsFiniteSet(f[k])
                           /\ \A e \in f[k] : /\ e \in CopyEntries
                                              /\ IsFiniteSet(e.above) /\ Cardinality(e.above) = k
<1> DEFINE P(k) == IsFiniteSet(f[k]) /\ \A e \in f[k] : e \in CopyEntries /\ IsFiniteSet(e.above) /\ Cardinality(e.above) = k
           T == {k \in 0..n : ~P(k)}
<1> SUFFICES ASSUME T # {} PROVE FALSE
  OBVIOUS
<1>1. PICK m \in T : \A y \in T : m <= y
  <2> HIDE DEF T
  <2>1. T \in SUBSET Nat
    BY DEF T
  <2> QED
    BY <2>1, LeastNat
<1>2. m \in 0..n /\ ~P(m) /\ \A y \in 0..n : y < m => P(y)
  <2>1. m \in 0..n /\ ~P(m)
    BY <1>1
  <2>2. ASSUME NEW y \in 0..n, y < m PROVE P(y)
    <3>1. y \notin T
      BY <1>1, <2>1, <2>2
    <3> QED
      BY <3>1
  <2> QED
    BY <2>1, <2>2
<1>3. CASE m = 0
  <2>1. f[0] = {Base}
    BY LevelAt
  <2>2. IsFiniteSet({Base})
    BY FS_Singleton
  <2>3. Base \in CopyEntries /\ IsFiniteSet(Base.above) /\ Cardinality(Base.above) = 0
    BY SystemIs, FS_EmptySet DEF Base
  <2> QED
    BY <1>2, <1>3, <2>1, <2>2, <2>3
<1>4. CASE m # 0
  <2>1. m - 1 \in 0..n /\ m - 1 < m /\ f[m] = Deeper(f[m - 1])
    BY <1>2, <1>4, LevelAt
  <2>2. P(m - 1)
    BY <1>2, <2>1
  <2>3. IsFiniteSet(f[m])
    BY <2>1, <2>2, DeeperFinite
  <2>4. ASSUME NEW e \in f[m]
        PROVE  e \in CopyEntries /\ IsFiniteSet(e.above) /\ Cardinality(e.above) = m
    <3>0. PICK d \in f[m - 1] : Opened(d) /\ \E i \in EntryNames(before, d.from) : e = Below(d, i)
      BY <2>1, <2>4, DeeperIs
    <3>1. PICK i \in EntryNames(before, d.from) : e = Below(d, i)
      BY <3>0
    <3>2. d \in CopyEntries /\ IsFiniteSet(d.above) /\ Cardinality(d.above) = m - 1
      BY <2>2, <3>0
    <3>3. d.from \in Dirs /\ d.from \notin d.above
      BY <3>0 DEF Opened
    <3>4. e \in CopyEntries /\ e.above = d.above \cup {d.from}
      BY <3>1, <3>2, <3>3, BelowIs
    <3>5. IsFiniteSet(d.above \cup {d.from}) /\ Cardinality(d.above \cup {d.from}) = m
      <4> DEFINE a == d.above
                 b == d.from
      <4> HIDE DEF a, b
      <4>1. IsFiniteSet(a) /\ b \notin a /\ Cardinality(a) = m - 1
        BY <3>2, <3>3 DEF a, b
      <4>2. IsFiniteSet(a \cup {b}) /\ Cardinality(a \cup {b}) = Cardinality(a) + 1
        BY <4>1, FS_AddElement
      <4>3. Cardinality(a \cup {b}) = m
        BY <1>2, <4>1, <4>2
      <4> QED
        BY <4>2, <4>3 DEF a, b
    <3> QED
      BY <3>4, <3>5
  <2>5. P(m)
    BY <2>3, <2>4
  <2> QED
    BY <1>2, <2>5
<1> QED
  BY <1>3, <1>4

LEMMA UnfoldedIs ==
    ASSUME before \in Systems
    PROVE  \E f : /\ Levels(Cardinality(Dirs), f)
                  /\ Unfolded = UNION {f[k] : k \in 0..Cardinality(Dirs)}
<1> DEFINE n == Cardinality(Dirs)
           level == CHOOSE f : Levels(n, f)
<1>1. Unfolded = UNION {level[k] : k \in 0..n}
  BY DEF Unfolded, Levels, Deeper, Base
<1>2. Levels(n, level)
  BY SystemIs, LevelsExist
<1> QED
  BY <1>1, <1>2

(* The tree holds the source, and with a directory that is read all entries  *)
(* of it that are counted.                                                   *)
LEMMA UnfoldedHas ==
    ASSUME before \in Systems
    PROVE  /\ IsFiniteSet(Unfolded)
           /\ Base \in Unfolded
           /\ \A d \in Unfolded : Opened(d) =>
                  \A n \in EntryNames(before, d.from) : Counted(Below(d, n)) => Below(d, n) \in Unfolded
<1> DEFINE C == Cardinality(Dirs)
<1>1. C \in Nat /\ IsFiniteSet(Dirs)
  BY SystemIs
<1>2. PICK f : Levels(C, f) /\ Unfolded = UNION {f[k] : k \in 0..C}
  BY UnfoldedIs
<1> HIDE DEF C
<1>3. \A k \in 0..C : /\ IsFiniteSet(f[k])
                      /\ \A e \in f[k] : /\ e \in CopyEntries
                                         /\ IsFiniteSet(e.above) /\ Cardinality(e.above) = k
  BY <1>1, <1>2, LevelsTyped
<1>4. IsFiniteSet(Unfolded)
  <2> DEFINE all == {f[k] : k \in 0..C}
             g == [k \in 0..C |-> f[k]]
  <2>1. IsFiniteSet(0..C)
    BY <1>1, FS_Interval
  <2>2. g \in Surjection(0..C, all)
    BY DEF Surjection
  <2>3. IsFiniteSet(all)
    BY <2>1, <2>2, FS_Surjection
  <2>4. \A s \in all : IsFiniteSet(s)
    BY <1>3
  <2> HIDE DEF all
  <2>5. IsFiniteSet(UNION all)
    BY <2>3, <2>4, FS_UNION
  <2> QED
    BY <1>2, <2>5 DEF all
<1>5. Base \in Unfolded
  <2>1. 0 \in 0..C /\ f[0] = {Base}
    BY <1>1, <1>2, LevelAt
  <2> QED
    BY <1>2, <2>1
<1>6. ASSUME NEW d \in Unfolded, Opened(d), NEW n \in EntryNames(before, d.from), Counted(Below(d, n))
      PROVE  Below(d, n) \in Unfolded
  <2>1. PICK k \in 0..C : d \in f[k]
    BY <1>2
  <2>2. d \in CopyEntries /\ IsFiniteSet(d.above) /\ Cardinality(d.above) = k
        /\ d.from \in Dirs /\ d.from \notin d.above
    BY <1>3, <1>6, <2>1 DEF Opened
  <2>3. k # C
    <3> SUFFICES ASSUME k = C PROVE FALSE
      OBVIOUS
    <3>1. d.above \in SUBSET Dirs
      BY <2>2 DEF CopyEntries
    <3>2. Dirs = d.above
      BY <1>1, <2>2, <3>1, FS_Subset DEF C
    <3> QED
      BY <2>2, <3>2
  <2>4. k + 1 \in 0..C /\ f[k + 1] = Deeper(f[k])
    <3>1. k + 1 \in 0..C /\ k + 1 # 0 /\ (k + 1) - 1 = k
      BY <1>1, <2>3
    <3>2. f[k + 1] = IF k + 1 = 0 THEN {Base} ELSE Deeper(f[(k + 1) - 1])
      BY <1>1, <1>2, <3>1, LevelAt
    <3> QED
      BY <3>1, <3>2
  <2>5. Below(d, n) \in Deeper(f[k])
    BY <1>6, <2>1, DeeperIs
  <2> QED
    BY <1>2, <2>4, <2>5
<1> QED
  BY <1>4, <1>5, <1>6

(* Nothing else is in it: what holds of the source, and of an entry when it  *)
(* holds of its directory, holds of all.                                     *)
LEMMA UnfoldedOnly ==
    ASSUME before \in Systems, NEW S, Base \in S,
           \A d \in Unfolded : d \in S /\ d \in CopyEntries /\ Opened(d) =>
               \A n \in EntryNames(before, d.from) :
                   Counted(Below(d, n)) /\ Below(d, n) \in Unfolded => Below(d, n) \in S
    PROVE  Unfolded \subseteq S
<1> DEFINE C == Cardinality(Dirs)
<1>1. C \in Nat
  BY SystemIs
<1>2. PICK f : Levels(C, f) /\ Unfolded = UNION {f[k] : k \in 0..C}
  BY UnfoldedIs
<1> HIDE DEF C
<1>3. \A k \in 0..C : \A e \in f[k] : e \in CopyEntries
  BY <1>1, <1>2, LevelsTyped
<1> DEFINE T == {k \in 0..C : ~(f[k] \subseteq S)}
<1>4. T = {}
  <2> SUFFICES ASSUME T # {} PROVE FALSE
    OBVIOUS
  <2>1. PICK m \in T : \A y \in T : m <= y
    <3> HIDE DEF T
    <3>1. T \in SUBSET Nat
      BY DEF T
    <3> QED
      BY <3>1, LeastNat
  <2>2. m \in 0..C /\ ~(f[m] \subseteq S)
    BY <2>1
  <2>3. CASE m = 0
    <3>1. f[0] = {Base}
      BY <1>1, <1>2, LevelAt
    <3> QED
      BY <2>2, <2>3, <3>1
  <2>4. CASE m # 0
    <3>1. m - 1 \in 0..C /\ m - 1 \notin T
      BY <1>1, <2>1, <2>2, <2>4
    <3>2. f[m - 1] \subseteq S /\ f[m] = Deeper(f[m - 1])
      BY <1>1, <1>2, <2>2, <2>4, <3>1, LevelAt
    <3>3. ASSUME NEW e \in f[m] PROVE e \in S
      <4>1. Counted(e) /\ \E d \in f[m - 1] : Opened(d) /\ \E n \in EntryNames(before, d.from) : e = Below(d, n)
        BY <3>2, <3>3, DeeperIs
      <4>3. PICK d \in f[m - 1] : Opened(d) /\ \E n \in EntryNames(before, d.from) : e = Below(d, n)
        BY <4>1
      <4>4. PICK n \in EntryNames(before, d.from) : e = Below(d, n)
        BY <4>3
      <4>2. d \in Unfolded /\ d \in CopyEntries /\ d \in S /\ e \in Unfolded
        BY <1>2, <1>3, <2>2, <3>1, <3>2, <3>3
      <4> QED
        BY <4>1, <4>2, <4>3, <4>4
    <3> QED
      BY <2>2, <3>3
  <2> QED
    BY <2>3, <2>4
<1> QED
  BY <1>2, <1>4

(* An entry of the tree is the source or in a directory that is read, and is *)
(* known by its place in the copy.                                           *)
LEMMA TreeTyped == ASSUME before \in Systems PROVE Unfolded \subseteq CopyEntries
<1>1. Base \in CopyEntries
  BY SystemIs
<1>2. ASSUME NEW d \in Unfolded, d \in CopyEntries, Opened(d), NEW n \in EntryNames(before, d.from)
      PROVE  Below(d, n) \in CopyEntries
  BY <1>2, BelowIs DEF Opened
<1> QED
  BY <1>1, <1>2, UnfoldedOnly

LEMMA TreeParent ==
    ASSUME before \in Systems, NEW e \in Unfolded, e # Base
    PROVE  Counted(e) /\ \E d \in Unfolded : Opened(d) /\ \E n \in EntryNames(before, d.from) : e = Below(d, n)
<1> DEFINE S == {x \in Unfolded :
                    \/ x = Base
                    \/ Counted(x) /\ \E d \in Unfolded :
                           Opened(d) /\ \E n \in EntryNames(before, d.from) : x = Below(d, n)}
<1>1. Base \in S
  BY UnfoldedHas
<1>2. ASSUME NEW d \in Unfolded, Opened(d), NEW n \in EntryNames(before, d.from),
             Counted(Below(d, n)), Below(d, n) \in Unfolded
      PROVE  Below(d, n) \in S
  BY <1>2
<1>3. Unfolded \subseteq S
  <2> HIDE DEF S
  <2> QED
    BY <1>1, <1>2, UnfoldedOnly
<1> QED
  BY <1>3

LEMMA TreeUnique ==
    ASSUME before \in Systems, NEW e \in Unfolded, NEW x \in Unfolded, x.rel = e.rel
    PROVE  x = e
<1> DEFINE S == {y \in Unfolded : \A z \in Unfolded : z.rel = y.rel => z = y}
<1>1. ASSUME NEW z \in Unfolded, z # Base
      PROVE  \E d \in Unfolded, n \in FileNames :
                 z = Below(d, n) /\ z.rel = Append(d.rel, n) /\ d.rel \in Paths
  <2>1. PICK d \in Unfolded : Opened(d) /\ \E n \in EntryNames(before, d.from) : z = Below(d, n)
    BY <1>1, TreeParent
  <2>2. PICK n \in EntryNames(before, d.from) : z = Below(d, n)
    BY <2>1
  <2>3. d \in CopyEntries /\ d.from \in Dirs
    BY <2>1, TreeTyped DEF Opened
  <2>4. n \in FileNames /\ z.rel = Append(d.rel, n) /\ d.rel \in Paths
    BY <2>2, <2>3, BelowIs DEF CopyEntries
  <2> QED
    BY <2>2, <2>4
<1>2. Base \in S
  <2>1. ASSUME NEW z \in Unfolded, z.rel = << >> PROVE z = Base
    <3> SUFFICES ASSUME z # Base PROVE FALSE
      OBVIOUS
    <3>1. PICK d \in Unfolded, n \in FileNames : z.rel = Append(d.rel, n) /\ d.rel \in Paths
      BY <1>1
    <3> QED
      BY <2>1, <3>1, AppendIs
  <2> QED
    BY <2>1, UnfoldedHas DEF Base
<1>3. ASSUME NEW d \in Unfolded, d \in S, d \in CopyEntries, Opened(d), NEW n \in EntryNames(before, d.from),
             Below(d, n) \in Unfolded
      PROVE  Below(d, n) \in S
  <2>1. d.from \in Dirs /\ d.rel \in Paths
    BY <1>3 DEF Opened, CopyEntries
  <2>2. n \in FileNames /\ Below(d, n).rel = Append(d.rel, n)
    BY <1>3, <2>1, BelowIs
  <2>3. ASSUME NEW z \in Unfolded, z.rel = Append(d.rel, n) PROVE z = Below(d, n)
    <3>1. z # Base
      BY <2>1, <2>2, <2>3, AppendIs DEF Base
    <3>2. PICK c \in Unfolded, m \in FileNames : z = Below(c, m) /\ z.rel = Append(c.rel, m) /\ c.rel \in Paths
      BY <1>1, <3>1
    <3>3. c.rel = d.rel /\ m = n
      <4> DEFINE a == c.rel
                 b == d.rel
      <4> HIDE DEF a, b
      <4>1. a \in Paths /\ b \in Paths /\ n \in FileNames /\ Append(a, m) = Append(b, n)
        BY <2>1, <2>2, <2>3, <3>2 DEF a, b
      <4>2. Front(Append(a, m)) = a /\ Last(Append(a, m)) = m
        BY <4>1, FrontOfAppend
      <4>3. Front(Append(b, n)) = b /\ Last(Append(b, n)) = n
        BY <4>1, FrontOfAppend
      <4> QED
        BY <4>1, <4>2, <4>3 DEF a, b
    <3>4. c = d
      BY <1>3, <3>3
    <3> QED
      BY <3>2, <3>3, <3>4
  <2> QED
    BY <1>3, <2>2, <2>3
<1>4. Unfolded \subseteq S
  <2> HIDE DEF S
  <2> QED
    BY <1>2, <1>3, UnfoldedOnly
<1> QED
  BY <1>4

(* On the way to an entry are directories of the tree.                       *)
LEMMA TreePrefix ==
    ASSUME before \in Systems, NEW e \in Unfolded, NEW k \in Nat, k < Len(e.rel)
    PROVE  \E d \in Unfolded :
               /\ Opened(d) /\ Len(d.rel) = k
               /\ \A i \in 1..k : d.rel[i] = e.rel[i]
               /\ e.rel[k + 1] \in EntryNames(before, d.from)
<1> DEFINE P(x, j) == \E d \in Unfolded :
               /\ Opened(d) /\ Len(d.rel) = j
               /\ \A i \in 1..j : d.rel[i] = x.rel[i]
               /\ x.rel[j + 1] \in EntryNames(before, d.from)
           S == {x \in Unfolded : \A j \in Nat : j < Len(x.rel) => P(x, j)}
<1>1. Base \in S
  <2>1. Len(Base.rel) = 0
    BY DEF Base
  <2> QED
    BY <2>1, UnfoldedHas
<1>2. ASSUME NEW d \in Unfolded, d \in S, d \in CopyEntries, Opened(d), NEW n \in EntryNames(before, d.from),
             Below(d, n) \in Unfolded
      PROVE  Below(d, n) \in S
  <2>1. d.from \in Dirs /\ d.rel \in Paths
    BY <1>2 DEF Opened, CopyEntries
  <2>2. n \in FileNames /\ Below(d, n).rel = Append(d.rel, n)
    BY <1>2, <2>1, BelowIs
  <2> DEFINE l == Len(d.rel)
             x == Below(d, n)
  <2>3. /\ l \in Nat /\ Len(x.rel) = l + 1 /\ x.rel[l + 1] = n
        /\ \A i \in 1..l : x.rel[i] = d.rel[i]
    BY <2>1, <2>2, AppendIs
  <2>4. ASSUME NEW j \in Nat, j < Len(x.rel) PROVE P(x, j)
    <3> HIDE DEF x
    <3>1. CASE j = l
      BY <1>2, <2>3, <3>1
    <3>2. CASE j # l
      <4>1. j < l /\ j + 1 \in 1..l /\ \A i \in 1..j : i \in 1..l
        BY <2>3, <2>4, <3>2
      <4>2. PICK c \in Unfolded :
               /\ Opened(c) /\ Len(c.rel) = j
               /\ \A i \in 1..j : c.rel[i] = d.rel[i]
               /\ d.rel[j + 1] \in EntryNames(before, c.from)
        BY <1>2, <4>1
      <4>3. x.rel[j + 1] = d.rel[j + 1] /\ \A i \in 1..j : x.rel[i] = d.rel[i]
        BY <2>3, <4>1
      <4> QED
        BY <4>2, <4>3
    <3> QED
      BY <3>1, <3>2
  <2> QED
    BY <1>2, <2>4
<1>3. Unfolded \subseteq S
  <2> HIDE DEF S
  <2> QED
    BY <1>1, <1>2, UnfoldedOnly
<1> QED
  BY <1>3

(* Without links the source is a tree.                                       *)
LEMMA UnlinkedTree ==
    ASSUME before \in Systems, ~follow, NEW e \in Unfolded
    PROVE  e.from \in DOMAIN before /\ e.from \notin e.above
<1> DEFINE S == {x \in Unfolded : x.from \in DOMAIN before /\ \A a \in x.above : Len(a) < Len(x.from)}
<1>1. Base \in S
  BY UnfoldedHas, SystemIs DEF Base, Dirs
<1>2. ASSUME NEW d \in Unfolded, d \in S, d \in CopyEntries, Opened(d), NEW n \in EntryNames(before, d.from),
             Counted(Below(d, n)), Below(d, n) \in Unfolded
      PROVE  Below(d, n) \in S
  <2> DEFINE q == Append(d.from, n)
  <2>1. d.from \in Dirs /\ d.from \in Paths
    BY <1>2 DEF Opened, CopyEntries
  <2>2. n \in FileNames /\ q \in DOMAIN before
        /\ Below(d, n).above = d.above \cup {d.from}
        /\ Below(d, n).link = (before[q].kind = "link")
        /\ Below(d, n).from = IF before[q].kind = "link" THEN before[q].to ELSE q
    BY <1>2, <2>1, BelowIs
  <2>3. Below(d, n).from = q
    BY <1>2, <2>2 DEF Counted
  <2>4. Len(q) = Len(d.from) + 1 /\ Len(d.from) \in Nat
    BY <2>1, <2>2, AppendIs
  <2>5. ASSUME NEW a \in d.above \cup {d.from} PROVE Len(a) < Len(q)
    <3>1. a \in Paths /\ Len(a) \in Nat
      <4>1. a \in Dirs
        BY <1>2, <2>1, <2>5 DEF CopyEntries
      <4>2. a \in Paths
        BY <4>1, SystemIs DEF Dirs
      <4> QED
        BY <4>2 DEF Paths
    <3>2. a = d.from \/ Len(a) < Len(d.from)
      BY <1>2, <2>5
    <3> HIDE DEF q
    <3> QED
      BY <2>4, <3>1, <3>2
  <2> HIDE DEF q
  <2> QED
    BY <1>2, <2>2, <2>3, <2>5
<1>3. Unfolded \subseteq S
  <2> HIDE DEF S
  <2> QED
    BY <1>1, <1>2, UnfoldedOnly
<1>4. ASSUME e.from \in e.above PROVE FALSE
  <2>1. Len(e.from) < Len(e.from) /\ e.from \in Paths
    BY <1>3, <1>4, TreeTyped DEF CopyEntries
  <2> QED
    BY <2>1 DEF Paths
<1> QED
  BY <1>3, <1>4
--------------------------------------------------------------------------------
(* Places, and what a copy does not touch. *)

LEMMA PartIs ==
    ASSUME NEW p \in Paths, NEW k \in 0..Len(p)
    PROVE  /\ SubSeq(p, 1, k) \in Paths /\ Len(SubSeq(p, 1, k)) = k
           /\ \A i \in 1..k : SubSeq(p, 1, k)[i] = p[i]
<1>1. p \in Seq(FileNames) /\ Len(p) \in Nat
  BY DEF Paths, FileNames
<1>2. \A i \in 1..k : p[i] \in FileNames
  BY <1>1
<1>3. /\ SubSeq(p, 1, k) \in Seq(FileNames)
      /\ Len(SubSeq(p, 1, k)) = (IF 1 <= k THEN k - 1 + 1 ELSE 0)
      /\ \A i \in 1..(k - 1 + 1) : SubSeq(p, 1, k)[i] = p[1 + i - 1]
  BY <1>1, <1>2, SubSeqProperties
<1> QED
  BY <1>1, <1>3 DEF Paths, FileNames

LEMMA JoinIs ==
    ASSUME NEW p \in Paths, NEW q \in Paths
    PROVE  /\ p \o q \in Paths /\ Len(p \o q) = Len(p) + Len(q) /\ Len(p) \in Nat /\ Len(q) \in Nat
           /\ \A i \in 1..Len(p) : (p \o q)[i] = p[i]
           /\ \A i \in 1..Len(q) : (p \o q)[Len(p) + i] = q[i]
           /\ IsPrefix(p, p \o q)
<1>1. /\ p \o q \in Paths /\ Len(p \o q) = Len(p) + Len(q) /\ Len(p) \in Nat /\ Len(q) \in Nat
      /\ \A i \in 1..(Len(p) + Len(q)) : (p \o q)[i] = IF i <= Len(p) THEN p[i] ELSE q[i - Len(p)]
  BY ConcatProperties, LenProperties DEF Paths
<1>2. \A i \in 1..Len(p) : (p \o q)[i] = p[i]
  BY <1>1
<1>3. \A i \in 1..Len(q) : (p \o q)[Len(p) + i] = q[i]
  <2>1. ASSUME NEW i \in 1..Len(q)
        PROVE  Len(p) + i \in 1..(Len(p) + Len(q)) /\ ~(Len(p) + i <= Len(p)) /\ (Len(p) + i) - Len(p) = i
    BY <1>1
  <2> QED
    BY <1>1, <2>1
<1>4. IsPrefix(p, p \o q)
  <2>1. Len(p) <= Len(p \o q)
    BY <1>1
  <2> QED
    BY <1>1, <1>2, <2>1, PrefixIs
<1> QED
  BY <1>1, <1>2, <1>3, <1>4

LEMMA JoinEqual ==
    ASSUME NEW p \in Paths, NEW q \in Paths, NEW r \in Paths, p \o q = p \o r
    PROVE  q = r
<1> DEFINE l == Len(p)
           m == Len(q)
           a == p \o q
<1>0. /\ l \in Nat /\ m \in Nat /\ Len(a) = l + m
      /\ \A i \in 1..m : a[l + i] = q[i]
  BY JoinIs
<1>3. /\ Len(r) \in Nat /\ Len(a) = l + Len(r)
      /\ \A i \in 1..Len(r) : a[l + i] = r[i]
  BY JoinIs
<1> HIDE DEF l, m, a
<1>1. m = Len(r)
  BY <1>0, <1>3
<1>2. \A i \in 1..m : q[i] = r[i]
  BY <1>0, <1>1, <1>3
<1> QED
  BY <1>1, <1>2, PathsEqual DEF m

LEMMA JoinAppend ==
    ASSUME NEW p \in Paths, NEW q \in Paths, NEW n \in FileNames
    PROVE  p \o Append(q, n) = Append(p \o q, n)
<1> DEFINE c == p \o q
           d == Append(q, n)
           a == p \o d
           b == Append(c, n)
           l == Len(p)
           m == Len(q)
<1>1. /\ c \in Paths /\ l \in Nat /\ m \in Nat /\ Len(c) = l + m
      /\ \A i \in 1..l : c[i] = p[i]
      /\ \A i \in 1..m : c[l + i] = q[i]
  BY JoinIs
<1>2. /\ d \in Paths /\ Len(d) = m + 1 /\ d[m + 1] = n
      /\ \A i \in 1..m : d[i] = q[i]
  BY AppendIs
<1> HIDE DEF c, d, m
<1>3. /\ a \in Paths /\ Len(a) = l + Len(d)
      /\ \A i \in 1..l : a[i] = p[i]
      /\ \A i \in 1..Len(d) : a[l + i] = d[i]
  BY <1>2, JoinIs
<1>4. /\ b \in Paths /\ Len(b) = Len(c) + 1 /\ b[Len(c) + 1] = n
      /\ \A i \in 1..Len(c) : b[i] = c[i]
  BY <1>1, AppendIs
<1> HIDE DEF a, b, l
<1>5. Len(a) = l + m + 1 /\ Len(b) = l + m + 1
  BY <1>1, <1>2, <1>3, <1>4
<1>6. ASSUME NEW i \in 1..(l + m + 1) PROVE a[i] = b[i]
  <2>1. CASE i <= l
    <3>1. i \in 1..l /\ i \in 1..Len(c)
      BY <1>1, <2>1
    <3> QED
      BY <1>1, <1>3, <1>4, <3>1
  <2>2. CASE i > l
    <3> DEFINE j == i - l
    <3>1. j \in 1..(m + 1) /\ l + j = i
      BY <1>1, <2>2
    <3> HIDE DEF j
    <3>2. a[i] = d[j]
      <4>1. j \in 1..Len(d)
        BY <1>2, <3>1
      <4>2. a[l + j] = d[j]
        BY <1>3, <4>1
      <4> QED
        BY <3>1, <4>2
    <3>3. CASE j = m + 1
      <4>1. d[j] = n /\ i = Len(c) + 1
        BY <1>1, <1>2, <3>1, <3>3
      <4> QED
        BY <1>4, <3>2, <4>1
    <3>4. CASE j # m + 1
      <4>1. j \in 1..m /\ i \in 1..Len(c)
        BY <1>1, <3>1, <3>4
      <4>2. d[j] = q[j] /\ c[l + j] = q[j] /\ b[i] = c[i]
        BY <1>1, <1>2, <1>4, <4>1
      <4> QED
        BY <3>1, <3>2, <4>2
    <3> QED
      BY <3>3, <3>4
  <2> QED
    BY <1>1, <2>1, <2>2
<1>7. a = b
  BY <1>3, <1>4, <1>5, <1>6, PathsEqual
<1> QED
  BY <1>7 DEF a, b, c, d

(* Where no link is on the way, a place is the path below the destination,   *)
(* or what the link there leads to.                                          *)
LEMMA PlainPlace ==
    ASSUME root \in Paths, NEW rel \in Paths,
           \A k \in 1..(Len(rel) - 1) : ~Is(root \o SubSeq(rel, 1, k), "link")
    PROVE  Place(rel) = IF rel = << >> THEN root
                        ELSE LET q == Follow(root \o rel) IN IF IsPrefix(root, q) THEN q ELSE Nowhere
<1> DEFINE n == Len(rel)
           places == CHOOSE f : Placed(rel, n, f)
           way(k) == root \o SubSeq(rel, 1, k)
<1>1. Place(rel) = places[n]
  BY DEF Place, Placed, PlaceStep
<1>2. n \in Nat /\ Placed(rel, n, places)
  BY PlacedExists DEF Paths
<1> HIDE DEF places
<1>3. \A k \in 0..n : places[k] = IF k = 0 THEN root ELSE PlaceStep(rel, places[k - 1], k)
  BY <1>2 DEF Placed
<1>4. ASSUME NEW k \in 0..n PROVE way(k) \in Paths /\ way(k) # Nowhere /\ IsPrefix(root, way(k))
  <2>1. SubSeq(rel, 1, k) \in Paths
    BY PartIs
  <2> QED
    BY <2>1, JoinIs, NowhereIsNoPath
<1>5. way(0) = root
  <2>1. SubSeq(rel, 1, 0) = << >>
    BY SubSeqEmpty
  <2> QED
    BY <2>1, ConcatEmptySeq DEF Paths
<1>6. ASSUME NEW k \in 1..n PROVE Append(way(k - 1), rel[k]) = way(k)
  <2> DEFINE a == SubSeq(rel, 1, k - 1)
             b == SubSeq(rel, 1, k)
  <2>1. k \in 0..n /\ k - 1 \in 0..n /\ k - 1 \in Nat /\ rel[k] \in FileNames
    BY <1>2 DEF Paths, FileNames
  <2>2. /\ a \in Paths /\ Len(a) = k - 1 /\ \A i \in 1..(k - 1) : a[i] = rel[i]
        /\ b \in Paths /\ Len(b) = k /\ \A i \in 1..k : b[i] = rel[i]
    BY <2>1, PartIs
  <2> HIDE DEF a, b
  <2>3. /\ Append(a, rel[k]) \in Paths /\ Len(Append(a, rel[k])) = k
        /\ \A i \in 1..k : Append(a, rel[k])[i] = b[i]
    <3>1. /\ Append(a, rel[k]) \in Paths /\ Len(Append(a, rel[k])) = Len(a) + 1
          /\ \A i \in 1..Len(a) : Append(a, rel[k])[i] = a[i]
          /\ Append(a, rel[k])[Len(a) + 1] = rel[k]
      BY <2>1, <2>2, AppendIs
    <3>2. ASSUME NEW i \in 1..k PROVE Append(a, rel[k])[i] = b[i]
      <4>1. i \in 1..(k - 1) \/ i = k
        BY <2>1
      <4> QED
        BY <2>1, <2>2, <3>1, <4>1
    <3> QED
      BY <2>1, <2>2, <3>1, <3>2
  <2>4. Append(a, rel[k]) = b
    BY <2>2, <2>3, PathsEqual
  <2>5. root \o Append(a, rel[k]) = Append(root \o a, rel[k])
    BY <2>1, <2>2, JoinAppend
  <2> QED
    BY <2>4, <2>5 DEF a, b
<1> DEFINE T == {k \in 0..(n - 1) : places[k] # way(k)}
<1> HIDE DEF way
<1>7. T = {}
  <2> SUFFICES ASSUME T # {} PROVE FALSE
    OBVIOUS
  <2>1. PICK m \in T : \A y \in T : m <= y
    <3> HIDE DEF T
    <3>1. T \in SUBSET Nat
      BY <1>2 DEF T
    <3> QED
      BY <3>1, LeastNat
  <2>2. m \in 0..(n - 1) /\ m \in 0..n /\ places[m] # way(m)
    BY <1>2, <2>1
  <2>3. m # 0
    BY <1>2, <1>3, <1>5, <2>2
  <2>4. m - 1 \in 0..n /\ m \in 1..n /\ m \in 1..(n - 1) /\ m - 1 \notin T /\ places[m - 1] = way(m - 1)
    BY <1>2, <2>1, <2>2, <2>3
  <2>5. places[m] = PlaceStep(rel, way(m - 1), m)
    BY <1>3, <2>2, <2>3, <2>4
  <2>6. Follow(way(m)) = way(m)
    BY <2>4 DEF Follow, way
  <2>7. PlaceStep(rel, way(m - 1), m) = way(m)
    BY <1>4, <1>6, <2>2, <2>4, <2>6 DEF PlaceStep
  <2> QED
    BY <2>2, <2>5, <2>7
<1>8. CASE rel = << >>
  BY <1>1, <1>2, <1>3, <1>8
<1>9. CASE rel # << >>
  <2>1. n # 0 /\ n - 1 \in 0..(n - 1) /\ n \in 1..n /\ n \in 0..n /\ n - 1 \in 0..n
    BY <1>2, <1>9, EmptySeq DEF Paths
  <2>2. places[n] = PlaceStep(rel, way(n - 1), n)
    BY <1>3, <1>7, <2>1
  <2>3. way(n) = root \o rel
    BY SubSeqFull DEF way, Paths
  <2>4. PlaceStep(rel, way(n - 1), n)
           = LET q == Follow(way(n)) IN IF IsPrefix(root, q) THEN q ELSE Nowhere
    BY <1>4, <1>6, <2>1 DEF PlaceStep
  <2> QED
    BY <1>1, <1>9, <2>2, <2>3, <2>4
<1> QED
  BY <1>8, <1>9

(* Paths that are not below, nor on the way to, the destination.             *)
LEMMA ApartSame ==
    ASSUME PlaceInv, WritesConfined, NEW p \in Paths, ~IsPrefix(root, p), ~IsPrefix(p, root)
    PROVE  (p \in DOMAIN fs <=> p \in DOMAIN before) /\ (p \in DOMAIN before => fs[p] = before[p])
<1>1. ASSUME p \in OnTheWay(root) PROVE FALSE
  <2>1. PICK k \in 0..Len(root) : p = SubSeq(root, 1, k)
    BY <1>1 DEF OnTheWay
  <2>2. root \in Paths /\ Len(root) \in Nat
    BY DEF PlaceInv, Paths
  <2>3. Len(p) = k /\ \A i \in 1..k : p[i] = root[i]
    BY <2>1, <2>2, PartIs
  <2>4. IsPrefix(p, root)
    BY <2>2, <2>3, PrefixIs
  <2> QED
    BY <2>4
<1> QED
  BY <1>1 DEF WritesConfined

LEMMA KeptApart ==
    ASSUME PlaceInv, ~Overlap, NEW e \in Kept
    PROVE  /\ ~IsPrefix(e.from, root) /\ ~IsPrefix(root, e.from)
           /\ \A n \in FileNames : ~IsPrefix(root, Append(e.from, n)) /\ ~IsPrefix(Append(e.from, n), root)
<1> DEFINE p == e.from
<1>1. ~IsPrefix(p, root) /\ ~IsPrefix(root, p)
  BY DEF Overlap
<1>2. root \in Paths /\ p \in Paths /\ Len(root) \in Nat /\ Len(p) \in Nat
  <2>1. root \in Paths /\ p \in Paths
    BY TreeTyped DEF PlaceInv, Kept, CopyEntries
  <2> QED
    BY <2>1 DEF Paths
<1> HIDE DEF p
<1>3. ASSUME NEW n \in FileNames PROVE ~IsPrefix(root, Append(p, n)) /\ ~IsPrefix(Append(p, n), root)
  <2> DEFINE q == Append(p, n)
  <2>1. q \in Paths /\ Len(q) = Len(p) + 1 /\ \A i \in 1..Len(p) : q[i] = p[i]
    BY <1>2, AppendIs
  <2> HIDE DEF q
  <2>2. ASSUME IsPrefix(q, root) PROVE FALSE
    <3>1. Len(q) <= Len(root) /\ \A i \in 1..Len(q) : q[i] = root[i]
      BY <1>2, <2>1, <2>2, PrefixIs
    <3>2. Len(p) <= Len(root) /\ \A i \in 1..Len(p) : p[i] = root[i]
      BY <1>2, <2>1, <3>1
    <3> QED
      BY <1>1, <1>2, <3>2, PrefixIs
  <2>3. ASSUME IsPrefix(root, q) PROVE FALSE
    <3>1. Len(root) <= Len(q) /\ \A i \in 1..Len(root) : root[i] = q[i]
      BY <1>2, <2>1, <2>3, PrefixIs
    <3>2. CASE Len(root) <= Len(p)
      <4>1. \A i \in 1..Len(root) : root[i] = p[i]
        BY <1>2, <2>1, <3>1, <3>2
      <4> QED
        BY <1>1, <1>2, <3>2, <4>1, PrefixIs
    <3>3. CASE Len(p) <= Len(root)
      <4>1. \A i \in 1..Len(p) : p[i] = root[i]
        BY <1>2, <2>1, <3>1, <3>3
      <4> QED
        BY <1>1, <1>2, <3>3, <4>1, PrefixIs
    <3> QED
      BY <1>2, <3>2, <3>3
  <2> QED
    BY <2>2, <2>3 DEF q
<1> QED
  BY <1>1, <1>3 DEF p

(* What a destination that was not there holds is new.                       *)
LEMMA NothingThere ==
    ASSUME PlaceInv, root \notin DOMAIN before, NEW p \in DOMAIN before
    PROVE  ~IsPrefix(root, p)
<1> DEFINE T == {i \in Nat : \E q \in DOMAIN before : IsPrefix(root, q) /\ Len(q) = i}
<1>1. before \in Systems /\ root \in Paths /\ Len(root) \in Nat
  BY DEF PlaceInv, Paths
<1>2. ASSUME NEW q \in DOMAIN before PROVE q \in Paths /\ Len(q) \in Nat
  <2>1. q \in Paths
    BY <1>1, SystemIs
  <2> QED
    BY <2>1 DEF Paths
<1>3. T = {}
  <2> SUFFICES ASSUME T # {} PROVE FALSE
    OBVIOUS
  <2>1. PICK m \in T : \A y \in T : m <= y
    <3> HIDE DEF T
    <3>1. T \in SUBSET Nat
      BY DEF T
    <3> QED
      BY <3>1, LeastNat
  <2>2. PICK q \in DOMAIN before : IsPrefix(root, q) /\ Len(q) = m
    BY <2>1
  <2>3. q \in Paths /\ Len(root) <= Len(q) /\ \A i \in 1..Len(root) : root[i] = q[i]
    BY <1>1, <1>2, <2>2, PrefixIs
  <2>4. Len(root) # Len(q)
    <3> SUFFICES ASSUME Len(root) = Len(q) PROVE FALSE
      OBVIOUS
    <3>1. root = q
      BY <1>1, <2>3, PathsEqual
    <3> QED
      BY <3>1
  <2>5. Len(q) \in Nat /\ Len(q) > 0 /\ Len(root) <= Len(q) - 1 /\ q # << >>
    BY <1>1, <1>2, <2>3, <2>4, EmptySeq
  <2>6. Front(q) \in DOMAIN before /\ Front(q) \in Paths /\ Len(Front(q)) = Len(q) - 1
        /\ \A i \in 1..(Len(q) - 1) : Front(q)[i] = q[i]
    BY <1>1, <2>3, <2>5, SystemIs, FrontLastIs
  <2>7. IsPrefix(root, Front(q))
    <3>1. \A i \in 1..Len(root) : root[i] = Front(q)[i]
      BY <1>1, <2>3, <2>5, <2>6
    <3> QED
      BY <1>1, <2>5, <2>6, <3>1, PrefixIs
  <2>8. m - 1 \in T
    BY <2>2, <2>5, <2>6, <2>7
  <2> QED
    BY <2>1, <2>2, <2>5, <2>8
<1> QED
  BY <1>2, <1>3
--------------------------------------------------------------------------------
(* What a copy has met of the tree, and the calls that it is in. *)

LEMMA SameTree ==
    ASSUME UNCHANGED given
    PROVE  /\ Unfolded' = Unfolded /\ Kept' = Kept /\ Dirs' = Dirs
           /\ Looping' = Looping /\ Dangling' = Dangling
           /\ root' = root => Overlap' = Overlap /\ Redirected' = Redirected
<1>1. before' = before /\ skip' = skip /\ follow' = follow
  BY DEF given
<1>2. Unfolded' = Unfolded
  BY <1>1 DEF Unfolded, Dirs, Opened, Counted, Ignored, Below
<1>3. Dirs' = Dirs
  BY <1>1 DEF Dirs
<1>4. Kept' = Kept
  BY <1>1, <1>2, <1>3 DEF Kept, Ignored
<1>5. Looping' = Looping /\ Dangling' = Dangling
  BY <1>1, <1>4 DEF Looping, Dangling
<1>6. ASSUME root' = root PROVE Overlap' = Overlap /\ Redirected' = Redirected
  BY <1>1, <1>4, <1>6 DEF Overlap, Redirected
<1> QED
  BY <1>2, <1>3, <1>4, <1>5, <1>6

(* The path r leads to what call k copies, or into it.                       *)
Through(k, r) == Len(r) >= k - 1 /\ \A i \in 1..(k - 1) : r[i] = stack[k].rel[i]

Ahead(e) == \E k \in DOMAIN stack : Len(e.rel) >= k /\ Through(k, e.rel) /\ e.rel[k] \in stack[k].todo

On(e) == \E k \in DOMAIN stack : stack[k].rel = e.rel

Met == {e \in Unfolded : ~Ahead(e)}

(* What was there is there with its kind, and no link is new.                *)
FilesInv ==
    /\ DOMAIN fs \subseteq Paths /\ \A p \in DOMAIN fs : "kind" \in DOMAIN fs[p]
    /\ \A p \in DOMAIN before : p \in DOMAIN fs /\ fs[p].kind = before[p].kind
    /\ \A p \in DOMAIN fs : fs[p].kind = "link" => p \in DOMAIN before /\ fs[p] = before[p]
    /\ \A p \in DOMAIN fs : fs[p].kind = "dir" => fs[p] = Dir(fs[p].mode)
    /\ Is(root, "dir")

(* Call k copies the entry d of the tree.                                    *)
Reads(k, d) ==
    /\ d \in Unfolded /\ Opened(d)
    /\ d.rel = stack[k].rel /\ d.from = stack[k].phys
    /\ stack[k].mode = before[d.from].mode
    /\ d.above = {stack[j].phys : j \in 1..(k - 1)}

FrameAt(k) ==
    /\ Len(stack[k].rel) = k - 1
    /\ stack[k].todo \subseteq EntryNames(before, stack[k].phys)
    /\ \E d \in Unfolded : Reads(k, d)
    /\ \A j \in 1..(k - 1) :
           /\ \A i \in 1..(j - 1) : stack[k].rel[i] = stack[j].rel[i]
           /\ stack[k].rel[j] \notin stack[j].todo

FramesInv ==
    /\ \A k \in DOMAIN stack : FrameAt(k)
    /\ visiting = IF follow THEN {stack[k].phys : k \in DOMAIN stack} ELSE {}

(* What is met is counted, and is no loop and no link that leads nowhere.    *)
MetInv ==
    /\ \A e \in Met \cap Kept : e.from \notin e.above /\ e.from \in DOMAIN before
    /\ Cardinality(Met) = entries + 1

Walking == CopyInv /\ copy = "tree" /\ ~Overlap /\ FilesInv /\ FramesInv /\ MetInv

LEMMA WalkingIs ==
    ASSUME Walking
    PROVE  /\ before \in Systems /\ root \in Paths /\ PlaceInv /\ WritesConfined /\ StackInv
           /\ Unfolded \subseteq CopyEntries /\ Kept \subseteq Unfolded
           /\ Len(stack) \in Nat \ {0} /\ DOMAIN stack = 1..Len(stack) /\ Top = stack[Len(stack)]
           /\ \A k \in 1..Len(stack) :
                  /\ stack[k].rel \in Paths /\ Len(stack[k].rel) = k - 1
                  /\ \E d \in Kept : Reads(k, d)
<1>1. /\ before \in Systems /\ root \in Paths /\ PlaceInv /\ WritesConfined /\ StackInv
      /\ stack # << >>
  BY DEF Walking, CopyInv, PlaceInv, StackInv
<1>2. Unfolded \subseteq CopyEntries /\ Kept \subseteq Unfolded
  BY <1>1, TreeTyped DEF Kept
<1>3. Len(stack) \in Nat \ {0} /\ DOMAIN stack = 1..Len(stack) /\ Top = stack[Len(stack)]
  BY <1>1, FrameOf
<1>4. ASSUME NEW k \in 1..Len(stack)
      PROVE  /\ stack[k].rel \in Paths /\ Len(stack[k].rel) = k - 1
             /\ \E d \in Kept : Reads(k, d)
  <2>1. PICK d \in Unfolded : Reads(k, d)
    BY <1>3, <1>4 DEF Walking, FramesInv, FrameAt
  <2>2. d \in Kept /\ stack[k].rel = d.rel /\ d.rel \in Paths
    BY <1>2, <2>1 DEF Reads, Kept, Opened, CopyEntries
  <2> QED
    BY <1>3, <1>4, <2>1, <2>2 DEF Walking, FramesInv, FrameAt
<1> QED
  BY <1>1, <1>2, <1>3, <1>4

(* The entry of the tree that a name of the innermost directory stands for.  *)
LEMMA ChildIs ==
    ASSUME Walking, NEW n \in Top.todo, NEW d, Reads(Len(stack), d)
    PROVE  LET x == Below(d, n)
               p == Phys(n)
           IN  /\ n \in FileNames /\ Rel(n) \in Paths /\ Len(Rel(n)) = Len(stack)
               /\ Rel(n)[Len(stack)] = n /\ \A i \in 1..(Len(stack) - 1) : Rel(n)[i] = Top.rel[i]
               /\ p \in DOMAIN before /\ p \in DOMAIN fs /\ fs[p] = before[p] /\ ~IsPrefix(root, p)
               /\ x \in CopyEntries /\ x.rel = Rel(n)
               /\ x.link = (before[p].kind = "link")
               /\ x.from = IF before[p].kind = "link" THEN before[p].to ELSE p
               /\ x.above = {stack[k].phys : k \in DOMAIN stack}
<1> DEFINE l == Len(stack)
<1>0. /\ before \in Systems /\ PlaceInv /\ WritesConfined /\ l \in Nat \ {0} /\ DOMAIN stack = 1..l
      /\ Top = stack[l] /\ \A k \in 1..l : stack[k].rel \in Paths /\ Len(stack[k].rel) = k - 1
  BY WalkingIs
<1>1. /\ before \in Systems /\ PlaceInv /\ WritesConfined /\ l \in Nat \ {0} /\ DOMAIN stack = 1..l
      /\ Top = stack[l] /\ Top.rel \in Paths /\ Len(Top.rel) = l - 1 /\ l \in 1..l
  <2> HIDE DEF l
  <2>1. l \in 1..l
    BY <1>0
  <2> QED
    BY <1>0, <2>1
<1>2. /\ d \in Unfolded /\ Opened(d) /\ d.rel = Top.rel /\ d.from = Top.phys
      /\ d.above = {stack[j].phys : j \in 1..(l - 1)}
  BY <1>1, Zenon DEF Reads
<1>3. d \in CopyEntries /\ d.from \in Dirs /\ d.from \in Paths /\ d \in Kept
  BY <1>1, <1>2, WalkingIs DEF Opened, CopyEntries, Kept
<1>4. n \in EntryNames(before, d.from)
  <2> HIDE DEF l
  <2>1. FrameAt(l)
    BY <1>1 DEF Walking, FramesInv
  <2>2. stack[l].todo \subseteq EntryNames(before, stack[l].phys)
    BY <2>1 DEF FrameAt
  <2> QED
    BY <1>1, <1>2, <2>2
<1> DEFINE p == Append(d.from, n)
           x == Below(d, n)
<1>5. /\ n \in FileNames /\ p \in DOMAIN before /\ x \in CopyEntries
      /\ x.rel = Append(d.rel, n) /\ x.above = d.above \cup {d.from}
      /\ x.link = (before[p].kind = "link")
      /\ x.from = IF before[p].kind = "link" THEN before[p].to ELSE p
  BY <1>1, <1>3, <1>4, BelowIs, Zenon
<1>6. p = Phys(n) /\ Rel(n) = Append(d.rel, n)
  BY <1>2 DEF Phys, Rel
<1>7. /\ Rel(n) \in Paths /\ Len(Rel(n)) = l /\ Rel(n)[l] = n
      /\ \A i \in 1..(l - 1) : Rel(n)[i] = Top.rel[i]
  <2> DEFINE a == Top.rel
  <2>1. a \in Paths /\ Len(a) = l - 1 /\ Rel(n) = Append(a, n) /\ l \in Nat \ {0}
    BY <1>1, <1>2, <1>6
  <2> HIDE DEF a, l
  <2>2. /\ Append(a, n) \in Paths /\ Len(Append(a, n)) = Len(a) + 1 /\ Append(a, n)[Len(a) + 1] = n
        /\ \A i \in 1..Len(a) : Append(a, n)[i] = a[i]
    BY <1>5, <2>1, AppendIs
  <2>3. Len(a) + 1 = l
    BY <2>1
  <2> QED
    BY <2>1, <2>2, <2>3 DEF a
<1>8. p \in Paths /\ ~IsPrefix(root, p) /\ ~IsPrefix(p, root)
  BY <1>1, <1>3, <1>5, AppendIs, KeptApart, Zenon DEF Walking
<1>9. p \in DOMAIN fs /\ fs[p] = before[p]
  BY <1>1, <1>5, <1>8, ApartSame, Zenon
<1>10. x.above = {stack[k].phys : k \in DOMAIN stack}
  <2> HIDE DEF x, l
  <2>1. DOMAIN stack = (1..(l - 1)) \cup {l}
    BY <1>1
  <2> QED
    BY <1>1, <1>2, <1>5, <2>1
<1> QED
  BY <1>5, <1>6, <1>7, <1>8, <1>9, <1>10

(* What is skipped is not in the tree, and the rest is.                      *)
LEMMA ChildCounts ==
    ASSUME Walking, NEW n \in Top.todo, NEW d, Reads(Len(stack), d)
    PROVE  /\ Skipped(n) <=> ~Counted(Below(d, n))
           /\ Counted(Below(d, n)) <=> Below(d, n) \in Unfolded
<1> DEFINE x == Below(d, n)
           p == Phys(n)
<1>1. /\ before \in Systems /\ d \in Unfolded /\ Opened(d) /\ d.from = Top.phys
      /\ Top = stack[Len(stack)] /\ Len(stack) \in DOMAIN stack
  BY WalkingIs DEF Reads
<1>2. /\ p \in DOMAIN before /\ p \in DOMAIN fs /\ fs[p] = before[p]
      /\ x.rel = Rel(n) /\ x.rel \in Paths /\ Len(x.rel) = Len(stack)
      /\ x.link = (before[p].kind = "link")
      /\ x.from = IF before[p].kind = "link" THEN before[p].to ELSE p
  BY ChildIs
<1> HIDE DEF x, p
<1>3. Skipped(n) <=> ~Counted(x)
  <2>1. CASE before[p].kind = "link"
    <3>1. ~Is(p, "dir") /\ Is(p, "link") /\ x.link
      BY <1>2, <2>1 DEF Is, Exists
    <3>2. Is(p, "dir") = FALSE /\ (~x.link /\ x.from \in Dirs) = FALSE
      BY <3>1 DEF Is, Exists
    <3> QED
      BY <1>2, <3>1, <3>2 DEF Skipped, Counted, p
  <2>2. CASE before[p].kind # "link" /\ before[p].kind = "dir"
    <3>1. Is(p, "dir") /\ ~Is(p, "link") /\ ~x.link /\ x.from \in Dirs
      BY <1>2, <2>2 DEF Is, Exists, Dirs
    <3>2. Is(p, "dir") = TRUE /\ (~x.link /\ x.from \in Dirs) = TRUE
      BY <3>1 DEF Is, Exists
    <3> QED
      BY <1>2, <3>1, <3>2 DEF Skipped, Counted, p
  <2>3. CASE before[p].kind # "link" /\ before[p].kind # "dir"
    <3>1. ~Is(p, "dir") /\ ~Is(p, "link") /\ ~x.link /\ x.from \notin Dirs
      BY <1>2, <2>3 DEF Is, Exists, Dirs
    <3>2. Is(p, "dir") = FALSE /\ (~x.link /\ x.from \in Dirs) = FALSE
      BY <3>1 DEF Is, Exists
    <3> QED
      BY <1>2, <3>1, <3>2 DEF Skipped, Counted, p
  <2> QED
    BY <2>1, <2>2, <2>3
<1>4. Counted(x) => x \in Unfolded
  <2>1. n \in EntryNames(before, d.from)
    BY <1>1 DEF Walking, FramesInv, FrameAt
  <2> QED
    BY <1>1, <2>1, UnfoldedHas DEF x
<1>5. x \in Unfolded => Counted(x)
  <2>1. x # Base
    <3>1. Len(Base.rel) = 0 /\ Len(stack) # 0
      BY WalkingIs DEF Base
    <3> QED
      BY <1>2, <3>1
  <2> QED
    BY <1>1, <2>1, TreeParent
<1> QED
  BY <1>3, <1>4, <1>5 DEF x

(* What is in the entry of a name of the innermost directory.                *)
InEntry(n, r) ==
    /\ Len(r) >= Len(stack) /\ r[Len(stack)] = n
    /\ \A i \in 1..(Len(stack) - 1) : r[i] = Top.rel[i]

LEMMA ReadsOne ==
    ASSUME Walking, NEW d, NEW e, Reads(Len(stack), d), e \in Unfolded, e.rel = Top.rel
    PROVE  e = d
<1>1. before \in Systems /\ Top = stack[Len(stack)]
  BY WalkingIs
<1>2. d \in Unfolded /\ d.rel = e.rel
  BY <1>1 DEF Reads
<1> QED
  BY <1>1, <1>2, TreeUnique

LEMMA EntriesIn ==
    ASSUME Walking, NEW n \in Top.todo, NEW d, Reads(Len(stack), d), NEW e \in Unfolded, InEntry(n, e.rel)
    PROVE  LET x == Below(d, n)
           IN  /\ x \in Unfolded
               /\ \/ e = x
                  \/ Opened(x) /\ Len(e.rel) > Len(stack) /\ e.rel[Len(stack) + 1] \in EntryNames(before, x.from)
<1> DEFINE l == Len(stack)
           x == Below(d, n)
<1>0. /\ before \in Systems /\ l \in Nat \ {0} /\ Top = stack[l]
      /\ \A k \in 1..l : stack[k].rel \in Paths /\ Len(stack[k].rel) = k - 1
  BY WalkingIs
<1>1. /\ before \in Systems /\ l \in Nat \ {0} /\ Top = stack[l] /\ Top.rel \in Paths /\ Len(Top.rel) = l - 1
      /\ l \in 1..l
  <2> HIDE DEF l
  <2>1. l \in 1..l
    BY <1>0
  <2> QED
    BY <1>0, <2>1
<1>2. /\ d \in Unfolded /\ d \in CopyEntries /\ d.rel = Top.rel
  BY <1>1, WalkingIs DEF Reads
<1>3. e.rel \in Paths /\ Len(e.rel) \in Nat /\ Len(e.rel) >= l /\ e.rel[l] = n
      /\ \A i \in 1..(l - 1) : e.rel[i] = Top.rel[i]
  <2>1. e.rel \in Paths
    BY <1>1, WalkingIs DEF CopyEntries
  <2> QED
    BY <2>1 DEF InEntry, Paths
<1>4. /\ n \in FileNames /\ x.rel = Rel(n) /\ Rel(n) \in Paths /\ Len(Rel(n)) = l /\ Rel(n)[l] = n
      /\ \A i \in 1..(l - 1) : Rel(n)[i] = Top.rel[i]
  BY ChildIs
<1>5. ASSUME NEW y \in Unfolded, y.rel = Rel(n) PROVE y = x
  <2>1. y # Base
    <3>1. Len(Base.rel) = 0 /\ l # 0
      BY <1>1 DEF Base
    <3> HIDE DEF l
    <3> QED
      BY <1>4, <1>5, <3>1
  <2>2. PICK c \in Unfolded : Opened(c) /\ \E m \in EntryNames(before, c.from) : y = Below(c, m)
    BY <1>1, <2>1, TreeParent
  <2>3. PICK m \in EntryNames(before, c.from) : y = Below(c, m)
    BY <2>2
  <2>4. c \in CopyEntries /\ c.from \in Dirs
    BY <2>2, WalkingIs DEF Opened
  <2>5. m \in FileNames /\ y.rel = Append(c.rel, m) /\ c.rel \in Paths
    BY <1>1, <2>3, <2>4, BelowIs DEF CopyEntries
  <2>6. c.rel = Top.rel /\ m = n
    <3>1. Front(Append(c.rel, m)) = c.rel /\ Last(Append(c.rel, m)) = m
      BY <2>5, FrontOfAppend
    <3>2. Front(Append(Top.rel, n)) = Top.rel /\ Last(Append(Top.rel, n)) = n
      BY <1>1, <1>4, FrontOfAppend
    <3> QED
      BY <1>5, <2>5, <3>1, <3>2 DEF Rel
  <2>7. c = d
    BY <2>2, <2>6, ReadsOne
  <2> QED
    BY <2>3, <2>6, <2>7
<1> HIDE DEF x, l
<1>6. CASE Len(e.rel) = l
  <2>1. ASSUME NEW i \in 1..l PROVE e.rel[i] = Rel(n)[i]
    <3>1. i = l \/ i \in 1..(l - 1)
      BY <1>1, <2>1
    <3> QED
      BY <1>3, <1>4, <3>1
  <2>2. e.rel = Rel(n)
    BY <1>3, <1>4, <1>6, <2>1, PathsEqual
  <2>3. e = x
    BY <1>5, <2>2
  <2> QED
    BY <2>3 DEF x
<1>7. CASE Len(e.rel) > l
  <2>1. PICK y \in Unfolded :
            /\ Opened(y) /\ Len(y.rel) = l
            /\ \A i \in 1..l : y.rel[i] = e.rel[i]
            /\ e.rel[l + 1] \in EntryNames(before, y.from)
    BY <1>1, <1>3, <1>7, TreePrefix
  <2>2. ASSUME NEW i \in 1..l PROVE y.rel[i] = Rel(n)[i]
    <3>1. i = l \/ i \in 1..(l - 1)
      BY <1>1, <2>2
    <3> QED
      BY <1>3, <1>4, <2>1, <3>1
  <2>3. y.rel \in Paths
    BY <2>1, WalkingIs DEF CopyEntries
  <2>4. y.rel = Rel(n)
    BY <1>4, <2>1, <2>2, <2>3, PathsEqual
  <2>5. y = x
    BY <1>5, <2>1, <2>4
  <2> QED
    BY <1>7, <2>1, <2>5 DEF x, l
<1> QED
  BY <1>1, <1>3, <1>6, <1>7

(* What is in a name that is not taken is ahead, and the directories that    *)
(* are being copied are met.                                                 *)
LEMMA InEntryAhead ==
    ASSUME Walking, NEW n \in Top.todo, NEW e, InEntry(n, e.rel)
    PROVE  Ahead(e)
<1>1. /\ Len(stack) \in Nat \ {0} /\ DOMAIN stack = 1..Len(stack) /\ Top = stack[Len(stack)]
      /\ Len(stack) \in DOMAIN stack
  BY WalkingIs
<1>2. Through(Len(stack), e.rel) /\ Len(e.rel) >= Len(stack) /\ e.rel[Len(stack)] \in stack[Len(stack)].todo
  <2>1. Len(e.rel) >= Len(stack) => Len(e.rel) >= Len(stack) - 1
    BY <1>1 DEF InEntry
  <2> QED
    BY <1>1, <2>1 DEF InEntry, Through
<1> QED
  BY <1>1, <1>2 DEF Ahead

LEMMA ReadIsMet ==
    ASSUME Walking, NEW k \in 1..Len(stack), NEW d, Reads(k, d)
    PROVE  d \in Met /\ d \in Kept /\ On(d)
<1>1. /\ Len(stack) \in Nat \ {0} /\ DOMAIN stack = 1..Len(stack)
      /\ \A j \in 1..Len(stack) : stack[j].rel \in Paths /\ Len(stack[j].rel) = j - 1
  BY WalkingIs
<1>2. d \in Unfolded /\ d.rel = stack[k].rel /\ d \in Kept
  BY DEF Reads, Kept, Opened
<1>3. ~Ahead(d)
  <2>1. ASSUME NEW j \in DOMAIN stack, Len(d.rel) >= j, d.rel[j] \in stack[j].todo PROVE FALSE
    <3>1. j \in 1..(k - 1)
      BY <1>1, <1>2, <2>1
    <3> QED
      BY <1>1, <1>2, <2>1, <3>1 DEF Walking, FramesInv, FrameAt
  <2> QED
    BY <2>1 DEF Ahead
<1> QED
  BY <1>1, <1>2, <1>3 DEF Met, On

LEMMA TakenFrames ==
    ASSUME Walking, NEW n
    PROVE  LET s == Taken(n)
           IN  /\ DOMAIN s = DOMAIN stack /\ Len(s) = Len(stack) /\ IsSequence(s)
               /\ \A k \in DOMAIN stack :
                      /\ s[k].phys = stack[k].phys /\ s[k].rel = stack[k].rel /\ s[k].mode = stack[k].mode
                      /\ s[k].todo = IF k = Len(stack) THEN stack[k].todo \ {n} ELSE stack[k].todo
<1>1. StackInv /\ stack # << >> /\ Len(stack) \in DOMAIN stack
  BY WalkingIs DEF Walking, CopyInv, StackInv
<1> DEFINE s == Taken(n)
<1>2. /\ DOMAIN s = DOMAIN stack /\ Len(s) = Len(stack) /\ IsSequence(s)
      /\ \A k \in DOMAIN stack : s[k].phys = stack[k].phys /\ s[k].rel = stack[k].rel
  BY <1>1, TakenIs
<1>3. ASSUME NEW k \in DOMAIN stack
      PROVE  /\ s[k].mode = stack[k].mode
             /\ s[k].todo = IF k = Len(stack) THEN stack[k].todo \ {n} ELSE stack[k].todo
  <2>1. {"phys", "rel", "todo", "mode"} \subseteq DOMAIN stack[k]
    BY <1>1 DEF StackInv
  <2> QED
    BY <1>1, <2>1 DEF Taken
<1> HIDE DEF s
<1>4. ASSUME NEW k \in DOMAIN stack
      PROVE  /\ s[k].phys = stack[k].phys /\ s[k].rel = stack[k].rel /\ s[k].mode = stack[k].mode
             /\ s[k].todo = IF k = Len(stack) THEN stack[k].todo \ {n} ELSE stack[k].todo
  BY <1>2, <1>3
<1> QED
  BY <1>2, <1>4 DEF s

(* The calls go on as they were, but for what they have taken.               *)
LEMMA FrameKept ==
    ASSUME Walking, UNCHANGED given, NEW k \in 1..Len(stack),
           \A j \in 1..k : /\ stack'[j].rel = stack[j].rel /\ stack'[j].phys = stack[j].phys
                           /\ stack'[j].mode = stack[j].mode /\ stack'[j].todo \subseteq stack[j].todo
    PROVE  FrameAt(k)' /\ \A d : Reads(k, d) => Reads(k, d)'
<1>1. /\ Len(stack) \in Nat \ {0} /\ DOMAIN stack = 1..Len(stack) /\ FrameAt(k)
      /\ before' = before /\ skip' = skip /\ Unfolded' = Unfolded /\ Dirs' = Dirs /\ k \in 1..k
      /\ \A j \in 1..(k - 1) : j \in 1..k
  BY WalkingIs, SameTree DEF given, Walking, FramesInv
<1>2. ASSUME NEW d, Reads(k, d) PROVE Reads(k, d)'
  <2>1. {stack'[j].phys : j \in 1..(k - 1)} = {stack[j].phys : j \in 1..(k - 1)}
    BY <1>1
  <2>2. Opened(d)'
    BY <1>1, <1>2 DEF Reads, Opened, Ignored
  <2> QED
    BY <1>1, <1>2, <2>1, <2>2 DEF Reads
<1>3. PICK d \in Unfolded : Reads(k, d)
  BY <1>1 DEF FrameAt
<1>4. \E y \in Unfolded' : Reads(k, y)'
  BY <1>1, <1>2, <1>3
<1>5. stack'[k].todo \subseteq EntryNames(before', stack'[k].phys)
  BY <1>1 DEF FrameAt
<1>6. ASSUME NEW j \in 1..(k - 1)
      PROVE  /\ \A i \in 1..(j - 1) : stack'[k].rel[i] = stack'[j].rel[i]
             /\ stack'[k].rel[j] \notin stack'[j].todo
  <2>1. stack'[k].rel = stack[k].rel /\ stack'[j].rel = stack[j].rel /\ stack'[j].todo \subseteq stack[j].todo
    BY <1>1, <1>6
  <2> QED
    BY <1>1, <1>6, <2>1 DEF FrameAt
<1>7. Len(stack'[k].rel) = k - 1
  <2>1. Len(stack[k].rel) = k - 1
    BY <1>1 DEF FrameAt
  <2>2. stack'[k].rel = stack[k].rel
    BY <1>1
  <2> QED
    BY <2>1, <2>2
<1> QED
  BY <1>2, <1>4, <1>5, <1>6, <1>7 DEF FrameAt

(* What is met when an entry is taken.                                       *)
LEMMA TakenStep ==
    ASSUME Walking, NEW n \in Top.todo, UNCHANGED given, stack' = Taken(n)
    PROVE  /\ \A k \in 1..Len(stack) : FrameAt(k)'
           /\ DOMAIN stack' = DOMAIN stack
           /\ {stack'[k].phys : k \in DOMAIN stack'} = {stack[k].phys : k \in DOMAIN stack}
           /\ \A e \in Unfolded : Ahead(e)' <=> Ahead(e) /\ ~InEntry(n, e.rel)
           /\ \A e : On(e)' <=> On(e)
<1> DEFINE l == Len(stack)
<1>1. /\ l \in Nat \ {0} /\ DOMAIN stack = 1..l /\ Top = stack[l] /\ l \in 1..l
      /\ \A k \in 1..l : FrameAt(k)
  BY WalkingIs DEF Walking, FramesInv
<1>2. /\ DOMAIN stack' = 1..l
      /\ \A k \in 1..l : /\ stack'[k].phys = stack[k].phys /\ stack'[k].rel = stack[k].rel
                         /\ stack'[k].mode = stack[k].mode
                         /\ stack'[k].todo = IF k = l THEN stack[k].todo \ {n} ELSE stack[k].todo
  <2> DEFINE s == Taken(n)
  <2>1. /\ DOMAIN s = DOMAIN stack
        /\ \A k \in DOMAIN stack :
               /\ s[k].phys = stack[k].phys /\ s[k].rel = stack[k].rel /\ s[k].mode = stack[k].mode
               /\ s[k].todo = IF k = l THEN stack[k].todo \ {n} ELSE stack[k].todo
    BY TakenFrames
  <2> HIDE DEF l, s
  <2>2. stack' = s
    BY DEF s
  <2> QED
    BY <1>1, <2>1, <2>2
<1> HIDE DEF l
<1>3. ASSUME NEW k \in 1..l PROVE FrameAt(k)'
  <2>1. ASSUME NEW j \in 1..k
        PROVE  /\ stack'[j].rel = stack[j].rel /\ stack'[j].phys = stack[j].phys
               /\ stack'[j].mode = stack[j].mode /\ stack'[j].todo \subseteq stack[j].todo
    <3>1. j \in 1..l
      BY <1>1, <1>3, <2>1
    <3> QED
      BY <1>2, <3>1
  <2> QED
    BY <1>3, <2>1, FrameKept DEF l
<1>4. ASSUME NEW e \in Unfolded PROVE Ahead(e)' <=> Ahead(e) /\ ~InEntry(n, e.rel)
  <2> DEFINE In(k) == Len(e.rel) >= k /\ Through(k, e.rel) /\ e.rel[k] \in stack[k].todo
             Still(k) == Len(e.rel) >= k /\ Through(k, e.rel) /\ e.rel[k] \in stack'[k].todo
  <2>1. ASSUME NEW k \in 1..l PROVE (Len(e.rel) >= k /\ Through(k, e.rel) /\ e.rel[k] \in stack[k].todo)' <=> Still(k)
    BY <1>2, <2>1 DEF Through
  <2>2. Ahead(e)' <=> \E k \in 1..l : Still(k)
    BY <1>2, <2>1 DEF Ahead
  <2>3. Ahead(e) <=> \E k \in 1..l : In(k)
    BY <1>1 DEF Ahead
  <2>4. ASSUME NEW k \in 1..l, Still(k) PROVE In(k) /\ ~InEntry(n, e.rel)
    <3>1. In(k)
      BY <1>2, <2>4
    <3>2. CASE k = l
      BY <1>1, <1>2, <2>4, <3>2 DEF InEntry, l
    <3>3. CASE k # l
      <4>1. k \in 1..(l - 1)
        BY <1>1, <2>4, <3>3
      <4>2. stack[l].rel[k] \notin stack[k].todo
        BY <1>1, <4>1 DEF FrameAt
      <4>3. InEntry(n, e.rel) => e.rel[k] = stack[l].rel[k]
        BY <1>1, <4>1 DEF InEntry, l
      <4> QED
        BY <3>1, <4>2, <4>3
    <3> QED
      BY <3>1, <3>2, <3>3
  <2>5. ASSUME NEW k \in 1..l, In(k), ~InEntry(n, e.rel) PROVE Still(k)
    <3>1. CASE k = l
      <4>1. \A i \in 1..(l - 1) : e.rel[i] = Top.rel[i]
        BY <1>1, <2>5, <3>1 DEF Through
      <4>2. e.rel[l] # n
        BY <2>5, <3>1, <4>1 DEF InEntry, l
      <4> QED
        BY <1>2, <2>5, <3>1, <4>2
    <3>2. CASE k # l
      BY <1>2, <2>5, <3>2
    <3> QED
      BY <3>1, <3>2
  <2> HIDE DEF In, Still
  <2> QED
    BY <2>2, <2>3, <2>4, <2>5
<1>5. \A e : On(e)' <=> On(e)
  BY <1>1, <1>2 DEF On
<1>6. {stack'[k].phys : k \in DOMAIN stack'} = {stack[k].phys : k \in DOMAIN stack}
  <2>1. \A k \in 1..l : stack'[k].phys = stack[k].phys
    BY <1>2
  <2>2. {stack'[k].phys : k \in 1..l} = {stack[k].phys : k \in 1..l}
    BY <2>1
  <2> QED
    BY <1>1, <1>2, <2>2
<1> QED
  BY <1>1, <1>2, <1>3, <1>4, <1>5, <1>6 DEF l

LEMMA InEntryIs ==
    ASSUME Walking, NEW n \in Top.todo, NEW d, Reads(Len(stack), d)
    PROVE  InEntry(n, Below(d, n).rel) /\ Below(d, n) \notin Met
<1>1. InEntry(n, Below(d, n).rel)
  <2>1. /\ Below(d, n).rel = Rel(n) /\ Len(Rel(n)) = Len(stack) /\ Rel(n)[Len(stack)] = n
        /\ \A i \in 1..(Len(stack) - 1) : Rel(n)[i] = Top.rel[i]
    BY ChildIs
  <2>2. Len(stack) >= Len(stack)
    BY WalkingIs
  <2> QED
    BY <2>1, <2>2 DEF InEntry
<1>2. Ahead(Below(d, n))
  BY <1>1, InEntryAhead
<1> QED
  BY <1>1, <1>2 DEF Met

LEMMA SkipMeets ==
    ASSUME Walking, NEW n \in Top.todo, Skipped(n), UNCHANGED given, stack' = Taken(n), visiting' = visiting
    PROVE  FramesInv' /\ Met' = Met /\ \A e : On(e)' <=> On(e)
<1>1. PICK d : Reads(Len(stack), d)
  BY WalkingIs
<1>2. Below(d, n) \notin Unfolded
  BY <1>1, ChildCounts
<1>3. \A e \in Unfolded : Ahead(e)' <=> Ahead(e)
  BY <1>1, <1>2, EntriesIn, TakenStep
<1>4. Met' = Met
  BY <1>3, SameTree DEF Met
<1>5. FramesInv'
  BY WalkingIs, TakenStep DEF Walking, FramesInv, given
<1> QED
  BY <1>4, <1>5, TakenStep

LEMMA LeafMeets ==
    ASSUME Walking, NEW n \in Top.todo, NEW d, Reads(Len(stack), d),
           Below(d, n) \in Unfolded, ~Opened(Below(d, n)),
           UNCHANGED given, stack' = Taken(n), visiting' = visiting
    PROVE  FramesInv' /\ Met' = Met \cup {Below(d, n)} /\ \A e : On(e)' <=> On(e)
<1> DEFINE x == Below(d, n)
<1>1. \A e \in Unfolded : InEntry(n, e.rel) <=> e = x
  BY EntriesIn, InEntryIs
<1> HIDE DEF x
<1>2. \A e \in Unfolded : Ahead(e)' <=> Ahead(e) /\ e # x
  BY <1>1, TakenStep
<1>3. Met' = Met \cup {x}
  BY <1>2, SameTree DEF Met, x
<1>4. FramesInv'
  BY WalkingIs, TakenStep DEF Walking, FramesInv, given
<1> QED
  BY <1>3, <1>4, TakenStep DEF x

(* One entry more, which is no loop and leads somewhere if it is kept.       *)
LEMMA MetAdds ==
    ASSUME Walking, UNCHANGED given, entries' = entries + 1,
           NEW x \in Unfolded, x \notin Met, Met' = Met \cup {x},
           x \in Kept => x.from \notin x.above /\ x.from \in DOMAIN before
    PROVE  MetInv'
<1>1. /\ before \in Systems /\ IsFiniteSet(Unfolded) /\ entries \in Nat
      /\ before' = before /\ Kept' = Kept
  BY WalkingIs, UnfoldedHas, SameTree, CopyAssumption DEF given, Walking, CopyInv, EntriesInv, CopyAssumption
<1>2. IsFiniteSet(Met)
  BY <1>1, FS_Subset DEF Met
<1>3. Cardinality(Met \cup {x}) = Cardinality(Met) + 1
  BY <1>2, FS_AddElement
<1>4. \A e \in Met' \cap Kept' : e.from \notin e.above /\ e.from \in DOMAIN before'
  BY <1>1 DEF Walking, MetInv
<1> QED
  BY <1>1, <1>3, <1>4 DEF Walking, MetInv

(* A directory is entered: all that it holds is ahead, and it is met.        *)
LEMMA EnterMeets ==
    ASSUME Walking, NEW n \in Top.todo, NEW d, Reads(Len(stack), d), NEW f,
           Below(d, n) \in Unfolded, Opened(Below(d, n)),
           f.phys = Below(d, n).from, f.rel = Rel(n),
           f.todo = EntryNames(before, Below(d, n).from), f.mode = before[Below(d, n).from].mode,
           UNCHANGED given, stack' = Append(Taken(n), f),
           visiting' = IF follow THEN visiting \cup {f.phys} ELSE visiting
    PROVE  /\ FramesInv' /\ Met' = Met \cup {Below(d, n)}
           /\ \A e : On(e)' <=> On(e) \/ e.rel = Rel(n)
<1>20. PICK l : l = Len(stack)
  OBVIOUS
<1>21. PICK x : x = Below(d, n)
  OBVIOUS
<1> DEFINE s == Taken(n)
<1>1. /\ l \in Nat \ {0} /\ DOMAIN stack = 1..l /\ Top = stack[l] /\ l \in 1..l
      /\ \A k \in 1..l : FrameAt(k)
      /\ before \in Systems
  BY <1>20, WalkingIs DEF Walking, FramesInv
<1>2. /\ x.rel = Rel(n) /\ Len(Rel(n)) = l /\ Rel(n) \in Paths
      /\ x.above = {stack[k].phys : k \in DOMAIN stack}
      /\ Rel(n)[l] = n /\ \A i \in 1..(l - 1) : Rel(n)[i] = Top.rel[i]
  BY <1>20, <1>21, ChildIs
<1>3. /\ DOMAIN s = 1..l /\ Len(s) = l /\ IsSequence(s)
      /\ \A k \in 1..l : /\ s[k].phys = stack[k].phys /\ s[k].rel = stack[k].rel
                         /\ s[k].mode = stack[k].mode
                         /\ s[k].todo = IF k = l THEN stack[k].todo \ {n} ELSE stack[k].todo
  <2>1. /\ DOMAIN s = DOMAIN stack /\ Len(s) = Len(stack) /\ IsSequence(s)
        /\ \A k \in DOMAIN stack :
               /\ s[k].phys = stack[k].phys /\ s[k].rel = stack[k].rel /\ s[k].mode = stack[k].mode
               /\ s[k].todo = IF k = Len(stack) THEN stack[k].todo \ {n} ELSE stack[k].todo
    BY TakenFrames
  <2> HIDE DEF s
  <2> QED
    BY <1>1, <1>20, <2>1
<1>4. /\ before' = before /\ skip' = skip /\ follow' = follow /\ Unfolded' = Unfolded /\ Dirs' = Dirs
  BY SameTree DEF given
<1> HIDE DEF s
<1>5. /\ DOMAIN stack' = 1..(l + 1) /\ stack'[l + 1] = f
      /\ \A k \in 1..l : stack'[k] = s[k]
  <2>1. PICK S : s \in Seq(S)
    BY <1>3 DEF IsSequence
  <2>2. stack' = Append(s, f)
    BY DEF s
  <2> QED
    BY <1>1, <1>3, <2>1, <2>2
<1>14. ASSUME NEW k \in 1..l
       PROVE  /\ stack'[k].phys = stack[k].phys /\ stack'[k].rel = stack[k].rel
              /\ stack'[k].mode = stack[k].mode
              /\ stack'[k].todo = IF k = l THEN stack[k].todo \ {n} ELSE stack[k].todo
  <2>1. stack'[k] = s[k]
    BY <1>5
  <2> QED
    BY <1>3, <2>1
<1>15. {stack'[j].phys : j \in 1..l} = {stack[j].phys : j \in 1..l}
  <2>1. \A k \in 1..l : stack'[k].phys = stack[k].phys
    BY <1>14
  <2> QED
    BY <2>1
<1>16. x \in Unfolded /\ Opened(x) /\ f.phys = x.from /\ f.rel = Rel(n) /\ f.mode = before[x.from].mode
       /\ f.todo = EntryNames(before, x.from)
  BY <1>21
<1>6. ASSUME NEW k \in 1..l PROVE FrameAt(k)'
  <2>1. ASSUME NEW j \in 1..k
        PROVE  /\ stack'[j].rel = stack[j].rel /\ stack'[j].phys = stack[j].phys
               /\ stack'[j].mode = stack[j].mode /\ stack'[j].todo \subseteq stack[j].todo
    <3>1. j \in 1..l
      BY <1>1, <1>6, <2>1
    <3> QED
      BY <1>14, <3>1
  <2> QED
    BY <1>20, <1>6, <2>1, FrameKept
<1>7. FrameAt(l + 1)'
  <2>1. (l + 1) - 1 = l /\ Len(stack'[l + 1].rel) = l
    BY <1>1, <1>2, <1>5
  <2>2. stack'[l + 1].todo \subseteq EntryNames(before', stack'[l + 1].phys)
    BY <1>21, <1>4, <1>5
  <2>3. x.above = {stack'[j].phys : j \in 1..l}
    BY <1>1, <1>2, <1>15
  <2>4. Opened(x)'
    BY <1>21, <1>4 DEF Opened, Ignored
  <2>5. Reads(l + 1, x)'
    BY <1>21, <1>2, <1>4, <1>5, <2>1, <2>3, <2>4 DEF Reads
  <2>6. ASSUME NEW j \in 1..l
        PROVE  /\ \A i \in 1..(j - 1) : stack'[l + 1].rel[i] = stack'[j].rel[i]
               /\ stack'[l + 1].rel[j] \notin stack'[j].todo
    <3>1. stack'[l + 1].rel = Rel(n) /\ stack'[j].rel = stack[j].rel
          /\ stack'[j].todo = IF j = l THEN stack[j].todo \ {n} ELSE stack[j].todo
      BY <1>5, <1>14
    <3>2. CASE j = l
      BY <1>1, <1>2, <3>1, <3>2
    <3>3. CASE j # l
      <4>1. j \in 1..(l - 1) /\ \A i \in 1..(j - 1) : i \in 1..(l - 1)
        BY <1>1, <3>3
      <4>2. /\ \A i \in 1..(j - 1) : stack[l].rel[i] = stack[j].rel[i]
            /\ stack[l].rel[j] \notin stack[j].todo
        BY <1>1, <4>1 DEF FrameAt
      <4> QED
        BY <1>1, <1>2, <3>1, <3>3, <4>1, <4>2
    <3> QED
      BY <3>2, <3>3
  <2>7. \E y \in Unfolded' : Reads(l + 1, y)'
    BY <1>21, <1>4, <2>5
  <2> QED
    BY <2>1, <2>2, <2>6, <2>7 DEF FrameAt
<1>8. \A k \in 1..(l + 1) : k \in 1..l \/ k = l + 1
  BY <1>1
<1>9. visiting' = IF follow' THEN {stack'[k].phys : k \in DOMAIN stack'} ELSE {}
  <2>1. {stack'[k].phys : k \in DOMAIN stack'} = {stack[k].phys : k \in DOMAIN stack} \cup {f.phys}
    <3>1. 1..(l + 1) = (1..l) \cup {l + 1}
      BY <1>1
    <3>2. {stack'[k].phys : k \in (1..l) \cup {l + 1}} = {stack'[k].phys : k \in 1..l} \cup {f.phys}
      BY <1>5
    <3> QED
      BY <1>1, <1>5, <1>15, <3>1, <3>2
  <2> QED
    BY <1>4, <2>1 DEF Walking, FramesInv
<1>10. FramesInv'
  BY <1>5, <1>6, <1>7, <1>8, <1>9 DEF FramesInv
<1>11. ASSUME NEW e \in Unfolded PROVE Ahead(e)' <=> Ahead(e) /\ e # x
  <2> DEFINE Still(k) == Len(e.rel) >= k /\ Through(k, e.rel) /\ e.rel[k] \in s[k].todo
             In(k) == Len(e.rel) >= k /\ Through(k, e.rel) /\ e.rel[k] \in stack[k].todo
             New == /\ Len(e.rel) >= l + 1 /\ \A i \in 1..l : e.rel[i] = Rel(n)[i]
                    /\ e.rel[l + 1] \in EntryNames(before, x.from)
  <2>0. e.rel \in Paths /\ Len(e.rel) \in Nat
    BY WalkingIs DEF CopyEntries, Paths
  <2>1. ASSUME NEW k \in 1..l PROVE (Len(e.rel) >= k /\ Through(k, e.rel) /\ e.rel[k] \in stack[k].todo)' <=> Still(k)
    <3>2. stack'[k].rel = stack[k].rel
      BY <1>14, <2>1
    <3>3. stack'[k].todo = s[k].todo
      BY <1>5, <2>1
    <3>4. Through(k, e.rel)' <=> Through(k, e.rel)
      BY <3>2 DEF Through
    <3> QED
      BY <3>3, <3>4
  <2>2. (Len(e.rel) >= l + 1 /\ Through(l + 1, e.rel) /\ e.rel[l + 1] \in stack[l + 1].todo)' <=> New
    BY <1>21, <1>20, <1>1, <1>5, <2>0 DEF Through
  <2>3. Ahead(e)' <=> New \/ \E k \in 1..l : Still(k)
    <3> DEFINE AheadAt(k) == (Len(e.rel) >= k /\ Through(k, e.rel))' /\ e.rel[k] \in stack'[k].todo
    <3>1. Ahead(e)' <=> \E k \in 1..(l + 1) : AheadAt(k)
      BY <1>5 DEF Ahead
    <3>2. (\A k \in 1..l : k \in 1..(l + 1)) /\ l + 1 \in 1..(l + 1)
      BY <1>1
    <3>3. ASSUME NEW k \in 1..l PROVE AheadAt(k) <=> Still(k)
      BY <2>1
    <3>4. AheadAt(l + 1) <=> New
      BY <2>2
    <3> HIDE DEF AheadAt, Still, New
    <3> QED
      BY <1>8, <3>1, <3>2, <3>3, <3>4
  <2>4. Ahead(e) <=> \E k \in 1..l : In(k)
    BY <1>1 DEF Ahead
  <2>5. ASSUME NEW k \in 1..l, Still(k) PROVE In(k) /\ ~InEntry(n, e.rel)
    <3>1. In(k)
      BY <1>3, <2>5
    <3>2. CASE k = l
      <4>1. s[l].todo = stack[l].todo \ {n}
        BY <1>1, <1>3
      <4>2. e.rel[l] # n
        BY <2>5, <3>2, <4>1
      <4> QED
        BY <1>20, <3>1, <4>2 DEF InEntry
    <3>3. CASE k # l
      <4>1. k \in 1..(l - 1)
        BY <1>1, <2>5, <3>3
      <4>2. stack[l].rel[k] \notin stack[k].todo
        BY <1>1, <4>1 DEF FrameAt
      <4>3. InEntry(n, e.rel) => e.rel[k] = stack[l].rel[k]
        BY <1>20, <1>1, <4>1 DEF InEntry
      <4> QED
        BY <3>1, <4>2, <4>3
    <3> QED
      BY <3>1, <3>2, <3>3
  <2>6. ASSUME NEW k \in 1..l, In(k), ~InEntry(n, e.rel) PROVE Still(k)
    <3>1. CASE k = l
      <4>1. \A i \in 1..(l - 1) : e.rel[i] = Top.rel[i]
        BY <1>1, <2>6, <3>1 DEF Through
      <4>2. e.rel[l] # n
        BY <1>20, <2>6, <3>1, <4>1 DEF InEntry
      <4> QED
        BY <1>3, <2>6, <3>1, <4>2
    <3>2. CASE k # l
      BY <1>3, <2>6, <3>2
    <3> QED
      BY <3>1, <3>2
  <2>7. InEntry(n, e.rel) => e = x \/ New
    <3> SUFFICES ASSUME InEntry(n, e.rel), e # x PROVE New
      OBVIOUS
    <3>1. Len(e.rel) > l /\ e.rel[l + 1] \in EntryNames(before, x.from)
      BY <1>21, <1>20, EntriesIn
    <3>2. ASSUME NEW i \in 1..l PROVE e.rel[i] = Rel(n)[i]
      <4>1. i = l \/ i \in 1..(l - 1)
        BY <1>1, <3>2
      <4> QED
        BY <1>20, <1>2, <4>1 DEF InEntry
    <3> QED
      BY <1>1, <2>0, <3>1, <3>2
  <2>8. New => InEntry(n, e.rel) /\ e # x
    <3> SUFFICES ASSUME New PROVE InEntry(n, e.rel) /\ e # x
      OBVIOUS
    <3>1. Len(e.rel) >= l /\ e.rel[l] = n /\ \A i \in 1..(l - 1) : e.rel[i] = Top.rel[i]
      <4>1. \A i \in 1..(l - 1) : i \in 1..l
        BY <1>1
      <4> QED
        BY <1>1, <1>2, <2>0, <4>1
    <3>2. Len(e.rel) # Len(x.rel)
      BY <1>1, <1>2, <2>0
    <3> QED
      BY <1>20, <3>1, <3>2 DEF InEntry
  <2>9. InEntry(n, e.rel) => Ahead(e)
    BY InEntryAhead
  <2>10. InEntry(n, x.rel)
    BY <1>21, InEntryIs
  <2> HIDE DEF In, Still, New
  <2> QED
    BY <2>3, <2>4, <2>5, <2>6, <2>7, <2>8, <2>9, <2>10
<1>12. Met' = Met \cup {x}
  <2>1. x \in Unfolded
    BY <1>21
  <2> QED
    BY <1>4, <1>11, <2>1 DEF Met
<1>13. ASSUME NEW e PROVE On(e)' <=> On(e) \/ e.rel = Rel(n)
  <2>1. On(e) <=> \E k \in 1..l : stack[k].rel = e.rel
    BY <1>1 DEF On
  <2>2. On(e)' <=> \E k \in 1..(l + 1) : stack'[k].rel = e.rel
    BY <1>5 DEF On
  <2>3. stack'[l + 1].rel = Rel(n) /\ l + 1 \in 1..(l + 1)
    BY <1>1, <1>5
  <2>4. \A k \in 1..l : k \in 1..(l + 1)
    BY <1>1
  <2>5. \A k \in 1..l : stack'[k].rel = stack[k].rel
    BY <1>14
  <2> QED
    BY <1>8, <2>1, <2>2, <2>3, <2>4, <2>5
<1> QED
  BY <1>21, <1>10, <1>12, <1>13

(* A directory that has no more entries is left.                             *)
LEMMA LeaveMeets ==
    ASSUME Walking, Top.todo = {}, UNCHANGED given, stack' = Front(stack), visiting' = visiting \ {Top.phys}
    PROVE  /\ FramesInv' /\ Met' = Met
           /\ Len(stack) = 1 => Met = Unfolded /\ DOMAIN stack' = {}
           /\ \A e : On(e)' <=> On(e) /\ e.rel # Top.rel
<1> DEFINE l == Len(stack)
<1>1. /\ l \in Nat \ {0} /\ DOMAIN stack = 1..l /\ Top = stack[l] /\ l \in 1..l
      /\ \A k \in 1..l : FrameAt(k)
      /\ \A k \in 1..l : Len(stack[k].rel) = k - 1
  BY WalkingIs DEF Walking, FramesInv
<1>2. DOMAIN stack' = 1..(l - 1) /\ \A k \in 1..(l - 1) : stack'[k] = stack[k]
  <2>1. PICK S : stack \in Seq(S)
    BY WalkingIs DEF StackInv, IsSequence
  <2> QED
    BY <1>1, <2>1 DEF Front
<1>3. before' = before /\ follow' = follow /\ Unfolded' = Unfolded
  BY SameTree DEF given
<1> HIDE DEF l
<1>4. ASSUME NEW k \in 1..(l - 1) PROVE FrameAt(k)'
  <2>1. ASSUME NEW j \in 1..k PROVE stack'[j] = stack[j]
    <3>1. j \in 1..(l - 1)
      BY <1>1, <1>4, <2>1
    <3> QED
      BY <1>2, <3>1
  <2>2. k \in 1..l
    BY <1>1, <1>4
  <2> QED
    BY <2>1, <2>2, FrameKept DEF l
<1>5. visiting' = IF follow' THEN {stack'[k].phys : k \in DOMAIN stack'} ELSE {}
  <2>1. PICK d \in Unfolded : Reads(l, d)
    BY <1>1 DEF FrameAt
  <2>2. Top.phys \notin {stack[j].phys : j \in 1..(l - 1)}
    BY <1>1, <2>1 DEF Reads, Opened
  <2>3. {stack[k].phys : k \in DOMAIN stack} = {stack[j].phys : j \in 1..(l - 1)} \cup {Top.phys}
    <3>1. 1..l = (1..(l - 1)) \cup {l}
      BY <1>1
    <3> QED
      BY <1>1, <3>1
  <2>4. {stack'[k].phys : k \in DOMAIN stack'} = {stack[j].phys : j \in 1..(l - 1)}
    BY <1>2
  <2> QED
    BY <1>3, <2>2, <2>3, <2>4 DEF Walking, FramesInv
<1>6. FramesInv'
  BY <1>2, <1>4, <1>5 DEF FramesInv
<1>7. ASSUME NEW e \in Unfolded PROVE Ahead(e)' <=> Ahead(e)
  <2>1. ASSUME NEW k \in 1..(l - 1)
        PROVE  (Len(e.rel) >= k /\ Through(k, e.rel) /\ e.rel[k] \in stack[k].todo)'
                   <=> (Len(e.rel) >= k /\ Through(k, e.rel) /\ e.rel[k] \in stack[k].todo)
    BY <1>2, <2>1 DEF Through
  <2>2. e.rel[l] \notin stack[l].todo
    BY <1>1
  <2>3. \A k \in 1..l : k \in 1..(l - 1) \/ k = l
    BY <1>1
  <2>4. \A k \in 1..(l - 1) : k \in 1..l
    BY <1>1
  <2> QED
    BY <1>1, <1>2, <2>1, <2>2, <2>3, <2>4 DEF Ahead
<1>8. Met' = Met
  BY <1>3, <1>7 DEF Met
<1>9. ASSUME l = 1 PROVE Met = Unfolded /\ DOMAIN stack' = {}
  <2>1. \A k \in DOMAIN stack : stack[k].todo = {}
    BY <1>1, <1>9
  <2> QED
    BY <1>2, <1>9, <2>1 DEF Met, Ahead
<1>10. ASSUME NEW e PROVE On(e)' <=> On(e) /\ e.rel # Top.rel
  <2>1. \A k \in 1..l : k \in 1..(l - 1) \/ k = l
    BY <1>1
  <2>2. ASSUME NEW k \in 1..(l - 1) PROVE k \in 1..l /\ stack[k].rel # Top.rel
    <3>1. k \in 1..l /\ Len(stack[k].rel) # Len(stack[l].rel)
      BY <1>1, <2>2
    <3> QED
      BY <1>1, <3>1
  <2> QED
    BY <1>1, <1>2, <2>1, <2>2 DEF On
<1> QED
  BY <1>6, <1>8, <1>9, <1>10 DEF l
--------------------------------------------------------------------------------
(* What the steps do to the file system. *)

(* A link leads to a path, and to no link.                                   *)
LEMMA FollowIs ==
    ASSUME Walking, NEW q \in Paths
    PROVE  Follow(q) \in Paths /\ ~Is(Follow(q), "link")
<1>1. before \in Systems /\ FilesInv
  BY WalkingIs DEF Walking
<1>2. CASE Is(q, "link")
  <2>1. q \in DOMAIN before /\ fs[q] = before[q] /\ before[q].kind = "link"
    BY <1>1, <1>2 DEF FilesInv, Is, Exists
  <2>2. before[q].to \in Paths /\ (before[q].to \in DOMAIN before => before[before[q].to].kind # "link")
    BY <1>1, <2>1, SystemIs
  <2>3. Is(before[q].to, "link") => before[q].to \in DOMAIN before /\ before[before[q].to].kind = "link"
    BY <1>1 DEF FilesInv, Is, Exists
  <2> QED
    BY <1>2, <2>1, <2>2, <2>3 DEF Follow
<1>3. CASE ~Is(q, "link")
  BY <1>3 DEF Follow
<1> QED
  BY <1>2, <1>3

LEMMA PlaceTyped ==
    ASSUME Walking, NEW rel \in Paths
    PROVE  Place(rel) \in Paths \cup {Nowhere} /\ ~Is(Place(rel), "link")
<1> DEFINE n == Len(rel)
           places == CHOOSE f : Placed(rel, n, f)
           P(q) == q \in Paths \cup {Nowhere} /\ ~Is(q, "link")
<1>1. Place(rel) = places[n]
  BY DEF Place, Placed, PlaceStep
<1>2. n \in Nat /\ Placed(rel, n, places)
  BY PlacedExists DEF Paths
<1> HIDE DEF places
<1>3. \A k \in 0..n : places[k] = IF k = 0 THEN root ELSE PlaceStep(rel, places[k - 1], k)
  BY <1>2 DEF Placed
<1>4. P(root) /\ P(Nowhere)
  BY WalkingIs DEF Walking, FilesInv, Is, Exists, PlaceInv
<1>5. ASSUME NEW k \in 1..n, NEW q, P(q) PROVE P(PlaceStep(rel, q, k))
  <2>1. CASE q = Nowhere
    BY <1>4, <2>1 DEF PlaceStep
  <2>2. CASE q # Nowhere
    <3>1. rel[k] \in FileNames
      BY DEF Paths, FileNames
    <3>2. Append(q, rel[k]) \in Paths
      BY <1>5, <2>2, <3>1, AppendIs
    <3>3. P(Follow(Append(q, rel[k])))
      BY <3>2, FollowIs
    <3> QED
      BY <1>4, <2>2, <3>3 DEF PlaceStep
  <2> QED
    BY <2>1, <2>2
<1> DEFINE T == {k \in 0..n : ~P(places[k])}
<1> HIDE DEF P
<1>6. T = {}
  <2> SUFFICES ASSUME T # {} PROVE FALSE
    OBVIOUS
  <2>1. PICK m \in T : \A y \in T : m <= y
    <3> HIDE DEF T
    <3>1. T \in SUBSET Nat
      BY <1>2 DEF T
    <3> QED
      BY <3>1, LeastNat
  <2>2. m # 0
    BY <1>3, <1>4, <2>1
  <2>3. m - 1 \in 0..n /\ m \in 1..n /\ m \in 0..n /\ P(places[m - 1])
    BY <1>2, <2>1, <2>2
  <2>4. places[m] = PlaceStep(rel, places[m - 1], m)
    BY <1>3, <2>2, <2>3
  <2> QED
    BY <1>5, <2>1, <2>3, <2>4
<1>7. P(places[n])
  BY <1>2, <1>6
<1> QED
  BY <1>1, <1>7 DEF P

(* A directory that the source leads to has the entries that it had.         *)
LEMMA SameNames ==
    ASSUME PlaceInv, ~Overlap, NEW f, DOMAIN f \subseteq Paths, DOMAIN before \subseteq DOMAIN f,
           \A p \in DOMAIN f : p \in DOMAIN before \/ IsPrefix(root, p) \/ IsPrefix(p, root),
           NEW e \in Kept
    PROVE  EntryNames(f, e.from) = EntryNames(before, e.from)
<1>1. before \in Systems /\ DOMAIN before \subseteq Paths
  BY SystemIs DEF PlaceInv
<1>2. e.from \in Paths
  BY <1>1, TreeTyped DEF Kept, CopyEntries
<1>3. ASSUME NEW n PROVE n \in EntryNames(f, e.from) <=> n \in EntryNames(before, e.from)
  <2>1. n \in EntryNames(f, e.from) <=> n \in FileNames /\ Append(e.from, n) \in DOMAIN f
    BY <1>2, NamesAre
  <2>2. n \in EntryNames(before, e.from) <=> n \in FileNames /\ Append(e.from, n) \in DOMAIN before
    BY <1>1, <1>2, NamesAre
  <2>3. n \in FileNames => ~IsPrefix(root, Append(e.from, n)) /\ ~IsPrefix(Append(e.from, n), root)
    BY KeptApart
  <2> QED
    BY <2>1, <2>2, <2>3
<1> QED
  BY <1>3

LEMMA ConfinedNames ==
    ASSUME WritesConfined, root \in Paths
    PROVE  /\ DOMAIN before \subseteq DOMAIN fs \cup {p \in DOMAIN before : IsPrefix(root, p)}
           /\ \A p \in DOMAIN fs : p \in DOMAIN before \/ IsPrefix(root, p) \/ IsPrefix(p, root)
<1>1. ASSUME NEW p \in OnTheWay(root) PROVE IsPrefix(p, root)
  <2>1. PICK k \in 0..Len(root) : p = SubSeq(root, 1, k)
    BY <1>1 DEF OnTheWay
  <2>2. p \in Paths /\ Len(p) = k /\ \A i \in 1..k : p[i] = root[i]
    BY <2>1, PartIs
  <2>3. Len(root) \in Nat
    BY DEF Paths
  <2> QED
    BY <2>2, <2>3, PrefixIs
<1> QED
  BY <1>1 DEF WritesConfined

LEMMA FilesSame ==
    ASSUME Walking, UNCHANGED <<given, root, fs>>
    PROVE  FilesInv'
  BY DEF Walking, FilesInv, Is, Exists, given

(* A file is written where a file or nothing is.                             *)
LEMMA WriteKeepsFiles ==
    ASSUME Walking, UNCHANGED <<given, root>>, NEW q \in Paths, Writable(q),
           NEW phys, Is(phys, "file"), fs' = Put(q, fs[phys])
    PROVE  FilesInv'
<1>1. FilesInv /\ before' = before /\ root' = root
  BY DEF Walking, given
<1>2. /\ DOMAIN fs' = DOMAIN fs \cup {q} /\ \A p \in DOMAIN fs : p # q => fs'[p] = fs[p]
      /\ fs'[q] = fs[phys] /\ fs[phys].kind = "file" /\ "kind" \in DOMAIN fs[phys]
  BY <1>1 DEF Put, Is, Exists, FilesInv
<1>3. q \in DOMAIN fs => fs[q].kind = "file"
  BY DEF Writable, Is, Exists
<1>4. root # q
  BY <1>1, <1>3 DEF FilesInv, Is, Exists
<1> QED
  BY <1>1, <1>2, <1>3, <1>4 DEF FilesInv, Is, Exists

LEMMA EnterKeepsFiles ==
    ASSUME Walking, UNCHANGED <<given, root>>, NEW q \in Paths,
           fs' = IF Exists(q) THEN fs ELSE Put(q, Dir("rw"))
    PROVE  FilesInv'
<1>1. FilesInv /\ before' = before /\ root' = root
  BY DEF Walking, given
<1>2. CASE Exists(q)
  BY <1>1, <1>2 DEF FilesInv, Is, Exists
<1>3. CASE ~Exists(q)
  <2>1. /\ DOMAIN fs' = DOMAIN fs \cup {q} /\ \A p \in DOMAIN fs : p # q => fs'[p] = fs[p]
        /\ fs'[q] = Dir("rw") /\ q \notin DOMAIN fs
    BY <1>3 DEF Put, Exists
  <2>2. "kind" \in DOMAIN Dir("rw") /\ Dir("rw").kind = "dir" /\ Dir("rw").mode = "rw"
    BY DEF Dir
  <2> QED
    BY <1>1, <2>1, <2>2 DEF FilesInv, Is, Exists
<1> QED
  BY <1>2, <1>3

LEMMA DirMode == ASSUME NEW b, NEW m PROVE [Dir(b) EXCEPT !.mode = m] = Dir(m)
<1> DEFINE a == Dir(b)
           r == [a EXCEPT !.mode = m]
           c == Dir(m)
           F == {"kind", "data", "mode", "to"}
<1>1. DOMAIN a = F /\ a.kind = "dir" /\ a.data = "" /\ a.to = << >> /\ a = [x \in F |-> a[x]]
  BY DEF Dir
<1>2. DOMAIN c = F /\ c.kind = "dir" /\ c.data = "" /\ c.to = << >> /\ c.mode = m /\ c = [x \in F |-> c[x]]
  BY DEF Dir
<1> HIDE DEF a, c
<1>3. r = [x \in F |-> IF x = "mode" THEN m ELSE a[x]]
  BY <1>1
<1>4. \A x \in F : (IF x = "mode" THEN m ELSE a[x]) = c[x]
  BY <1>1, <1>2
<1>5. r = [x \in F |-> c[x]]
  BY <1>3, <1>4
<1> QED
  BY <1>2, <1>5 DEF a, c

LEMMA LeaveKeepsFiles ==
    ASSUME Walking, UNCHANGED <<given, root>>, NEW q, ~Is(q, "link"), NEW m,
           fs' = [fs EXCEPT ![q].mode = m]
    PROVE  FilesInv' /\ (Is(q, "dir") => fs'[q] = Dir(m))
<1>1. FilesInv /\ before' = before /\ root' = root
  BY DEF Walking, given
<1>2. DOMAIN fs' = DOMAIN fs /\ \A p \in DOMAIN fs : p # q => fs'[p] = fs[p]
  OBVIOUS
<1>3. ASSUME q \in DOMAIN fs
      PROVE  "kind" \in DOMAIN fs'[q] /\ fs'[q].kind = fs[q].kind /\ (fs[q].kind = "dir" => fs'[q] = Dir(m))
  <2>1. fs'[q] = [fs[q] EXCEPT !.mode = m] /\ "kind" \in DOMAIN fs[q]
    BY <1>1, <1>3 DEF FilesInv
  <2>2. "kind" \in DOMAIN fs'[q] /\ fs'[q].kind = fs[q].kind
    BY <2>1
  <2>3. ASSUME fs[q].kind = "dir" PROVE fs'[q] = Dir(m)
    <3>1. fs[q] = Dir(fs[q].mode)
      BY <1>1, <1>3, <2>3 DEF FilesInv
    <3> DEFINE b == fs[q].mode
    <3> HIDE DEF b
    <3>2. fs'[q] = [Dir(b) EXCEPT !.mode = m]
      BY <2>1, <3>1 DEF b
    <3> QED
      BY <3>2, DirMode
  <2> QED
    BY <2>2, <2>3
<1>4. Dir(m).mode = m
  BY DEF Dir
<1>5. ASSUME NEW p \in DOMAIN fs
      PROVE  /\ "kind" \in DOMAIN fs'[p] /\ fs'[p].kind = fs[p].kind
             /\ fs'[p].kind = "dir" => fs'[p] = Dir(fs'[p].mode)
             /\ fs'[p].kind = "link" => fs'[p] = fs[p]
  <2>1. CASE p = q
    BY <1>3, <1>4, <2>1 DEF Is, Exists
  <2>2. CASE p # q
    BY <1>1, <1>2, <2>2 DEF FilesInv
  <2> QED
    BY <2>1, <2>2
<1>6. FilesInv'
  BY <1>1, <1>2, <1>5 DEF FilesInv, Is, Exists
<1> QED
  BY <1>3, <1>6 DEF Is, Exists
--------------------------------------------------------------------------------
(* One entry of the innermost directory. *)

(* What taking an entry does, by what the entry is in the tree.              *)
LEMMA EntrySteps ==
    ASSUME Walking, NEW n \in Top.todo, NEW d, Reads(Len(stack), d),
           Count(n), CopyEntry(n) \/ CopySymlink(n)
    PROVE  LET x == Below(d, n)
           IN  /\ x \in Unfolded /\ x \notin Met
               /\ \/ Ignored(x) /\ Pass(n)
                  \/ x \in Kept /\ x.from \notin DOMAIN before /\ Error(n, "dangling")
                  \/ /\ x \in Kept /\ x.from \in DOMAIN before
                     /\ x.from \in DOMAIN fs /\ fs[x.from] = before[x.from]
                     /\ \/ before[x.from].kind = "dir" /\ Enter(n, x.from)
                        \/ before[x.from].kind = "file" /\ Write(n, x.from)
                        \/ before[x.from].kind = "pipe" /\ Pass(n)
<1> DEFINE x == Below(d, n)
           p == Phys(n)
<1>1. before \in Systems /\ PlaceInv /\ WritesConfined /\ FilesInv /\ ~Overlap
  BY WalkingIs DEF Walking
<1>2. x \in Unfolded /\ x \notin Met
  BY ChildCounts, InEntryIs DEF Count
<1>3. /\ p \in DOMAIN before /\ p \in DOMAIN fs /\ fs[p] = before[p]
      /\ x \in CopyEntries /\ x.rel = Rel(n)
      /\ x.link = (before[p].kind = "link")
      /\ x.from = IF before[p].kind = "link" THEN before[p].to ELSE p
  BY ChildIs
<1> HIDE DEF x, p
<1>4. ASSUME x \in Kept
      PROVE  x.from \in DOMAIN fs => x.from \in DOMAIN before /\ fs[x.from] = before[x.from]
  <2>1. x.from \in Paths /\ ~IsPrefix(root, x.from) /\ ~IsPrefix(x.from, root)
    BY <1>1, <1>3, <1>4, KeptApart DEF CopyEntries
  <2> QED
    BY <1>1, <2>1, ApartSame
<1>5. x.from \in DOMAIN before => x.from \in DOMAIN fs
  BY <1>1 DEF FilesInv
<1>6. CASE before[p].kind # "link"
  <2>1. x.from = p /\ ~x.link /\ x \in Kept
    BY <1>2, <1>3, <1>6 DEF Kept, Ignored
  <2>2. ~Is(p, "link")
    BY <1>3, <1>6 DEF Is
  <2>3. CopyEntry(n)
    BY <2>2 DEF CopySymlink, p
  <2>4. \/ before[p].kind = "dir" /\ Enter(n, p)
        \/ before[p].kind = "file" /\ Write(n, p)
        \/ before[p].kind = "pipe" /\ Pass(n)
    BY <1>3, <2>3 DEF CopyEntry, Is, p
  <2> QED
    BY <1>2, <1>3, <2>1, <2>4 DEF x
<1>7. CASE before[p].kind = "link"
  <2>1. x.from = fs[p].to /\ x.link /\ Is(p, "link")
    BY <1>3, <1>7 DEF Is, Exists
  <2>2. CopySymlink(n)
    BY <1>3, <1>7 DEF CopyEntry, Is, Exists, p
  <2>3. \/ ~Exists(x.from) /\ Error(n, "dangling")
        \/ Is(x.from, "dir") /\ <<Rel(n), TRUE>> \in skip /\ Pass(n)
        \/ Is(x.from, "dir") /\ <<Rel(n), TRUE>> \notin skip /\ Enter(n, x.from)
        \/ Is(x.from, "file") /\ Write(n, x.from)
        \/ Is(x.from, "pipe") /\ Pass(n)
    BY <2>1, <2>2 DEF CopySymlink, p
  <2>4. CASE ~Exists(x.from) /\ Error(n, "dangling")
    <3>1. x.from \notin DOMAIN before /\ x \in Kept
      BY <1>2, <1>5, <2>4 DEF Exists, Kept, Ignored, Dirs
    <3> QED
      BY <1>2, <2>4, <3>1 DEF x
  <2>5. CASE Is(x.from, "dir") /\ <<Rel(n), TRUE>> \in skip /\ Pass(n)
    <3>1. CASE x \in Kept
      <4>1. x.from \in Dirs
        BY <1>4, <2>5, <3>1 DEF Is, Exists, Dirs
      <4>2. Ignored(x)
        BY <1>3, <2>1, <2>5, <4>1 DEF Ignored
      <4> QED
        BY <3>1, <4>2 DEF Kept
    <3>2. CASE x \notin Kept
      BY <1>2, <2>5, <3>2 DEF Kept, x
    <3> QED
      BY <3>1, <3>2
  <2>6. CASE Is(x.from, "dir") /\ <<Rel(n), TRUE>> \notin skip /\ Enter(n, x.from)
    <3>1. x \in Kept
      BY <1>2, <1>3, <2>6 DEF Kept, Ignored
    <3> QED
      BY <1>2, <1>4, <2>6, <3>1 DEF x, Is, Exists
  <2>7. CASE Is(x.from, "file") /\ Write(n, x.from)
    <3>1. x \in Kept
      <4>1. x.from \notin Dirs
        BY <1>1, <2>7 DEF Dirs, FilesInv, Is, Exists
      <4> QED
        BY <1>2, <4>1 DEF Kept, Ignored
    <3> QED
      BY <1>2, <1>4, <2>7, <3>1 DEF x, Is, Exists
  <2>8. CASE Is(x.from, "pipe") /\ Pass(n)
    <3>1. x \in Kept
      <4>1. x.from \notin Dirs
        BY <1>1, <2>8 DEF Dirs, FilesInv, Is, Exists
      <4> QED
        BY <1>2, <4>1 DEF Kept, Ignored
    <3> QED
      BY <1>2, <1>4, <2>8, <3>1 DEF x, Is, Exists
  <2> QED
    BY <2>3, <2>4, <2>5, <2>6, <2>7, <2>8
<1> QED
  BY <1>6, <1>7

LEMMA SkipWalks ==
    ASSUME Walking, NEW n \in Top.todo, SkipEntry(n), UNCHANGED <<given, root>>
    PROVE  FilesInv' /\ FramesInv' /\ MetInv' /\ Met' = Met /\ \A e : On(e)' <=> On(e)
<1>1. Skipped(n) /\ stack' = Taken(n) /\ UNCHANGED <<fs, visiting, entries>>
  BY DEF SkipEntry
<1>2. FramesInv' /\ Met' = Met /\ \A e : On(e)' <=> On(e)
  BY <1>1, SkipMeets
<1>3. MetInv'
  BY <1>1, <1>2, SameTree DEF MetInv, Walking, given
<1> QED
  BY <1>1, <1>2, <1>3, FilesSame

(* An entry that is taken and not entered. *)
LEMMA LeafWalks ==
    ASSUME Walking, NEW n \in Top.todo, NEW d, Reads(Len(stack), d),
           Below(d, n) \in Unfolded,
           \/ Ignored(Below(d, n))
           \/ Below(d, n).from \in DOMAIN before /\ before[Below(d, n).from].kind # "dir",
           Count(n), stack' = Taken(n), visiting' = visiting, UNCHANGED <<given, root>>
    PROVE  FramesInv' /\ MetInv' /\ Met' = Met \cup {Below(d, n)} /\ \A e : On(e)' <=> On(e)
<1> DEFINE x == Below(d, n)
<1>1. ~Opened(x)
  BY DEF Opened, Dirs
<1>2. FramesInv' /\ Met' = Met \cup {x} /\ \A e : On(e)' <=> On(e)
  BY <1>1, LeafMeets
<1>3. x \notin Met /\ x \in CopyEntries
  BY InEntryIs, ChildIs
<1> HIDE DEF x
<1>4. x \in Kept => x.from \notin x.above /\ x.from \in DOMAIN before
  BY <1>3 DEF Kept, CopyEntries, Dirs, x
<1>5. MetInv'
  BY <1>2, <1>3, <1>4, MetAdds DEF Count, x
<1> QED
  BY <1>2, <1>5 DEF x

(* A directory that is entered. *)
EnteredAs(n, e) ==
    LET q == Place(Rel(n))
    IN  /\ fs' = IF Exists(q) THEN fs ELSE Put(q, Dir("rw"))
        /\ stack' = Append(Taken(n), Frame(fs', e.from, Rel(n)))
        /\ visiting' = IF follow THEN visiting \cup {e.from} ELSE visiting
        /\ UNCHANGED copy

LEMMA EnterWalks ==
    ASSUME Walking, NEW n \in Top.todo, NEW d, Reads(Len(stack), d),
           Below(d, n) \in Kept, Below(d, n).from \in Dirs, fs[Below(d, n).from] = before[Below(d, n).from],
           Place(Rel(n)) # Nowhere, Below(d, n).from \notin visiting,
           EnteredAs(n, Below(d, n)), CopyInv', Count(n), UNCHANGED <<given, root>>
    PROVE  /\ FilesInv' /\ FramesInv' /\ MetInv' /\ Met' = Met \cup {Below(d, n)}
           /\ \A e : On(e)' <=> On(e) \/ e.rel = Rel(n)
<1> DEFINE x == Below(d, n)
           q == Place(Rel(n))
           f == Frame(fs', x.from, Rel(n))
<1>1. /\ before \in Systems /\ PlaceInv /\ FilesInv /\ FramesInv /\ ~Overlap
      /\ root' = root /\ before' = before /\ follow' = follow /\ root \in Paths
  BY WalkingIs DEF Walking, given
<1>2. /\ x \in CopyEntries /\ x.rel = Rel(n) /\ Rel(n) \in Paths
      /\ x.above = {stack[k].phys : k \in DOMAIN stack}
  BY ChildIs
<1>3. x \in Unfolded /\ x \notin Met
  BY InEntryIs DEF Kept
<1> HIDE DEF x, q
<1>4. q \in Paths
  BY <1>2, PlaceTyped DEF q
<1>5. FilesInv'
  BY <1>4, EnterKeepsFiles DEF EnteredAs, q
<1>6. x.from \notin x.above
  <2>1. CASE follow
    BY <1>1, <1>2, <2>1 DEF FramesInv, x
  <2>2. CASE ~follow
    BY <1>1, <1>3, <2>2, UnlinkedTree
  <2> QED
    BY <2>1, <2>2
<1>7. Opened(x)
  BY <1>6 DEF Opened, Kept, x
<1>8. EntryNames(fs', x.from) = EntryNames(before, x.from)
  <2>1. DOMAIN fs' \subseteq Paths /\ DOMAIN before \subseteq DOMAIN fs'
    BY <1>1, <1>5 DEF FilesInv
  <2>2. WritesConfined'
    BY DEF CopyInv
  <2>3. \A p \in DOMAIN fs' : p \in DOMAIN before \/ IsPrefix(root, p) \/ IsPrefix(p, root)
    <3>1. \A p \in DOMAIN fs : p \in DOMAIN before \/ IsPrefix(root, p) \/ IsPrefix(p, root)
      BY <1>1, ConfinedNames DEF Walking, CopyInv
    <3>2. IsPrefix(root, q)
      <4>1. Len(Rel(n)) \in Nat
        BY <1>2 DEF Paths
      <4> QED
        BY <1>1, <4>1, PlaceIs DEF q
    <3> QED
      BY <3>1, <3>2 DEF EnteredAs, q, Put
  <2>4. x \in Kept
    BY DEF x
  <2> QED
    BY <1>1, <2>1, <2>3, <2>4, SameNames
<1>9. fs'[x.from].mode = before[x.from].mode
  <2>1. x.from \in DOMAIN fs
    BY <1>1 DEF Dirs, FilesInv, x
  <2>2. fs'[x.from] = fs[x.from]
    BY <2>1 DEF EnteredAs, Put, Exists, x, q
  <2> QED
    BY <2>2 DEF x
<1>10. /\ f.phys = x.from /\ f.rel = Rel(n)
       /\ f.todo = EntryNames(before, x.from) /\ f.mode = before[x.from].mode
  BY <1>8, <1>9 DEF Frame
<1>11. /\ stack' = Append(Taken(n), f) /\ visiting' = IF follow THEN visiting \cup {f.phys} ELSE visiting
  BY <1>10 DEF EnteredAs, x
<1> HIDE DEF f
<1>12. FramesInv' /\ Met' = Met \cup {x} /\ \A e : On(e)' <=> On(e) \/ e.rel = Rel(n)
  BY <1>3, <1>7, <1>10, <1>11, EnterMeets DEF x
<1>13. MetInv'
  <2>1. x.from \in DOMAIN before
    BY DEF Dirs, x
  <2> QED
    BY <1>3, <1>6, <1>12, <2>1, MetAdds DEF Count
<1> QED
  BY <1>5, <1>12, <1>13 DEF x

LEMMA LeaveWalks ==
    ASSUME Walking, Top.todo = {}, Leave, UNCHANGED <<given, root>>
    PROVE  /\ FilesInv' /\ FramesInv' /\ MetInv' /\ Met' = Met
           /\ Len(stack) = 1 => Met = Unfolded /\ \A e : ~On(e)'
           /\ \A e : On(e)' <=> On(e) /\ e.rel # Top.rel
<1>1. /\ stack' = Front(stack) /\ visiting' = visiting \ {Top.phys} /\ entries' = entries
      /\ fs' = [fs EXCEPT ![Place(Top.rel)].mode = Top.mode]
  BY DEF Leave
<1>2. Top.rel \in Paths
  BY WalkingIs
<1>3. FilesInv'
  BY <1>1, <1>2, PlaceTyped, LeaveKeepsFiles
<1>4. /\ FramesInv' /\ Met' = Met
      /\ Len(stack) = 1 => Met = Unfolded /\ DOMAIN stack' = {}
      /\ \A e : On(e)' <=> On(e) /\ e.rel # Top.rel
  BY <1>1, LeaveMeets
<1>5. MetInv'
  BY <1>1, <1>4, SameTree DEF MetInv, Walking, given
<1> QED
  BY <1>3, <1>4, <1>5 DEF On
--------------------------------------------------------------------------------
(* What the destination holds. *)

Copied == {e \in Met \cap Kept : before[e.from].kind # "pipe"}

(* What is met is in the destination: the directories that are being copied  *)
(* are there to write to, the rest is as in the source.                      *)
DstInv ==
    /\ \A e \in Copied :
           LET q == root \o e.rel
           IN  /\ q \in DOMAIN fs
               /\ On(e) => fs[q].kind = "dir" /\ (root \notin DOMAIN before => fs[q].mode = "rw")
               /\ ~On(e) => fs[q] = before[e.from]
    /\ DOMAIN fs = DOMAIN before \cup OnTheWay(root) \cup {root \o e.rel : e \in Copied}

LEMMA CopyingInto ==
    ASSUME Walking, DstInv, NEW k \in 1..Len(stack)
    PROVE  LET q == root \o stack[k].rel
           IN  /\ q \in Paths /\ Is(q, "dir") /\ ~Is(q, "link") /\ IsPrefix(root, q)
               /\ root \notin DOMAIN before => fs[q].mode = "rw"
<1>1. root \in Paths /\ stack[k].rel \in Paths /\ Kept \subseteq Unfolded
  BY WalkingIs
<1>2. PICK d \in Kept : Reads(k, d)
  BY WalkingIs
<1>3. d \in Copied /\ On(d) /\ d.rel = stack[k].rel
  <2>1. d \in Met /\ On(d)
    BY <1>2, ReadIsMet
  <2>2. before[d.from].kind = "dir" /\ d.rel = stack[k].rel
    BY <1>2 DEF Reads, Opened, Dirs
  <2> QED
    BY <1>2, <2>1, <2>2 DEF Copied
<1>4. /\ root \o d.rel \in DOMAIN fs /\ fs[root \o d.rel].kind = "dir"
      /\ root \notin DOMAIN before => fs[root \o d.rel].mode = "rw"
  BY <1>3 DEF DstInv
<1> DEFINE q == root \o stack[k].rel
<1>5. q \in Paths /\ IsPrefix(root, q)
  BY <1>1, JoinIs
<1>6. /\ q \in DOMAIN fs /\ fs[q].kind = "dir"
      /\ root \notin DOMAIN before => fs[q].mode = "rw"
  BY <1>3, <1>4
<1> HIDE DEF q
<1>7. Is(q, "dir") /\ ~Is(q, "link")
  BY <1>6 DEF Is, Exists
<1> QED
  BY <1>5, <1>6, <1>7 DEF q

LEMMA WayIs ==
    ASSUME Walking, NEW k \in 1..Len(stack)
    PROVE  Len(Top.rel) = Len(stack) - 1 /\ SubSeq(Top.rel, 1, k - 1) = stack[k].rel
<1>0. PICK l : l = Len(stack)
  OBVIOUS
<1>1. /\ l \in Nat \ {0} /\ DOMAIN stack = 1..l /\ Top = stack[l] /\ k \in 1..l
      /\ \A j \in 1..l : stack[j].rel \in Paths /\ Len(stack[j].rel) = j - 1
  BY <1>0, WalkingIs
<1>6. l \in 1..l /\ k - 1 \in 0..(l - 1)
  BY <1>1
<1>7. FrameAt(l)
  BY <1>1, <1>6 DEF Walking, FramesInv
<1> DEFINE r == Top.rel
<1>8. r \in Paths /\ Len(r) = l - 1 /\ r = stack[l].rel
  BY <1>1, <1>6
<1> HIDE DEF r
<1>2. k - 1 \in 0..Len(r)
  BY <1>6, <1>8
<1> DEFINE a == SubSeq(r, 1, k - 1)
<1>3. a \in Paths /\ Len(a) = k - 1 /\ \A i \in 1..(k - 1) : a[i] = r[i]
  BY <1>2, <1>8, PartIs
<1>4. \A i \in 1..(k - 1) : r[i] = stack[k].rel[i]
  <2>1. CASE k = l
    BY <1>8, <2>1
  <2>2. CASE k # l
    <3>1. k \in 1..(l - 1)
      BY <1>1, <2>2
    <3> QED
      BY <1>7, <1>8, <3>1 DEF FrameAt
  <2> QED
    BY <2>1, <2>2
<1> HIDE DEF a
<1>5. a = stack[k].rel
  <2>1. stack[k].rel \in Paths /\ Len(stack[k].rel) = k - 1
    BY <1>1
  <2>2. \A i \in 1..Len(a) : a[i] = stack[k].rel[i]
    BY <1>3, <1>4
  <2> QED
    BY <1>3, <2>1, <2>2, PathsEqual
<1> QED
  BY <1>0, <1>5, <1>8 DEF a, r

LEMMA PlaceTop ==
    ASSUME Walking, DstInv
    PROVE  Place(Top.rel) = root \o Top.rel
<1>0. PICK l : l = Len(stack)
  OBVIOUS
<1>6. /\ l \in Nat \ {0} /\ Top = stack[l] /\ root \in Paths
      /\ \A k \in 1..l : stack[k].rel \in Paths /\ Len(stack[k].rel) = k - 1
  BY <1>0, WalkingIs
<1>7. l \in 1..l
  BY <1>6
<1>1. /\ Len(stack) \in Nat \ {0} /\ Top = stack[Len(stack)] /\ Top.rel \in Paths /\ root \in Paths
      /\ Len(stack) \in 1..Len(stack) /\ Len(Top.rel) = Len(stack) - 1
  BY <1>0, <1>6, <1>7
<1>2. ASSUME NEW k \in 1..(Len(Top.rel) - 1) PROVE ~Is(root \o SubSeq(Top.rel, 1, k), "link")
  <2>1. k + 1 \in 1..Len(stack) /\ (k + 1) - 1 = k
    BY <1>1
  <2>2. SubSeq(Top.rel, 1, k) = stack[k + 1].rel
    BY <2>1, WayIs
  <2> QED
    BY <2>1, <2>2, CopyingInto
<1>3. ~Is(root \o Top.rel, "link") /\ IsPrefix(root, root \o Top.rel)
  BY <1>1, CopyingInto
<1>4. Follow(root \o Top.rel) = root \o Top.rel
  BY <1>3 DEF Follow
<1>5. root \o << >> = root
  BY <1>1, ConcatEmptySeq DEF Paths
<1> QED
  BY <1>1, <1>2, <1>3, <1>4, <1>5, PlainPlace

LEMMA PlaceNext ==
    ASSUME Walking, DstInv, ~Redirected, NEW n \in Top.todo
    PROVE  LET q == root \o Rel(n)
           IN  /\ q \in Paths /\ q = Append(root \o Top.rel, n) /\ q # Nowhere /\ IsPrefix(root, q)
               /\ Rel(n) \in Paths /\ Len(q) = Len(root) + Len(stack)
               /\ Is(q, "link") => root \in DOMAIN before /\ Place(Rel(n)) = Nowhere
               /\ ~Is(q, "link") => Place(Rel(n)) = q
<1> DEFINE q == root \o Rel(n)
           l == Len(stack)
<1>1. PICK d : Reads(l, d)
  BY WalkingIs
<1>2. /\ n \in FileNames /\ Rel(n) \in Paths /\ Len(Rel(n)) = l
      /\ \A i \in 1..(l - 1) : Rel(n)[i] = Top.rel[i]
  BY <1>1, ChildIs
<1>3. /\ l \in Nat \ {0} /\ Top.rel \in Paths /\ root \in Paths /\ PlaceInv /\ FilesInv
      /\ Len(Top.rel) = l - 1
  <2>1. /\ l \in Nat \ {0} /\ Top = stack[l] /\ root \in Paths /\ PlaceInv /\ FilesInv
        /\ \A k \in 1..l : stack[k].rel \in Paths /\ Len(stack[k].rel) = k - 1
    BY WalkingIs DEF Walking
  <2> HIDE DEF l
  <2>2. l \in 1..l
    BY <2>1
  <2> QED
    BY <2>1, <2>2
<1>4. q \in Paths /\ q # Nowhere /\ IsPrefix(root, q) /\ Len(q) = Len(root) + l
  <2> DEFINE r == Rel(n)
  <2>1. r \in Paths /\ Len(r) = l
    BY <1>2
  <2> HIDE DEF r
  <2>2. root \o r \in Paths /\ Len(root \o r) = Len(root) + Len(r) /\ IsPrefix(root, root \o r)
    BY <1>3, <2>1, JoinIs
  <2>3. q = root \o r
    BY DEF r
  <2> HIDE DEF l, q
  <2> QED
    BY <2>1, <2>2, <2>3, NowhereIsNoPath
<1>5. q = Append(root \o Top.rel, n)
  BY <1>2, <1>3, JoinAppend DEF Rel
<1> HIDE DEF l, q
<1>6. ASSUME NEW k \in 1..(Len(Rel(n)) - 1) PROVE ~Is(root \o SubSeq(Rel(n), 1, k), "link")
  <2>1. k + 1 \in 1..l /\ (k + 1) - 1 = k /\ k \in 0..Len(Rel(n)) /\ k \in 0..Len(Top.rel)
    BY <1>2, <1>3
  <2>2. SubSeq(Top.rel, 1, k) = stack[k + 1].rel
    BY <2>1, WayIs DEF l
  <2>3. /\ SubSeq(Rel(n), 1, k) \in Paths /\ Len(SubSeq(Rel(n), 1, k)) = k
        /\ \A i \in 1..k : SubSeq(Rel(n), 1, k)[i] = Rel(n)[i]
        /\ SubSeq(Top.rel, 1, k) \in Paths /\ Len(SubSeq(Top.rel, 1, k)) = k
        /\ \A i \in 1..k : SubSeq(Top.rel, 1, k)[i] = Top.rel[i]
    BY <1>2, <1>3, <2>1, PartIs
  <2>4. \A i \in 1..k : i \in 1..(l - 1)
    BY <1>3, <2>1
  <2>5. SubSeq(Rel(n), 1, k) = SubSeq(Top.rel, 1, k)
    BY <1>2, <2>3, <2>4, PathsEqual
  <2> QED
    BY <2>1, <2>2, <2>5, CopyingInto DEF l
<1>7. Rel(n) # << >>
  BY <1>2, <1>3
<1>8. Place(Rel(n)) = IF IsPrefix(root, Follow(q)) THEN Follow(q) ELSE Nowhere
  BY <1>2, <1>3, <1>6, <1>7, PlainPlace DEF q
<1>9. ASSUME Is(q, "link") PROVE root \in DOMAIN before /\ Place(Rel(n)) = Nowhere
  <2>1. q \in DOMAIN before /\ fs[q] = before[q] /\ before[q].kind = "link"
    BY <1>3, <1>9 DEF FilesInv, Is, Exists
  <2>2. ~IsPrefix(root, before[q].to)
    BY <1>4, <2>1 DEF Redirected
  <2>3. root \in DOMAIN before
    BY <1>3, <1>4, <2>1, NothingThere
  <2> QED
    BY <1>8, <1>9, <2>1, <2>2, <2>3 DEF Follow
<1>10. ~Is(q, "link") => Place(Rel(n)) = q
  BY <1>4, <1>8 DEF Follow
<1> QED
  BY <1>2, <1>4, <1>5, <1>9, <1>10 DEF l, q

(* Nothing is in the way in a destination that was not there.                *)
LEMMA NoObstacle ==
    ASSUME Walking, DstInv, ~Redirected, root \notin DOMAIN before, NEW n \in Top.todo
    PROVE  LET q == Place(Rel(n))
           IN  /\ q = root \o Rel(n) /\ q # Nowhere /\ ~Exists(q) /\ Writable(q)
               /\ ~Is(Append(Place(Top.rel), n), "link") /\ IsPrefix(root, q)
<1> DEFINE q == root \o Rel(n)
           l == Len(stack)
<1>1. /\ q \in Paths /\ q = Append(root \o Top.rel, n) /\ q # Nowhere /\ IsPrefix(root, q)
      /\ Rel(n) \in Paths /\ Len(q) = Len(root) + l /\ ~Is(q, "link") /\ Place(Rel(n)) = q
  BY PlaceNext
<1>2. /\ l \in Nat \ {0} /\ Top.rel \in Paths /\ root \in Paths /\ Len(root) \in Nat /\ PlaceInv
      /\ Top = stack[l] /\ l \in 1..l
  BY WalkingIs DEF Paths
<1>3. PICK d : Reads(l, d)
  BY WalkingIs
<1>4. n \in FileNames /\ Rel(n) = Below(d, n).rel /\ InEntry(n, Below(d, n).rel)
  BY <1>3, ChildIs, InEntryIs
<1>5. ~Exists(q)
  <2> SUFFICES ASSUME q \in DOMAIN fs PROVE FALSE
    BY DEF Exists
  <2>1. q \notin DOMAIN before
    BY <1>1, <1>2, NothingThere
  <2>2. q \notin OnTheWay(root)
    <3>1. ASSUME NEW k \in 0..Len(root), q = SubSeq(root, 1, k) PROVE FALSE
      <4>1. Len(q) = k
        BY <1>2, <3>1, PartIs
      <4> HIDE DEF q, l
      <4> QED
        BY <1>1, <1>2, <3>1, <4>1
    <3> QED
      BY <3>1 DEF OnTheWay
  <2>3. ASSUME NEW e \in Copied, q = root \o e.rel PROVE FALSE
    <3>1. e \in Met /\ e \in Unfolded /\ e.rel \in Paths
      BY <2>3, WalkingIs DEF Copied, Met, CopyEntries
    <3>2. e.rel = Rel(n)
      BY <1>1, <1>2, <2>3, <3>1, JoinEqual
    <3>3. Ahead(e)
      BY <1>4, <3>2, InEntryAhead
    <3> QED
      BY <3>1, <3>3 DEF Met
  <2> QED
    BY <2>1, <2>2, <2>3 DEF DstInv
<1>6. Writable(q)
  <2>1. Is(root \o Top.rel, "dir") /\ fs[root \o Top.rel].mode = "rw" /\ root \o Top.rel \in Paths
    BY <1>2, CopyingInto
  <2>2. Front(q) = root \o Top.rel
    BY <1>1, <1>4, <2>1, FrontOfAppend
  <2> QED
    BY <1>5, <2>1, <2>2 DEF Writable
<1>7. ~Is(Append(Place(Top.rel), n), "link")
  BY <1>1, PlaceTop
<1> QED
  BY <1>1, <1>5, <1>6, <1>7

(* One entry of the tree is put in its place.                                *)
LEMMA DstAdds ==
    ASSUME Walking, DstInv, UNCHANGED <<given, root>>,
           NEW x \in Kept, before[x.from].kind # "pipe", Met' = Met \cup {x},
           DOMAIN fs' = DOMAIN fs \cup {root \o x.rel},
           \A p \in DOMAIN fs : p # root \o x.rel => fs'[p] = fs[p],
           \A e : e.rel # x.rel => (On(e)' <=> On(e)),
           On(x)' => /\ fs'[root \o x.rel].kind = "dir"
                     /\ root \notin DOMAIN before => fs'[root \o x.rel].mode = "rw",
           ~On(x)' => fs'[root \o x.rel] = before[x.from]
    PROVE  DstInv'
<1>1. before' = before /\ root' = root /\ Kept' = Kept /\ root \in Paths /\ before \in Systems
      /\ Kept \subseteq Unfolded /\ Unfolded \subseteq CopyEntries
  BY SameTree, WalkingIs DEF given
<1>2. Copied' = Copied \cup {x}
  BY <1>1 DEF Copied
<1>3. ASSUME NEW e \in Copied, e # x
      PROVE  root \o e.rel # root \o x.rel /\ (On(e)' <=> On(e))
  <2>1. e \in Unfolded /\ x \in Unfolded /\ e.rel \in Paths /\ x.rel \in Paths
    BY <1>1 DEF Copied, CopyEntries
  <2>2. e.rel # x.rel
    BY <1>1, <1>3, <2>1, TreeUnique
  <2> QED
    BY <1>1, <2>1, <2>2, JoinEqual
<1>4. ASSUME NEW e \in Copied \cup {x}
      PROVE  LET q == root \o e.rel
             IN  /\ q \in DOMAIN fs'
                 /\ On(e)' => fs'[q].kind = "dir" /\ (root \notin DOMAIN before => fs'[q].mode = "rw")
                 /\ ~On(e)' => fs'[q] = before[e.from]
  <2>1. CASE e = x
    BY <2>1
  <2>2. CASE e # x
    <3>1. e \in Copied
      BY <2>2
    <3>2. /\ root \o e.rel \in DOMAIN fs
          /\ On(e) => fs[root \o e.rel].kind = "dir" /\ (root \notin DOMAIN before => fs[root \o e.rel].mode = "rw")
          /\ ~On(e) => fs[root \o e.rel] = before[e.from]
      BY <3>1 DEF DstInv
    <3> QED
      BY <1>3, <2>2, <3>1, <3>2
  <2> QED
    BY <2>1, <2>2
<1>5. DOMAIN fs' = DOMAIN before \cup OnTheWay(root) \cup {root \o e.rel : e \in Copied \cup {x}}
  BY DEF DstInv
<1>6. OnTheWay(root)' = OnTheWay(root)
  BY <1>1 DEF OnTheWay
<1>7. \A e \in Copied' :
          LET q == root' \o e.rel
          IN  /\ q \in DOMAIN fs'
              /\ On(e)' => fs'[q].kind = "dir" /\ (root' \notin DOMAIN before' => fs'[q].mode = "rw")
              /\ ~On(e)' => fs'[q] = before'[e.from]
  BY <1>1, <1>2, <1>4
<1>8. DOMAIN fs' = DOMAIN before' \cup OnTheWay(root)' \cup {root' \o e.rel : e \in Copied'}
  BY <1>1, <1>2, <1>5, <1>6
<1> QED
  BY <1>7, <1>8 DEF DstInv

LEMMA DstSame ==
    ASSUME DstInv, UNCHANGED <<given, root, fs>>, Copied' = Copied, \A e : On(e)' <=> On(e)
    PROVE  DstInv'
  BY DEF DstInv, OnTheWay, given
--------------------------------------------------------------------------------
(* The invariant of a copy, step by step. *)

WalkInv ==
    copy = "tree" /\ ~Overlap =>
        /\ FilesInv /\ FramesInv /\ MetInv
        /\ Redirected \/ DstInv

OutcomeInv == CopyInv /\ WalkInv /\ CopyOutcome

LEMMA StillWalks ==
    ASSUME copy' = "tree", FilesInv', FramesInv', MetInv', Redirected' \/ DstInv'
    PROVE  WalkInv' /\ CopyOutcome'
  BY DEF WalkInv, CopyOutcome, DoneIsWhole, FailsForReason, Errors

LEMMA Failed ==
    ASSUME copy' \in Errors, UNCHANGED <<given, root>>,
           \/ copy' = "cycle" /\ Looping # {}
           \/ copy' = "dangling" /\ Dangling # {}
           \/ copy' = "limit" /\ Cardinality(Unfolded) > MaxEntries + 1
           \/ copy' = "write" /\ root \in DOMAIN before
    PROVE  WalkInv' /\ CopyOutcome'
  BY SameTree DEF WalkInv, CopyOutcome, DoneIsWhole, FailsForReason, Errors, given

LEMMA BaseIs ==
    ASSUME before \in Systems
    PROVE  /\ Base \in Kept /\ Base \in Unfolded /\ Opened(Base)
           /\ Base.rel = << >> /\ Base.from = Source /\ Base.above = {} /\ ~Base.link
           /\ before[Source].kind = "dir" /\ Source \in DOMAIN before
           /\ \A e \in Unfolded : e # Base => Len(e.rel) >= 1 /\ e.rel[1] \in EntryNames(before, Source)
<1>1. /\ Base.rel = << >> /\ Base.from = Source /\ Base.above = {} /\ Base.link = FALSE
      /\ Base \in Unfolded /\ Source \in Dirs /\ Source \in DOMAIN before
  BY UnfoldedHas, SystemIs DEF Base, Dirs
<1> HIDE DEF Base
<1>2. Base \in Kept /\ Opened(Base) /\ before[Source].kind = "dir"
  BY <1>1 DEF Kept, Opened, Ignored, Dirs
<1>3. ASSUME NEW e \in Unfolded, e # Base
      PROVE  Len(e.rel) >= 1 /\ e.rel[1] \in EntryNames(before, Source)
  <2>1. e.rel \in Paths /\ Len(e.rel) \in Nat
    BY TreeTyped DEF CopyEntries, Paths
  <2>2. e.rel # << >>
    BY <1>1, <1>3, TreeUnique
  <2>3. Len(e.rel) > 0 /\ 0 \in Nat
    BY <2>1, <2>2, EmptySeq DEF Paths
  <2>4. PICK d \in Unfolded : Len(d.rel) = 0 /\ e.rel[0 + 1] \in EntryNames(before, d.from)
    BY <2>3, TreePrefix
  <2>5. d.rel = << >>
    <3>1. d.rel \in Paths
      BY TreeTyped DEF CopyEntries
    <3> QED
      BY <2>4, <3>1, EmptySeq DEF Paths
  <2>6. d = Base
    BY <1>1, <2>5, TreeUnique
  <2> QED
    BY <1>1, <2>1, <2>3, <2>4, <2>6
<1> QED
  BY <1>1, <1>2, <1>3

(* The copy starts with the source itself.                                   *)
LEMMA StartWalks ==
    ASSUME CopyInv, CopyInv', Start, copy' = "tree", ~Overlap'
    PROVE  FilesInv' /\ FramesInv' /\ MetInv' /\ DstInv'
<1> DEFINE r == root'
           top == Frame(fs, Source, << >>)
<1>1. /\ fs = before /\ before \in Systems /\ r \in Paths /\ entries = 0
      /\ UNCHANGED given
      /\ Makeable(r) /\ fs' = MadeOnTheWay(r) /\ stack' = <<top>>
      /\ visiting' = IF follow THEN {Source} ELSE {}
      /\ entries' = entries
  BY DEF Start, Ends, CopyInv, PlaceInv
<1>2. /\ before' = before /\ skip' = skip /\ follow' = follow
      /\ Unfolded' = Unfolded /\ Kept' = Kept /\ Dirs' = Dirs
  BY <1>1, SameTree DEF given
<1>3. /\ Base \in Kept /\ Base \in Unfolded /\ Opened(Base)
      /\ Base.rel = << >> /\ Base.from = Source /\ Base.above = {} /\ ~Base.link
      /\ before[Source].kind = "dir" /\ Source \in DOMAIN before
      /\ \A e \in Unfolded : e # Base => Len(e.rel) >= 1 /\ e.rel[1] \in EntryNames(before, Source)
  BY <1>1, BaseIs
<1>4. /\ DOMAIN before \subseteq Paths /\ Source \in Paths
      /\ \A p \in DOMAIN before : "kind" \in DOMAIN before[p] /\ (before[p].kind = "dir" => before[p] = Dir(before[p].mode))
  BY <1>1, SystemIs
<1>5. OnTheWay(r) \subseteq Paths
  BY <1>1, OnTheWayIs
<1>6. DOMAIN fs' = DOMAIN before \cup OnTheWay(r)
      /\ \A p \in DOMAIN fs' : fs'[p] = IF p \in DOMAIN before THEN before[p] ELSE Dir("rw")
  BY <1>1 DEF MadeOnTheWay, Exists
<1>7. "kind" \in DOMAIN Dir("rw") /\ Dir("rw").kind = "dir" /\ Dir("rw").mode = "rw"
  BY DEF Dir
<1>8. r # << >>
  <2> SUFFICES ASSUME r = << >> PROVE FALSE
    OBVIOUS
  <2>1. IsPrefix(r, Source)
    <3>1. Len(r) = 0 /\ Len(Source) \in Nat
      BY <1>4 DEF Paths
    <3> HIDE DEF r
    <3> QED
      BY <1>1, <1>4, <3>1, PrefixIs
  <2>2. Overlap'
    BY <1>2, <1>3, <2>1, SMTT(30) DEF Overlap
  <2> QED
    BY <2>2
<1>9. r \in OnTheWay(r) /\ (Exists(r) => Is(r, "dir"))
  <2>1. Len(r) \in Nat \ {0} /\ SubSeq(r, 1, Len(r)) = r
    BY <1>1, <1>8, EmptySeq, SubSeqFull DEF Paths
  <2>2. Len(r) \in 0..Len(r) /\ Len(r) \in 1..Len(r)
    BY <2>1
  <2> HIDE DEF r
  <2> QED
    BY <1>1, <2>1, <2>2 DEF Makeable, OnTheWay
<1>10. r \in DOMAIN fs' /\ fs'[r].kind = "dir" /\ (r \notin DOMAIN before => fs'[r].mode = "rw")
  BY <1>1, <1>6, <1>7, <1>9 DEF Is, Exists
<1>11. FilesInv'
  <2>1. DOMAIN fs' \subseteq Paths /\ \A p \in DOMAIN fs' : "kind" \in DOMAIN fs'[p]
    BY <1>4, <1>5, <1>6, <1>7
  <2>2. \A p \in DOMAIN before : p \in DOMAIN fs' /\ fs'[p].kind = before[p].kind
    BY <1>6
  <2>3. \A p \in DOMAIN fs' : fs'[p].kind = "link" => p \in DOMAIN before /\ fs'[p] = before[p]
    BY <1>6, <1>7
  <2>4. \A p \in DOMAIN fs' : fs'[p].kind = "dir" => fs'[p] = Dir(fs'[p].mode)
    BY <1>4, <1>6, <1>7
  <2> QED
    BY <1>2, <1>10, <2>1, <2>2, <2>3, <2>4 DEF FilesInv, Is, Exists
<1>12. /\ top.phys = Source /\ top.rel = << >> /\ top.todo = EntryNames(before, Source)
       /\ top.mode = before[Source].mode
  BY <1>1 DEF Frame
<1> HIDE DEF top
<1>13. DOMAIN stack' = {1} /\ stack'[1] = top
  BY <1>1
<1>14. FramesInv'
  <2>1. Reads(1, Base)'
    <3>1. Opened(Base)'
      BY <1>2, <1>3 DEF Opened, Ignored
    <3>2. {stack'[j].phys : j \in 1..(1 - 1)} = {}
      OBVIOUS
    <3> QED
      BY <1>2, <1>3, <1>12, <1>13, <3>1, <3>2 DEF Reads
  <2>2. FrameAt(1)'
    <3>1. Len(<< >>) = 0 /\ 1 - 1 = 0 /\ 1..(1 - 1) = {}
      OBVIOUS
    <3>2. \E d \in Unfolded' : Reads(1, d)'
      BY <1>2, <1>3, <2>1
    <3> QED
      BY <1>2, <1>12, <1>13, <3>1, <3>2 DEF FrameAt
  <2>3. visiting' = IF follow' THEN {stack'[k].phys : k \in DOMAIN stack'} ELSE {}
    BY <1>1, <1>2, <1>12, <1>13
  <2> QED
    BY <1>13, <2>2, <2>3 DEF FramesInv
<1>15. Met' = {Base}
  <2>1. ASSUME NEW e \in Unfolded PROVE Ahead(e)' <=> e # Base
    <3>1. Through(1, e.rel)' <=> Len(e.rel) >= 0
      BY DEF Through
    <3>2. e.rel \in Paths /\ Len(e.rel) \in Nat
      BY <1>1, TreeTyped DEF CopyEntries, Paths
    <3>3. Ahead(e)' <=> Len(e.rel) >= 1 /\ e.rel[1] \in EntryNames(before, Source)
      BY <1>12, <1>13, <3>1, <3>2 DEF Ahead
    <3>4. e = Base => ~(Len(e.rel) >= 1)
      BY <1>3
    <3> QED
      BY <1>3, <3>3, <3>4
  <2> QED
    BY <1>2, <1>3, <2>1 DEF Met
<1>16. MetInv'
  <2>1. Cardinality({Base}) = 1
    BY FS_Singleton
  <2> QED
    BY <1>1, <1>2, <1>3, <1>15, <2>1 DEF MetInv
<1>17. DstInv'
  <2>1. Copied' = {Base}
    <3>1. before[Base.from].kind # "pipe"
      BY <1>3
    <3> QED
      BY <1>2, <1>3, <1>15, <3>1 DEF Copied
  <2>2. r \o Base.rel = r
    BY <1>1, <1>3, ConcatEmptySeq DEF Paths
  <2>3. On(Base)'
    BY <1>3, <1>12, <1>13 DEF On
  <2>4. DOMAIN fs' = DOMAIN before \cup OnTheWay(r) \cup {r \o e.rel : e \in {Base}}
    BY <1>6, <1>9, <2>2
  <2>5. \A e \in Copied' : e = Base
    BY <2>1
  <2> QED
    BY <1>2, <1>10, <2>1, <2>2, <2>3, <2>4, <2>5 DEF DstInv, OnTheWay
<1> QED
  BY <1>11, <1>14, <1>16, <1>17

LEMMA StartOutcome ==
    ASSUME CopyInv, CopyInv', Start
    PROVE  WalkInv' /\ CopyOutcome'
<1>1. CASE copy' = "tree"
  <2>1. ~Overlap' => FilesInv' /\ FramesInv' /\ MetInv' /\ DstInv'
    BY <1>1, StartWalks
  <2> QED
    BY <1>1, <2>1 DEF WalkInv, CopyOutcome, DoneIsWhole, FailsForReason, Errors
<1>2. CASE copy' # "tree"
  <2>1. \/ copy' = "inside" /\ IsPrefix(Source, root')
        \/ copy' = "write" /\ ~Makeable(root') /\ fs' = fs
    BY <1>2 DEF Start, Ends
  <2>2. copy' = "write" => ~Makeable(root)'
    BY <2>1 DEF Makeable, Is, Exists
  <2> QED
    BY <1>2, <2>1, <2>2 DEF WalkInv, CopyOutcome, DoneIsWhole, FailsForReason, Errors
<1> QED
  BY <1>1, <1>2

LEMMA SkipOutcome ==
    ASSUME Walking, Redirected \/ DstInv, NEW n \in Top.todo, UNCHANGED <<given, root>>, SkipEntry(n)
    PROVE  WalkInv' /\ CopyOutcome'
<1>1. FilesInv' /\ FramesInv' /\ MetInv' /\ Met' = Met /\ \A e : On(e)' <=> On(e)
  BY SkipWalks
<1>2. copy' = "tree" /\ fs' = fs
  BY DEF SkipEntry, Walking
<1>3. Redirected' \/ DstInv'
  <2>1. Copied' = Copied
    BY <1>1, SameTree DEF Copied, given
  <2> QED
    BY <1>1, <1>2, <2>1, SameTree, DstSame
<1> QED
  BY <1>1, <1>2, <1>3, StillWalks

(* The budget is used up: there is an entry that was not met.                *)
LEMMA LimitOutcome ==
    ASSUME Walking, NEW n \in Top.todo, UNCHANGED <<given, root>>, CountFails(n)
    PROVE  WalkInv' /\ CopyOutcome'
<1>1. PICK d : Reads(Len(stack), d)
  BY WalkingIs
<1> DEFINE x == Below(d, n)
<1>2. x \in Unfolded /\ x \notin Met
  BY <1>1, ChildCounts, InEntryIs DEF CountFails
<1> HIDE DEF x
<1>3. /\ MaxEntries \in Nat /\ entries \in Nat /\ entries >= MaxEntries
      /\ Cardinality(Met) = entries + 1 /\ IsFiniteSet(Unfolded)
  BY WalkingIs, UnfoldedHas, CopyAssumption DEF CopyAssumption, Walking, MetInv, CopyInv, EntriesInv, CountFails
<1>4. IsFiniteSet(Met)
  BY <1>3, FS_Subset DEF Met
<1>5. Cardinality(Met \cup {x}) = entries + 2
  <2>1. Cardinality(Met \cup {x}) = Cardinality(Met) + 1
    BY <1>2, <1>4, FS_AddElement
  <2> QED
    BY <1>3, <2>1
<1>6. Met \cup {x} \in SUBSET Unfolded
  BY <1>2 DEF Met
<1>7. Cardinality(Met \cup {x}) <= Cardinality(Unfolded) /\ Cardinality(Unfolded) \in Nat
  BY <1>3, <1>6, FS_Subset, FS_CardinalityType
<1>8. Cardinality(Unfolded) > MaxEntries + 1
  BY <1>3, <1>5, <1>7
<1> QED
  BY <1>8, Failed DEF CountFails, Ends, Errors

LEMMA PassOutcome ==
    ASSUME Walking, Redirected \/ DstInv, NEW n \in Top.todo, NEW d, Reads(Len(stack), d),
           Below(d, n) \in Unfolded,
           \/ Ignored(Below(d, n))
           \/ Below(d, n).from \in DOMAIN before /\ before[Below(d, n).from].kind = "pipe",
           Count(n), Pass(n), UNCHANGED <<given, root>>
    PROVE  WalkInv' /\ CopyOutcome'
<1> DEFINE x == Below(d, n)
<1>1. stack' = Taken(n) /\ UNCHANGED <<fs, visiting, copy>>
  BY DEF Pass
<1>2. FramesInv' /\ MetInv' /\ Met' = Met \cup {x} /\ \A e : On(e)' <=> On(e)
  BY <1>1, LeafWalks
<1>3. Copied' = Copied
  <2>1. x \notin Kept \/ before[x.from].kind = "pipe"
    BY DEF Kept
  <2> HIDE DEF x
  <2> QED
    BY <1>2, <2>1, SameTree DEF Copied, given
<1>4. Redirected' \/ DstInv'
  BY <1>1, <1>2, <1>3, SameTree, DstSame
<1> QED
  BY <1>1, <1>2, <1>4, FilesSame, StillWalks DEF Walking

LEMMA WriteOutcome ==
    ASSUME Walking, Redirected \/ DstInv, NEW n \in Top.todo, NEW d, Reads(Len(stack), d),
           Below(d, n) \in Kept, Below(d, n).from \in DOMAIN before,
           Below(d, n).from \in DOMAIN fs, fs[Below(d, n).from] = before[Below(d, n).from],
           before[Below(d, n).from].kind = "file",
           Count(n), Write(n, Below(d, n).from), UNCHANGED <<given, root>>
    PROVE  WalkInv' /\ CopyOutcome'
<1> DEFINE x == Below(d, n)
           q == Place(Rel(n))
<1>1. /\ root \in Paths /\ PlaceInv /\ ~Overlap /\ copy = "tree" /\ Len(stack) \in Nat
      /\ \A k \in 1..Len(stack) : Len(stack[k].rel) = k - 1
      /\ DOMAIN stack = 1..Len(stack)
  BY WalkingIs DEF Walking
<1>2. /\ x.rel = Rel(n) /\ Rel(n) \in Paths /\ Len(Rel(n)) = Len(stack)
  BY ChildIs
<1>3. x \in Unfolded /\ x \in Kept /\ ~IsPrefix(root, x.from)
  BY <1>1, KeptApart DEF Kept
<1>4. CASE /\ q # Nowhere /\ q # x.from /\ Writable(q)
           /\ fs' = Put(q, fs[x.from]) /\ stack' = Taken(n) /\ UNCHANGED <<visiting, copy>>
  <2>1. FramesInv' /\ MetInv' /\ Met' = Met \cup {x} /\ \A e : On(e)' <=> On(e)
    BY <1>3, <1>4, LeafWalks
  <2>2. q \in Paths /\ Is(x.from, "file")
    BY <1>2, <1>4, PlaceTyped DEF Is, Exists
  <2>3. FilesInv'
    <3> HIDE DEF q, x
    <3> QED
      BY <1>4, <2>2, WriteKeepsFiles
  <2>4. ASSUME DstInv, ~Redirected PROVE DstInv'
    <3>1. q = root \o x.rel
      BY <1>2, <1>4, <2>4, PlaceNext
    <3>2. ~On(x)
      BY <1>1, <1>2 DEF On
    <3>3. /\ DOMAIN fs' = DOMAIN fs \cup {q} /\ \A p \in DOMAIN fs : p # q => fs'[p] = fs[p]
          /\ fs'[q] = before[x.from]
      BY <1>4 DEF Put
    <3>4. before[x.from].kind # "pipe"
      OBVIOUS
    <3> HIDE DEF q, x
    <3> QED
      BY <1>3, <2>1, <2>4, <3>1, <3>2, <3>3, <3>4, DstAdds
  <2>5. Redirected' \/ DstInv'
    BY <2>4, SameTree
  <2> QED
    BY <1>1, <1>4, <2>1, <2>3, <2>5, StillWalks
<1>5. CASE Error(n, "write") /\ ~(q # Nowhere /\ q # x.from /\ Writable(q))
  <2>1. root \in DOMAIN before
    <3> SUFFICES ASSUME root \notin DOMAIN before PROVE FALSE
      OBVIOUS
    <3>1. ~Redirected
      BY <1>1, NothingThere DEF Redirected
    <3>2. q # Nowhere /\ Writable(q) /\ IsPrefix(root, q)
      BY <3>1, NoObstacle
    <3> QED
      BY <1>3, <1>5, <3>2
  <2> QED
    BY <1>5, <2>1, Failed DEF Error, Errors
<1> QED
  BY <1>4, <1>5 DEF Write

LEMMA EnterOutcome ==
    ASSUME Walking, Redirected \/ DstInv, CopyInv', NEW n \in Top.todo, NEW d, Reads(Len(stack), d),
           Below(d, n) \in Kept, Below(d, n).from \in DOMAIN before,
           Below(d, n).from \in DOMAIN fs, fs[Below(d, n).from] = before[Below(d, n).from],
           before[Below(d, n).from].kind = "dir",
           Count(n), Enter(n, Below(d, n).from), UNCHANGED <<given, root>>
    PROVE  WalkInv' /\ CopyOutcome'
<1>0. PICK x : x = Below(d, n)
  OBVIOUS
<1> DEFINE q == Place(Rel(n))
           made == IF Exists(q) THEN fs ELSE Put(q, Dir("rw"))
           linked == Is(Append(Place(Top.rel), n), "link")
           ready == Is(q, "dir") \/ (q # Nowhere /\ ~linked /\ ~Exists(q) /\ Writable(q))
<1>1. /\ root \in Paths /\ PlaceInv /\ ~Overlap /\ copy = "tree" /\ FramesInv
  BY WalkingIs DEF Walking
<1>2. /\ x.rel = Rel(n) /\ Rel(n) \in Paths /\ x.above = {stack[k].phys : k \in DOMAIN stack}
  BY <1>0, ChildIs
<1>3. x \in Unfolded /\ x \in Kept /\ ~IsPrefix(root, x.from) /\ x.from \in Dirs
  BY <1>0, <1>1, KeptApart DEF Kept, Dirs
<1>4. \/ x.from \in visiting /\ Error(n, "cycle")
      \/ /\ x.from \notin visiting /\ ready
         /\ fs' = made /\ stack' = Append(Taken(n), Frame(made, x.from, Rel(n)))
         /\ visiting' = IF follow THEN visiting \cup {x.from} ELSE visiting
         /\ UNCHANGED copy
      \/ ~ready /\ Error(n, "write")
  BY <1>0 DEF Enter
<1> HIDE DEF q, made, linked
<1>5. CASE x.from \in visiting /\ Error(n, "cycle")
  <2>1. x.from \in x.above
    BY <1>1, <1>2, <1>5 DEF FramesInv
  <2>2. Looping # {}
    BY <1>3, <2>1 DEF Looping
  <2> QED
    BY <1>5, <2>2, Failed DEF Error, Errors
<1>6. CASE /\ x.from \notin visiting /\ ready
           /\ fs' = made /\ stack' = Append(Taken(n), Frame(made, x.from, Rel(n)))
           /\ visiting' = IF follow THEN visiting \cup {x.from} ELSE visiting
           /\ UNCHANGED copy
  <2>1. q # Nowhere /\ (Exists(q) => Is(q, "dir"))
    BY <1>1, <1>6 DEF Is, Exists, PlaceInv
  <2>2. EnteredAs(n, x)
    BY <1>6 DEF EnteredAs, made, q
  <2>3. /\ FilesInv' /\ FramesInv' /\ MetInv' /\ Met' = Met \cup {x}
        /\ \A e : On(e)' <=> On(e) \/ e.rel = Rel(n)
    BY <1>0, <1>3, <1>6, <2>1, <2>2, EnterWalks DEF q
  <2>4. ASSUME DstInv, ~Redirected PROVE DstInv'
    <3>1. ~Is(q, "link")
      BY <2>1 DEF Is
    <3>2. q = root \o x.rel
      <4>1. Is(root \o Rel(n), "link") => q = Nowhere
        BY <2>4, PlaceNext DEF q
      <4> QED
        BY <1>2, <2>1, <2>4, <4>1, PlaceNext DEF q
    <3>3. /\ DOMAIN fs' = DOMAIN fs \cup {q} /\ \A p \in DOMAIN fs : p # q => fs'[p] = fs[p]
      BY <1>6 DEF made, Put, Exists
    <3>4. fs'[q].kind = "dir" /\ (root \notin DOMAIN before => fs'[q].mode = "rw")
      <4>1. CASE Exists(q)
        <5>1. root \in DOMAIN before
          <6>1. root \notin DOMAIN before => ~Exists(q)
            BY <2>4, NoObstacle DEF q
          <6> QED
            BY <4>1, <6>1
        <5> QED
          BY <1>6, <2>1, <4>1, <5>1 DEF made, Is
      <4>2. CASE ~Exists(q)
        <5>1. fs'[q] = Dir("rw")
          BY <1>6, <4>2 DEF made, Put
        <5>2. Dir("rw").kind = "dir" /\ Dir("rw").mode = "rw"
          BY DEF Dir
        <5> QED
          BY <5>1, <5>2
      <4> QED
        BY <4>1, <4>2
    <3>5. On(x)' /\ before[x.from].kind # "pipe"
      BY <1>0, <1>2, <2>3
    <3>6. \A e : e.rel # x.rel => (On(e)' <=> On(e))
      BY <1>2, <2>3
    <3> QED
      BY <1>3, <2>3, <2>4, <3>2, <3>3, <3>4, <3>5, <3>6, DstAdds
  <2>5. Redirected' \/ DstInv'
    BY <2>4, SameTree
  <2> QED
    BY <1>1, <1>6, <2>3, <2>5, StillWalks
<1>7. CASE ~ready /\ Error(n, "write")
  <2>1. root \in DOMAIN before
    <3> SUFFICES ASSUME root \notin DOMAIN before PROVE FALSE
      OBVIOUS
    <3>1. ~Redirected
      BY <1>1, NothingThere DEF Redirected
    <3>2. q # Nowhere /\ ~Exists(q) /\ Writable(q) /\ ~linked
      BY <3>1, NoObstacle DEF q, linked
    <3> QED
      BY <1>7, <3>2
  <2> QED
    BY <1>7, <2>1, Failed DEF Error, Errors
<1> QED
  BY <1>4, <1>5, <1>6, <1>7

LEMMA LeaveOutcome ==
    ASSUME Walking, Redirected \/ DstInv, Top.todo = {}, Leave, UNCHANGED <<given, root>>
    PROVE  WalkInv' /\ CopyOutcome'
<1> DEFINE l == Len(stack)
           q == root \o Top.rel
<1>1. /\ FilesInv' /\ FramesInv' /\ MetInv' /\ Met' = Met
      /\ Len(stack) = 1 => Met = Unfolded /\ \A e : ~On(e)'
      /\ \A e : On(e)' <=> On(e) /\ e.rel # Top.rel
  BY LeaveWalks
<1>2. /\ before \in Systems /\ l \in 1..l /\ Top = stack[l] /\ Top.rel \in Paths /\ copy = "tree"
  BY WalkingIs DEF Walking
<1>3. PICK d \in Kept : Reads(l, d)
  BY <1>2, WalkingIs
<1>4. d \in Met /\ d.rel = Top.rel /\ before[d.from] = Dir(Top.mode) /\ before[d.from].kind = "dir"
  <2>1. d \in Met
    BY <1>2, <1>3, ReadIsMet
  <2>2. d.from \in DOMAIN before /\ before[d.from].kind = "dir" /\ Top.mode = before[d.from].mode
    BY <1>2, <1>3 DEF Reads, Opened, Dirs
  <2>3. before[d.from] = Dir(before[d.from].mode)
    BY <1>2, <2>2, SystemIs
  <2> QED
    BY <1>2, <1>3, <2>1, <2>2, <2>3 DEF Reads
<1>5. ASSUME DstInv PROVE DstInv'
  <2>1. Place(Top.rel) = q /\ Is(q, "dir") /\ ~Is(q, "link")
    BY <1>2, <1>5, PlaceTop, CopyingInto
  <2>2. fs' = [fs EXCEPT ![q].mode = Top.mode]
    BY <2>1 DEF Leave
  <2>3. fs'[q] = Dir(Top.mode)
    BY <2>1, <2>2, LeaveKeepsFiles
  <2>4. DOMAIN fs' = DOMAIN fs \cup {q} /\ \A p \in DOMAIN fs : p # q => fs'[p] = fs[p]
    BY <2>1, <2>2 DEF Is, Exists
  <2>5. ~On(d)' /\ \A e : e.rel # d.rel => (On(e)' <=> On(e))
    BY <1>1, <1>4
  <2>6. Met' = Met \cup {d} /\ before[d.from].kind # "pipe"
    BY <1>1, <1>4
  <2> QED
    BY <1>3, <1>4, <1>5, <2>3, <2>4, <2>5, <2>6, DstAdds
<1>6. Redirected' \/ DstInv'
  BY <1>5, SameTree
<1>7. CASE l # 1
  BY <1>1, <1>2, <1>6, <1>7, StillWalks DEF Leave
<1>8. CASE l = 1
  <2>1. copy' = "done" /\ Met = Unfolded /\ \A e : ~On(e)'
    BY <1>1, <1>8 DEF Leave
  <2>2. before' = before /\ root' = root /\ Kept' = Kept /\ Looping' = Looping /\ Dangling' = Dangling
        /\ Redirected' = Redirected
    BY SameTree DEF given
  <2>3. Met \cap Kept = Kept
    BY <2>1 DEF Kept
  <2>4. Looping = {} /\ Dangling = {}
    BY <2>3 DEF Walking, MetInv, Looping, Dangling
  <2>5. Copied' = {e \in Kept : before[e.from].kind # "pipe"}
    BY <1>1, <2>2, <2>3 DEF Copied
  <2>6. DstInv' =>
            LET copied == {e \in Kept : before[e.from].kind # "pipe"}
            IN  /\ \A e \in copied : root \o e.rel \in DOMAIN fs' /\ fs'[root \o e.rel] = before[e.from]
                /\ DOMAIN fs' = DOMAIN before \cup OnTheWay(root) \cup {root \o e.rel : e \in copied}
    <3>1. OnTheWay(root)' = OnTheWay(root)
      BY <2>2 DEF OnTheWay
    <3>2. DstInv' => \A e \in Copied' : /\ root' \o e.rel \in DOMAIN fs'
                                        /\ ~On(e)' => fs'[root' \o e.rel] = before'[e.from]
      BY DEF DstInv
    <3>3. DstInv' => DOMAIN fs' = DOMAIN before' \cup OnTheWay(root)' \cup {root' \o e.rel : e \in Copied'}
      BY DEF DstInv
    <3> QED
      BY <2>1, <2>2, <2>5, <3>1, <3>2, <3>3
  <2>7. DoneIsWhole'
    BY <1>6, <2>2, <2>4, <2>6 DEF DoneIsWhole, OnTheWay
  <2> QED
    BY <2>1, <2>7 DEF WalkInv, CopyOutcome, FailsForReason, Errors
<1> QED
  BY <1>7, <1>8

(* A copy whose source leads into the destination is no concern of these.    *)
LEMMA OverlapOutcome ==
    ASSUME Overlap, UNCHANGED <<given, root>>
    PROVE  WalkInv' /\ CopyOutcome'
  BY SameTree DEF WalkInv, CopyOutcome, DoneIsWhole, FailsForReason

LEMMA OutcomeNext == ASSUME OutcomeInv, [CopyNext]_copyVars PROVE OutcomeInv'
<1>1. CopyInv /\ CopyInv' /\ WalkInv /\ CopyOutcome
  BY CopyNextKeeps DEF OutcomeInv
<1>2. CASE Start
  BY <1>1, <1>2, StartOutcome DEF OutcomeInv
<1>3. CASE Copy /\ Overlap
  BY <1>1, <1>3, OverlapOutcome DEF OutcomeInv, Copy
<1>4. CASE Copy /\ ~Overlap
  <2>1. copy = "tree" /\ UNCHANGED <<given, root>> /\ Walking /\ (Redirected \/ DstInv)
    BY <1>1, <1>4 DEF Copy, WalkInv, Walking
  <2>2. CASE Top.todo = {} /\ Leave
    BY <1>1, <2>1, <2>2, LeaveOutcome DEF OutcomeInv
  <2>3. ASSUME NEW n \in Top.todo, CopyTree(n) PROVE WalkInv' /\ CopyOutcome'
    <3>1. CASE SkipEntry(n)
      BY <2>1, <3>1, SkipOutcome
    <3>2. CASE CountFails(n)
      BY <2>1, <3>2, LimitOutcome
    <3>3. CASE Count(n) /\ (CopyEntry(n) \/ CopySymlink(n))
      <4>1. PICK d : Reads(Len(stack), d)
        BY <2>1, WalkingIs
      <4> DEFINE x == Below(d, n)
      <4>2. /\ x \in Unfolded
            /\ \/ Ignored(x) /\ Pass(n)
               \/ x \in Kept /\ x.from \notin DOMAIN before /\ Error(n, "dangling")
               \/ /\ x \in Kept /\ x.from \in DOMAIN before
                  /\ x.from \in DOMAIN fs /\ fs[x.from] = before[x.from]
                  /\ \/ before[x.from].kind = "dir" /\ Enter(n, x.from)
                     \/ before[x.from].kind = "file" /\ Write(n, x.from)
                     \/ before[x.from].kind = "pipe" /\ Pass(n)
        BY <2>1, <2>3, <3>3, <4>1, EntrySteps
      <4>3. CASE Ignored(x) /\ Pass(n)
        BY <2>1, <2>3, <3>3, <4>1, <4>2, <4>3, PassOutcome
      <4>4. CASE x \in Kept /\ x.from \notin DOMAIN before /\ Error(n, "dangling")
        <5>1. Dangling # {}
          BY <4>4 DEF Dangling
        <5> QED
          BY <2>1, <4>4, <5>1, Failed DEF Error, Errors
      <4>5. CASE /\ x \in Kept /\ x.from \in DOMAIN before
                 /\ x.from \in DOMAIN fs /\ fs[x.from] = before[x.from]
                 /\ before[x.from].kind = "dir" /\ Enter(n, x.from)
        BY <1>1, <2>1, <2>3, <3>3, <4>1, <4>5, EnterOutcome
      <4>6. CASE /\ x \in Kept /\ x.from \in DOMAIN before
                 /\ x.from \in DOMAIN fs /\ fs[x.from] = before[x.from]
                 /\ before[x.from].kind = "file" /\ Write(n, x.from)
        BY <2>1, <2>3, <3>3, <4>1, <4>6, WriteOutcome
      <4>7. CASE /\ x \in Kept /\ x.from \in DOMAIN before
                 /\ before[x.from].kind = "pipe" /\ Pass(n)
        BY <2>1, <2>3, <3>3, <4>1, <4>2, <4>7, PassOutcome
      <4> HIDE DEF x
      <4> QED
        BY <4>2, <4>3, <4>4, <4>5, <4>6, <4>7
    <3> QED
      BY <2>3, <3>1, <3>2, <3>3 DEF CopyTree
  <2> QED
    BY <1>1, <1>4, <2>2, <2>3 DEF Copy, OutcomeInv
<1>5. CASE CopyQuiet \/ UNCHANGED copyVars
  <2>1. UNCHANGED copyVars
    BY <1>5 DEF CopyQuiet
  <2>2. UNCHANGED <<given, root, fs, copy, stack, visiting, entries>>
    BY <2>1 DEF copyVars, given
  <2>3. CopyOutcome'
    BY <1>1, <2>2, SameTree DEF CopyOutcome, DoneIsWhole, FailsForReason, Makeable, OnTheWay, Is, Exists, given
  <2>4. ASSUME copy = "tree", ~Overlap PROVE FilesInv' /\ FramesInv' /\ MetInv' /\ (Redirected' \/ DstInv')
    <3>1. Walking /\ (Redirected \/ DstInv)
      BY <1>1, <2>4 DEF WalkInv, Walking
    <3>2. FilesInv'
      BY <2>2, <3>1, FilesSame
    <3>3. Met' = Met /\ \A e : On(e)' <=> On(e)
      BY <2>2, SameTree DEF Met, Ahead, Through, On
    <3>4. FramesInv'
      BY <2>2, <3>1, FrameKept, WalkingIs DEF Walking, FramesInv, given
    <3>5. MetInv'
      BY <2>2, <3>1, <3>3, SameTree DEF Walking, MetInv, given
    <3>6. Copied' = Copied
      BY <2>2, <3>3, SameTree DEF Copied, given
    <3> QED
      BY <2>2, <3>1, <3>2, <3>3, <3>4, <3>5, <3>6, SameTree, DstSame
  <2>5. WalkInv'
    BY <2>2, <2>4, SameTree DEF WalkInv
  <2> QED
    BY <1>1, <2>3, <2>5 DEF OutcomeInv
<1> QED
  BY <1>2, <1>3, <1>4, <1>5 DEF CopyNext

--------------------------------------------------------------------------------
(* What a copy has met so far is in the destination, and what it has not is  *)
(* ahead of one of the calls of copyTree that have not returned.             *)
THEOREM OutcomeInvariant == CopySpec => []OutcomeInv
<1>1. CopyInit => OutcomeInv
  BY CopyStart DEF CopyInit, OutcomeInv, WalkInv, CopyOutcome, DoneIsWhole, FailsForReason, Errors
<1> QED
  BY <1>1, OutcomeNext, PTL DEF CopySpec

(* A copy that ends well is the source with its links resolved, and one that *)
(* fails has met what its error says (CopyDir, copyTree).                    *)
THEOREM CopyOutcomeHolds == CopySpec => []CopyOutcome
<1>1. OutcomeInv => CopyOutcome
  BY DEF OutcomeInv
<1> QED
  BY <1>1, OutcomeInvariant, PTL

--------------------------------------------------------------------------------
(* ModuleFetch: what a process of timoni holds. *)

FetchFacts(p) ==
    PartlyExtracted(p) /\ VerifiedAhead(p) /\ MemoCorrect(p) /\ AcceptedOnly(p)

LEMMA KeyType == ASSUME NEW m \in Modules PROVE Key(m) \in Keys
BY ModuleAssumption DEF Key, Keys

LEMMA ResolveType ==
    ASSUME TypeOK, NEW k \in Keys PROVE Resolve(k) \in Digests
BY DEF TypeOK, Keys, Resolve

--------------------------------------------------------------------------------
(* Type correctness. *)

LEMMA TypeInit == Init => TypeOK
<1> SUFFICES ASSUME Init PROVE TypeOK
    OBVIOUS
<1>1. Started \in Memory
    BY ModuleAssumption DEF Started, Memory
<1> QED
    BY <1>1, BoundAssumption DEF Init, TypeOK, Files

Stages == {"next", "manifest", "layer", "pull", "download", "publish",
           "extract", "accept"} \cup Outcomes

LEMMA BecomesType ==
    ASSUME TypeOK, NEW p \in Procs, NEW m \in Memory, Becomes(p, m)
    PROVE  proc' \in [Procs -> Memory]
BY DEF TypeOK, Becomes

LEMMA GotoType ==
    ASSUME NEW m \in Memory, NEW doing \in Stages PROVE Goto(m, doing) \in Memory
BY DEF Goto, Memory, Stages

LEMMA TypeNext == TypeOK /\ [Next]_vars => TypeOK'
<1> SUFFICES ASSUME TypeOK, [Next]_vars PROVE TypeOK'
    OBVIOUS
<1>a. \A p \in Procs : proc[p] \in Memory
    BY DEF TypeOK
<1>b. \A doing \in {"next", "manifest", "layer", "pull", "download", "publish",
                     "extract", "accept", "done", "failed", "killed"} : doing \in Stages
    BY DEF Stages, Outcomes
<1>1. ASSUME NEW p \in Procs, NextModule(p) PROVE TypeOK'
  <2>1. PICK m \in proc[p].todo :
            Becomes(p, [proc[p] EXCEPT
               !.module = m, !.todo = @ \ {m},
               !.pc = IF proc[p].fetched[Key(m)] # NoDigest THEN "accept" ELSE "manifest"])
      BY <1>1 DEF NextModule
  <2>2. [proc[p] EXCEPT !.module = m, !.todo = @ \ {m},
             !.pc = IF proc[p].fetched[Key(m)] # NoDigest THEN "accept" ELSE "manifest"]
            \in Memory
      BY <1>a DEF Memory
  <2>3. proc' \in [Procs -> Memory]
      BY <2>1, <2>2, BecomesType
  <2> QED
      BY <1>1, <2>3 DEF NextModule, TypeOK
<1>2. ASSUME NEW p \in Procs, GetManifest(p) PROVE TypeOK'
  <2> DEFINE d == Resolve(Key(proc[p].module))
  <2>1. proc[p].module \in Modules
      BY <1>a DEF Memory
  <2>2. d \in Digests
      BY <2>1, KeyType, ResolveType
  <2> HIDE DEF d
  <2>3. [proc[p] EXCEPT !.pc = "layer", !.digest = d, !.left = Content[d]] \in Memory
      BY <1>a, <2>2, ContentAssumption DEF Memory
  <2>4. proc' \in [Procs -> Memory]
      BY <1>2, <2>3, BecomesType DEF GetManifest, d
  <2> QED
      BY <1>2, <2>4 DEF GetManifest, TypeOK
<1>3. ASSUME NEW p \in Procs, VerifyLayer(p) PROVE TypeOK'
  <2>1. PICK l \in proc[p].left :
            Becomes(p, [proc[p] EXCEPT !.layer = l,
                                       !.pc = IF IsCached(l) THEN "extract" ELSE "pull"])
      BY <1>3 DEF VerifyLayer
  <2>2. [proc[p] EXCEPT !.layer = l, !.pc = IF IsCached(l) THEN "extract" ELSE "pull"]
            \in Memory
      BY <1>a DEF Memory
  <2>3. proc' \in [Procs -> Memory]
      BY <2>1, <2>2, BecomesType
  <2> QED
      BY <1>3, <2>3 DEF VerifyLayer, TypeOK
<1>4. ASSUME NEW p \in Procs, CreateTemp(p) \/ Downloaded(p) \/ Publish(p) PROVE TypeOK'
  <2>1. PICK doing \in {"download", "publish", "extract"} : Becomes(p, Goto(proc[p], doing))
      BY <1>4 DEF CreateTemp, Downloaded, Publish
  <2>2. proc' \in [Procs -> Memory]
      BY <2>1, <1>a, <1>b, GotoType, BecomesType
  <2>3. proc[p].layer \in Layers /\ temp[p] \in Files
      BY <1>a DEF Memory, TypeOK
  <2> QED
      BY <1>4, <2>2, <2>3 DEF CreateTemp, Downloaded, Publish, SetTemp, Files, TypeOK
<1>5. ASSUME NEW p \in Procs, ExtractLayer(p) PROVE TypeOK'
  <2> DEFINE s == proc[p]
             k == Key(s.module)
             left == s.left \ {s.layer}
             memo == [s.fetched EXCEPT ![k] = s.digest]
             last == [s EXCEPT !.pc = "accept", !.left = {},
                               !.fetched = [@ EXCEPT ![k] = s.digest]]
  <2>1. /\ s \in Memory /\ s.module \in Modules /\ s.layer \in Layers
        /\ s.digest \in Digests \cup {NoDigest}
        /\ s.fetched \in [Keys -> Digests \cup {NoDigest}]
      BY <1>a DEF Memory
  <2>2. k \in Keys /\ cache[s.layer] \in Files
      BY <2>1, KeyType DEF TypeOK
  <2>3. dir' \in [Procs -> [Keys -> SUBSET (Layers \X Files)]]
    <3> DEFINE f == <<s.layer, cache[s.layer]>>
    <3>1. f \in Layers \X Files
        BY <2>1, <2>2
    <3>2. dir' = [dir EXCEPT ![p][k] = @ \cup {f}]
        BY <1>5 DEF ExtractLayer
    <3> HIDE DEF f, k
    <3> QED
        BY <3>1, <3>2, <2>2 DEF TypeOK
  <2>4. memo \in [Keys -> Digests \cup {NoDigest}]
      BY <2>1
  <2>5. last \in Memory
      BY <2>1, <2>4 DEF Memory
  <2>6. [s EXCEPT !.pc = "layer", !.left = left] \in Memory
      BY <2>1 DEF Memory
  <2>7. proc' \in [Procs -> Memory]
      BY <1>5, <2>5, <2>6, BecomesType DEF ExtractLayer
  <2> QED
      BY <1>5, <2>3, <2>7 DEF ExtractLayer, TypeOK
<1>6. ASSUME NEW p \in Procs, Accept(p) PROVE TypeOK'
  <2> DEFINE s == proc[p]
  <2>1. [s EXCEPT !.built = @ \cup {s.module},
                  !.pc = IF s.todo = {} THEN "done" ELSE "next"] \in Memory
      BY <1>a, ZenonT(60) DEF Memory, Outcomes
  <2>2. Goto(s, "failed") \in Memory
      BY <1>a, <1>b, GotoType
  <2>3. proc' \in [Procs -> Memory]
      BY <1>6, <2>1, <2>2, BecomesType DEF Accept
  <2> QED
      BY <1>6, <2>3 DEF Accept, TypeOK
<1>7. ASSUME NEW p \in Procs, Fault(p) PROVE TypeOK'
  <2>1. PICK doing \in {"extract", "failed", "killed"} : Becomes(p, Goto(proc[p], doing))
      BY <1>7 DEF Fault, DownloadFails, PublishFails, Fails, Kill
  <2>2. proc' \in [Procs -> Memory]
      BY <2>1, <1>a, <1>b, GotoType, BecomesType
  <2>3. faults' \in 0..MaxFaults
      BY <1>7, BoundAssumption DEF Fault, DownloadFails, PublishFails, Fails, Kill, Inject, TypeOK
  <2> QED
      BY <1>7, <2>2, <2>3
      DEF Fault, DownloadFails, PublishFails, Fails, Kill, SetTemp, Files, TypeOK
<1>8. ASSUME MoveTag PROVE TypeOK'
    BY <1>8, BoundAssumption DEF MoveTag, TypeOK
<1>9. ASSUME UNCHANGED vars PROVE TypeOK'
    BY <1>9 DEF vars, TypeOK
<1> QED
    BY <1>1, <1>2, <1>3, <1>4, <1>5, <1>6, <1>7, <1>8, <1>9 DEF Next, Step, Quiet

(* Tags, files, memories and directories stay within their types.            *)
THEOREM FetchTypeCorrect == Spec => []TypeOK
<1> QED
    BY TypeInit, TypeNext, PTL DEF Spec

--------------------------------------------------------------------------------
(* The cache. *)

LEMMA CacheStep ==
    ASSUME FetchInvariant, [Next]_vars, TypeOK, NEW l \in Layers, cache[l] = "whole"
    PROVE  cache'[l] = "whole"
<1>1. ASSUME NEW p \in Procs, Publish(p) PROVE cache'[l] = "whole"
    BY <1>1 DEF Publish, At, FetchInvariant, VerifiedAhead, TypeOK
<1>2. ASSUME NEW p \in Procs, Fault(p) PROVE cache'[l] = "whole"
    BY <1>2 DEF Fault, DownloadFails, PublishFails, Fails, Kill
<1> QED
    BY <1>1, <1>2
    DEF Next, Step, NextModule, GetManifest, VerifyLayer, CreateTemp, Downloaded,
        ExtractLayer, Accept, MoveTag, Quiet, vars

--------------------------------------------------------------------------------
(* The invariant. *)

LEMMA InvariantInit == Init => FetchInvariant
<1> SUFFICES ASSUME Init, NEW p \in Procs
             PROVE  PartlyExtracted(p) /\ VerifiedAhead(p) /\ MemoCorrect(p) /\ AcceptedOnly(p)
    BY DEF FetchInvariant
<1>1. proc[p] = Started /\ dir[p] = [k \in Keys |-> {}]
    BY DEF Init
<1> QED
    BY <1>1 DEF Started, PartlyExtracted, VerifiedAhead, MemoCorrect, AcceptedOnly, Pulling

(* A process keeps its facts when it does nothing and no file is spoiled.    *)
LEMMA FetchFrame ==
    ASSUME TypeOK, NEW q \in Procs, FetchFacts(q), proc'[q] = proc[q],
           dir'[q] = dir[q], temp'[q] = temp[q],
           \A l \in Layers : cache[l] = "whole" => cache'[l] = "whole"
    PROVE  FetchFacts(q)'
<1>1. proc[q].layer \in Layers
    BY DEF TypeOK, Memory
<1> QED
    BY <1>1 DEF FetchFacts, PartlyExtracted, VerifiedAhead, MemoCorrect, AcceptedOnly, Whole

LEMMA InvariantNext == TypeOK /\ FetchInvariant /\ [Next]_vars => FetchInvariant'
<1> SUFFICES ASSUME TypeOK, FetchInvariant, [Next]_vars, NEW q \in Procs
             PROVE  FetchFacts(q)'
    BY DEF FetchInvariant, FetchFacts
<1> DEFINE s == proc[q]
           key == Key(s.module)
<1>a. FetchFacts(q)
    BY DEF FetchInvariant, FetchFacts
<1>b. s \in Memory /\ s.module \in Modules /\ key \in Keys /\ s.layer \in Layers
    BY KeyType DEF TypeOK, Memory
<1>c. \A l \in Layers : cache[l] = "whole" => cache'[l] = "whole"
    BY CacheStep
<1>d. DOMAIN s.fetched = Keys /\ s.fetched \in [Keys -> Digests \cup {NoDigest}]
    BY <1>b DEF Memory
<1>0. ASSUME proc'[q] = proc[q], dir'[q] = dir[q], temp'[q] = temp[q]
      PROVE  FetchFacts(q)'
    BY <1>0, <1>a, <1>c, FetchFrame
<1>1. ASSUME NextModule(q) PROVE FetchFacts(q)'
  <2>1. PICK m \in s.todo :
            proc'[q] = [s EXCEPT !.module = m, !.todo = @ \ {m},
                            !.pc = IF s.fetched[Key(m)] # NoDigest THEN "accept" ELSE "manifest"]
      BY <1>1 DEF NextModule, Becomes, TypeOK
  <2>2. m \in Modules /\ s.pc = "next" /\ dir' = dir
      BY <1>1, <2>1, <1>b DEF NextModule, At, Memory
  <2>3. /\ proc'[q].module = m /\ proc'[q].fetched = s.fetched /\ proc'[q].built = s.built
        /\ proc'[q].pc = IF s.fetched[Key(m)] # NoDigest THEN "accept" ELSE "manifest"
      BY <2>1, <1>b DEF Memory
  <2> QED
      BY <2>2, <2>3, <1>a
      DEF FetchFacts, PartlyExtracted, VerifiedAhead, MemoCorrect, AcceptedOnly, Pulling, Whole
<1>2. ASSUME GetManifest(q) PROVE FetchFacts(q)'
  <2> DEFINE d == Resolve(key)
  <2>1. /\ proc'[q] = [s EXCEPT !.pc = "layer", !.digest = d, !.left = Content[d]]
        /\ s.pc = "manifest" /\ dir' = dir /\ d \in Digests
      BY <1>2, <1>b, ResolveType DEF GetManifest, Becomes, At, TypeOK
  <2>2. /\ proc'[q].module = s.module /\ proc'[q].fetched = s.fetched
        /\ proc'[q].built = s.built /\ proc'[q].pc = "layer"
        /\ proc'[q].digest = d /\ proc'[q].left = Content[d]
      BY <2>1, <1>b DEF Memory
  <2>3. dir[q][key] = {} /\ s.fetched[key] = NoDigest
      BY <2>1, <1>a, <1>b DEF FetchFacts, MemoCorrect
  <2>4. (Content[d] \ Content[d]) \X {"whole"} = {}
      OBVIOUS
  <2> QED
      BY <2>1, <2>2, <2>3, <2>4, <1>a, <1>b
      DEF FetchFacts, PartlyExtracted, VerifiedAhead, MemoCorrect, AcceptedOnly, Pulling, Whole
<1>3. ASSUME VerifyLayer(q) PROVE FetchFacts(q)'
  <2>1. PICK l \in s.left :
            proc'[q] = [s EXCEPT !.layer = l, !.pc = IF IsCached(l) THEN "extract" ELSE "pull"]
      BY <1>3 DEF VerifyLayer, Becomes, TypeOK
  <2>2. s.pc = "layer" /\ dir' = dir /\ cache' = cache
      BY <1>3 DEF VerifyLayer, At
  <2>3. /\ proc'[q].module = s.module /\ proc'[q].fetched = s.fetched
        /\ proc'[q].built = s.built /\ proc'[q].digest = s.digest
        /\ proc'[q].left = s.left /\ proc'[q].layer = l
        /\ proc'[q].pc = IF IsCached(l) THEN "extract" ELSE "pull"
      BY <2>1, <1>b DEF Memory
  <2> QED
      BY <2>1, <2>2, <2>3, <1>a
      DEF FetchFacts, PartlyExtracted, VerifiedAhead, MemoCorrect, AcceptedOnly, Pulling,
          IsCached, Whole
<1>4. ASSUME CreateTemp(q) \/ Downloaded(q) \/ Publish(q) PROVE FetchFacts(q)'
  <2>1. PICK doing \in {"download", "publish", "extract"} : proc'[q] = [s EXCEPT !.pc = doing]
      BY <1>4 DEF CreateTemp, Downloaded, Publish, Becomes, Goto, TypeOK
  <2>2. /\ proc'[q].module = s.module /\ proc'[q].fetched = s.fetched
        /\ proc'[q].built = s.built /\ proc'[q].digest = s.digest
        /\ proc'[q].left = s.left /\ proc'[q].layer = s.layer /\ proc'[q].pc = doing
      BY <2>1, <1>b DEF Memory
  <2>3. s.pc \in {"pull", "download", "publish"} /\ dir' = dir
      BY <1>4 DEF CreateTemp, Downloaded, Publish, At
  <2>4. VerifiedAhead(q)'
      BY <1>4, <1>a, <1>b, <2>2, <2>1
      DEF CreateTemp, Downloaded, Publish, At, Becomes, Goto, SetTemp, TypeOK, FetchFacts,
          VerifiedAhead, Memory
  <2> QED
      BY <2>1, <2>2, <2>3, <2>4, <1>a
      DEF FetchFacts, PartlyExtracted, MemoCorrect, AcceptedOnly, Pulling, Whole
<1>5. ASSUME ExtractLayer(q) PROVE FetchFacts(q)'
  <2> DEFINE left == s.left \ {s.layer}
  <2>1. /\ s.pc = "extract" /\ s.digest \in Digests /\ s.left \subseteq Content[s.digest]
        /\ s.layer \in s.left /\ cache[s.layer] = "whole" /\ s.fetched[key] = NoDigest
        /\ dir[q][key] = (Content[s.digest] \ s.left) \X {"whole"}
        /\ \A k \in Keys \ {key} :
               IF s.fetched[k] # NoDigest THEN dir[q][k] = Whole(s.fetched[k])
               ELSE dir[q][k] = {}
      BY <1>5, <1>a, <1>b DEF ExtractLayer, At, FetchFacts, PartlyExtracted, VerifiedAhead,
                             MemoCorrect, Pulling
  <2>2. dir'[q][key] = (Content[s.digest] \ left) \X {"whole"}
    <3>1. dir'[q][key] = dir[q][key] \cup {<<s.layer, "whole">>}
        BY <1>5, <1>b, <2>1 DEF ExtractLayer, TypeOK
    <3>2. Content[s.digest] \ left = (Content[s.digest] \ s.left) \cup {s.layer}
        BY <2>1
    <3>3. ((Content[s.digest] \ s.left) \cup {s.layer}) \X {"whole"}
              = ((Content[s.digest] \ s.left) \X {"whole"}) \cup {<<s.layer, "whole">>}
        OBVIOUS
    <3> QED
        BY <3>1, <3>2, <3>3, <2>1
  <2>3. \A k \in Keys \ {key} : dir'[q][k] = dir[q][k]
      BY <1>5, <1>b DEF ExtractLayer, TypeOK
  <2>4. CASE left # {}
    <3>1. proc'[q] = [s EXCEPT !.pc = "layer", !.left = left]
        BY <1>5, <2>4 DEF ExtractLayer, Becomes, TypeOK
    <3>2. /\ proc'[q].module = s.module /\ proc'[q].fetched = s.fetched
          /\ proc'[q].built = s.built /\ proc'[q].digest = s.digest
          /\ proc'[q].left = left /\ proc'[q].pc = "layer"
        BY <3>1, <1>b DEF Memory
    <3> HIDE DEF left
    <3>3. left \subseteq Content[s.digest]
        BY <2>1 DEF left
    <3> QED
        BY <3>2, <3>3, <2>1, <2>2, <2>3, <1>a
        DEF FetchFacts, PartlyExtracted, VerifiedAhead, MemoCorrect, AcceptedOnly, Pulling, Whole
  <2>5. CASE left = {}
    <3>1. proc'[q] = [s EXCEPT !.pc = "accept", !.left = {},
                               !.fetched = [@ EXCEPT ![key] = s.digest]]
        BY <1>5, <2>5 DEF ExtractLayer, Becomes, TypeOK
    <3>2. /\ proc'[q].module = s.module /\ proc'[q].built = s.built
          /\ proc'[q].pc = "accept" /\ proc'[q].fetched = [s.fetched EXCEPT ![key] = s.digest]
        BY <3>1, <1>b DEF Memory
    <3>3. /\ proc'[q].fetched[key] = s.digest
          /\ \A k \in Keys \ {key} : proc'[q].fetched[k] = s.fetched[k]
        BY <3>2, <1>b, <1>d
    <3>4. dir'[q][key] = Whole(s.digest) /\ s.digest # NoDigest
        BY <2>1, <2>2, <2>5, DigestAssumption DEF Whole
    <3>5. MemoCorrect(q)'
        BY <3>2, <3>3, <3>4, <2>1, <2>3, <1>b DEF MemoCorrect, Pulling, Whole
    <3>6. AcceptedOnly(q)'
      <4> SUFFICES ASSUME NEW m \in s.built
                   PROVE  /\ proc'[q].fetched[Key(m)] # NoDigest
                          /\ Pin[m] \in {proc'[q].fetched[Key(m)], NoDigest}
          BY <3>2 DEF AcceptedOnly
      <4>1. m \in Modules
          BY <1>b DEF Memory
      <4>2. s.fetched[Key(m)] # NoDigest /\ Pin[m] \in {s.fetched[Key(m)], NoDigest}
          BY <1>a DEF FetchFacts, AcceptedOnly
      <4>3. Key(m) \in Keys \ {key}
          BY <4>1, <4>2, <2>1, KeyType
      <4> QED
          BY <4>2, <4>3, <3>3
    <3> QED
        BY <3>2, <3>5, <3>6 DEF FetchFacts, PartlyExtracted, VerifiedAhead, Pulling
  <2> QED
      BY <2>4, <2>5
<1>6. ASSUME Accept(q) PROVE FetchFacts(q)'
  <2>1. s.pc = "accept" /\ dir' = dir /\ s.fetched[key] # NoDigest
      BY <1>6, <1>a DEF Accept, At, FetchFacts, MemoCorrect
  <2>2. CASE Accepts(s.module, s.fetched[key])
    <3>1. proc'[q] = [s EXCEPT !.built = @ \cup {s.module},
                               !.pc = IF s.todo = {} THEN "done" ELSE "next"]
        BY <1>6, <2>2 DEF Accept, Becomes, TypeOK
    <3>2. /\ proc'[q].fetched = s.fetched /\ proc'[q].built = s.built \cup {s.module}
          /\ proc'[q].pc \in {"done", "next"} /\ proc'[q].module = s.module
        BY <3>1, <1>b DEF Memory
    <3> QED
        BY <3>2, <2>1, <2>2, <1>a
        DEF FetchFacts, PartlyExtracted, VerifiedAhead, MemoCorrect, AcceptedOnly, Pulling,
            Accepts, Whole
  <2>3. CASE ~Accepts(s.module, s.fetched[key])
    <3>1. proc'[q] = [s EXCEPT !.pc = "failed"]
        BY <1>6, <2>3 DEF Accept, Becomes, Goto, TypeOK
    <3>2. /\ proc'[q].fetched = s.fetched /\ proc'[q].built = s.built
          /\ proc'[q].pc = "failed" /\ proc'[q].module = s.module
        BY <3>1, <1>b DEF Memory
    <3> QED
        BY <3>2, <2>1, <1>a
        DEF FetchFacts, PartlyExtracted, VerifiedAhead, MemoCorrect, AcceptedOnly, Pulling, Whole
  <2> QED
      BY <2>2, <2>3
<1>7. ASSUME Fault(q) PROVE FetchFacts(q)'
  <2>1. PICK doing \in {"extract", "failed", "killed"} :
            /\ proc'[q] = [s EXCEPT !.pc = doing]
            /\ doing = "extract" => s.pc = "publish" /\ IsCached(s.layer)
      BY <1>7 DEF Fault, DownloadFails, PublishFails, Fails, Kill, Becomes, Goto, At, TypeOK
  <2>2. /\ proc'[q].module = s.module /\ proc'[q].fetched = s.fetched
        /\ proc'[q].built = s.built /\ proc'[q].digest = s.digest
        /\ proc'[q].left = s.left /\ proc'[q].layer = s.layer /\ proc'[q].pc = doing
      BY <2>1, <1>b DEF Memory
  <2>3. dir' = dir /\ cache' = cache
      BY <1>7 DEF Fault, DownloadFails, PublishFails, Fails, Kill
  <2> QED
      BY <2>1, <2>2, <2>3, <1>a
      DEF FetchFacts, PartlyExtracted, VerifiedAhead, MemoCorrect, AcceptedOnly, Pulling,
          IsCached, Whole
<1>8. ASSUME NEW p \in Procs, Step(p) \/ Fault(p), p # q PROVE FetchFacts(q)'
  <2>1. proc'[q] = proc[q] /\ dir'[q] = dir[q] /\ temp'[q] = temp[q]
      BY <1>8
      DEF Step, Fault, NextModule, GetManifest, VerifyLayer, CreateTemp, Downloaded, Publish,
          ExtractLayer, Accept, DownloadFails, PublishFails, Fails, Kill, Becomes, SetTemp, TypeOK
  <2> QED
      BY <2>1, <1>0
<1>9. ASSUME MoveTag \/ UNCHANGED vars PROVE FetchFacts(q)'
    BY <1>9, <1>0 DEF MoveTag, vars
<1> QED
    BY <1>1, <1>2, <1>3, <1>4, <1>5, <1>6, <1>7, <1>8, <1>9 DEF Next, Step, Quiet

(* Directories between two layers, published files and the in-memory cache   *)
(* are as the code takes them to be.                                         *)
THEOREM FetchInvariantHolds == Spec => []FetchInvariant
<1> QED
    BY TypeInit, TypeNext, InvariantInit, InvariantNext, PTL DEF Spec

(* An accepted reference is built from all the whole layers of the manifest  *)
(* it is pinned to, for any number of processes, layers and tag moves.       *)
THEOREM BuiltFromPinnedHolds == Spec => []BuiltFromPinned
<1>1. TypeOK /\ FetchInvariant => BuiltFromPinned
  <2> SUFFICES ASSUME TypeOK, FetchInvariant, NEW p \in Procs, NEW m \in proc[p].built
               PROVE  LET d == proc[p].fetched[Key(m)]
                      IN  /\ d # NoDigest /\ dir[p][Key(m)] = Whole(d)
                          /\ Pin[m] \in {d, NoDigest}
      BY DEF BuiltFromPinned
  <2>1. m \in Modules
      BY DEF TypeOK, Memory
  <2>2. Key(m) \in Keys
      BY <2>1, KeyType
  <2> QED
      BY <2>2 DEF FetchInvariant, MemoCorrect, AcceptedOnly
<1> QED
    BY <1>1, FetchTypeCorrect, FetchInvariantHolds, PTL

(* No step of any process spoils a valid file of the cache.                  *)
THEOREM CacheKeptHolds == Spec => CacheKept
<1>1. TypeOK /\ FetchInvariant /\ [Next]_vars
          => [\A l \in Layers : cache[l] = "whole" => cache'[l] = "whole"]_vars
    BY CacheStep
<1> QED
    BY <1>1, FetchTypeCorrect, FetchInvariantHolds, PTL DEF Spec, CacheKept

(* A temporary file that no process is going to publish is that of a process *)
(* which was killed, whichever error ended a download.                       *)
THEOREM TempsRemovedHolds == Spec => []TempsRemoved
<1>1. Init => TempsRemoved
    BY DEF Init, TempsRemoved
<1>2. TypeOK /\ TempsRemoved /\ [Next]_vars => TempsRemoved'
  <2> SUFFICES ASSUME TypeOK, TempsRemoved, [Next]_vars PROVE TempsRemoved'
      OBVIOUS
  <2>1. ASSUME NEW p \in Procs, NEW m, NEW file, Becomes(p, m), SetTemp(p, file),
               file # "absent" => m.pc \in {"download", "publish", "killed"}
        PROVE  TempsRemoved'
      BY <2>1 DEF Becomes, SetTemp, TempsRemoved, TypeOK
  <2>2. ASSUME NEW p \in Procs, NEW m, Becomes(p, m), temp' = temp,
               \/ proc[p].pc \notin {"download", "publish", "killed"}
               \/ m.pc = "killed"
        PROVE  TempsRemoved'
      BY <2>2 DEF Becomes, TempsRemoved, TypeOK
  <2>3. ASSUME NEW m \in Memory, NEW doing PROVE Goto(m, doing).pc = doing
      BY DEF Goto, Memory
  <2>4. \A p \in Procs : proc[p] \in Memory
      BY DEF TypeOK
  <2>5. ASSUME NEW p \in Procs,
               \/ CreateTemp(p) \/ Downloaded(p) \/ Publish(p)
               \/ DownloadFails(p) \/ PublishFails(p)
        PROVE  TempsRemoved'
      BY <2>1, <2>3, <2>4, <2>5, SMTT(30)
         DEF CreateTemp, Downloaded, Publish, DownloadFails, PublishFails
  <2>6. ASSUME NEW p \in Procs,
               \/ NextModule(p) \/ GetManifest(p) \/ VerifyLayer(p) \/ ExtractLayer(p)
               \/ Accept(p) \/ Fails(p)
        PROVE  TempsRemoved'
      BY <2>2, <2>6 DEF NextModule, GetManifest, VerifyLayer, ExtractLayer, Accept, Fails, At
  <2>7. ASSUME NEW p \in Procs, Kill(p) PROVE TempsRemoved'
      BY <2>2, <2>3, <2>4, <2>7 DEF Kill
  <2>8. CASE MoveTag \/ Quiet \/ UNCHANGED vars
      BY <2>8 DEF MoveTag, Quiet, vars, TempsRemoved
  <2> QED
      BY <2>5, <2>6, <2>7, <2>8 DEF Next, Step, Fault
<1> QED
    BY <1>1, <1>2, FetchTypeCorrect, PTL DEF Spec

================================================================================
