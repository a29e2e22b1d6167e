--------------------------- MODULE BundleBuildProofs ---------------------------
(***************************************************************************)
(* Proofs about BundleBuild, for any bundles, modules, packages and        *)
(* objects, any number of goroutines and any failures: what is printed,    *)
(* written, applied or refused, in whatever order the goroutines run and   *)
(* whichever of them extracts the CRDs of a module for the others.         *)
(***************************************************************************)
EXTENDS BundleBuild, FiniteSetTheorems, SequenceTheorems, WellFoundedInduction, TLAPS

(* Sets of numbers have a least element, and bounded ones a largest.         *)
LEMMA LeastNat ==
    ASSUME NEW T \in SUBSET Nat, T # {}
    PROVE  \E x \in T : \A y \in T : x <= y
<1>1. PICK x \in T : \A y \in T : <<y, x>> \notin OpToRel(<, Nat)
  BY NatLessThanWellFounded, WFMin
<1>2. \A y \in T : ~(y < x)
  BY <1>1 DEF OpToRel
<1> QED
  BY <1>2

LEMMA LargestNat ==
    ASSUME NEW n \in Nat, NEW T \in SUBSET (0..n), T # {}
    PROVE  \E x \in T : \A y \in T : y <= x
<1> DEFINE U == {i \in Nat : \E x \in T : i = n - x}
<1>1. U # {}
  <2>1. PICK x : x \in T
    OBVIOUS
  <2>2. n - x \in U
    BY <2>1
  <2> QED
    BY <2>2
<1>2. PICK u \in U : \A v \in U : u <= v
  <2> HIDE DEF U
  <2>1. U \in SUBSET Nat
    BY DEF U
  <2> QED
    BY <1>1, <2>1, LeastNat
<1>3. PICK x \in T : u = n - x
  BY <1>2
<1>4. ASSUME NEW y \in T PROVE y <= x
  <2>1. n - y \in U
    OBVIOUS
  <2>2. u <= n - y
    BY <1>2, <2>1
  <2> QED
    BY <1>3, <2>2
<1> QED
  BY <1>4

--------------------------------------------------------------------------------
(* Lists of lists.                                                           *)

Flattened(seqs, n, f) == f = [i \in 1..n |-> IF i = 1 THEN seqs[i] ELSE f[i - 1] \o seqs[i]]

LEMMA FlattenedExists == ASSUME NEW seqs, NEW n \in Nat PROVE \E f : Flattened(seqs, n, f)
<1> DEFINE T == {i \in Nat : ~\E f : Flattened(seqs, i, f)}
<1> SUFFICES ASSUME T # {} PROVE FALSE
  OBVIOUS
<1>1. PICK m \in T : \A y \in T : m <= y
  <2> HIDE DEF T
  <2>1. T \in SUBSET Nat
    BY DEF T
  <2> QED
    BY <2>1, LeastNat
<1>2. CASE m = 0
  <2> DEFINE g == [i \in 1..0 |-> seqs[i]]
  <2>1. \A i \in 1..0 : FALSE
    OBVIOUS
  <2>2. g = [i \in 1..0 |-> IF i = 1 THEN seqs[i] ELSE g[i - 1] \o seqs[i]]
    BY <2>1
  <2>3. Flattened(seqs, 0, g)
    BY <2>2 DEF Flattened
  <2> QED
    BY <1>2, <2>3
<1>3. CASE m # 0
  <2>1. m - 1 \in Nat /\ m - 1 \notin T
    BY <1>1, <1>3
  <2>2. PICK f : Flattened(seqs, m - 1, f)
    BY <2>1
  <2> DEFINE g == [i \in 1..m |-> IF i < m THEN f[i]
                                  ELSE IF m = 1 THEN seqs[1] ELSE f[m - 1] \o seqs[m]]
  <2>3. ASSUME NEW i \in 1..m PROVE g[i] = IF i = 1 THEN seqs[i] ELSE g[i - 1] \o seqs[i]
    <3>1. CASE i < m
      <4>1. i \in 1..(m - 1) /\ g[i] = f[i] /\ (i # 1 => g[i - 1] = f[i - 1])
        BY <3>1
      <4>2. f[i] = IF i = 1 THEN seqs[i] ELSE f[i - 1] \o seqs[i]
        BY <2>2, <4>1 DEF Flattened
      <4> QED
        BY <4>1, <4>2
    <3>2. CASE i = m
      BY <1>3, <3>2
    <3> QED
      BY <3>1, <3>2
  <2>4. Flattened(seqs, m, g)
    BY <2>3 DEF Flattened
  <2> QED
    BY <2>4
<1> QED
  BY <1>2, <1>3

LEMMA FlattenedAt ==
    ASSUME NEW seqs, NEW n \in Nat, NEW f, Flattened(seqs, n, f), NEW i \in 1..n
    PROVE  f[i] = IF i = 1 THEN seqs[i] ELSE f[i - 1] \o seqs[i]
  BY DEF Flattened

LEMMA FlattenIs ==
    ASSUME NEW seqs, Len(seqs) \in Nat \ {0}
    PROVE  \E f : Flattened(seqs, Len(seqs), f) /\ FlattenSeq(seqs) = f[Len(seqs)]
<1> DEFINE flatten == CHOOSE f : Flattened(seqs, Len(seqs), f)
<1>1. FlattenSeq(seqs) = flatten[Len(seqs)]
  BY DEF FlattenSeq, Flattened
<1>2. Flattened(seqs, Len(seqs), flatten)
  BY FlattenedExists
<1> QED
  BY <1>1, <1>2

(* A list of lists gives a list of what is in them.                          *)
LEMMA FlattenTyped ==
    ASSUME NEW S, NEW seqs \in Seq(Seq(S))
    PROVE  FlattenSeq(seqs) \in Seq(S)
<1>1. CASE Len(seqs) = 0
  BY <1>1 DEF FlattenSeq
<1>2. CASE Len(seqs) # 0
  <2> DEFINE n == Len(seqs)
  <2>1. n \in Nat \ {0} /\ \A i \in 1..n : seqs[i] \in Seq(S)
    BY <1>2
  <2>2. PICK f : Flattened(seqs, n, f) /\ FlattenSeq(seqs) = f[n]
    BY <2>1, FlattenIs
  <2> HIDE DEF n
  <2> DEFINE T == {i \in 1..n : f[i] \notin Seq(S)}
  <2>3. T = {}
    <3> SUFFICES ASSUME T # {} PROVE FALSE
      OBVIOUS
    <3>1. PICK k \in T : \A y \in T : k <= y
      <4> HIDE DEF T
      <4>1. T \in SUBSET Nat
        BY DEF T
      <4> QED
        BY <4>1, LeastNat
    <3>2. k \in 1..n /\ seqs[k] \in Seq(S)
      BY <2>1, <3>1
    <3>3. f[k] = IF k = 1 THEN seqs[k] ELSE f[k - 1] \o seqs[k]
      BY <2>1, <2>2, <3>2, FlattenedAt
    <3>4. k # 1 => f[k - 1] \in Seq(S)
      <4>1. k # 1 => k - 1 \in 1..n /\ k - 1 \notin T
        BY <2>1, <3>1
      <4> QED
        BY <4>1
    <3>5. f[k] \in Seq(S)
      BY <3>2, <3>3, <3>4
    <3> QED
      BY <3>1, <3>5
  <2> QED
    BY <2>1, <2>2, <2>3
<1> QED
  BY <1>1, <1>2

(* With one list more, its elements come last.                               *)
LEMMA FlattenOneMore ==
    ASSUME NEW S, NEW t \in Seq(Seq(S)), NEW s \in Seq(Seq(S)), Len(s) = Len(t) + 1,
           \A i \in 1..Len(t) : s[i] = t[i]
    PROVE  FlattenSeq(s) = FlattenSeq(t) \o s[Len(s)]
<1>1. Len(t) \in Nat /\ Len(s) \in Nat \ {0} /\ Len(s) - 1 = Len(t) /\ s[Len(s)] \in Seq(S)
  OBVIOUS
<1>2. PICK f : Flattened(s, Len(s), f) /\ FlattenSeq(s) = f[Len(s)]
  BY <1>1, FlattenIs
<1>3. f[Len(s)] = IF Len(s) = 1 THEN s[Len(s)] ELSE f[Len(t)] \o s[Len(s)]
  <2>1. Len(s) \in 1..Len(s) /\ Len(s) \in Nat
    BY <1>1
  <2>2. f[Len(s)] = IF Len(s) = 1 THEN s[Len(s)] ELSE f[Len(s) - 1] \o s[Len(s)]
    BY <1>2, <2>1, FlattenedAt
  <2> QED
    BY <1>1, <2>2
<1>4. CASE Len(t) = 0
  <2>1. FlattenSeq(t) = << >>
    BY <1>4 DEF FlattenSeq
  <2>2. f[Len(s)] = s[Len(s)]
    BY <1>1, <1>3, <1>4
  <2>3. << >> \o s[Len(s)] = s[Len(s)]
    BY <1>1
  <2> QED
    BY <1>2, <2>1, <2>2, <2>3
<1>5. CASE Len(t) # 0
  <2>1. PICK g : Flattened(t, Len(t), g) /\ FlattenSeq(t) = g[Len(t)]
    BY <1>1, <1>5, FlattenIs
  <2>2. \A i \in 1..Len(t) : g[i] = f[i]
    <3> DEFINE T == {i \in 1..Len(t) : g[i] # f[i]}
    <3> SUFFICES ASSUME T # {} PROVE FALSE
      OBVIOUS
    <3>1. PICK k \in T : \A y \in T : k <= y
      <4> HIDE DEF T
      <4>1. T \in SUBSET Nat
        BY DEF T
      <4> QED
        BY <4>1, LeastNat
    <3>2. Len(t) \in Nat /\ Len(s) \in Nat /\ k \in 1..Len(t) /\ k \in 1..Len(s) /\ t[k] = s[k]
      BY <1>1, <3>1
    <3>3. f[k] = IF k = 1 THEN s[k] ELSE f[k - 1] \o s[k]
      BY <1>2, <3>2, FlattenedAt
    <3>4. g[k] = IF k = 1 THEN t[k] ELSE g[k - 1] \o t[k]
      BY <2>1, <3>2, FlattenedAt
    <3>5. k # 1 => g[k - 1] = f[k - 1]
      <4>1. k # 1 => k - 1 \in 1..Len(t) /\ k - 1 \notin T
        BY <3>1
      <4> QED
        BY <4>1
    <3>6. g[k] = f[k]
      BY <3>2, <3>3, <3>4, <3>5
    <3> QED
      BY <3>1, <3>6
  <2>3. g[Len(t)] = f[Len(t)]
    <3>1. Len(t) \in 1..Len(t)
      BY <1>1, <1>5
    <3> QED
      BY <2>2, <3>1
  <2>4. Len(s) # 1 /\ FlattenSeq(t) = f[Len(t)]
    BY <1>1, <1>5, <2>1, <2>3
  <2> QED
    BY <1>2, <1>3, <2>4
<1> QED
  BY <1>4, <1>5

--------------------------------------------------------------------------------
(* What the modules of a bundle give does not change.                        *)

LEMMA ResultsSame ==
    ASSUME bundle' = bundle
    PROVE  /\ \A d : Walk(d)' = Walk(d)
           /\ \A d : (VendoredCRDsFail(d)' <=> VendoredCRDsFail(d)) /\ GetVendoredCRDs(d)' = GetVendoredCRDs(d)
           /\ \A i : GetApplySets(i)' = GetApplySets(i) /\ InstanceObjects(i)' = InstanceObjects(i)
           /\ \A i : Compiles(i)' <=> Compiles(i)
<1>1. ASSUME NEW d PROVE Walk(d)' = Walk(d)
  BY DEF Walk, Turns, Visit
<1>2. ASSUME NEW d PROVE GetVendoredCRDs(d)' = GetVendoredCRDs(d)
  BY <1>1 DEF GetVendoredCRDs, GetImports, EmbeddedCRD
<1>3. ASSUME NEW d PROVE VendoredCRDsFail(d)' <=> VendoredCRDsFail(d)
  BY <1>1 DEF VendoredCRDsFail, GetImports, EmbeddedCRDFails
<1>4. ASSUME NEW i PROVE GetApplySets(i)' = GetApplySets(i)
  BY DEF GetApplySets
<1>5. ASSUME NEW i PROVE Compiles(i)' <=> Compiles(i)
  BY <1>4 DEF Compiles, Builds, ApplySetsFail
<1>6. ASSUME NEW i PROVE InstanceObjects(i)' = InstanceObjects(i)
  <2>1. \A list : Sort(list)' = Sort(list)
    BY DEF Sort, Behind
  <2> QED
    BY <1>4, <2>1 DEF InstanceObjects, Concurrent
<1> QED
  BY <1>1, <1>2, <1>3, <1>4, <1>5, <1>6

--------------------------------------------------------------------------------
(* What the modules of a bundle give is lists of manifests.                  *)

Item == [is : {"null", "kustomization", "object", "list"}, objects : Seq(Manifests)]

LEMMA BundleIs ==
    ASSUME bundle \in Bundles
    PROVE  /\ Len(bundle.dir) \in Nat \ {0} /\ Instances = 1..Len(bundle.dir)
           /\ \A i \in Instances : bundle.dir[i] \in DOMAIN bundle.imports /\ bundle.sets[i] \in Seq(Seq(Item))
           /\ \A d \in DOMAIN bundle.imports : bundle.imports[d] \in Seq(DOMAIN bundle.packages)
           /\ IsFiniteSet(DOMAIN bundle.packages)
           /\ \A p \in DOMAIN bundle.packages :
                  /\ bundle.packages[p].imports \in Seq(DOMAIN bundle.packages)
                  /\ bundle.packages[p].hidden.objects \in Seq(Manifests)
<1>1. /\ bundle.dir \in Seq(DOMAIN bundle.imports) /\ bundle.dir # << >>
      /\ bundle.sets \in [DOMAIN bundle.dir -> Seq(Seq(Item))]
      /\ \A d \in DOMAIN bundle.imports : bundle.imports[d] \in Seq(DOMAIN bundle.packages)
      /\ IsFiniteSet(DOMAIN bundle.packages)
      /\ \A p \in DOMAIN bundle.packages :
             /\ bundle.packages[p].imports \in Seq(DOMAIN bundle.packages)
             /\ bundle.packages[p].hidden.objects \in Seq(Manifests)
  BY BuildAssumption DEF BuildAssumption, Item
<1>2. Len(bundle.dir) \in Nat \ {0} /\ Instances = 1..Len(bundle.dir)
  BY <1>1 DEF Instances
<1>3. ASSUME NEW i \in Instances PROVE bundle.dir[i] \in DOMAIN bundle.imports /\ bundle.sets[i] \in Seq(Seq(Item))
  BY <1>1, <1>2, <1>3 DEF Instances
<1> QED
  BY <1>1, <1>2, <1>3

LEMMA ApplySetsTyped ==
    ASSUME bundle \in Bundles, NEW i \in Instances
    PROVE  GetApplySets(i) \in Seq(Manifests)
<1> DEFINE items == FlattenSeq(bundle.sets[i])
           lists == [n \in DOMAIN items |-> ItemObjects(items[n])]
<1>1. items \in Seq(Item)
  BY BundleIs, FlattenTyped
<1>2. ASSUME NEW item \in Item PROVE ItemObjects(item) \in Seq(Manifests)
  BY <1>2 DEF Item, ItemObjects
<1>3. lists \in Seq(Seq(Manifests))
  <2> HIDE DEF items
  <2>1. Len(items) \in Nat /\ DOMAIN items = 1..Len(items) /\ \A n \in 1..Len(items) : items[n] \in Item
    BY <1>1
  <2>2. lists \in [1..Len(items) -> Seq(Manifests)]
    BY <1>2, <2>1
  <2> QED
    BY <2>1, <2>2
<1>4. FlattenSeq(lists) \in Seq(Manifests)
  <2> HIDE DEF lists
  <2> QED
    BY <1>3, FlattenTyped
<1> QED
  BY <1>4 DEF GetApplySets

--------------------------------------------------------------------------------
(* A sorted list has the objects of the list, in their order.                *)

InOrder(list) == \A j, l \in DOMAIN list : j <= l => Order[list[j]] <= Order[list[l]]

(* A set of numbers with all that are smaller.                               *)
LEMMA PrefixIs ==
    ASSUME NEW n \in Nat, NEW B \in SUBSET (1..n), \A j \in B : \A l \in 1..j : l \in B
    PROVE  Cardinality(B) \in 0..n /\ B = 1..Cardinality(B)
<1>1. CASE B = {}
  <2>1. Cardinality(B) = 0
    BY <1>1, FS_EmptySet
  <2> QED
    BY <1>1, <2>1
<1>2. CASE B # {}
  <2>1. PICK x \in B : \A y \in B : y <= x
    <3>1. B \in SUBSET (0..n)
      OBVIOUS
    <3> QED
      BY <1>2, <3>1, LargestNat
  <2>2. x \in 1..n /\ B = 1..x
    <3>1. x \in 1..n /\ \A l \in 1..x : l \in B
      BY <2>1
    <3>2. \A y \in B : y \in 1..x
      BY <2>1, <3>1
    <3> QED
      BY <3>1, <3>2
  <2>3. Cardinality(1..x) = x
    BY <2>2, FS_Interval
  <2> QED
    BY <2>2, <2>3
<1> QED
  BY <1>1, <1>2

LEMMA InsertIs ==
    ASSUME NEW s \in Seq(Manifests), InOrder(s), NEW obj \in Manifests
    PROVE  LET t == InsertAt(s, Behind(s, obj) + 1, obj)
           IN  /\ t \in Seq(Manifests) /\ Len(t) = Len(s) + 1 /\ InOrder(t)
               /\ ToSet(t) = ToSet(s) \cup {obj}
<1> DEFINE B == {m \in DOMAIN s : Order[s[m]] <= Order[obj]}
           k == Behind(s, obj)
           t == InsertAt(s, k + 1, obj)
<1>1. Len(s) \in Nat /\ DOMAIN s = 1..Len(s) /\ \A m \in 1..Len(s) : s[m] \in Manifests
  OBVIOUS
<1>2. \A m \in Manifests : Order[m] \in Nat
  BY BuildAssumption DEF BuildAssumption
<1>3. ASSUME NEW j \in B, NEW l \in 1..j PROVE l \in B
  <2>1. j \in 1..Len(s) /\ l \in 1..Len(s) /\ l <= j
    BY <1>1
  <2>2. Order[s[l]] <= Order[s[j]]
    BY <1>1, <2>1 DEF InOrder
  <2>3. Order[s[l]] \in Nat /\ Order[s[j]] \in Nat /\ Order[obj] \in Nat /\ Order[s[j]] <= Order[obj]
    BY <1>1, <1>2, <2>1
  <2> QED
    BY <1>1, <2>1, <2>2, <2>3
<1>4. k \in 0..Len(s) /\ B = 1..k
  <2>1. B \in SUBSET (1..Len(s)) /\ k = Cardinality(B)
    BY <1>1 DEF Behind
  <2> HIDE DEF B
  <2> QED
    BY <1>1, <1>3, <2>1, PrefixIs
<1> HIDE DEF k
<1>5. \A m \in 1..Len(s) : m <= k <=> Order[s[m]] <= Order[obj]
  BY <1>1, <1>4
<1> DEFINE a == SubSeq(s, 1, k)
           z == SubSeq(s, k + 1, Len(s))
<1>6. /\ a \in Seq(Manifests) /\ Len(a) = k /\ \A m \in 1..k : a[m] = s[m]
      /\ z \in Seq(Manifests) /\ Len(z) = Len(s) - k /\ \A m \in 1..(Len(s) - k) : z[m] = s[k + m]
  <2>1. k \in Int /\ 1 \in Int /\ k + 1 \in Int /\ Len(s) \in Int
        /\ (\A m \in 1..k : s[m] \in Manifests) /\ \A m \in (k + 1)..Len(s) : s[m] \in Manifests
    BY <1>1, <1>4
  <2>2. a \in Seq(Manifests) /\ Len(a) = k
    BY <1>4, <2>1, SubSeqProperties
  <2>3. \A m \in 1..k : a[m] = s[m]
    BY <1>1, <1>4
  <2>4. z \in Seq(Manifests) /\ Len(z) = Len(s) - k
    <3> DEFINE n == Len(s)
    <3>1. z \in Seq(Manifests) /\ Len(z) = IF k + 1 <= n THEN n - (k + 1) + 1 ELSE 0
      <4> HIDE DEF n
      <4>1. n \in Int /\ \A m \in (k + 1)..n : s[m] \in Manifests
        BY <2>1 DEF n
      <4>2. SubSeq(s, k + 1, n) \in Seq(Manifests)
        BY <2>1, <4>1, SubSeqProperties
      <4>3. Len(SubSeq(s, k + 1, n)) = IF k + 1 <= n THEN n - (k + 1) + 1 ELSE 0
        BY <2>1, <4>1, SubSeqProperties
      <4> QED
        BY <4>2, <4>3 DEF n
    <3>2. n \in Nat /\ k \in Nat /\ k <= n
      BY <1>1, <1>4
    <3> HIDE DEF n, z
    <3>3. (IF k + 1 <= n THEN n - (k + 1) + 1 ELSE 0) = n - k
      BY <3>2
    <3> QED
      BY <3>1, <3>3 DEF n
  <2>5. \A m \in 1..(Len(s) - k) : z[m] = s[k + m]
    BY <1>1, <1>4
  <2> QED
    BY <2>2, <2>3, <2>4, <2>5
<1>7. t = (a \o <<obj>>) \o z
  <2>1. (k + 1) - 1 = k
    BY <1>4
  <2> QED
    BY <2>1 DEF InsertAt
<1>8. /\ a \o <<obj>> \in Seq(Manifests) /\ Len(a \o <<obj>>) = k + 1
      /\ (a \o <<obj>>)[k + 1] = obj /\ \A m \in 1..k : (a \o <<obj>>)[m] = s[m]
  <2> HIDE DEF a
  <2> QED
    BY <1>4, <1>6
<1>9. /\ t \in Seq(Manifests) /\ Len(t) = Len(s) + 1 /\ DOMAIN t = 1..(Len(s) + 1)
      /\ t[k + 1] = obj /\ (\A m \in 1..k : t[m] = s[m]) /\ \A m \in (k + 1)..Len(s) : t[m + 1] = s[m]
  <2> DEFINE b == a \o <<obj>>
  <2>1. b \in Seq(Manifests) /\ Len(b) = k + 1 /\ b[k + 1] = obj /\ \A m \in 1..k : b[m] = s[m]
    BY <1>8
  <2> HIDE DEF b
  <2>2. t = b \o z
    BY <1>7 DEF b
  <2> HIDE DEF t, z
  <2>3. t \in Seq(Manifests) /\ Len(t) = Len(s) + 1 /\ DOMAIN t = 1..(Len(s) + 1)
    <3>1. t \in Seq(Manifests) /\ Len(t) = Len(b) + Len(z)
      BY <1>6, <2>1, <2>2, ConcatProperties
    <3>2. Len(t) = Len(s) + 1
      BY <1>1, <1>4, <1>6, <2>1, <3>1
    <3> QED
      BY <3>1, <3>2
  <2>4. \A m \in 1..(k + 1) : t[m] = b[m]
    BY <1>1, <1>4, <1>6, <2>1, <2>2
  <2>5. \A m \in 1..(Len(s) - k) : t[k + 1 + m] = z[m]
    BY <1>1, <1>4, <1>6, <2>1, <2>2
  <2>6. t[k + 1] = obj /\ \A m \in 1..k : t[m] = s[m]
    BY <1>4, <2>1, <2>4
  <2>7. ASSUME NEW m \in (k + 1)..Len(s) PROVE t[m + 1] = s[m]
    <3>1. m - k \in 1..(Len(s) - k) /\ k + 1 + (m - k) = m + 1 /\ k + (m - k) = m
      BY <1>1, <1>4
    <3>2. t[k + 1 + (m - k)] = z[m - k] /\ z[m - k] = s[k + (m - k)]
      BY <1>6, <2>5, <3>1
    <3> QED
      BY <3>1, <3>2
  <2> QED
    BY <2>3, <2>6, <2>7
<1> HIDE DEF t
<1>10. ASSUME NEW j \in DOMAIN t
       PROVE  \/ j \in 1..k /\ j \in 1..Len(s) /\ t[j] = s[j]
              \/ j = k + 1 /\ t[j] = obj
              \/ j > k + 1 /\ j - 1 \in 1..Len(s) /\ j - 1 > k /\ t[j] = s[j - 1]
  <2>1. CASE j <= k
    BY <1>1, <1>4, <1>9, <2>1
  <2>2. CASE j = k + 1
    BY <1>9, <2>2
  <2>3. CASE j > k + 1
    <3>1. j - 1 \in (k + 1)..Len(s) /\ (j - 1) + 1 = j
      BY <1>1, <1>4, <1>9, <2>3
    <3> QED
      BY <1>4, <1>9, <2>3, <3>1
  <2> QED
    BY <1>4, <1>9, <2>1, <2>2, <2>3
<1>11. ASSUME NEW j \in DOMAIN t, NEW l \in DOMAIN t, j <= l PROVE Order[t[j]] <= Order[t[l]]
  <2>1. \A m \in 1..Len(s) : Order[s[m]] \in Nat
    BY <1>1, <1>2
  <2>2. \A m, r \in 1..Len(s) : m <= r => Order[s[m]] <= Order[s[r]]
    BY <1>1 DEF InOrder
  <2>3. Order[obj] \in Nat /\ k \in Nat
    BY <1>1, <1>2, <1>4
  <2>4. \A m \in 1..Len(s) : m > k => Order[obj] <= Order[s[m]]
    BY <1>5, <2>1, <2>3
  <2>5. j \in Nat /\ l \in Nat
    BY <1>1, <1>9
  <2>6. CASE j \in 1..k
    <3>1. j \in 1..Len(s) /\ t[j] = s[j] /\ Order[s[j]] <= Order[obj]
      BY <1>5, <1>10, <2>3, <2>6
    <3>2. CASE l \in 1..k
      BY <1>10, <1>11, <2>2, <2>3, <3>1, <3>2
    <3>3. CASE l = k + 1
      BY <1>9, <3>1, <3>3
    <3>4. CASE l > k + 1
      <4>1. l - 1 \in 1..Len(s) /\ t[l] = s[l - 1] /\ j <= l - 1
        BY <1>10, <2>3, <2>5, <2>6, <3>4
      <4> QED
        BY <2>2, <3>1, <4>1
    <3> QED
      BY <1>1, <1>9, <2>3, <2>5, <3>2, <3>3, <3>4
  <2>7. CASE j = k + 1
    <3>1. CASE l = k + 1
      BY <1>9, <2>3, <2>7, <3>1
    <3>2. CASE l > k + 1
      <4>1. l - 1 \in 1..Len(s) /\ l - 1 > k /\ t[l] = s[l - 1] /\ t[j] = obj
        BY <1>9, <1>10, <2>3, <2>5, <2>7, <3>2
      <4> QED
        BY <2>4, <4>1
    <3> QED
      BY <1>11, <2>3, <2>5, <2>7, <3>1, <3>2
  <2>8. CASE j > k + 1
    <3>1. j - 1 \in 1..Len(s) /\ t[j] = s[j - 1]
      BY <1>10, <2>3, <2>5, <2>8
    <3>2. l > k + 1
      BY <1>11, <2>3, <2>5, <2>8
    <3>3. l - 1 \in 1..Len(s) /\ t[l] = s[l - 1] /\ j - 1 <= l - 1
      BY <1>10, <1>11, <2>3, <2>5, <3>2
    <3> QED
      BY <2>2, <3>1, <3>3
  <2> QED
    BY <1>10, <2>6, <2>7, <2>8
<1>12. ToSet(t) = ToSet(s) \cup {obj}
  <2>1. \A x : x \in ToSet(t) <=> \E j \in DOMAIN t : t[j] = x
    BY DEF ToSet
  <2>2. \A x : x \in ToSet(s) <=> \E j \in DOMAIN s : s[j] = x
    BY DEF ToSet
  <2>3. ASSUME NEW x \in ToSet(t) PROVE x \in ToSet(s) \cup {obj}
    BY <1>1, <1>10, <2>1, <2>2
  <2>4. obj \in ToSet(t)
    <3>1. k + 1 \in DOMAIN t
      BY <1>1, <1>4, <1>9
    <3> QED
      BY <1>9, <2>1, <3>1
  <2>5. ASSUME NEW x \in ToSet(s) PROVE x \in ToSet(t)
    <3>1. PICK j \in 1..Len(s) : s[j] = x
      BY <1>1, <2>2
    <3>2. CASE j <= k
      <4>1. j \in DOMAIN t /\ t[j] = x
        BY <1>1, <1>4, <1>9, <3>1, <3>2
      <4> QED
        BY <2>1, <4>1
    <3>3. CASE j > k
      <4>1. j + 1 \in DOMAIN t /\ t[j + 1] = x
        BY <1>1, <1>4, <1>9, <3>1, <3>3
      <4> QED
        BY <2>1, <4>1
    <3> QED
      BY <1>1, <1>4, <3>1, <3>2, <3>3
  <2> QED
    BY <2>3, <2>4, <2>5
<1> QED
  BY <1>9, <1>11, <1>12 DEF InOrder, t, k

Sorts(list, n, f) ==
    f = [k \in 0..n |-> IF k = 0 THEN << >>
                        ELSE InsertAt(f[k - 1], Behind(f[k - 1], list[k]) + 1, list[k])]

LEMMA SortsExists == ASSUME NEW list, NEW n \in Nat PROVE \E f : Sorts(list, n, f)
<1> DEFINE T == {i \in Nat : ~\E f : Sorts(list, i, f)}
           Step(s, k) == InsertAt(s, Behind(s, list[k]) + 1, list[k])
<1> SUFFICES ASSUME T # {} PROVE FALSE
  OBVIOUS
<1>1. PICK m \in T : \A y \in T : m <= y
  <2> HIDE DEF T
  <2>1. T \in SUBSET Nat
    BY DEF T
  <2> QED
    BY <2>1, LeastNat
<1>2. CASE m = 0
  <2> DEFINE g == [k \in 0..0 |-> << >>]
  <2>1. Sorts(list, 0, g)
    BY DEF Sorts
  <2> QED
    BY <1>2, <2>1
<1>3. CASE m # 0
  <2>1. m - 1 \in Nat /\ m - 1 \notin T
    BY <1>1, <1>3
  <2>2. PICK f : Sorts(list, m - 1, f)
    BY <2>1
  <2> DEFINE g == [k \in 0..m |-> IF k < m THEN f[k] ELSE Step(f[m - 1], m)]
  <2>a. \A k \in 0..(m - 1) : f[k] = IF k = 0 THEN << >> ELSE Step(f[k - 1], k)
    BY <2>2 DEF Sorts
  <2>3. ASSUME NEW k \in 0..m PROVE g[k] = IF k = 0 THEN << >> ELSE Step(g[k - 1], k)
    <3> HIDE DEF Step
    <3>1. CASE k < m
      <4>1. k \in 0..(m - 1) /\ g[k] = f[k] /\ (k # 0 => g[k - 1] = f[k - 1])
        BY <3>1
      <4> QED
        BY <2>a, <4>1
    <3>2. CASE k = m
      BY <1>3, <3>2
    <3> QED
      BY <3>1, <3>2
  <2>4. Sorts(list, m, g)
    BY <2>3 DEF Sorts
  <2> QED
    BY <2>4
<1> QED
  BY <1>2, <1>3

(* What sorting gives.                                                       *)
THEOREM SortIs ==
    ASSUME NEW list \in Seq(Manifests)
    PROVE  /\ Sort(list) \in Seq(Manifests) /\ Len(Sort(list)) = Len(list)
           /\ InOrder(Sort(list)) /\ ToSet(Sort(list)) = ToSet(list)
<1> DEFINE f == CHOOSE g : Sorts(list, Len(list), g)
           n == Len(list)
<1>1. n \in Nat /\ DOMAIN list = 1..n /\ \A k \in 1..n : list[k] \in Manifests
  OBVIOUS
<1>2. Sort(list) = f[n] /\ Sorts(list, n, f)
  <2>1. Sort(list) = f[n]
    BY DEF Sort, Sorts
  <2>2. Sorts(list, n, f)
    BY <1>1, SortsExists
  <2> QED
    BY <2>1, <2>2
<1> HIDE DEF f, n
<1>3. f[0] = << >>
  BY <1>1, <1>2 DEF Sorts
<1>4. ASSUME NEW k \in 1..n PROVE f[k] = InsertAt(f[k - 1], Behind(f[k - 1], list[k]) + 1, list[k])
  BY <1>1, <1>2 DEF Sorts
<1> DEFINE Has(s, k) == ToSet(s) = {list[m] : m \in 1..k}
           Good(k) == f[k] \in Seq(Manifests) /\ Len(f[k]) = k /\ InOrder(f[k]) /\ Has(f[k], k)
           T == {k \in 0..n : ~Good(k)}
<1>5. T = {}
  <2> SUFFICES ASSUME T # {} PROVE FALSE
    OBVIOUS
  <2>1. PICK m \in T : \A y \in T : m <= y
    <3> HIDE DEF T
    <3>1. T \in SUBSET Nat
      BY <1>1 DEF T
    <3> QED
      BY <3>1, LeastNat
  <2>2. Good(0)
    <3>1. << >> \in Seq(Manifests) /\ Len(<< >>) = 0 /\ DOMAIN << >> = {}
      OBVIOUS
    <3>2. InOrder(<< >>) /\ Has(<< >>, 0)
      BY <3>1 DEF InOrder, ToSet
    <3> HIDE DEF Has
    <3> QED
      BY <1>3, <3>1, <3>2
  <2> HIDE DEF Good
  <2>3. m \in 1..n /\ m - 1 \in 0..n /\ ~Good(m)
    BY <1>1, <2>1, <2>2
  <2>4. Good(m - 1)
    BY <1>1, <2>1, <2>3
  <2>5. /\ f[m] \in Seq(Manifests) /\ Len(f[m]) = Len(f[m - 1]) + 1 /\ InOrder(f[m])
        /\ ToSet(f[m]) = ToSet(f[m - 1]) \cup {list[m]}
    <3>1. f[m - 1] \in Seq(Manifests) /\ InOrder(f[m - 1]) /\ list[m] \in Manifests
      BY <1>1, <2>3, <2>4 DEF Good
    <3> QED
      BY <1>4, <2>3, <3>1, InsertIs
  <2>6. Has(f[m], m)
    <3>1. 1..m = 1..(m - 1) \cup {m}
      BY <2>3
    <3> QED
      BY <2>4, <2>5, <3>1 DEF Good
  <2>7. Good(m)
    BY <2>3, <2>4, <2>5, <2>6 DEF Good
  <2> QED
    BY <2>3, <2>7
<1>6. Good(n)
  <2> HIDE DEF Good
  <2> QED
    BY <1>1, <1>5
<1>7. ToSet(list) = {list[m] : m \in 1..n}
  BY <1>1 DEF ToSet
<1> QED
  BY <1>2, <1>6, <1>7 DEF n

LEMMA ObjectsTyped ==
    ASSUME bundle \in Bundles, NEW i \in Instances
    PROVE  InstanceObjects(i) \in Seq(Manifests)
  BY ApplySetsTyped, SortIs DEF InstanceObjects

WalkState ==
    [todo : Seq(DOMAIN bundle.packages), seen : SUBSET DOMAIN bundle.packages,
     values : Seq(DOMAIN bundle.packages), failed : BOOLEAN]

LEMMA VisitTyped ==
    ASSUME bundle \in Bundles, NEW walk \in WalkState
    PROVE  Visit(walk) \in WalkState
<1> DEFINE P == DOMAIN bundle.packages
           p == Head(walk.todo)
<1>1. CASE walk.failed \/ walk.todo = << >>
  BY <1>1 DEF Visit
<1>2. CASE ~walk.failed /\ walk.todo # << >>
  <2>1. walk.todo \in Seq(P) /\ walk.values \in Seq(P) /\ walk.seen \in SUBSET P /\ walk.failed \in BOOLEAN
    BY DEF WalkState
  <2>2. p \in P /\ Tail(walk.todo) \in Seq(P) /\ bundle.packages[p].imports \in Seq(P)
    <3>1. p \in P /\ Tail(walk.todo) \in Seq(P)
      <4> HIDE DEF P
      <4> QED
        BY <1>2, <2>1
    <3> HIDE DEF p
    <3>2. \A q \in P : bundle.packages[q].imports \in Seq(P)
      BY BundleIs
    <3> QED
      BY <3>1, <3>2
  <2>3. bundle.packages[p].imports \o Tail(walk.todo) \in Seq(P) /\ Append(walk.values, p) \in Seq(P)
    <3> HIDE DEF P, p
    <3> QED
      BY <2>1, <2>2
  <2> HIDE DEF P, p
  <2> DEFINE Turn(w) ==
        IF p \in w.seen THEN [w EXCEPT !.todo = Tail(@)]
        ELSE IF bundle.packages[p].err THEN [w EXCEPT !.failed = TRUE]
        ELSE [todo   |-> bundle.packages[p].imports \o Tail(w.todo),
              seen   |-> w.seen \cup {p},
              values |-> IF bundle.packages[p].evaluates THEN Append(w.values, p) ELSE w.values,
              failed |-> FALSE]
  <2>4. Visit(walk) = Turn(walk)
    BY <1>2 DEF Visit, p
  <2>5. Turn(walk) \in WalkState
    <3>1. WalkState = [todo : Seq(P), seen : SUBSET P, values : Seq(P), failed : BOOLEAN]
      BY DEF WalkState, P
    <3>2. [walk EXCEPT !.todo = Tail(@)] \in WalkState
      BY <2>2, <3>1
    <3>3. [walk EXCEPT !.failed = TRUE] \in WalkState
      BY <3>1
    <3>4. [todo   |-> bundle.packages[p].imports \o Tail(walk.todo),
           seen   |-> walk.seen \cup {p},
           values |-> IF bundle.packages[p].evaluates THEN Append(walk.values, p) ELSE walk.values,
           failed |-> FALSE] \in WalkState
      BY <2>1, <2>2, <2>3, <3>1
    <3> QED
      BY <3>2, <3>3, <3>4
  <2> QED
    BY <2>4, <2>5
<1> QED
  BY <1>1, <1>2 DEF WalkState

WalkStart(d) == [todo |-> bundle.imports[d], seen |-> {}, values |-> << >>, failed |-> FALSE]

Walks(d, n, f) == f = [k \in 0..n |-> IF k = 0 THEN WalkStart(d) ELSE Visit(f[k - 1])]

LEMMA WalksExist == ASSUME NEW d, NEW n \in Nat PROVE \E f : Walks(d, n, f)
<1> DEFINE T == {i \in Nat : ~\E f : Walks(d, i, f)}
<1> SUFFICES ASSUME T # {} PROVE FALSE
  OBVIOUS
<1>1. PICK m \in T : \A y \in T : m <= y
  <2> HIDE DEF T
  <2>1. T \in SUBSET Nat
    BY DEF T
  <2> QED
    BY <2>1, LeastNat
<1>2. CASE m = 0
  <2> DEFINE g == [k \in 0..0 |-> WalkStart(d)]
  <2>1. Walks(d, 0, g)
    BY DEF Walks
  <2> QED
    BY <1>2, <2>1
<1>3. CASE m # 0
  <2>1. m - 1 \in Nat /\ m - 1 \notin T
    BY <1>1, <1>3
  <2>2. PICK f : Walks(d, m - 1, f)
    BY <2>1
  <2> DEFINE g == [k \in 0..m |-> IF k < m THEN f[k] ELSE Visit(f[m - 1])]
  <2>3. ASSUME NEW k \in 0..m PROVE g[k] = IF k = 0 THEN WalkStart(d) ELSE Visit(g[k - 1])
    <3>1. CASE k < m
      <4>1. k \in 0..(m - 1) /\ g[k] = f[k] /\ (k # 0 => g[k - 1] = f[k - 1])
        BY <3>1
      <4>2. f[k] = IF k = 0 THEN WalkStart(d) ELSE Visit(f[k - 1])
        BY <2>2, <4>1 DEF Walks
      <4> QED
        BY <4>1, <4>2
    <3>2. CASE k = m
      BY <1>3, <3>2
    <3> QED
      BY <3>1, <3>2
  <2>4. Walks(d, m, g)
    BY <2>3 DEF Walks
  <2> QED
    BY <2>4
<1> QED
  BY <1>2, <1>3

LEMMA WalksAt ==
    ASSUME NEW d, NEW n \in Nat, NEW f, Walks(d, n, f), NEW k \in 0..n
    PROVE  f[k] = IF k = 0 THEN WalkStart(d) ELSE Visit(f[k - 1])
  BY DEF Walks

LEMMA TurnsTyped == ASSUME bundle \in Bundles, NEW d \in DOMAIN bundle.imports PROVE Turns(d) \in Nat
<1> DEFINE P == DOMAIN bundle.packages
           ImportsOf(p) == {p} \X DOMAIN bundle.packages[p].imports
           f == [p \in P |-> ImportsOf(p)]
           All == {ImportsOf(p) : p \in P}
<1>1. IsFiniteSet(P)
  BY BundleIs
<1>2. ASSUME NEW p \in P PROVE IsFiniteSet(ImportsOf(p))
  <2>1. DOMAIN bundle.packages[p].imports = 1..Len(bundle.packages[p].imports)
        /\ Len(bundle.packages[p].imports) \in Nat
    BY BundleIs
  <2>2. IsFiniteSet({p})
    BY FS_Singleton
  <2>3. IsFiniteSet(DOMAIN bundle.packages[p].imports)
    BY <2>1, FS_Interval
  <2> QED
    BY <2>2, <2>3, FS_Product
<1>3. f \in Surjection(P, All)
  BY DEF Surjection
<1>4. IsFiniteSet(All)
  BY <1>1, <1>3, FS_Surjection
<1>5. \A T \in All : IsFiniteSet(T)
  BY <1>2
<1>6. IsFiniteSet(UNION All)
  <2> HIDE DEF All
  <2> QED
    BY <1>4, <1>5, FS_UNION
<1>7. Cardinality(UNION All) \in Nat
  <2> HIDE DEF All
  <2> QED
    BY <1>6, FS_CardinalityType
<1>8. Len(bundle.imports[d]) \in Nat
  BY BundleIs
<1>9. Turns(d) = Len(bundle.imports[d]) + Cardinality(UNION All)
  BY DEF Turns
<1> QED
  BY <1>7, <1>8, <1>9

LEMMA ImportsTyped ==
    ASSUME bundle \in Bundles, NEW d \in DOMAIN bundle.imports
    PROVE  GetImports(d) \in Seq(DOMAIN bundle.packages)
<1> DEFINE n == Turns(d)
           after == CHOOSE f : Walks(d, n, f)
<1>1. n \in Nat /\ Walks(d, n, after)
  BY TurnsTyped, WalksExist
<1>2. Walk(d) = after[n]
  BY DEF Walk, Walks, WalkStart
<1>3. WalkStart(d) \in WalkState
  BY BundleIs DEF WalkState, WalkStart
<1> HIDE DEF n, after
<1> DEFINE T == {k \in 0..n : after[k] \notin WalkState}
<1>4. T = {}
  <2> SUFFICES ASSUME T # {} PROVE FALSE
    OBVIOUS
  <2>1. PICK m \in T : \A y \in T : m <= y
    <3> HIDE DEF T
    <3>1. T \in SUBSET Nat
      BY <1>1 DEF T
    <3> QED
      BY <3>1, LeastNat
  <2>2. after[m] = IF m = 0 THEN WalkStart(d) ELSE Visit(after[m - 1])
    <3>1. m \in 0..n
      BY <2>1
    <3> QED
      BY <1>1, <3>1, WalksAt
  <2>3. m # 0 => after[m - 1] \in WalkState
    <3>1. m # 0 => m - 1 \in 0..n /\ m - 1 \notin T
      BY <1>1, <2>1
    <3> QED
      BY <3>1
  <2>4. after[m] \in WalkState
    BY <1>3, <2>2, <2>3, VisitTyped
  <2> QED
    BY <2>1, <2>4
<1>5. after[n] \in WalkState
  BY <1>1, <1>4
<1> QED
  BY <1>2, <1>5 DEF GetImports, WalkState

LEMMA VendoredTyped ==
    ASSUME bundle \in Bundles, NEW d \in DOMAIN bundle.imports
    PROVE  GetVendoredCRDs(d) \in Seq(Manifests)
<1> DEFINE imports == GetImports(d)
           lists == [n \in DOMAIN imports |-> EmbeddedCRD(imports[n])]
<1>1. imports \in Seq(DOMAIN bundle.packages)
  BY ImportsTyped
<1>2. ASSUME NEW p \in DOMAIN bundle.packages PROVE EmbeddedCRD(p) \in Seq(Manifests)
  BY <1>2, BundleIs DEF EmbeddedCRD
<1>3. lists \in Seq(Seq(Manifests))
  <2> HIDE DEF imports
  <2>1. Len(imports) \in Nat /\ DOMAIN imports = 1..Len(imports)
        /\ \A n \in 1..Len(imports) : imports[n] \in DOMAIN bundle.packages
    BY <1>1
  <2>2. lists \in [1..Len(imports) -> Seq(Manifests)]
    BY <1>2, <2>1
  <2> QED
    BY <2>1, <2>2
<1>4. FlattenSeq(lists) \in Seq(Manifests)
  <2> HIDE DEF lists
  <2> QED
    BY <1>3, FlattenTyped
<1> QED
  BY <1>4 DEF GetVendoredCRDs

--------------------------------------------------------------------------------
(* The validator knows of every kind the schema of the last CRD that was     *)
(* rendered, and else of the first one that was vendored.                    *)

Defines(crd, k) == k \in DOMAIN crd.defines /\ crd.defines[k] # "none"

KnownSchema(vendored, rendered, k) ==
    IF Defining(rendered, k) # {} THEN rendered[Max(Defining(rendered, k))].defines[k]
                                  ELSE vendored[Min(Defining(vendored, k))].defines[k]

Knows(known, vendored, rendered) ==
    /\ \A k : k \in DOMAIN known <=> Defining(vendored, k) # {} \/ Defining(rendered, k) # {}
    /\ \A k : k \in DOMAIN known => known[k] = KnownSchema(vendored, rendered, k)

LEMMA MinIs ==
    ASSUME NEW T \in SUBSET Nat, NEW x \in T, \A y \in T : x <= y
    PROVE  Min(T) = x
<1>1. \A y \in T : x =< y
  OBVIOUS
<1>2. PICK z \in T : z = Min(T) /\ \A y \in T : z =< y
  BY <1>1 DEF Min
<1> QED
  BY <1>1, <1>2

LEMMA MaxIs ==
    ASSUME NEW T \in SUBSET Nat, NEW x \in T, \A y \in T : y <= x
    PROVE  Max(T) = x
<1>1. \A y \in T : x >= y
  OBVIOUS
<1>2. PICK z \in T : z = Max(T) /\ \A y \in T : z >= y
  BY <1>1 DEF Max
<1> QED
  BY <1>1, <1>2

LEMMA DefiningIs ==
    ASSUME NEW list \in Seq(Manifests), NEW k
    PROVE  /\ Defining(list, k) \subseteq 1..Len(list) /\ Len(list) \in Nat
           /\ Defining(list, k) # {} => /\ Min(Defining(list, k)) \in Defining(list, k)
                                        /\ \A y \in Defining(list, k) : Min(Defining(list, k)) <= y
                                        /\ Max(Defining(list, k)) \in Defining(list, k)
                                        /\ \A y \in Defining(list, k) : y <= Max(Defining(list, k))
<1> DEFINE T == Defining(list, k)
<1>1. T \subseteq 1..Len(list) /\ Len(list) \in Nat
  BY DEF Defining
<1>2. ASSUME T # {} PROVE Min(T) \in T /\ \A y \in T : Min(T) <= y
  <2> HIDE DEF T
  <2>1. T \in SUBSET Nat
    BY <1>1
  <2>2. PICK x \in T : \A y \in T : x <= y
    BY <1>2, <2>1, LeastNat
  <2>3. Min(T) = x
    BY <2>1, <2>2, MinIs
  <2> QED
    BY <2>2, <2>3
<1>3. ASSUME T # {} PROVE Max(T) \in T /\ \A y \in T : y <= Max(T)
  <2> HIDE DEF T
  <2>1. T \in SUBSET (0..Len(list)) /\ T \in SUBSET Nat
    BY <1>1
  <2>2. PICK x \in T : \A y \in T : y <= x
    BY <1>1, <1>3, <2>1, LargestNat
  <2>3. Max(T) = x
    BY <2>1, <2>2, MaxIs
  <2> QED
    BY <2>2, <2>3
<1> QED
  BY <1>1, <1>2, <1>3

LEMMA DefiningAppend ==
    ASSUME NEW list \in Seq(Manifests), NEW crd \in Manifests, NEW k
    PROVE  /\ Defining(Append(list, crd), k) =
                  Defining(list, k) \cup (IF Defines(crd, k) THEN {Len(list) + 1} ELSE {})
           /\ Append(list, crd)[Len(list) + 1] = crd
           /\ \A m \in 1..Len(list) : Append(list, crd)[m] = list[m]
<1> DEFINE more == Append(list, crd)
<1>1. /\ Len(list) \in Nat /\ DOMAIN list = 1..Len(list) /\ DOMAIN more = 1..(Len(list) + 1)
      /\ more[Len(list) + 1] = crd /\ \A m \in 1..Len(list) : more[m] = list[m]
  OBVIOUS
<1> HIDE DEF more
<1>2. ASSUME NEW m PROVE m \in Defining(more, k) <=> m \in Defining(list, k) \/ (Defines(crd, k) /\ m = Len(list) + 1)
  <2>1. m \in DOMAIN more <=> m \in DOMAIN list \/ m = Len(list) + 1
    BY <1>1
  <2>2. m \in DOMAIN list => m # Len(list) + 1 /\ more[m] = list[m]
    BY <1>1
  <2> QED
    BY <1>1, <2>1, <2>2 DEF Defining, Defines
<1> QED
  BY <1>1, <1>2 DEF more

LEMMA SchemasAdded ==
    ASSUME NEW known, NEW crd
    PROVE  /\ \A k : k \in DOMAIN AddCRD(known, crd, TRUE) <=> k \in DOMAIN known \/ Defines(crd, k)
           /\ \A k : k \in DOMAIN AddCRD(known, crd, FALSE) <=> k \in DOMAIN known \/ Defines(crd, k)
           /\ \A k : k \in DOMAIN AddCRD(known, crd, TRUE) =>
                  AddCRD(known, crd, TRUE)[k] = IF k \in DOMAIN known THEN known[k] ELSE crd.defines[k]
           /\ \A k : k \in DOMAIN AddCRD(known, crd, FALSE) =>
                  AddCRD(known, crd, FALSE)[k] = IF Defines(crd, k) THEN crd.defines[k] ELSE known[k]
  BY DEF AddCRD, WithDefaults, VersionSchemas, Defines

LEMMA AddVendoredKnows ==
    ASSUME NEW known, NEW V \in Seq(Manifests), NEW R \in Seq(Manifests), NEW crd \in Manifests,
           Knows(known, V, R)
    PROVE  Knows(AddCRD(known, crd, TRUE), Append(V, crd), R)
<1> DEFINE new == AddCRD(known, crd, TRUE)
           W == Append(V, crd)
<1>1. ASSUME NEW k PROVE k \in DOMAIN new <=> Defining(W, k) # {} \/ Defining(R, k) # {}
  <2>1. Defining(W, k) = Defining(V, k) \cup (IF Defines(crd, k) THEN {Len(V) + 1} ELSE {})
    BY DefiningAppend
  <2>2. k \in DOMAIN new <=> k \in DOMAIN known \/ Defines(crd, k)
    BY SchemasAdded
  <2>3. k \in DOMAIN known <=> Defining(V, k) # {} \/ Defining(R, k) # {}
    BY DEF Knows
  <2> HIDE DEF new, W
  <2> QED
    BY <2>1, <2>2, <2>3
<1>2. ASSUME NEW k, k \in DOMAIN new PROVE new[k] = KnownSchema(W, R, k)
  <2>1. new[k] = IF k \in DOMAIN known THEN known[k] ELSE crd.defines[k]
    BY <1>2, SchemasAdded
  <2>2. CASE Defining(R, k) # {}
    <3>1. k \in DOMAIN known /\ known[k] = KnownSchema(V, R, k)
      BY <2>2 DEF Knows
    <3> QED
      BY <2>1, <2>2, <3>1 DEF KnownSchema
  <2>3. CASE Defining(R, k) = {} /\ Defining(V, k) # {}
    <3>1. k \in DOMAIN known /\ known[k] = V[Min(Defining(V, k))].defines[k]
      BY <2>3 DEF Knows, KnownSchema
    <3>2. Min(Defining(W, k)) = Min(Defining(V, k)) /\ Min(Defining(V, k)) \in 1..Len(V)
      <4> DEFINE m == Min(Defining(V, k))
      <4>1. m \in Defining(V, k) /\ (\A y \in Defining(V, k) : m <= y) /\ Defining(V, k) \subseteq 1..Len(V) /\ Len(V) \in Nat
        BY <2>3, DefiningIs
      <4>2. Defining(W, k) \in SUBSET Nat /\ m \in Defining(W, k) /\ \A y \in Defining(W, k) : m <= y
        <5> HIDE DEF m, W
        <5>1. Defining(W, k) = Defining(V, k) \cup (IF Defines(crd, k) THEN {Len(V) + 1} ELSE {})
          BY DefiningAppend DEF W
        <5> QED
          BY <4>1, <5>1
      <4> HIDE DEF m, W
      <4>3. Min(Defining(W, k)) = m
        BY <4>2, MinIs
      <4> QED
        BY <4>1, <4>3 DEF m
    <3>3. W[Min(Defining(V, k))] = V[Min(Defining(V, k))]
      BY <3>2, DefiningAppend
    <3> QED
      BY <2>1, <2>3, <3>1, <3>2, <3>3 DEF KnownSchema
  <2>4. CASE Defining(R, k) = {} /\ Defining(V, k) = {}
    <3>1. k \notin DOMAIN known /\ Defines(crd, k)
      BY <1>2, <2>4, SchemasAdded DEF Knows
    <3>2. Defining(W, k) = {Len(V) + 1} /\ W[Len(V) + 1] = crd /\ Len(V) + 1 \in Nat
      BY <2>4, <3>1, DefiningAppend
    <3>3. Min(Defining(W, k)) = Len(V) + 1
      <4> HIDE DEF W
      <4> QED
        BY <3>2, MinIs
    <3> QED
      BY <2>1, <2>4, <3>1, <3>2, <3>3 DEF KnownSchema
  <2> QED
    BY <2>2, <2>3, <2>4
<1> HIDE DEF new, W
<1>3. Knows(new, W, R)
  BY <1>1, <1>2 DEF Knows
<1> QED
  BY <1>3 DEF new, W

LEMMA AddRenderedKnows ==
    ASSUME NEW known, NEW V \in Seq(Manifests), NEW R \in Seq(Manifests), NEW crd \in Manifests,
           Knows(known, V, R)
    PROVE  Knows(AddCRD(known, crd, FALSE), V, Append(R, crd))
<1> DEFINE new == AddCRD(known, crd, FALSE)
           W == Append(R, crd)
<1>1. ASSUME NEW k PROVE k \in DOMAIN new <=> Defining(V, k) # {} \/ Defining(W, k) # {}
  <2>1. Defining(W, k) = Defining(R, k) \cup (IF Defines(crd, k) THEN {Len(R) + 1} ELSE {})
    BY DefiningAppend
  <2>2. k \in DOMAIN new <=> k \in DOMAIN known \/ Defines(crd, k)
    BY SchemasAdded
  <2>3. k \in DOMAIN known <=> Defining(V, k) # {} \/ Defining(R, k) # {}
    BY DEF Knows
  <2> HIDE DEF new, W
  <2> QED
    BY <2>1, <2>2, <2>3
<1>2. ASSUME NEW k, k \in DOMAIN new PROVE new[k] = KnownSchema(V, W, k)
  <2>1. new[k] = IF Defines(crd, k) THEN crd.defines[k] ELSE known[k]
    BY <1>2, SchemasAdded
  <2>2. CASE Defines(crd, k)
    <3>1. Defining(W, k) = Defining(R, k) \cup {Len(R) + 1} /\ W[Len(R) + 1] = crd
      BY <2>2, DefiningAppend
    <3>2. Defining(R, k) \subseteq 1..Len(R) /\ Len(R) \in Nat
      BY DefiningIs
    <3>3. Max(Defining(W, k)) = Len(R) + 1
      <4> HIDE DEF W
      <4>1. Defining(W, k) \in SUBSET Nat /\ Len(R) + 1 \in Defining(W, k) /\ \A y \in Defining(W, k) : y <= Len(R) + 1
        BY <3>1, <3>2
      <4> QED
        BY <4>1, MaxIs
    <3> QED
      BY <2>1, <2>2, <3>1, <3>3 DEF KnownSchema
  <2>3. CASE ~Defines(crd, k)
    <3>1. Defining(W, k) = Defining(R, k)
      <4>1. Defining(W, k) = Defining(R, k) \cup (IF Defines(crd, k) THEN {Len(R) + 1} ELSE {})
        BY DefiningAppend
      <4> QED
        BY <2>3, <4>1
    <3>2. k \in DOMAIN known /\ known[k] = KnownSchema(V, R, k)
      BY <1>2, <2>3, SchemasAdded DEF Knows
    <3>3. Defining(R, k) # {} => W[Max(Defining(R, k))] = R[Max(Defining(R, k))]
      BY DefiningIs, DefiningAppend
    <3> QED
      BY <2>1, <2>3, <3>1, <3>2, <3>3 DEF KnownSchema
  <2> QED
    BY <2>2, <2>3
<1> HIDE DEF new, W
<1>3. Knows(new, V, W)
  BY <1>1, <1>2 DEF Knows
<1> QED
  BY <1>3 DEF new, W

(* What one list is continued with is continued with the next element.       *)
LEMMA OneMore ==
    ASSUME NEW S, NEW s \in Seq(S), NEW t \in Seq(S), NEW n \in 1..Len(t)
    PROVE  s \o SubSeq(t, 1, n) = Append(s \o SubSeq(t, 1, n - 1), t[n])
<1>1. Len(t) \in Nat /\ Len(s) \in Nat /\ n \in Nat /\ n - 1 \in Nat /\ \A i \in 1..Len(t) : t[i] \in S
  OBVIOUS
<1> DEFINE a == SubSeq(t, 1, n)
           b == SubSeq(t, 1, n - 1)
<1>2. a \in Seq(S) /\ Len(a) = n /\ \A i \in 1..n : a[i] = t[i]
  BY <1>1
<1>3. b \in Seq(S) /\ Len(b) = n - 1 /\ \A i \in 1..(n - 1) : b[i] = t[i]
  BY <1>1
<1> HIDE DEF a, b
<1> DEFINE u == s \o a
           v == Append(s \o b, t[n])
<1>4. u \in Seq(S) /\ Len(u) = Len(s) + n
      /\ \A i \in 1..(Len(s) + n) : u[i] = IF i <= Len(s) THEN s[i] ELSE a[i - Len(s)]
  BY <1>1, <1>2, ConcatProperties
<1>5. s \o b \in Seq(S) /\ Len(s \o b) = Len(s) + n - 1
      /\ \A i \in 1..(Len(s) + n - 1) : (s \o b)[i] = IF i <= Len(s) THEN s[i] ELSE b[i - Len(s)]
  <2>1. /\ s \o b \in Seq(S) /\ Len(s \o b) = Len(s) + Len(b)
        /\ \A i \in 1..(Len(s) + Len(b)) : (s \o b)[i] = IF i <= Len(s) THEN s[i] ELSE b[i - Len(s)]
    BY <1>3, ConcatProperties
  <2> DEFINE w == s \o b
  <2> HIDE DEF w
  <2>2. /\ w \in Seq(S) /\ Len(w) = Len(s) + Len(b)
        /\ \A i \in 1..(Len(s) + Len(b)) : w[i] = IF i <= Len(s) THEN s[i] ELSE b[i - Len(s)]
    BY <2>1 DEF w
  <2>3. Len(b) = n - 1 /\ Len(s) + Len(b) = Len(s) + n - 1
    BY <1>1, <1>3
  <2>4. w \in Seq(S) /\ Len(w) = Len(s) + n - 1
        /\ \A i \in 1..(Len(s) + n - 1) : w[i] = IF i <= Len(s) THEN s[i] ELSE b[i - Len(s)]
    BY <2>2, <2>3
  <2> QED
    BY <2>4 DEF w
<1>6. v \in Seq(S) /\ Len(v) = Len(s) + n /\ v[Len(s) + n] = t[n]
      /\ \A i \in 1..(Len(s) + n - 1) : v[i] = (s \o b)[i]
  <2> DEFINE w == s \o b
  <2>1. w \in Seq(S) /\ Len(w) = Len(s) + n - 1 /\ t[n] \in S
    BY <1>1, <1>5
  <2> HIDE DEF w
  <2>2. Append(w, t[n]) \in Seq(S) /\ Len(Append(w, t[n])) = Len(s) + n /\ Append(w, t[n])[Len(s) + n] = t[n]
        /\ \A i \in 1..(Len(s) + n - 1) : Append(w, t[n])[i] = w[i]
    BY <1>1, <2>1
  <2> QED
    BY <2>2 DEF w
<1>7. \A i \in 1..Len(u) : u[i] = v[i]
  <2> SUFFICES ASSUME NEW i \in 1..(Len(s) + n) PROVE u[i] = v[i]
    BY <1>4
  <2> HIDE DEF u, v
  <2>1. CASE i = Len(s) + n
    <3>1. ~(i <= Len(s)) /\ i - Len(s) = n /\ n \in 1..n
      BY <1>1, <2>1
    <3> QED
      BY <1>2, <1>4, <1>6, <2>1, <3>1
  <2>2. CASE i <= Len(s)
    <3>1. i \in 1..(Len(s) + n - 1) /\ i \in 1..(Len(s) + n)
      BY <1>1, <2>2
    <3>2. u[i] = s[i] /\ v[i] = (s \o b)[i] /\ (s \o b)[i] = s[i]
      BY <1>4, <1>5, <1>6, <2>2, <3>1
    <3> QED
      BY <3>2
  <2>3. CASE i > Len(s) /\ i < Len(s) + n
    <3>1. i - Len(s) \in 1..(n - 1) /\ i - Len(s) \in 1..n /\ i \in 1..(Len(s) + n - 1) /\ ~(i <= Len(s))
      BY <1>1, <2>3
    <3> QED
      BY <1>2, <1>3, <1>4, <1>5, <1>6, <3>1
  <2> QED
    BY <1>1, <2>1, <2>2, <2>3
<1> HIDE DEF u, v
<1>8. u = v
  BY <1>4, <1>6, <1>7, SeqEqual
<1> QED
  BY <1>8 DEF a, b, u, v

AddsEach(known, list, keep, n, f) ==
    f = [k \in 0..n |-> IF k = 0 THEN known ELSE AddCRD(f[k - 1], list[k], keep)]

LEMMA AddsEachExists ==
    ASSUME NEW known, NEW list, NEW keep \in BOOLEAN, NEW n \in Nat
    PROVE  \E f : AddsEach(known, list, keep, n, f)
<1> DEFINE T == {i \in Nat : ~\E f : AddsEach(known, list, keep, i, f)}
<1> SUFFICES ASSUME T # {} PROVE FALSE
  OBVIOUS
<1>1. PICK m \in T : \A y \in T : m <= y
  <2> HIDE DEF T
  <2>1. T \in SUBSET Nat
    BY DEF T
  <2> QED
    BY <2>1, LeastNat
<1>2. CASE m = 0
  <2> DEFINE g == [k \in 0..0 |-> known]
  <2>1. AddsEach(known, list, keep, 0, g)
    BY DEF AddsEach
  <2> QED
    BY <1>2, <2>1
<1>3. CASE m # 0
  <2>1. m - 1 \in Nat /\ m - 1 \notin T
    BY <1>1, <1>3
  <2>2. PICK f : AddsEach(known, list, keep, m - 1, f)
    BY <2>1
  <2> DEFINE g == [k \in 0..m |-> IF k < m THEN f[k] ELSE AddCRD(f[m - 1], list[m], keep)]
  <2>3. ASSUME NEW k \in 0..m PROVE g[k] = IF k = 0 THEN known ELSE AddCRD(g[k - 1], list[k], keep)
    <3>1. CASE k < m
      <4>1. k \in 0..(m - 1) /\ g[k] = f[k] /\ (k # 0 => g[k - 1] = f[k - 1])
        BY <3>1
      <4>2. f[k] = IF k = 0 THEN known ELSE AddCRD(f[k - 1], list[k], keep)
        BY <2>2, <4>1 DEF AddsEach
      <4> QED
        BY <4>1, <4>2
    <3>2. CASE k = m
      BY <1>3, <3>2
    <3> QED
      BY <3>1, <3>2
  <2>4. AddsEach(known, list, keep, m, g)
    BY <2>3 DEF AddsEach
  <2> QED
    BY <2>4
<1> QED
  BY <1>2, <1>3

LEMMA AddEachIs ==
    ASSUME NEW known, NEW list, NEW keep \in BOOLEAN, Len(list) \in Nat
    PROVE  \E f : AddsEach(known, list, keep, Len(list), f) /\ AddEach(known, list, keep) = f[Len(list)]
<1> DEFINE after == CHOOSE f : AddsEach(known, list, keep, Len(list), f)
<1>1. AddEach(known, list, keep) = after[Len(list)]
  BY DEF AddEach, AddsEach
<1>2. AddsEach(known, list, keep, Len(list), after)
  BY AddsEachExists
<1> QED
  BY <1>1, <1>2

LEMMA ListsKnown ==
    ASSUME NEW known, NEW V \in Seq(Manifests), NEW R \in Seq(Manifests), NEW list \in Seq(Manifests),
           Knows(known, V, R)
    PROVE  /\ Knows(AddVendoredCRDs(known, list), V \o list, R)
           /\ Knows(AddCRDs(known, list), V, R \o list)
<1> DEFINE n == Len(list)
<1>1. n \in Nat /\ (\A k \in 1..n : list[k] \in Manifests) /\ SubSeq(list, 1, 0) = << >> /\ SubSeq(list, 1, n) = list
  BY SubSeqEmpty, SubSeqFull
<1>2. ASSUME NEW W \in Seq(Manifests) PROVE W \o << >> = W
  OBVIOUS
<1>3. ASSUME NEW W \in Seq(Manifests), NEW k \in 0..n PROVE W \o SubSeq(list, 1, k) \in Seq(Manifests)
  <2>1. SubSeq(list, 1, k) \in Seq(Manifests)
    BY <1>1
  <2> HIDE DEF n
  <2> QED
    BY <2>1, ConcatProperties
<1>4. Knows(AddVendoredCRDs(known, list), V \o list, R)
  <2>1. PICK f : AddsEach(known, list, TRUE, n, f) /\ AddEach(known, list, TRUE) = f[n]
    BY <1>1, AddEachIs
  <2> DEFINE T == {k \in 0..n : ~Knows(f[k], V \o SubSeq(list, 1, k), R)}
  <2> HIDE DEF n
  <2>2. T = {}
    <3> SUFFICES ASSUME T # {} PROVE FALSE
      OBVIOUS
    <3>1. PICK m \in T : \A y \in T : m <= y
      <4> HIDE DEF T
      <4>1. T \in SUBSET Nat
        BY <1>1 DEF T
      <4> QED
        BY <4>1, LeastNat
    <3>2. m \in 0..n /\ ~Knows(f[m], V \o SubSeq(list, 1, m), R)
      BY <3>1
    <3>3. f[m] = IF m = 0 THEN known ELSE AddCRD(f[m - 1], list[m], TRUE)
      <4>1. f = [k \in 0..n |-> IF k = 0 THEN known ELSE AddCRD(f[k - 1], list[k], TRUE)]
        BY <2>1 DEF AddsEach
      <4>2. m \in 0..n
        BY <3>2
      <4> QED
        BY <4>1, <4>2
    <3>4. CASE m = 0
      <4>1. V \o SubSeq(list, 1, m) = V
        BY <1>1, <1>2, <3>4
      <4> QED
        BY <3>2, <3>3, <3>4, <4>1
    <3>5. CASE m # 0
      <4>1. m \in 1..n /\ m - 1 \in 0..n /\ m - 1 \notin T
        BY <1>1, <3>1, <3>5
      <4>2. Knows(f[m - 1], V \o SubSeq(list, 1, m - 1), R)
        BY <4>1
      <4>3. Knows(AddCRD(f[m - 1], list[m], TRUE), Append(V \o SubSeq(list, 1, m - 1), list[m]), R)
        BY <1>1, <1>3, <4>1, <4>2, AddVendoredKnows
      <4>4. V \o SubSeq(list, 1, m) = Append(V \o SubSeq(list, 1, m - 1), list[m])
        BY <4>1, OneMore DEF n
      <4> QED
        BY <3>2, <3>3, <3>5, <4>3, <4>4
    <3> QED
      BY <3>4, <3>5
  <2>3. Knows(f[n], V \o SubSeq(list, 1, n), R)
    BY <1>1, <2>2
  <2> QED
    BY <1>1, <2>1, <2>3 DEF AddVendoredCRDs
<1>5. Knows(AddCRDs(known, list), V, R \o list)
  <2>1. PICK f : AddsEach(known, list, FALSE, n, f) /\ AddEach(known, list, FALSE) = f[n]
    BY <1>1, AddEachIs
  <2> DEFINE T == {k \in 0..n : ~Knows(f[k], V, R \o SubSeq(list, 1, k))}
  <2> HIDE DEF n
  <2>2. T = {}
    <3> SUFFICES ASSUME T # {} PROVE FALSE
      OBVIOUS
    <3>1. PICK m \in T : \A y \in T : m <= y
      <4> HIDE DEF T
      <4>1. T \in SUBSET Nat
        BY <1>1 DEF T
      <4> QED
        BY <4>1, LeastNat
    <3>2. m \in 0..n /\ ~Knows(f[m], V, R \o SubSeq(list, 1, m))
      BY <3>1
    <3>3. f[m] = IF m = 0 THEN known ELSE AddCRD(f[m - 1], list[m], FALSE)
      <4>1. f = [k \in 0..n |-> IF k = 0 THEN known ELSE AddCRD(f[k - 1], list[k], FALSE)]
        BY <2>1 DEF AddsEach
      <4>2. m \in 0..n
        BY <3>2
      <4> QED
        BY <4>1, <4>2
    <3>4. CASE m = 0
      <4>1. R \o SubSeq(list, 1, m) = R
        BY <1>1, <1>2, <3>4
      <4> QED
        BY <3>2, <3>3, <3>4, <4>1
    <3>5. CASE m # 0
      <4>1. m \in 1..n /\ m - 1 \in 0..n /\ m - 1 \notin T
        BY <1>1, <3>1, <3>5
      <4>2. Knows(f[m - 1], V, R \o SubSeq(list, 1, m - 1))
        BY <4>1
      <4>3. Knows(AddCRD(f[m - 1], list[m], FALSE), V, Append(R \o SubSeq(list, 1, m - 1), list[m]))
        BY <1>1, <1>3, <4>1, <4>2, AddRenderedKnows
      <4>4. R \o SubSeq(list, 1, m) = Append(R \o SubSeq(list, 1, m - 1), list[m])
        BY <4>1, OneMore DEF n
      <4> QED
        BY <3>2, <3>3, <3>5, <4>3, <4>4
    <3> QED
      BY <3>4, <3>5
  <2>3. Knows(f[n], V, R \o SubSeq(list, 1, n))
    BY <1>1, <2>2
  <2> QED
    BY <1>1, <2>1, <2>3 DEF AddCRDs
<1> QED
  BY <1>4, <1>5

(* What was vendored before changes nothing.                                 *)
LEMMA RepeatedKnown ==
    ASSUME NEW known, NEW V \in Seq(Manifests), NEW R \in Seq(Manifests), NEW list \in Seq(Manifests),
           Knows(known, V, R), \A m \in DOMAIN list : \E l \in DOMAIN V : V[l] = list[m]
    PROVE  Knows(known, V \o list, R)
<1> DEFINE W == V \o list
<1>1. /\ W \in Seq(Manifests) /\ DOMAIN W = 1..(Len(V) + Len(list)) /\ DOMAIN V = 1..Len(V)
      /\ DOMAIN list = 1..Len(list) /\ Len(V) \in Nat /\ Len(list) \in Nat
      /\ \A i \in 1..(Len(V) + Len(list)) : W[i] = IF i <= Len(V) THEN V[i] ELSE list[i - Len(V)]
  BY ConcatProperties
<1> HIDE DEF W
<1>2. \A m \in DOMAIN V : m \in DOMAIN W /\ W[m] = V[m]
  BY <1>1
<1>3. ASSUME NEW m \in DOMAIN W, m \notin DOMAIN V PROVE \E l \in DOMAIN V : V[l] = W[m]
  <2>1. m - Len(V) \in DOMAIN list /\ W[m] = list[m - Len(V)]
    BY <1>1, <1>3
  <2> QED
    BY <2>1
<1>4. ASSUME NEW k
      PROVE  /\ Defining(V, k) \subseteq Defining(W, k)
             /\ \A m \in Defining(W, k) : m \in Defining(V, k) \/ (m \notin DOMAIN V /\ Defining(V, k) # {})
  <2>1. Defining(V, k) \subseteq Defining(W, k)
    BY <1>2 DEF Defining
  <2>2. ASSUME NEW m \in Defining(W, k), m \notin Defining(V, k) PROVE m \notin DOMAIN V /\ Defining(V, k) # {}
    <3>1. m \in DOMAIN W /\ m \notin DOMAIN V
      BY <1>2, <2>2 DEF Defining
    <3>2. PICK l \in DOMAIN V : V[l] = W[m]
      BY <1>3, <3>1
    <3>3. l \in Defining(V, k)
      BY <2>2, <3>2 DEF Defining
    <3> QED
      BY <3>1, <3>3
  <2> QED
    BY <2>1, <2>2
<1>5. ASSUME NEW k, Defining(V, k) # {}
      PROVE  Min(Defining(W, k)) = Min(Defining(V, k)) /\ W[Min(Defining(V, k))] = V[Min(Defining(V, k))]
  <2> DEFINE m == Min(Defining(V, k))
  <2>1. m \in Defining(V, k) /\ (\A y \in Defining(V, k) : m <= y) /\ Defining(V, k) \subseteq 1..Len(V)
    BY <1>5, DefiningIs
  <2> HIDE DEF m
  <2>2. Defining(W, k) \subseteq 1..(Len(V) + Len(list))
    BY <1>1 DEF Defining
  <2>3. Defining(W, k) \in SUBSET Nat /\ m \in Defining(W, k)
    BY <1>1, <1>4, <2>1, <2>2
  <2>4. \A y \in Defining(W, k) : m <= y
    BY <1>1, <1>4, <2>1, <2>2
  <2>5. Min(Defining(W, k)) = m
    BY <2>3, <2>4, MinIs
  <2> QED
    BY <1>1, <1>2, <2>1, <2>5 DEF m
<1>6. \A k : k \in DOMAIN known <=> Defining(W, k) # {} \/ Defining(R, k) # {}
  BY <1>4 DEF Knows
<1>7. ASSUME NEW k, k \in DOMAIN known PROVE known[k] = KnownSchema(W, R, k)
  <2>1. known[k] = KnownSchema(V, R, k) /\ (Defining(V, k) # {} \/ Defining(R, k) # {})
    BY <1>7 DEF Knows
  <2>2. CASE Defining(R, k) # {}
    BY <2>1, <2>2 DEF KnownSchema
  <2>3. CASE Defining(R, k) = {}
    BY <1>5, <2>1, <2>3 DEF KnownSchema
  <2> QED
    BY <2>2, <2>3
<1>8. Knows(known, W, R)
  BY <1>6, <1>7 DEF Knows
<1> QED
  BY <1>8 DEF W

--------------------------------------------------------------------------------
(* The CRDs of the first instances, one instance after the other.            *)

LEMMA ListsGrow ==
    ASSUME bundle \in Bundles
    PROVE  /\ RenderedCRDs(0) = << >> /\ VendoredCRDs(0) = << >>
           /\ \A n \in 0..Len(bundle.dir) : RenderedCRDs(n) \in Seq(Manifests) /\ VendoredCRDs(n) \in Seq(Manifests)
           /\ \A n \in Instances : /\ RenderedCRDs(n) = RenderedCRDs(n - 1) \o InstanceObjects(n)
                                   /\ VendoredCRDs(n) = VendoredCRDs(n - 1) \o GetVendoredCRDs(bundle.dir[n])
<1> DEFINE rendered(n) == [i \in 1..n |-> InstanceObjects(i)]
           vendored(n) == [i \in 1..n |-> GetVendoredCRDs(bundle.dir[i])]
           LL == Seq(Seq(Manifests))
<1>1. Len(bundle.dir) \in Nat /\ Instances = 1..Len(bundle.dir)
  BY BundleIs
<1>2. ASSUME NEW i \in Instances PROVE InstanceObjects(i) \in Seq(Manifests) /\ GetVendoredCRDs(bundle.dir[i]) \in Seq(Manifests)
  BY BundleIs, ObjectsTyped, VendoredTyped
<1>3. ASSUME NEW n \in 0..Len(bundle.dir)
      PROVE  /\ rendered(n) \in LL /\ Len(rendered(n)) = n /\ \A i \in 1..n : rendered(n)[i] = InstanceObjects(i)
             /\ vendored(n) \in LL /\ Len(vendored(n)) = n /\ \A i \in 1..n : vendored(n)[i] = GetVendoredCRDs(bundle.dir[i])
  <2>1. n \in Nat /\ \A i \in 1..n : i \in Instances
    BY <1>1
  <2>2. rendered(n) \in [1..n -> Seq(Manifests)] /\ vendored(n) \in [1..n -> Seq(Manifests)]
    BY <1>2, <2>1
  <2> QED
    BY <2>1, <2>2
<1>4. \A n : RenderedCRDs(n) = FlattenSeq(rendered(n)) /\ VendoredCRDs(n) = FlattenSeq(vendored(n))
  BY DEF RenderedCRDs, VendoredCRDs
<1> HIDE DEF rendered, vendored
<1>5. RenderedCRDs(0) = << >> /\ VendoredCRDs(0) = << >>
  <2>1. 0 \in 0..Len(bundle.dir)
    BY <1>1
  <2>2. rendered(0) \in LL /\ Len(rendered(0)) = 0 /\ vendored(0) \in LL /\ Len(vendored(0)) = 0
    BY <1>3, <2>1
  <2>3. rendered(0) = << >> /\ vendored(0) = << >>
    BY <2>2
  <2>4. FlattenSeq(rendered(0)) = << >> /\ FlattenSeq(vendored(0)) = << >>
    BY <2>2, <2>3 DEF FlattenSeq
  <2> QED
    BY <1>4, <2>4
<1>6. ASSUME NEW n \in 0..Len(bundle.dir) PROVE RenderedCRDs(n) \in Seq(Manifests) /\ VendoredCRDs(n) \in Seq(Manifests)
  BY <1>3, <1>4, FlattenTyped
<1>7. ASSUME NEW n \in Instances
      PROVE  /\ RenderedCRDs(n) = RenderedCRDs(n - 1) \o InstanceObjects(n)
             /\ VendoredCRDs(n) = VendoredCRDs(n - 1) \o GetVendoredCRDs(bundle.dir[n])
  <2>1. n \in 0..Len(bundle.dir) /\ n - 1 \in 0..Len(bundle.dir) /\ n = (n - 1) + 1 /\ n \in 1..n
        /\ \A i \in 1..(n - 1) : i \in 1..n
    BY <1>1
  <2>2. /\ rendered(n) \in LL /\ rendered(n - 1) \in LL /\ Len(rendered(n)) = n /\ Len(rendered(n - 1)) = n - 1
        /\ \A i \in 1..(n - 1) : rendered(n)[i] = rendered(n - 1)[i]
        /\ rendered(n)[n] = InstanceObjects(n)
    BY <1>3, <2>1
  <2>3. /\ vendored(n) \in LL /\ vendored(n - 1) \in LL /\ Len(vendored(n)) = n /\ Len(vendored(n - 1)) = n - 1
        /\ \A i \in 1..(n - 1) : vendored(n)[i] = vendored(n - 1)[i]
        /\ vendored(n)[n] = GetVendoredCRDs(bundle.dir[n])
    BY <1>3, <2>1
  <2>4. FlattenSeq(rendered(n)) = FlattenSeq(rendered(n - 1)) \o InstanceObjects(n)
    <3>1. Len(rendered(n)) = Len(rendered(n - 1)) + 1 /\ \A i \in 1..Len(rendered(n - 1)) : rendered(n)[i] = rendered(n - 1)[i]
      BY <2>1, <2>2
    <3>2. FlattenSeq(rendered(n)) = FlattenSeq(rendered(n - 1)) \o rendered(n)[Len(rendered(n))]
      BY <2>2, <3>1, FlattenOneMore
    <3> QED
      BY <2>2, <3>2
  <2>5. FlattenSeq(vendored(n)) = FlattenSeq(vendored(n - 1)) \o GetVendoredCRDs(bundle.dir[n])
    <3>1. Len(vendored(n)) = Len(vendored(n - 1)) + 1 /\ \A i \in 1..Len(vendored(n - 1)) : vendored(n)[i] = vendored(n - 1)[i]
      BY <2>1, <2>3
    <3>2. FlattenSeq(vendored(n)) = FlattenSeq(vendored(n - 1)) \o vendored(n)[Len(vendored(n))]
      BY <2>3, <3>1, FlattenOneMore
    <3> QED
      BY <2>3, <3>2
  <2> QED
    BY <1>4, <2>4, <2>5
<1> QED
  BY <1>5, <1>6, <1>7

LEMMA ConcatHas ==
    ASSUME NEW s \in Seq(Manifests), NEW t \in Seq(Manifests)
    PROVE  /\ \A m \in DOMAIN s : m \in DOMAIN (s \o t) /\ (s \o t)[m] = s[m]
           /\ \A m \in DOMAIN t : Len(s) + m \in DOMAIN (s \o t) /\ (s \o t)[Len(s) + m] = t[m]
           /\ \A m \in DOMAIN (s \o t) : m \in DOMAIN s \/ (m - Len(s) \in DOMAIN t /\ (s \o t)[m] = t[m - Len(s)])
<1> DEFINE u == s \o t
<1>1. /\ Len(s) \in Nat /\ Len(t) \in Nat /\ DOMAIN s = 1..Len(s) /\ DOMAIN t = 1..Len(t)
      /\ DOMAIN u = 1..(Len(s) + Len(t))
      /\ \A i \in 1..(Len(s) + Len(t)) : u[i] = IF i <= Len(s) THEN s[i] ELSE t[i - Len(s)]
  BY ConcatProperties
<1> HIDE DEF u
<1>2. \A m \in DOMAIN s : m \in DOMAIN u /\ u[m] = s[m]
  BY <1>1
<1>3. ASSUME NEW m \in DOMAIN t PROVE Len(s) + m \in DOMAIN u /\ u[Len(s) + m] = t[m]
  <2>1. Len(s) + m \in 1..(Len(s) + Len(t)) /\ ~(Len(s) + m <= Len(s)) /\ (Len(s) + m) - Len(s) = m
    BY <1>1
  <2> QED
    BY <1>1, <2>1
<1>4. ASSUME NEW m \in DOMAIN u, m \notin DOMAIN s PROVE m - Len(s) \in DOMAIN t /\ u[m] = t[m - Len(s)]
  <2>1. m \in 1..(Len(s) + Len(t)) /\ ~(m <= Len(s)) /\ m - Len(s) \in 1..Len(t)
    BY <1>1, <1>4
  <2> QED
    BY <1>1, <2>1
<1> QED
  BY <1>2, <1>3, <1>4 DEF u

LEMMA ConcatDecodes ==
    ASSUME NEW s \in Seq(Manifests), NEW t \in Seq(Manifests)
    PROVE  AllDecode(s \o t) <=> AllDecode(s) /\ AllDecode(t)
<1> DEFINE u == s \o t
<1>1. /\ \A m \in DOMAIN s : m \in DOMAIN u /\ u[m] = s[m]
      /\ \A m \in DOMAIN t : Len(s) + m \in DOMAIN u /\ u[Len(s) + m] = t[m]
      /\ \A m \in DOMAIN u : m \in DOMAIN s \/ (m - Len(s) \in DOMAIN t /\ u[m] = t[m - Len(s)])
  BY ConcatHas
<1> HIDE DEF u
<1>2. AllDecode(u) <=> AllDecode(s) /\ AllDecode(t)
  BY <1>1 DEF AllDecode
<1> QED
  BY <1>2 DEF u

LEMMA AllDecodeGrows ==
    ASSUME bundle \in Bundles, NEW n \in Instances
    PROVE  /\ AllDecode(RenderedCRDs(n)) <=> AllDecode(RenderedCRDs(n - 1)) /\ AllDecode(InstanceObjects(n))
           /\ AllDecode(VendoredCRDs(n)) <=> AllDecode(VendoredCRDs(n - 1)) /\ AllDecode(GetVendoredCRDs(bundle.dir[n]))
<1>1. n - 1 \in 0..Len(bundle.dir) /\ bundle.dir[n] \in DOMAIN bundle.imports
  BY BundleIs
<1>2. InstanceObjects(n) \in Seq(Manifests) /\ GetVendoredCRDs(bundle.dir[n]) \in Seq(Manifests)
  BY <1>1, ObjectsTyped, VendoredTyped
<1>3. RenderedCRDs(n - 1) \in Seq(Manifests) /\ VendoredCRDs(n - 1) \in Seq(Manifests)
  BY <1>1, ListsGrow
<1>4. /\ RenderedCRDs(n) = RenderedCRDs(n - 1) \o InstanceObjects(n)
      /\ VendoredCRDs(n) = VendoredCRDs(n - 1) \o GetVendoredCRDs(bundle.dir[n])
  BY ListsGrow
<1>5. AllDecode(RenderedCRDs(n - 1) \o InstanceObjects(n)) <=> AllDecode(RenderedCRDs(n - 1)) /\ AllDecode(InstanceObjects(n))
  BY <1>2, <1>3, ConcatDecodes
<1>6. AllDecode(VendoredCRDs(n - 1) \o GetVendoredCRDs(bundle.dir[n]))
         <=> AllDecode(VendoredCRDs(n - 1)) /\ AllDecode(GetVendoredCRDs(bundle.dir[n]))
  BY <1>2, <1>3, ConcatDecodes
<1> QED
  BY <1>4, <1>5, <1>6

LEMMA AllDecodeIs ==
    ASSUME bundle \in Bundles, NEW n \in 0..Len(bundle.dir)
    PROVE  /\ AllDecode(RenderedCRDs(n)) <=> \A i \in 1..n : AllDecode(InstanceObjects(i))
           /\ AllDecode(VendoredCRDs(n)) <=> \A i \in 1..n : AllDecode(GetVendoredCRDs(bundle.dir[i]))
<1> DEFINE AllHeld(k) ==
        /\ AllDecode(RenderedCRDs(k)) <=> \A i \in 1..k : AllDecode(InstanceObjects(i))
        /\ AllDecode(VendoredCRDs(k)) <=> \A i \in 1..k : AllDecode(GetVendoredCRDs(bundle.dir[i]))
           T == {k \in 0..Len(bundle.dir) : ~AllHeld(k)}
<1> SUFFICES ASSUME T # {} PROVE FALSE
  OBVIOUS
<1>1. Len(bundle.dir) \in Nat /\ Instances = 1..Len(bundle.dir)
  BY BundleIs
<1>2. PICK m \in T : \A y \in T : m <= y
  <2> HIDE DEF T
  <2>1. T \in SUBSET Nat
    BY <1>1 DEF T
  <2> QED
    BY <2>1, LeastNat
<1>3. CASE m = 0
  <2>1. AllDecode(RenderedCRDs(0)) /\ AllDecode(VendoredCRDs(0))
    BY ListsGrow DEF AllDecode
  <2>2. \A i \in 1..0 : FALSE
    OBVIOUS
  <2>3. AllHeld(0)
    BY <2>1, <2>2
  <2> HIDE DEF AllHeld
  <2> QED
    BY <1>2, <1>3, <2>3
<1>4. CASE m # 0
  <2>1. m \in Instances /\ m - 1 \in 0..Len(bundle.dir) /\ m - 1 \notin T
    BY <1>1, <1>2, <1>4
  <2>2. AllHeld(m - 1)
    <3> HIDE DEF AllHeld
    <3> QED
      BY <2>1
  <2>3. \A i : i \in 1..m <=> i \in 1..(m - 1) \/ i = m
    BY <1>1, <2>1
  <2>4. AllHeld(m)
    BY <2>1, <2>2, <2>3, AllDecodeGrows
  <2> HIDE DEF AllHeld
  <2> QED
    BY <1>2, <2>4
<1> QED
  BY <1>3, <1>4

LEMMA VendoredHas ==
    ASSUME bundle \in Bundles, NEW n \in 0..Len(bundle.dir), NEW j \in 1..n
    PROVE  \A m \in DOMAIN GetVendoredCRDs(bundle.dir[j]) :
               \E l \in DOMAIN VendoredCRDs(n) : VendoredCRDs(n)[l] = GetVendoredCRDs(bundle.dir[j])[m]
<1> DEFINE AllHeld(k) ==
        \A m \in DOMAIN GetVendoredCRDs(bundle.dir[j]) :
            \E l \in DOMAIN VendoredCRDs(k) : VendoredCRDs(k)[l] = GetVendoredCRDs(bundle.dir[j])[m]
           T == {k \in j..Len(bundle.dir) : ~AllHeld(k)}
<1> SUFFICES ASSUME T # {} PROVE FALSE
  <2> n \in j..Len(bundle.dir)
    BY BundleIs
  <2> QED
    OBVIOUS
<1>1. Len(bundle.dir) \in Nat /\ Instances = 1..Len(bundle.dir) /\ j \in Nat \ {0} /\ j \in Instances
  BY BundleIs
<1>2. PICK m \in T : \A y \in T : m <= y
  <2> HIDE DEF T
  <2>1. T \in SUBSET Nat
    BY <1>1 DEF T
  <2> QED
    BY <2>1, LeastNat
<1>3. m \in Instances /\ m - 1 \in 0..Len(bundle.dir)
  BY <1>1, <1>2
<1> DEFINE V == VendoredCRDs(m - 1)
           L == GetVendoredCRDs(bundle.dir[m])
<1>4. V \in Seq(Manifests) /\ L \in Seq(Manifests) /\ VendoredCRDs(m) = V \o L
  BY <1>3, BundleIs, VendoredTyped, ListsGrow
<1>5. /\ \A x \in DOMAIN V : x \in DOMAIN VendoredCRDs(m) /\ VendoredCRDs(m)[x] = V[x]
      /\ \A x \in DOMAIN L : Len(V) + x \in DOMAIN VendoredCRDs(m) /\ VendoredCRDs(m)[Len(V) + x] = L[x]
  <2> HIDE DEF V, L
  <2> QED
    BY <1>4, ConcatHas
<1>6. CASE m = j
  BY <1>2, <1>5, <1>6
<1>7. CASE m # j
  <2>1. m - 1 \in j..Len(bundle.dir) /\ m - 1 \notin T
    BY <1>1, <1>2, <1>7
  <2>2. AllHeld(m - 1)
    <3> HIDE DEF AllHeld
    <3> QED
      BY <2>1
  <2>3. AllHeld(m)
    BY <1>5, <2>2
  <2> HIDE DEF AllHeld
  <2> QED
    BY <1>2, <2>3
<1> QED
  BY <1>6, <1>7

(* An object passes when it is valid for the CRDs known so far.              *)
LEMMA ValidIs ==
    ASSUME NEW known, NEW n, Knows(known, VendoredCRDs(n), RenderedCRDs(n)), NEW obj
    PROVE  Valid(n, obj) <=> (HasSchema(known, obj.kind) => Validate(known, obj))
<1> DEFINE k == obj.kind
           rendered == Defining(RenderedCRDs(n), k)
           vendored == Defining(VendoredCRDs(n), k)
           Allows(schema) == schema \in obj.conforms \ {"bad"}
<1>1. Valid(n, obj) <=>
          /\ rendered # {} => Allows(RenderedCRDs(n)[Max(rendered)].defines[k])
          /\ rendered = {} /\ vendored # {} => Allows(VendoredCRDs(n)[Min(vendored)].defines[k])
  BY DEF Valid
<1>2. k \in DOMAIN known <=> vendored # {} \/ rendered # {}
  BY DEF Knows
<1>3. k \in DOMAIN known => known[k] = IF rendered # {} THEN RenderedCRDs(n)[Max(rendered)].defines[k]
                                       ELSE VendoredCRDs(n)[Min(vendored)].defines[k]
  BY DEF Knows, KnownSchema
<1>4. (HasSchema(known, k) => Validate(known, obj)) <=> (k \in DOMAIN known => Allows(known[k]))
  BY DEF HasSchema, Validate, Structural
<1> HIDE DEF k, rendered, vendored, Allows
<1>5. Valid(n, obj) <=> (k \in DOMAIN known => Allows(known[k]))
  BY <1>1, <1>2, <1>3
<1> QED
  BY <1>4, <1>5 DEF k

Seen(n) == \E j \in 1..(n - 1) : bundle.dir[j] = bundle.dir[n]

RegistersVendored(n, f) ==
    f = [k \in 0..n |-> IF k = 0 THEN schemas
                        ELSE IF Seen(k) THEN f[k - 1]
                        ELSE AddVendoredCRDs(f[k - 1], crds[bundle.dir[k]])]

LEMMA RegistersVendoredExists == ASSUME NEW n \in Nat PROVE \E f : RegistersVendored(n, f)
<1> DEFINE Step(f, k) == IF Seen(k) THEN f[k - 1] ELSE AddVendoredCRDs(f[k - 1], crds[bundle.dir[k]])
           T == {i \in Nat : ~\E f : RegistersVendored(i, f)}
<1> SUFFICES ASSUME T # {} PROVE FALSE
  OBVIOUS
<1>1. PICK m \in T : \A y \in T : m <= y
  <2> HIDE DEF T
  <2>1. T \in SUBSET Nat
    BY DEF T
  <2> QED
    BY <2>1, LeastNat
<1>2. CASE m = 0
  <2> DEFINE g == [k \in 0..0 |-> schemas]
  <2>1. RegistersVendored(0, g)
    BY DEF RegistersVendored
  <2> QED
    BY <1>2, <2>1
<1>3. CASE m # 0
  <2>1. m - 1 \in Nat /\ m - 1 \notin T
    BY <1>1, <1>3
  <2>2. PICK f : RegistersVendored(m - 1, f)
    BY <2>1
  <2> DEFINE g == [k \in 0..m |-> IF k < m THEN f[k] ELSE Step(f, m)]
  <2>3. ASSUME NEW k \in 0..m PROVE g[k] = IF k = 0 THEN schemas ELSE Step(g, k)
    <3>1. CASE k < m
      <4>1. k \in 0..(m - 1) /\ g[k] = f[k] /\ (k # 0 => g[k - 1] = f[k - 1])
        BY <3>1
      <4>2. f[k] = IF k = 0 THEN schemas ELSE Step(f, k)
        BY <2>2, <4>1 DEF RegistersVendored
      <4> QED
        BY <4>1, <4>2
    <3>2. CASE k = m
      <4>1. g[m - 1] = f[m - 1] /\ g[m] = Step(f, m)
        BY <1>3, <2>1
      <4> QED
        BY <1>3, <3>2, <4>1
    <3> QED
      BY <3>1, <3>2
  <2>4. RegistersVendored(m, g)
    BY <2>3 DEF RegistersVendored
  <2> QED
    BY <2>4
<1> QED
  BY <1>2, <1>3

RegistersRendered(start, n, f) ==
    f = [k \in 0..n |-> IF k = 0 THEN start ELSE AddCRDs(f[k - 1], objects[k])]

LEMMA RegistersRenderedExists ==
    ASSUME NEW start, NEW n \in Nat
    PROVE  \E f : RegistersRendered(start, n, f)
<1> DEFINE T == {i \in Nat : ~\E f : RegistersRendered(start, i, f)}
<1> SUFFICES ASSUME T # {} PROVE FALSE
  OBVIOUS
<1>1. PICK m \in T : \A y \in T : m <= y
  <2> HIDE DEF T
  <2>1. T \in SUBSET Nat
    BY DEF T
  <2> QED
    BY <2>1, LeastNat
<1>2. CASE m = 0
  <2> DEFINE g == [k \in 0..0 |-> start]
  <2>1. RegistersRendered(start, 0, g)
    BY DEF RegistersRendered
  <2> QED
    BY <1>2, <2>1
<1>3. CASE m # 0
  <2>1. m - 1 \in Nat /\ m - 1 \notin T
    BY <1>1, <1>3
  <2>2. PICK f : RegistersRendered(start, m - 1, f)
    BY <2>1
  <2> DEFINE g == [k \in 0..m |-> IF k < m THEN f[k] ELSE AddCRDs(f[m - 1], objects[m])]
  <2>3. ASSUME NEW k \in 0..m PROVE g[k] = IF k = 0 THEN start ELSE AddCRDs(g[k - 1], objects[k])
    <3>1. CASE k < m
      <4>1. k \in 0..(m - 1) /\ g[k] = f[k] /\ (k # 0 => g[k - 1] = f[k - 1])
        BY <3>1
      <4>2. f[k] = IF k = 0 THEN start ELSE AddCRDs(f[k - 1], objects[k])
        BY <2>2, <4>1 DEF RegistersRendered
      <4> QED
        BY <4>1, <4>2
    <3>2. CASE k = m
      BY <1>3, <3>2
    <3> QED
      BY <3>1, <3>2
  <2>4. RegistersRendered(start, m, g)
    BY <2>3 DEF RegistersRendered
  <2> QED
    BY <2>4
<1> QED
  BY <1>2, <1>3

LEMMA NothingKnown == Knows(<< >>, << >>, << >>)
<1>1. DOMAIN << >> = {}
  OBVIOUS
<1>2. \A k : Defining(<< >>, k) = {}
  BY <1>1 DEF Defining
<1> QED
  BY <1>1, <1>2 DEF Knows

(* In whatever order the instances were built: the validator of a bundle     *)
(* knows the CRDs of all instances.                                          *)
LEMMA RegisteredKnows ==
    ASSUME bundle \in Bundles, schemas = << >>,
           \A i \in Instances : crds[bundle.dir[i]] = GetVendoredCRDs(bundle.dir[i])
                                /\ objects[i] = InstanceObjects(i)
    PROVE  Knows(Registered, VendoredCRDs(Len(bundle.dir)), RenderedCRDs(Len(bundle.dir)))
<1> DEFINE N == Len(bundle.dir)
           vendored == CHOOSE f : RegistersVendored(N, f)
           rendered == CHOOSE f : RegistersRendered(vendored[N], N, f)
<1>1. N \in Nat /\ Instances = 1..N
  BY BundleIs
<1>2. RegistersVendored(N, vendored)
  BY <1>1, RegistersVendoredExists
<1>3. Registered = rendered[N]
  BY DEF Registered, RegistersVendored, RegistersRendered, Seen
<1> HIDE DEF vendored
<1>4. RegistersRendered(vendored[N], N, rendered)
  BY <1>1, RegistersRenderedExists
<1> HIDE DEF rendered
<1>5. ASSUME NEW n \in 0..N PROVE RenderedCRDs(n) \in Seq(Manifests) /\ VendoredCRDs(n) \in Seq(Manifests)
  BY ListsGrow
<1>6. RenderedCRDs(0) = << >> /\ VendoredCRDs(0) = << >>
  BY ListsGrow
<1>7. ASSUME NEW n \in 1..N
      PROVE  /\ RenderedCRDs(n) = RenderedCRDs(n - 1) \o InstanceObjects(n)
             /\ VendoredCRDs(n) = VendoredCRDs(n - 1) \o GetVendoredCRDs(bundle.dir[n])
             /\ InstanceObjects(n) \in Seq(Manifests) /\ GetVendoredCRDs(bundle.dir[n]) \in Seq(Manifests)
             /\ objects[n] = InstanceObjects(n) /\ crds[bundle.dir[n]] = GetVendoredCRDs(bundle.dir[n])
             /\ n - 1 \in 0..N /\ n \in Instances
  <2>1. n \in Instances /\ n - 1 \in 0..N
    BY <1>1
  <2>2. InstanceObjects(n) \in Seq(Manifests) /\ GetVendoredCRDs(bundle.dir[n]) \in Seq(Manifests)
    BY <2>1, BundleIs, ObjectsTyped, VendoredTyped
  <2> QED
    BY <2>1, <2>2, ListsGrow
<1> HIDE DEF N
<1> DEFINE T == {n \in 0..N : ~Knows(vendored[n], VendoredCRDs(n), << >>)}
<1>8. T = {}
  <2> SUFFICES ASSUME T # {} PROVE FALSE
    OBVIOUS
  <2>1. PICK m \in T : \A y \in T : m <= y
    <3> HIDE DEF T
    <3>1. T \in SUBSET Nat
      BY <1>1 DEF T
    <3> QED
      BY <3>1, LeastNat
  <2>2. m \in 0..N /\ ~Knows(vendored[m], VendoredCRDs(m), << >>)
    BY <2>1
  <2>3. vendored[m] = IF m = 0 THEN schemas
                      ELSE IF Seen(m) THEN vendored[m - 1]
                      ELSE AddVendoredCRDs(vendored[m - 1], crds[bundle.dir[m]])
    BY <1>2, <2>2 DEF RegistersVendored
  <2>4. CASE m = 0
    BY <1>6, <2>2, <2>3, <2>4, NothingKnown
  <2>5. CASE m # 0
    <3> DEFINE V == VendoredCRDs(m - 1)
               L == GetVendoredCRDs(bundle.dir[m])
    <3>1. m \in 1..N /\ m - 1 \in 0..N /\ m - 1 \notin T
      BY <1>1, <2>1, <2>5
    <3>2. Knows(vendored[m - 1], V, << >>)
      BY <3>1
    <3>3. V \in Seq(Manifests) /\ L \in Seq(Manifests) /\ VendoredCRDs(m) = V \o L /\ crds[bundle.dir[m]] = L
          /\ << >> \in Seq(Manifests)
      BY <1>5, <1>7, <3>1
    <3>4. CASE Seen(m)
      <4>1. PICK j \in 1..(m - 1) : bundle.dir[j] = bundle.dir[m]
        BY <3>4 DEF Seen
      <4>2. \A x \in DOMAIN L : \E l \in DOMAIN V : V[l] = L[x]
        <5>1. m - 1 \in 0..Len(bundle.dir)
          BY <3>1 DEF N
        <5>2. \A x \in DOMAIN GetVendoredCRDs(bundle.dir[j]) :
                  \E l \in DOMAIN VendoredCRDs(m - 1) : VendoredCRDs(m - 1)[l] = GetVendoredCRDs(bundle.dir[j])[x]
          BY <4>1, <5>1, VendoredHas
        <5> QED
          BY <4>1, <5>2
      <4> HIDE DEF V, L
      <4>3. Knows(vendored[m - 1], V \o L, << >>)
        BY <3>2, <3>3, <4>2, RepeatedKnown
      <4> QED
        BY <2>2, <2>3, <2>5, <3>3, <3>4, <4>3
    <3>5. CASE ~Seen(m)
      <4> HIDE DEF V, L
      <4>1. Knows(AddVendoredCRDs(vendored[m - 1], L), V \o L, << >>)
        BY <3>2, <3>3, ListsKnown
      <4> QED
        BY <2>2, <2>3, <2>5, <3>3, <3>5, <4>1
    <3> QED
      BY <3>4, <3>5
  <2> QED
    BY <2>4, <2>5
<1>9. Knows(vendored[N], VendoredCRDs(N), << >>)
  BY <1>1, <1>8
<1> DEFINE U == {n \in 0..N : ~Knows(rendered[n], VendoredCRDs(N), RenderedCRDs(n))}
<1>10. U = {}
  <2> SUFFICES ASSUME U # {} PROVE FALSE
    OBVIOUS
  <2>1. PICK m \in U : \A y \in U : m <= y
    <3> HIDE DEF U
    <3>1. U \in SUBSET Nat
      BY <1>1 DEF U
    <3> QED
      BY <3>1, LeastNat
  <2>2. m \in 0..N /\ ~Knows(rendered[m], VendoredCRDs(N), RenderedCRDs(m))
    BY <2>1
  <2>3. rendered[m] = IF m = 0 THEN vendored[N] ELSE AddCRDs(rendered[m - 1], objects[m])
    BY <1>4, <2>2 DEF RegistersRendered
  <2>4. CASE m = 0
    BY <1>6, <1>9, <2>2, <2>3, <2>4
  <2>5. CASE m # 0
    <3> DEFINE R == RenderedCRDs(m - 1)
               L == InstanceObjects(m)
    <3>1. m \in 1..N /\ m - 1 \in 0..N /\ m - 1 \notin U
      BY <1>1, <2>1, <2>5
    <3>2. Knows(rendered[m - 1], VendoredCRDs(N), R)
      BY <3>1
    <3>3. R \in Seq(Manifests) /\ L \in Seq(Manifests) /\ RenderedCRDs(m) = R \o L /\ objects[m] = L
          /\ VendoredCRDs(N) \in Seq(Manifests)
      <4>1. N \in 0..N
        BY <1>1
      <4> QED
        BY <1>5, <1>7, <3>1, <4>1
    <3> HIDE DEF R, L
    <3>4. Knows(AddCRDs(rendered[m - 1], L), VendoredCRDs(N), R \o L)
      BY <3>2, <3>3, ListsKnown
    <3> QED
      BY <2>2, <2>3, <2>5, <3>3, <3>4
  <2> QED
    BY <2>4, <2>5
<1>11. Knows(rendered[N], VendoredCRDs(N), RenderedCRDs(N))
  BY <1>1, <1>10
<1> QED
  BY <1>3, <1>11 DEF N

--------------------------------------------------------------------------------
(* The invariant of BundleBuild: what a goroutine has found so far, what the *)
(* phases rely on, and for the commands that take the instances in turn,     *)
(* what the validator knows.                                                 *)

Stages == {"idle", "build", "look up", "extract", "put", "write", "ended"}

BuildTypes ==
    /\ bundle \in Bundles
    /\ next \in 1..(Len(bundle.dir) + 1)
    /\ worker \in [Instances -> Stages]
    /\ objects \in [Instances -> Seq(Manifests)]
    /\ DOMAIN files = Instances
    /\ failed \in BOOLEAN
    /\ phase \in IF Concurrent THEN {"build", "validate", "output", "write", "done", "failed"}
                               ELSE {"instance", "done", "failed"}

CacheInv ==
    \A d \in DOMAIN crds : crds[d] = GetVendoredCRDs(d) /\ ~VendoredCRDsFail(d)

(* Instance i can be built, and is.                                          *)
Buildable(i) == Compiles(i) /\ (bundle.validate => ~VendoredCRDsFail(bundle.dir[i]))

Built(i) ==
    /\ objects[i] = InstanceObjects(i)
    /\ Buildable(i)
    /\ bundle.validate => bundle.dir[i] \in DOMAIN crds

Short(i) == Len(objects[i]) > Cardinality(DOMAIN files[i])

WorkerInv(i) ==
    /\ phase \in {"build", "write"} => (worker[i] = "idle" <=> i >= next)
    /\ phase = "build" =>
        /\ worker[i] # "write"
        /\ worker[i] \in {"look up", "extract", "put"} => Compiles(i) /\ bundle.validate
        /\ worker[i] = "put" => ~VendoredCRDsFail(bundle.dir[i])
        /\ worker[i] = "ended" => Built(i) \/ failed
    /\ phase \notin {"build", "write"} => worker[i] = "ended"
    /\ phase \in {"validate", "output", "write", "done"} => Built(i)
    /\ phase = "write" =>
        /\ worker[i] \in {"idle", "write", "ended"}
        /\ worker[i] = "ended" => failed \/ files[i] = FilesOf(i, Len(objects[i]))
    /\ phase \in {"build", "validate", "output"} => files[i] = << >>
    /\ phase = "done" /\ bundle.toDir => files[i] = FilesOf(i, Len(objects[i]))

AllSound == \A i \in Instances : Sound(Len(bundle.dir), i)

PhaseInv ==
    /\ phase \in {"build", "validate"} => schemas = << >>
    /\ phase = "build" /\ failed => \E i \in Instances : ~Buildable(i)
    /\ phase \in {"validate", "output"} => ~failed
    /\ phase = "validate" => bundle.validate
    /\ phase = "write" => bundle.toDir
    /\ phase = "write" /\ failed => \E i \in Instances : worker[i] = "ended" /\ Short(i)
    /\ phase = "failed" => ~AllSound \/ (bundle.toDir /\ \E i \in Instances : Short(i))
    /\ phase \in {"output", "write", "done"} => AllSound
    /\ (\E i \in Instances : files[i] # << >>) => AllSound
    /\ phase = "done" /\ ~bundle.toDir => out = objects
    /\ out # << >> => phase = "done"

TurnInv ==
    /\ \A i \in Instances : worker[i] = "idle"
    /\ phase = "instance" => next <= Len(bundle.dir)
    /\ phase = "done" => next = Len(bundle.dir) + 1
    /\ phase \in {"instance", "done"} => \A j \in 1..(next - 1) : Compiles(j)
    /\ Validating /\ phase = "instance" =>
        /\ \A j \in 1..(next - 1) : ~VendoredCRDsFail(bundle.dir[j])
        /\ AllDecode(RenderedCRDs(next - 1)) /\ AllDecode(VendoredCRDs(next - 1))
        /\ Knows(schemas, VendoredCRDs(next - 1), RenderedCRDs(next - 1))
    /\ out \in Seq(Seq(Manifests)) /\ Len(out) = next - 1
    /\ \A n \in DOMAIN out : Sound(n, n) /\ out[n] = GetApplySets(n)
    /\ phase = "failed" => ~Sound(next, next) \/ (bundle.command = "mod vet" /\ GetApplySets(next) = << >>)

BuildInv ==
    /\ BuildTypes
    /\ CacheInv
    /\ Concurrent => (\A i \in Instances : WorkerInv(i)) /\ PhaseInv
    /\ ~Concurrent => TurnInv

LEMMA DerivedSame ==
    ASSUME bundle' = bundle
    PROVE  /\ Instances' = Instances /\ (Concurrent' <=> Concurrent) /\ (Validating' <=> Validating)
           /\ \A n : RenderedCRDs(n)' = RenderedCRDs(n) /\ VendoredCRDs(n)' = VendoredCRDs(n)
           /\ \A n, i : Sound(n, i)' <=> Sound(n, i)
           /\ AllSound' <=> AllSound
           /\ \A i : Buildable(i)' <=> Buildable(i)
<1>1. Instances' = Instances /\ (Concurrent' <=> Concurrent) /\ (Validating' <=> Validating)
  BY DEF Instances, Concurrent, Validating
<1>2. ASSUME NEW n PROVE RenderedCRDs(n)' = RenderedCRDs(n) /\ VendoredCRDs(n)' = VendoredCRDs(n)
  BY ResultsSame DEF RenderedCRDs, VendoredCRDs
<1>3. ASSUME NEW n, NEW obj PROVE Valid(n, obj)' <=> Valid(n, obj)
  BY <1>2 DEF Valid
<1>4. ASSUME NEW n, NEW i PROVE Sound(n, i)' <=> Sound(n, i)
  <2>1. InstanceObjects(i)' = InstanceObjects(i) /\ \A j : Compiles(j)' <=> Compiles(j)
    BY ResultsSame
  <2>2. \A j \in 1..n : VendoredCRDsFail(bundle.dir[j])' <=> VendoredCRDsFail(bundle.dir[j])
    BY ResultsSame
  <2>3. AllDecode(RenderedCRDs(n))' <=> AllDecode(RenderedCRDs(n))
    BY <1>2 DEF AllDecode
  <2>4. AllDecode(VendoredCRDs(n))' <=> AllDecode(VendoredCRDs(n))
    BY <1>2 DEF AllDecode
  <2>5. (\A m \in DOMAIN InstanceObjects(i) : Valid(n, InstanceObjects(i)[m]))'
           <=> \A m \in DOMAIN InstanceObjects(i) : Valid(n, InstanceObjects(i)[m])
    BY <1>3, <2>1
  <2> QED
    BY <1>1, <2>1, <2>2, <2>3, <2>4, <2>5 DEF Sound
<1>5. AllSound' <=> AllSound
  BY <1>1, <1>4 DEF AllSound
<1>6. ASSUME NEW i PROVE Buildable(i)' <=> Buildable(i)
  BY ResultsSame DEF Buildable
<1> QED
  BY <1>1, <1>2, <1>4, <1>5, <1>6

LEMMA SoundIsBuildable ==
    ASSUME bundle \in Bundles, Concurrent, AllSound, NEW i \in Instances
    PROVE  Buildable(i)
<1>1. i \in 1..Len(bundle.dir) /\ Sound(Len(bundle.dir), i)
  BY BundleIs DEF AllSound
<1> QED
  BY <1>1 DEF Sound, Buildable, Validating

LEMMA BuildStarts == BuildInit => BuildInv
<1> SUFFICES ASSUME BuildInit PROVE BuildInv
  OBVIOUS
<1>1. Len(bundle.dir) \in Nat \ {0} /\ Instances = 1..Len(bundle.dir)
  BY BundleIs DEF BuildInit
<1>2. BuildTypes
  <2>1. next \in 1..(Len(bundle.dir) + 1) /\ failed \in BOOLEAN /\ bundle \in Bundles
    <3>1. next = 1 /\ failed = FALSE /\ bundle \in Bundles
      BY DEF BuildInit
    <3>2. 1 \in 1..(Len(bundle.dir) + 1)
      BY <1>1
    <3> QED
      BY <3>1, <3>2
  <2>2. worker \in [Instances -> Stages] /\ DOMAIN files = Instances
    BY DEF BuildInit, Stages
  <2>3. objects \in [Instances -> Seq(Manifests)]
    <3>1. << >> \in Seq(Manifests)
      OBVIOUS
    <3> QED
      BY <3>1 DEF BuildInit
  <2>4. phase \in IF Concurrent THEN {"build", "validate", "output", "write", "done", "failed"}
                                ELSE {"instance", "done", "failed"}
    BY DEF BuildInit
  <2> QED
    BY <2>1, <2>2, <2>3, <2>4 DEF BuildTypes
<1>3. CacheInv
  BY DEF CacheInv, BuildInit
<1>4. ASSUME Concurrent PROVE (\A i \in Instances : WorkerInv(i)) /\ PhaseInv
  <2>1. \A i \in Instances : WorkerInv(i)
    <3> SUFFICES ASSUME NEW i \in Instances PROVE WorkerInv(i)
      OBVIOUS
    <3>1. phase = "build" /\ next = 1 /\ worker[i] = "idle" /\ files[i] = << >> /\ i >= 1
      BY <1>1, <1>4 DEF BuildInit
    <3> QED
      BY <3>1 DEF WorkerInv
  <2>2. PhaseInv
    BY <1>4 DEF PhaseInv, BuildInit
  <2> QED
    BY <2>1, <2>2
<1>5. ASSUME ~Concurrent PROVE TurnInv
  <2>1. RenderedCRDs(0) = << >> /\ VendoredCRDs(0) = << >>
    BY ListsGrow DEF BuildInit
  <2>2. AllDecode(<< >>) /\ Knows(<< >>, << >>, << >>)
    BY NothingKnown DEF AllDecode
  <2>3. \A j \in 1..(1 - 1) : FALSE
    OBVIOUS
  <2>4. phase = "instance" /\ next = 1 /\ out = << >> /\ schemas = << >> /\ \A i \in Instances : worker[i] = "idle"
    BY <1>5 DEF BuildInit
  <2>5. << >> \in Seq(Seq(Manifests)) /\ Len(<< >>) = 0 /\ DOMAIN << >> = {} /\ 1 - 1 = 0
    OBVIOUS
  <2> QED
    BY <1>1, <2>1, <2>2, <2>3, <2>4, <2>5 DEF TurnInv
<1> QED
  BY <1>2, <1>3, <1>4, <1>5 DEF BuildInv

(* A step of the goroutine of instance i, while instances are built.         *)
LEMMA GoroutineKeeps ==
    ASSUME BuildInv, Concurrent, phase = "build",
           NEW i \in Instances, NEW s \in Stages \ {"idle", "write"},
           worker' = [worker EXCEPT ![i] = s],
           next' \in 1..(Len(bundle.dir) + 1), \A j \in Instances : j >= next' <=> j >= next /\ j # i,
           objects' \in [Instances -> Seq(Manifests)], \A j \in Instances : j # i => objects'[j] = objects[j],
           failed' \in BOOLEAN, failed => failed', failed' => failed \/ ~Buildable(i),
           CacheInv', DOMAIN crds \subseteq DOMAIN crds',
           s \in {"look up", "extract", "put"} => Compiles(i) /\ bundle.validate,
           s = "put" => ~VendoredCRDsFail(bundle.dir[i]),
           s = "ended" => Built(i)' \/ failed',
           UNCHANGED <<bundle, phase, schemas, files, out>>
    PROVE  BuildInv'
<1>1. Len(bundle.dir) \in Nat \ {0} /\ Instances = 1..Len(bundle.dir) /\ Instances' = Instances /\ Concurrent'
      /\ next \in 1..(Len(bundle.dir) + 1)
  BY BundleIs, DerivedSame DEF BuildInv, BuildTypes
<1>2. BuildTypes'
  <2>1. bundle \in Bundles /\ worker \in [Instances -> Stages] /\ DOMAIN files = Instances /\ phase' = "build"
    BY DEF BuildInv, BuildTypes
  <2>2. next' \in 1..(Len(bundle'.dir) + 1)
    OBVIOUS
  <2>3. worker' \in [Instances -> Stages]
    BY <2>1
  <2> QED
    BY <1>1, <2>1, <2>2, <2>3 DEF BuildTypes
<1>3. ASSUME NEW j \in Instances PROVE WorkerInv(j)'
  <2>1. WorkerInv(j) /\ phase' = "build" /\ files'[j] = << >>
    BY DEF BuildInv, WorkerInv
  <2>2. CASE j = i
    <3>1. worker'[j] = s /\ ~(j >= next')
      BY <2>2 DEF BuildInv, BuildTypes
    <3>2. Compiles(j)' <=> Compiles(j)
      BY ResultsSame
    <3>3. VendoredCRDsFail(bundle.dir[j])' <=> VendoredCRDsFail(bundle.dir[j])
      BY ResultsSame
    <3> QED
      BY <2>1, <2>2, <3>1, <3>2, <3>3 DEF WorkerInv
  <2>3. CASE j # i
    <3>1. worker'[j] = worker[j] /\ objects'[j] = objects[j]
      BY <2>3 DEF BuildInv, BuildTypes
    <3>2. j >= next <=> j >= next'
      BY <2>3
    <3>3. Built(j) => Built(j)'
      BY <3>1, ResultsSame, DerivedSame DEF Built
    <3>4. Compiles(j)' <=> Compiles(j)
      BY ResultsSame
    <3>5. VendoredCRDsFail(bundle.dir[j])' <=> VendoredCRDsFail(bundle.dir[j])
      BY ResultsSame
    <3> QED
      BY <2>1, <3>1, <3>2, <3>3, <3>4, <3>5 DEF WorkerInv
  <2> QED
    BY <2>2, <2>3
<1>4. PhaseInv'
  <2>1. PhaseInv /\ phase' = "build" /\ out' = out /\ files' = files /\ schemas' = schemas
    BY DEF BuildInv
  <2>2. \A j \in Instances : files[j] = << >>
    BY DEF BuildInv, WorkerInv
  <2>3. failed' => \E j \in Instances' : ~Buildable(j)'
    BY <1>1, <2>1, DerivedSame DEF PhaseInv
  <2> QED
    BY <1>1, <2>1, <2>2, <2>3 DEF PhaseInv
<1> QED
  BY <1>1, <1>2, <1>3, <1>4 DEF BuildInv


LEMMA StepFacts ==
    ASSUME BuildInv, phase \in {"build", "write"}
    PROVE  /\ Concurrent /\ (\A i \in Instances : WorkerInv(i)) /\ PhaseInv
           /\ Len(bundle.dir) \in Nat \ {0} /\ Instances = 1..Len(bundle.dir)
           /\ next \in 1..(Len(bundle.dir) + 1)
           /\ \A i \in Instances : worker[i] # "idle" => ~(i >= next)
  BY BundleIs DEF BuildInv, BuildTypes, WorkerInv

LEMMA BuildGoKeeps == ASSUME BuildInv, Go, phase = "build" PROVE BuildInv'
<1>1. /\ next \in Instances /\ next' = next + 1 /\ next' \in 1..(Len(bundle.dir) + 1)
      /\ worker' = [worker EXCEPT ![next] = "build"]
      /\ UNCHANGED <<bundle, phase, crds, objects, failed, schemas, files, out>>
  BY StepFacts DEF Go
<1>2. \A j \in Instances : j >= next' <=> j >= next /\ j # next
  BY <1>1, StepFacts
<1>3. objects \in [Instances -> Seq(Manifests)] /\ failed \in BOOLEAN
  BY DEF BuildInv, BuildTypes
<1>4. CacheInv'
  BY <1>1, ResultsSame DEF BuildInv, CacheInv
<1>5. Concurrent
  BY StepFacts
<1>6. "build" \in Stages \ {"idle", "write"}
  BY DEF Stages
<1>7. DOMAIN crds \subseteq DOMAIN crds' /\ objects' \in [Instances -> Seq(Manifests)]
      /\ \A j \in Instances : j # next => objects'[j] = objects[j]
  BY <1>1, <1>3
<1>8. failed' \in BOOLEAN /\ (failed => failed') /\ (failed' => failed \/ ~Buildable(next))
  BY <1>1, <1>3
<1> DEFINE i == next
           s == "build"
<1>9. worker' = [worker EXCEPT ![i] = s] /\ i \in Instances /\ s \in Stages \ {"idle", "write"}
      /\ s \notin {"look up", "extract", "put"} /\ s # "put" /\ s # "ended"
      /\ UNCHANGED <<bundle, phase, schemas, files, out>>
  BY <1>1, <1>6
<1>10. /\ \A j \in Instances : j >= next' <=> j >= next /\ j # i
       /\ \A j \in Instances : j # i => objects'[j] = objects[j]
       /\ failed' => failed \/ ~Buildable(i)
  BY <1>2, <1>7, <1>8
<1> HIDE DEF i, s
<1> QED
  BY <1>1, <1>4, <1>5, <1>7, <1>8, <1>9, <1>10, GoroutineKeeps

(* The same for a goroutine that runs already.                               *)
LEMMA RunningKeeps ==
    ASSUME BuildInv, phase = "build",
           NEW i \in Instances, worker[i] # "idle", NEW s \in {"look up", "extract", "put", "ended"},
           worker' = [worker EXCEPT ![i] = s],
           objects' = objects \/ objects' = [objects EXCEPT ![i] = InstanceObjects(i)],
           failed' = failed \/ (failed' = TRUE /\ ~Buildable(i)),
           CacheInv', DOMAIN crds \subseteq DOMAIN crds',
           s # "ended" => Compiles(i) /\ bundle.validate,
           s = "put" => ~VendoredCRDsFail(bundle.dir[i]),
           s = "ended" => Built(i)' \/ failed',
           UNCHANGED <<bundle, phase, next, schemas, files, out>>
    PROVE  BuildInv'
<1>1. Concurrent /\ bundle \in Bundles /\ next' \in 1..(Len(bundle.dir) + 1)
  BY StepFacts DEF BuildInv, BuildTypes
<1>2. \A j \in Instances : j >= next' <=> j >= next /\ j # i
  BY StepFacts
<1>3. InstanceObjects(i) \in Seq(Manifests)
  BY <1>1, ObjectsTyped
<1>4. objects \in [Instances -> Seq(Manifests)] /\ failed \in BOOLEAN
  BY DEF BuildInv, BuildTypes
<1>5. objects' \in [Instances -> Seq(Manifests)] /\ \A j \in Instances : j # i => objects'[j] = objects[j]
  BY <1>3, <1>4
<1>6. failed' \in BOOLEAN /\ (failed => failed') /\ (failed' => failed \/ ~Buildable(i))
  <2>1. CASE failed' = failed
    BY <1>4, <2>1
  <2>2. CASE failed' = TRUE /\ ~Buildable(i)
    BY <2>2
  <2> QED
    BY <2>1, <2>2
<1>7. s \in Stages \ {"idle", "write"} /\ (s \in {"look up", "extract", "put"} => Compiles(i) /\ bundle.validate)
  BY DEF Stages
<1> QED
  BY <1>1, <1>2, <1>5, <1>6, <1>7, GoroutineKeeps

(* What a goroutine knows of its instance while it runs.                     *)
LEMMA GoroutineKnows ==
    ASSUME BuildInv, NEW i \in Instances, worker[i] \in {"build", "look up", "extract", "put"}
    PROVE  /\ phase = "build" /\ bundle \in Bundles /\ worker[i] # "idle"
           /\ objects \in [Instances -> Seq(Manifests)] /\ failed \in BOOLEAN /\ CacheInv
           /\ worker[i] # "build" => Compiles(i) /\ bundle.validate
           /\ worker[i] = "put" => ~VendoredCRDsFail(bundle.dir[i])
<1>1. Concurrent
  <2>1. ~Concurrent => worker[i] = "idle"
    BY DEF BuildInv, TurnInv
  <2> QED
    BY <2>1
<1>2. WorkerInv(i)
  BY <1>1 DEF BuildInv
<1> QED
  BY <1>2 DEF BuildInv, BuildTypes, WorkerInv

LEMMA BuildObjectsKeeps == ASSUME BuildInv, NEW i \in Instances, BuildObjects(i) PROVE BuildInv'
<1> DEFINE Same == UNCHANGED <<bundle, phase, next, schemas, files, out>>
<1>1. worker[i] = "build"
  BY DEF BuildObjects
<1>2. /\ phase = "build" /\ bundle \in Bundles /\ worker[i] # "idle"
      /\ objects \in [Instances -> Seq(Manifests)] /\ failed \in BOOLEAN /\ CacheInv
  BY <1>1, GoroutineKnows
<1>3. CacheInv' /\ DOMAIN crds \subseteq DOMAIN crds' /\ Same
  <2>1. Same /\ crds' = crds
    BY DEF BuildObjects, Return, ReturnError
  <2> QED
    BY <1>2, <2>1, ResultsSame DEF CacheInv
<1>4. CASE ~Compiles(i) /\ ReturnError(i)
  <2>1. worker' = [worker EXCEPT ![i] = "ended"] /\ objects' = objects /\ failed' = TRUE /\ ~Buildable(i)
    BY <1>4 DEF ReturnError, Buildable
  <2> QED
    BY <1>2, <1>3, <2>1, RunningKeeps
<1>5. CASE Compiles(i) /\ ~bundle.validate /\ Return(i)
  <2>1. /\ worker' = [worker EXCEPT ![i] = "ended"] /\ objects' = [objects EXCEPT ![i] = InstanceObjects(i)]
        /\ failed' = failed
    BY <1>5 DEF Return
  <2>2. Built(i)'
    <3>1. objects'[i] = InstanceObjects(i)'
      BY <1>2, <1>3, <2>1, ResultsSame
    <3>2. Buildable(i)'
      BY <1>3, <1>5, DerivedSame DEF Buildable
    <3> QED
      BY <1>3, <1>5, <3>1, <3>2 DEF Built
  <2> QED
    BY <1>2, <1>3, <2>1, <2>2, RunningKeeps
<1>6. CASE /\ Compiles(i) /\ bundle.validate
           /\ worker' = [worker EXCEPT ![i] = "look up"]
           /\ UNCHANGED <<objects, failed>>
  BY <1>2, <1>3, <1>6, RunningKeeps
<1> QED
  BY <1>4, <1>5, <1>6 DEF BuildObjects

LEMMA LookUpKeeps == ASSUME BuildInv, NEW i \in Instances, LookUp(i) PROVE BuildInv'
<1> DEFINE Same == UNCHANGED <<bundle, phase, next, schemas, files, out>>
<1>1. worker[i] = "look up"
  BY DEF LookUp
<1>2. /\ phase = "build" /\ bundle \in Bundles /\ worker[i] # "idle"
      /\ objects \in [Instances -> Seq(Manifests)] /\ failed \in BOOLEAN /\ CacheInv
      /\ Compiles(i) /\ bundle.validate
  BY <1>1, GoroutineKnows
<1>3. CacheInv' /\ DOMAIN crds \subseteq DOMAIN crds' /\ Same /\ crds' = crds /\ failed' = failed
  <2>1. Same /\ crds' = crds /\ failed' = failed
    BY DEF LookUp, Return
  <2> QED
    BY <1>2, <2>1, ResultsSame DEF CacheInv
<1>4. CASE bundle.dir[i] \in DOMAIN crds /\ Return(i)
  <2>1. worker' = [worker EXCEPT ![i] = "ended"] /\ objects' = [objects EXCEPT ![i] = InstanceObjects(i)]
    BY <1>4 DEF Return
  <2>2. Built(i)'
    <3>1. objects'[i] = InstanceObjects(i)'
      BY <1>2, <1>3, <2>1, ResultsSame
    <3>2. ~VendoredCRDsFail(bundle.dir[i])
      BY <1>2, <1>4 DEF CacheInv
    <3>3. Buildable(i)'
      BY <1>2, <1>3, <3>2, DerivedSame DEF Buildable
    <3> QED
      BY <1>3, <1>4, <3>1, <3>3 DEF Built
  <2> QED
    BY <1>2, <1>3, <2>1, <2>2, RunningKeeps
<1>5. CASE worker' = [worker EXCEPT ![i] = "extract"] /\ UNCHANGED objects
  BY <1>2, <1>3, <1>5, RunningKeeps
<1> QED
  BY <1>4, <1>5 DEF LookUp

LEMMA ExtractKeeps == ASSUME BuildInv, NEW i \in Instances, Extract(i) PROVE BuildInv'
<1> DEFINE Same == UNCHANGED <<bundle, phase, next, schemas, files, out>>
<1>1. worker[i] = "extract"
  BY DEF Extract
<1>2. /\ phase = "build" /\ bundle \in Bundles /\ worker[i] # "idle" /\ failed \in BOOLEAN /\ CacheInv
      /\ Compiles(i) /\ bundle.validate
  BY <1>1, GoroutineKnows
<1>3. CacheInv' /\ DOMAIN crds \subseteq DOMAIN crds' /\ Same /\ objects' = objects
  <2>1. Same /\ crds' = crds /\ objects' = objects
    BY DEF Extract, ReturnError
  <2> QED
    BY <1>2, <2>1, ResultsSame DEF CacheInv
<1>4. CASE VendoredCRDsFail(bundle.dir[i]) /\ ReturnError(i)
  <2>1. worker' = [worker EXCEPT ![i] = "ended"] /\ failed' = TRUE /\ ~Buildable(i)
    BY <1>2, <1>4 DEF ReturnError, Buildable
  <2> QED
    BY <1>2, <1>3, <2>1, RunningKeeps
<1>5. CASE ~VendoredCRDsFail(bundle.dir[i]) /\ worker' = [worker EXCEPT ![i] = "put"] /\ failed' = failed
  BY <1>2, <1>3, <1>5, RunningKeeps
<1> QED
  BY <1>4, <1>5 DEF Extract

LEMMA CachePutKeeps == ASSUME BuildInv, NEW i \in Instances, CachePut(i) PROVE BuildInv'
<1>1. worker[i] = "put"
  BY DEF CachePut
<1>2. /\ phase = "build" /\ bundle \in Bundles /\ worker[i] # "idle"
      /\ objects \in [Instances -> Seq(Manifests)] /\ failed \in BOOLEAN /\ CacheInv
      /\ Compiles(i) /\ bundle.validate /\ ~VendoredCRDsFail(bundle.dir[i])
  BY <1>1, GoroutineKnows
<1>3. /\ worker' = [worker EXCEPT ![i] = "ended"] /\ objects' = [objects EXCEPT ![i] = InstanceObjects(i)]
      /\ failed' = failed /\ UNCHANGED <<bundle, phase, next, schemas, files, out>>
      /\ DOMAIN crds' = DOMAIN crds \cup {bundle.dir[i]}
      /\ \A d \in DOMAIN crds' : crds'[d] = IF d = bundle.dir[i] THEN GetVendoredCRDs(d) ELSE crds[d]
  BY DEF CachePut, Return
<1>4. CacheInv'
  <2> SUFFICES ASSUME NEW d \in DOMAIN crds'
               PROVE  crds'[d] = GetVendoredCRDs(d)' /\ ~VendoredCRDsFail(d)'
    BY DEF CacheInv
  <2>1. crds'[d] = GetVendoredCRDs(d) /\ ~VendoredCRDsFail(d)
    BY <1>2, <1>3 DEF CacheInv
  <2> QED
    BY <1>3, <2>1, ResultsSame
<1>5. Built(i)'
  <2>1. objects'[i] = InstanceObjects(i)'
    BY <1>2, <1>3, ResultsSame
  <2>2. Buildable(i)'
    BY <1>2, <1>3, DerivedSame DEF Buildable
  <2> QED
    BY <1>3, <2>1, <2>2 DEF Built
<1> QED
  BY <1>2, <1>3, <1>4, <1>5, RunningKeeps

(* The steps of the main goroutine change none of what the others have left. *)
LEMMA WorkSame ==
    ASSUME UNCHANGED <<bundle, crds, objects>>
    PROVE  /\ Instances' = Instances /\ (Concurrent' <=> Concurrent) /\ (Validating' <=> Validating)
           /\ (CacheInv' <=> CacheInv) /\ (AllSound' <=> AllSound)
           /\ \A i : (Built(i)' <=> Built(i)) /\ (Buildable(i)' <=> Buildable(i))
           /\ \A i, n : FilesOf(i, n)' = FilesOf(i, n)
           /\ \A i : files'[i] = files[i] => (Short(i)' <=> Short(i))
<1>1. CacheInv' <=> CacheInv
  <2>1. \A d : GetVendoredCRDs(d)' = GetVendoredCRDs(d) /\ (VendoredCRDsFail(d)' <=> VendoredCRDsFail(d))
    BY ResultsSame
  <2> QED
    BY <2>1 DEF CacheInv
<1>2. ASSUME NEW i PROVE Built(i)' <=> Built(i)
  BY ResultsSame, DerivedSame DEF Built
<1>3. ASSUME NEW i, NEW n PROVE FilesOf(i, n)' = FilesOf(i, n)
  BY DEF FilesOf, FileName, Namespaces
<1>4. ASSUME NEW i, files'[i] = files[i] PROVE Short(i)' <=> Short(i)
  BY <1>4 DEF Short
<1> QED
  BY <1>1, <1>2, <1>3, <1>4, DerivedSame

LEMMA MainTypes ==
    ASSUME BuildInv, Concurrent, UNCHANGED <<bundle, objects, files, failed>>,
           next' \in 1..(Len(bundle.dir) + 1), worker' \in [Instances -> Stages],
           phase' \in {"build", "validate", "output", "write", "done", "failed"}
    PROVE  BuildTypes'
  BY DerivedSame DEF BuildInv, BuildTypes

LEMMA AllEnded ==
    ASSUME BuildInv, phase \in {"build", "write"}, next > Len(bundle.dir), Running = {}, NEW i \in Instances
    PROVE  worker[i] = "ended"
<1>1. ~(i >= next)
  BY StepFacts
<1>2. worker[i] \in {"idle", "ended"}
  BY DEF Running
<1> QED
  BY <1>1, <1>2, StepFacts DEF WorkerInv

LEMMA WaitKeeps == ASSUME BuildInv, Wait PROVE BuildInv'
<1>1. /\ phase \in {"build", "write"} /\ next > Len(bundle.dir) /\ Running = {}
      /\ UNCHANGED <<bundle, next, worker, crds, objects, failed, schemas, files, out>>
  BY DEF Wait
<1>2. Concurrent /\ (\A i \in Instances : WorkerInv(i)) /\ PhaseInv /\ bundle \in Bundles
      /\ failed \in BOOLEAN /\ next \in 1..(Len(bundle.dir) + 1) /\ worker \in [Instances -> Stages]
  BY <1>1, StepFacts DEF BuildInv, BuildTypes
<1>3. \A i \in Instances : worker[i] = "ended"
  BY <1>1, AllEnded
<1>4. (~Concurrent' => TurnInv') /\ CacheInv' /\ Instances' = Instances
  BY <1>1, <1>2, WorkSame DEF BuildInv
<1>5. CASE failed
  <2>1. phase' = "failed"
    BY <1>5 DEF Wait
  <2>2. BuildTypes'
    BY <1>1, <1>2, <2>1, MainTypes
  <2>3. ASSUME NEW i \in Instances PROVE WorkerInv(i)'
    BY <1>1, <1>3, <2>1 DEF WorkerInv
  <2>4. ~AllSound \/ (bundle.toDir /\ \E i \in Instances : Short(i))
    <3>1. CASE phase = "build"
      <4>1. PICK i \in Instances : ~Buildable(i)
        BY <1>2, <1>5, <3>1 DEF PhaseInv
      <4> QED
        BY <1>2, <4>1, SoundIsBuildable
    <3>2. CASE phase = "write"
      BY <1>2, <1>5, <3>2 DEF PhaseInv
    <3> QED
      BY <1>1, <3>1, <3>2
  <2>5. ~AllSound' \/ (bundle'.toDir /\ \E i \in Instances' : Short(i)')
    BY <1>1, <2>4, WorkSame
  <2>6. PhaseInv'
    <3>1. out' = << >>
      BY <1>1, <1>2 DEF PhaseInv
    <3>2. (\E i \in Instances' : files'[i] # << >>) => AllSound'
      BY <1>1, <1>2, WorkSame DEF PhaseInv
    <3> QED
      BY <2>1, <2>5, <3>1, <3>2 DEF PhaseInv
  <2> QED
    BY <1>2, <1>4, <2>2, <2>3, <2>6 DEF BuildInv
<1>6. CASE ~failed /\ phase = "write"
  <2>1. phase' = "done"
    BY <1>6 DEF Wait
  <2>2. BuildTypes'
    BY <1>1, <1>2, <2>1, MainTypes
  <2>3. ASSUME NEW i \in Instances PROVE WorkerInv(i)'
    <3>1. WorkerInv(i) /\ worker'[i] = "ended" /\ files'[i] = files[i]
      BY <1>1, <1>2, <1>3
    <3>2. Built(i) /\ files[i] = FilesOf(i, Len(objects[i]))
      BY <1>3, <1>6, <3>1 DEF WorkerInv
    <3>3. FilesOf(i, Len(objects[i]))' = FilesOf(i, Len(objects[i]))
      BY <1>1, WorkSame
    <3>4. Built(i)'
      BY <1>1, <3>2, WorkSame
    <3> QED
      BY <1>1, <2>1, <3>1, <3>2, <3>3, <3>4 DEF WorkerInv
  <2>4. PhaseInv'
    <3>1. AllSound' /\ bundle'.toDir
      BY <1>1, <1>2, <1>6, WorkSame DEF PhaseInv
    <3> QED
      BY <2>1, <3>1 DEF PhaseInv
  <2> QED
    BY <1>2, <1>4, <2>2, <2>3, <2>4 DEF BuildInv
<1>7. CASE ~failed /\ phase = "build"
  <2>1. phase' = IF bundle.validate THEN "validate" ELSE "output"
    BY <1>7 DEF Wait
  <2>2. BuildTypes'
    BY <1>1, <1>2, <2>1, MainTypes
  <2>3. \A i \in Instances : Built(i) /\ files[i] = << >>
    BY <1>2, <1>3, <1>7 DEF WorkerInv
  <2>4. ASSUME NEW i \in Instances PROVE WorkerInv(i)'
    <3>1. worker'[i] = "ended" /\ files'[i] = << >> /\ Built(i)'
      BY <1>1, <1>3, <2>3, WorkSame
    <3> QED
      BY <2>1, <3>1 DEF WorkerInv
  <2>5. PhaseInv'
    <3>1. /\ schemas' = << >> /\ ~failed' /\ out' = << >>
          /\ \A i \in Instances' : files'[i] = << >>
      BY <1>1, <1>2, <1>4, <1>7, <2>3 DEF PhaseInv
    <3>2. CASE bundle.validate
      BY <1>1, <2>1, <3>1, <3>2 DEF PhaseInv
    <3>3. CASE ~bundle.validate
      <4>1. Instances = 1..Len(bundle.dir) /\ \A j \in Instances : Compiles(j)
        BY <1>2, <2>3, BundleIs DEF Built, Buildable
      <4>2. ~Validating
        BY <1>2, <3>3 DEF Validating, Concurrent
      <4>3. AllSound
        BY <4>1, <4>2 DEF AllSound, Sound
      <4>4. AllSound' /\ phase' = "output"
        BY <1>1, <2>1, <3>3, <4>3, WorkSame
      <4> QED
        BY <3>1, <4>4 DEF PhaseInv
    <3> QED
      BY <3>2, <3>3
  <2> QED
    BY <1>2, <1>4, <2>2, <2>4, <2>5 DEF BuildInv
<1> QED
  BY <1>1, <1>5, <1>6, <1>7

(* When the instances are built, BundleValid says what Sound says.           *)
LEMMA BundleValidIs ==
    ASSUME BuildInv, phase = "validate"
    PROVE  BundleValid <=> AllSound
<1>1. /\ Concurrent /\ (\A i \in Instances : WorkerInv(i)) /\ PhaseInv /\ CacheInv /\ bundle \in Bundles
      /\ bundle.validate /\ schemas = << >>
  <2>1. Concurrent /\ bundle \in Bundles
    BY DEF BuildInv, BuildTypes
  <2> QED
    BY <2>1 DEF BuildInv, PhaseInv
<1> DEFINE n == Len(bundle.dir)
<1>2. n \in Nat \ {0} /\ Instances = 1..n
  BY <1>1, BundleIs
<1>3. ASSUME NEW i \in Instances
      PROVE  /\ crds[bundle.dir[i]] = GetVendoredCRDs(bundle.dir[i]) /\ objects[i] = InstanceObjects(i)
             /\ Compiles(i) /\ ~VendoredCRDsFail(bundle.dir[i])
  <2>1. Built(i)
    BY <1>1 DEF WorkerInv
  <2> QED
    BY <1>1, <2>1 DEF Built, Buildable, CacheInv
<1>4. Knows(Registered, VendoredCRDs(n), RenderedCRDs(n))
  BY <1>1, <1>3, RegisteredKnows
<1>5. /\ AllDecode(RenderedCRDs(n)) <=> \A i \in Instances : AllDecode(InstanceObjects(i))
      /\ AllDecode(VendoredCRDs(n)) <=> \A i \in Instances : AllDecode(GetVendoredCRDs(bundle.dir[i]))
  BY <1>1, <1>2, AllDecodeIs
<1>6. ASSUME NEW i \in Instances
      PROVE  ValidateObjects(Registered, objects[i])
                 <=> \A m \in DOMAIN InstanceObjects(i) : Valid(n, InstanceObjects(i)[m])
  <2>1. \A obj : Valid(n, obj) <=> (HasSchema(Registered, obj.kind) => Validate(Registered, obj))
    BY <1>4, ValidIs
  <2> QED
    BY <1>3, <2>1 DEF ValidateObjects
<1>7. BundleValid <=> /\ AllDecode(RenderedCRDs(n)) /\ AllDecode(VendoredCRDs(n))
                      /\ \A i \in Instances : \A m \in DOMAIN InstanceObjects(i) : Valid(n, InstanceObjects(i)[m])
  BY <1>3, <1>5, <1>6 DEF BundleValid
<1>8. Validating /\ \A i \in Instances : Compiles(i) /\ ~VendoredCRDsFail(bundle.dir[i])
  BY <1>1, <1>3 DEF Validating
<1>9. PICK i : i \in Instances
  BY <1>2
<1> HIDE DEF n
<1>10. AllSound <=> \A j \in Instances : Sound(n, j)
  BY DEF AllSound, n
<1> QED
  BY <1>2, <1>7, <1>8, <1>9, <1>10 DEF Sound

LEMMA ValidateBundleKeeps == ASSUME BuildInv, ValidateBundle PROVE BuildInv'
<1>1. /\ phase = "validate" /\ UNCHANGED <<bundle, next, worker, crds, objects, failed, files, out>>
      /\ phase' = IF BundleValid THEN "output" ELSE "failed"
  BY DEF ValidateBundle
<1>2. Concurrent /\ bundle \in Bundles /\ next \in 1..(Len(bundle.dir) + 1) /\ worker \in [Instances -> Stages]
  BY <1>1 DEF BuildInv, BuildTypes
<1>3. (\A i \in Instances : WorkerInv(i)) /\ PhaseInv /\ CacheInv
  BY <1>2 DEF BuildInv
<1>4. BuildTypes'
  BY <1>1, <1>2, MainTypes
<1>5. ASSUME NEW i \in Instances PROVE WorkerInv(i)'
  <2>1. worker'[i] = "ended" /\ files'[i] = << >> /\ Built(i)
    BY <1>1, <1>3 DEF WorkerInv
  <2>2. Built(i)'
    BY <1>1, <2>1, WorkSame
  <2> QED
    BY <1>1, <2>1, <2>2 DEF WorkerInv
<1>6. PhaseInv'
  <2>1. ~failed' /\ out' = << >> /\ \A i \in Instances' : files'[i] = << >>
    BY <1>1, <1>3, WorkSame DEF PhaseInv, WorkerInv
  <2>2. AllSound' <=> phase' = "output"
    BY <1>1, BundleValidIs, WorkSame
  <2> QED
    BY <1>1, <2>1, <2>2 DEF PhaseInv
<1> QED
  BY <1>1, <1>2, <1>3, <1>4, <1>5, <1>6, WorkSame DEF BuildInv

LEMMA PrintBundleKeeps == ASSUME BuildInv, PrintBundle PROVE BuildInv'
<1>1. /\ phase = "output" /\ ~bundle.toDir /\ phase' = "done" /\ out' = objects
      /\ UNCHANGED <<bundle, next, worker, crds, objects, failed, schemas, files>>
  BY DEF PrintBundle
<1>2. Concurrent /\ bundle \in Bundles /\ next \in 1..(Len(bundle.dir) + 1) /\ worker \in [Instances -> Stages]
  BY <1>1 DEF BuildInv, BuildTypes
<1>3. (\A i \in Instances : WorkerInv(i)) /\ PhaseInv /\ CacheInv
  BY <1>2 DEF BuildInv
<1>4. BuildTypes'
  BY <1>1, <1>2, MainTypes
<1>5. ASSUME NEW i \in Instances PROVE WorkerInv(i)'
  <2>1. worker'[i] = "ended" /\ Built(i)
    BY <1>1, <1>3 DEF WorkerInv
  <2>2. Built(i)'
    BY <1>1, <2>1, WorkSame
  <2> QED
    BY <1>1, <2>1, <2>2 DEF WorkerInv
<1>6. PhaseInv'
  BY <1>1, <1>3, WorkSame DEF PhaseInv
<1> QED
  BY <1>1, <1>2, <1>3, <1>4, <1>5, <1>6, WorkSame DEF BuildInv

LEMMA StartWritingKeeps == ASSUME BuildInv, StartWriting PROVE BuildInv'
<1>1. /\ phase = "output" /\ bundle.toDir /\ phase' = "write" /\ next' = 1
      /\ worker' = [i \in Instances |-> "idle"]
      /\ UNCHANGED <<bundle, crds, objects, failed, schemas, files, out>>
  BY DEF StartWriting
<1>2. Concurrent /\ bundle \in Bundles
  BY <1>1 DEF BuildInv, BuildTypes
<1>3. (\A i \in Instances : WorkerInv(i)) /\ PhaseInv /\ CacheInv
      /\ Len(bundle.dir) \in Nat \ {0} /\ Instances = 1..Len(bundle.dir)
  BY <1>2, BundleIs DEF BuildInv
<1>4. BuildTypes'
  <2>1. next' \in 1..(Len(bundle.dir) + 1) /\ worker' \in [Instances -> Stages]
    BY <1>1, <1>3 DEF Stages
  <2> QED
    BY <1>1, <1>2, <2>1, MainTypes
<1>5. ASSUME NEW i \in Instances PROVE WorkerInv(i)'
  <2>1. worker'[i] = "idle" /\ Built(i) /\ i >= next'
    BY <1>1, <1>3 DEF WorkerInv
  <2>2. Built(i)'
    BY <1>1, <2>1, WorkSame
  <2> QED
    BY <1>1, <2>1, <2>2 DEF WorkerInv
<1>6. PhaseInv'
  BY <1>1, <1>3, WorkSame DEF PhaseInv
<1> QED
  BY <1>1, <1>2, <1>3, <1>4, <1>5, <1>6, WorkSame DEF BuildInv

(* A step of the goroutine of instance i, while files are written.           *)
LEMMA WriterKeeps ==
    ASSUME BuildInv, phase = "write",
           NEW i \in Instances, worker[i] # "ended", NEW s \in {"write", "ended"},
           worker' = [worker EXCEPT ![i] = s],
           next' \in 1..(Len(bundle.dir) + 1), \A j \in Instances : j >= next' <=> j >= next /\ j # i,
           DOMAIN files' = Instances, \A j \in Instances : j # i => files'[j] = files[j],
           failed' \in BOOLEAN, failed => failed', failed' => failed \/ (s = "ended" /\ Short(i)'),
           s = "ended" => failed' \/ files'[i] = FilesOf(i, Len(objects[i])),
           UNCHANGED <<bundle, phase, crds, objects, schemas, out>>
    PROVE  BuildInv'
<1>1. Concurrent /\ Concurrent' /\ Instances' = Instances /\ CacheInv'
      /\ (\A j \in Instances : WorkerInv(j)) /\ PhaseInv
  BY StepFacts, WorkSame DEF BuildInv
<1>2. BuildTypes'
  <2>1. worker' \in [Instances -> Stages]
    BY DEF BuildInv, BuildTypes, Stages
  <2> QED
    BY <1>1, <2>1 DEF BuildInv, BuildTypes
<1>3. ASSUME NEW j \in Instances PROVE WorkerInv(j)'
  <2>1. WorkerInv(j) /\ (Built(j)' <=> Built(j)) /\ FilesOf(j, Len(objects[j]))' = FilesOf(j, Len(objects[j]))
    BY <1>1, WorkSame
  <2>2. CASE j = i
    <3>1. worker'[j] = s /\ ~(j >= next')
      BY <2>2 DEF BuildInv, BuildTypes
    <3>2. s = "ended" => failed' \/ files'[j] = FilesOf(j, Len(objects[j]))'
      BY <2>1, <2>2
    <3> QED
      BY <2>1, <3>1, <3>2 DEF WorkerInv
  <2>3. CASE j # i
    <3>1. worker'[j] = worker[j] /\ files'[j] = files[j] /\ (j >= next' <=> j >= next)
      BY <2>3 DEF BuildInv, BuildTypes
    <3> QED
      BY <2>1, <3>1 DEF WorkerInv
  <2> QED
    BY <2>2, <2>3
<1>4. PhaseInv'
  <2>1. AllSound' /\ bundle'.toDir /\ out' = << >> /\ phase' = "write"
    BY <1>1, WorkSame DEF PhaseInv
  <2>2. ASSUME failed' PROVE \E j \in Instances : worker'[j] = "ended" /\ Short(j)'
    <3>1. CASE failed
      <4>1. PICK j \in Instances : worker[j] = "ended" /\ Short(j)
        BY <1>1, <3>1 DEF PhaseInv
      <4>2. worker'[j] = "ended" /\ files'[j] = files[j]
        BY <4>1 DEF BuildInv, BuildTypes
      <4> QED
        BY <4>1, <4>2, WorkSame
    <3>2. CASE s = "ended" /\ Short(i)'
      <4>1. worker'[i] = "ended"
        BY <3>2 DEF BuildInv, BuildTypes
      <4> QED
        BY <3>2, <4>1
    <3> QED
      BY <2>2, <3>1, <3>2
  <2> QED
    BY <1>1, <2>1, <2>2 DEF PhaseInv
<1> QED
  BY <1>1, <1>2, <1>3, <1>4 DEF BuildInv

LEMMA WriteGoKeeps == ASSUME BuildInv, Go, phase = "write" PROVE BuildInv'
<1> DEFINE i == next
           s == "write"
<1>1. /\ i \in Instances /\ next' = next + 1 /\ next' \in 1..(Len(bundle.dir) + 1) /\ i >= next
      /\ worker' = [worker EXCEPT ![i] = s]
      /\ UNCHANGED <<bundle, phase, crds, objects, failed, schemas, files, out>>
  BY StepFacts DEF Go
<1>2. \A j \in Instances : j >= next' <=> j >= next /\ j # i
  BY <1>1, StepFacts
<1>3. worker[i] # "ended"
  BY <1>1, StepFacts DEF WorkerInv
<1>4. DOMAIN files' = Instances /\ (\A j \in Instances : j # i => files'[j] = files[j])
      /\ failed' \in BOOLEAN /\ (failed => failed') /\ (failed' => failed) /\ s \in {"write", "ended"} /\ s # "ended"
  BY <1>1 DEF BuildInv, BuildTypes
<1> HIDE DEF i, s
<1> QED
  BY <1>1, <1>2, <1>3, <1>4, WriterKeeps

LEMMA GoKeeps == ASSUME BuildInv, Go PROVE BuildInv'
  BY BuildGoKeeps, WriteGoKeeps DEF Go

(* No more files than objects.                                               *)
LEMMA FewFiles ==
    ASSUME NEW i, NEW n \in Nat
    PROVE  Cardinality(DOMAIN FilesOf(i, n)) \in Nat /\ Cardinality(DOMAIN FilesOf(i, n)) <= n
<1> DEFINE name(m) == FileName(i, objects[i][m])
           names == {name(m) : m \in 1..n}
           f == [m \in 1..n |-> name(m)]
<1>1. DOMAIN FilesOf(i, n) = names
  BY DEF FilesOf
<1> HIDE DEF name
<1>2. f \in Surjection(1..n, names)
  BY DEF Surjection
<1>3. IsFiniteSet(1..n) /\ Cardinality(1..n) = n
  BY FS_Interval
<1> HIDE DEF f, names
<1>4. IsFiniteSet(names) /\ Cardinality(names) <= Cardinality(1..n)
  BY <1>2, <1>3, FS_Surjection
<1>5. Cardinality(names) \in Nat
  BY <1>4, FS_CardinalityType
<1> QED
  BY <1>1, <1>3, <1>4, <1>5

LEMMA WriteFilesKeeps == ASSUME BuildInv, NEW i \in Instances, WriteFiles(i) PROVE BuildInv'
<1>1. worker[i] = "write" /\ worker' = [worker EXCEPT ![i] = "ended"]
      /\ UNCHANGED <<bundle, phase, next, crds, objects, schemas, out>>
  BY DEF WriteFiles
<1>2. Concurrent /\ bundle \in Bundles
  <2>1. ~Concurrent => worker[i] = "idle"
    BY DEF BuildInv, TurnInv
  <2> QED
    BY <1>1, <2>1 DEF BuildInv, BuildTypes
<1>3. phase = "write" /\ objects[i] \in Seq(Manifests) /\ next \in 1..(Len(bundle.dir) + 1)
      /\ failed \in BOOLEAN /\ DOMAIN files = Instances
  <2>1. WorkerInv(i)
    BY <1>2 DEF BuildInv
  <2> QED
    BY <1>1, <1>2, <2>1 DEF WorkerInv, BuildInv, BuildTypes
<1>4. PICK n \in 0..Len(objects[i]) : /\ files' = [files EXCEPT ![i] = FilesOf(i, n)]
                                      /\ failed' = (failed \/ n < Len(objects[i]))
  BY DEF WriteFiles
<1>5. n \in Nat /\ Len(objects[i]) \in Nat /\ n <= Len(objects[i])
  BY <1>3
<1>6. DOMAIN files' = Instances /\ files'[i] = FilesOf(i, n) /\ \A j \in Instances : j # i => files'[j] = files[j]
  BY <1>3, <1>4
<1>7. \A j \in Instances : j >= next <=> j >= next /\ j # i
  <2>1. ~(i >= next)
    BY <1>1, <1>3, StepFacts
  <2> QED
    BY <2>1
<1>8. CASE n = Len(objects[i])
  <2>1. failed' = failed /\ files'[i] = FilesOf(i, Len(objects[i]))
    BY <1>3, <1>4, <1>5, <1>6, <1>8
  <2> QED
    BY <1>1, <1>3, <1>6, <1>7, <2>1, WriterKeeps
<1>9. CASE n # Len(objects[i])
  <2>1. n < Len(objects[i])
    BY <1>5, <1>9
  <2>2. failed' = TRUE
    BY <1>4, <2>1
  <2>3. Len(objects[i]) > Cardinality(DOMAIN FilesOf(i, n))
    BY <1>5, <2>1, FewFiles
  <2>4. Short(i)'
    BY <1>1, <1>6, <2>3 DEF Short
  <2> QED
    BY <1>1, <1>3, <1>6, <1>7, <2>2, <2>4, WriterKeeps
<1> QED
  BY <1>8, <1>9

(* The commands that take the instances in turn.                             *)
LEMMA TurnFacts ==
    ASSUME BuildInv, phase = "instance"
    PROVE  /\ ~Concurrent /\ TurnInv /\ bundle \in Bundles
           /\ Len(bundle.dir) \in Nat \ {0} /\ Instances = 1..Len(bundle.dir)
           /\ next \in Instances /\ next - 1 \in 0..Len(bundle.dir) /\ InstanceObjects(next) = GetApplySets(next)
           /\ GetApplySets(next) \in Seq(Manifests) /\ GetVendoredCRDs(bundle.dir[next]) \in Seq(Manifests)
           /\ RenderedCRDs(next) = RenderedCRDs(next - 1) \o GetApplySets(next)
           /\ VendoredCRDs(next) = VendoredCRDs(next - 1) \o GetVendoredCRDs(bundle.dir[next])
<1>1. ~Concurrent /\ bundle \in Bundles /\ next \in 1..(Len(bundle.dir) + 1)
  BY DEF BuildInv, BuildTypes
<1>2. TurnInv /\ next <= Len(bundle.dir)
  BY <1>1 DEF BuildInv, TurnInv
<1>3. /\ Len(bundle.dir) \in Nat \ {0} /\ Instances = 1..Len(bundle.dir)
      /\ \A i \in Instances : bundle.dir[i] \in DOMAIN bundle.imports
  BY <1>1, BundleIs
<1>4. next \in Instances /\ next - 1 \in 0..Len(bundle.dir)
  BY <1>1, <1>2, <1>3
<1> QED
  BY <1>1, <1>2, <1>3, <1>4, ApplySetsTyped, VendoredTyped, ListsGrow DEF InstanceObjects

(* What is accepted in its turn is Sound, and known afterwards.              *)
LEMMA AcceptedIs ==
    ASSUME BuildInv, phase = "instance"
    PROVE  /\ Accepted <=> Sound(next, next) /\ (bundle.command = "mod vet" => GetApplySets(next) # << >>)
           /\ Validating => Knows(Known, VendoredCRDs(next), RenderedCRDs(next))
<1> DEFINE new == GetApplySets(next)
<1>1. /\ TurnInv /\ next \in Instances /\ bundle \in Bundles /\ Instances = 1..Len(bundle.dir)
      /\ next \in Nat \ {0} /\ 1..next = 1..(next - 1) \cup {next} /\ InstanceObjects(next) = new
      /\ RenderedCRDs(next - 1) \in Seq(Manifests) /\ VendoredCRDs(next - 1) \in Seq(Manifests)
  BY TurnFacts, ListsGrow
<1>2. \A j \in 1..next : j \in 1..(next - 1) \/ j = next
  BY <1>1
<1>3. Validating => Knows(Known, VendoredCRDs(next), RenderedCRDs(next))
  <2> SUFFICES ASSUME Validating PROVE Knows(Known, VendoredCRDs(next), RenderedCRDs(next))
    OBVIOUS
  <2>1. Knows(schemas, VendoredCRDs(next - 1), RenderedCRDs(next - 1))
    BY <1>1 DEF TurnInv
  <2>2. Knows(AddVendoredCRDs(schemas, GetVendoredCRDs(bundle.dir[next])), VendoredCRDs(next), RenderedCRDs(next - 1))
    BY <1>1, <2>1, TurnFacts, ListsKnown
  <2>3. VendoredCRDs(next) \in Seq(Manifests)
    BY <1>1, ListsGrow
  <2>4. Known = AddCRDs(AddVendoredCRDs(schemas, GetVendoredCRDs(bundle.dir[next])), new)
    BY DEF Known
  <2> QED
    BY <1>1, <2>2, <2>3, <2>4, TurnFacts, ListsKnown
<1>4. (\A j \in 1..next : Compiles(j)) <=> Compiles(next)
  BY <1>1, <1>2 DEF TurnInv
<1>5. CASE Validating
  <2>1. (\A j \in 1..next : ~VendoredCRDsFail(bundle.dir[j])) <=> ~VendoredCRDsFail(bundle.dir[next])
    BY <1>1, <1>2, <1>5 DEF TurnInv
  <2>2. /\ AllDecode(RenderedCRDs(next)) <=> AllDecode(new)
        /\ AllDecode(VendoredCRDs(next)) <=> AllDecode(GetVendoredCRDs(bundle.dir[next]))
    BY <1>1, <1>5, AllDecodeGrows DEF TurnInv
  <2>3. \A obj : Valid(next, obj) <=> (HasSchema(Known, obj.kind) => Validate(Known, obj))
    BY <1>3, <1>5, ValidIs
  <2>4. ValidateObjects(Known, new) <=> \A m \in DOMAIN new : Valid(next, new[m])
    BY <2>3 DEF ValidateObjects
  <2> QED
    BY <1>1, <1>3, <1>4, <1>5, <2>1, <2>2, <2>4 DEF Accepted, Sound
<1>6. CASE ~Validating
  BY <1>4, <1>6 DEF Accepted, Sound
<1> QED
  BY <1>3, <1>5, <1>6

LEMMA ApplyInstanceKeeps == ASSUME BuildInv, ApplyInstance PROVE BuildInv'
<1> DEFINE new == GetApplySets(next)
<1>1. phase = "instance" /\ UNCHANGED <<bundle, worker, crds, failed, files>>
  BY DEF ApplyInstance
<1>2. /\ ~Concurrent /\ TurnInv /\ bundle \in Bundles
      /\ Len(bundle.dir) \in Nat \ {0} /\ Instances = 1..Len(bundle.dir)
      /\ next \in Instances /\ next - 1 \in 0..Len(bundle.dir) /\ new \in Seq(Manifests)
  BY <1>1, TurnFacts
<1>3. ~Concurrent' /\ Instances' = Instances /\ bundle' \in Bundles /\ (Validating' <=> Validating)
  BY <1>1, <1>2, DerivedSame
<1>4. CacheInv'
  BY <1>1, ResultsSame DEF BuildInv, CacheInv
<1>5. objects \in [Instances -> Seq(Manifests)] /\ worker \in [Instances -> Stages]
      /\ DOMAIN files = Instances /\ failed \in BOOLEAN
  BY DEF BuildInv, BuildTypes
<1>6. CASE Accepted
  <2>1. /\ schemas' = Known /\ objects' = [objects EXCEPT ![next] = new] /\ out' = Append(out, new)
        /\ next' = next + 1 /\ phase' = IF next = Len(bundle.dir) THEN "done" ELSE "instance"
    BY <1>6 DEF ApplyInstance
  <2>2. next' \in 1..(Len(bundle.dir) + 1) /\ next' - 1 = next /\ next' \in Nat
        /\ (phase' = "instance" => next' <= Len(bundle.dir))
        /\ (phase' = "done" => next' = Len(bundle.dir) + 1)
    BY <1>2, <2>1
  <2>3. BuildTypes'
    <3>1. phase' \in {"instance", "done", "failed"}
      BY <2>1
    <3>2. objects' \in [Instances -> Seq(Manifests)]
      BY <1>2, <1>5, <2>1
    <3> QED
      BY <1>1, <1>3, <1>5, <2>2, <3>1, <3>2 DEF BuildTypes
  <2>4. Sound(next, next) /\ (Validating => Knows(Known, VendoredCRDs(next), RenderedCRDs(next)))
    BY <1>1, <1>6, AcceptedIs
  <2>5. \A j \in 1..next : Compiles(j)' /\ (Validating' => ~VendoredCRDsFail(bundle.dir[j])')
    <3>1. \A j \in 1..next : Compiles(j) /\ (Validating => ~VendoredCRDsFail(bundle.dir[j]))
      BY <2>4 DEF Sound
    <3> QED
      BY <1>1, <1>3, <3>1, ResultsSame
  <2>8. /\ out' \in Seq(Seq(Manifests)) /\ Len(out') = next
        /\ \A n \in DOMAIN out' : (n \in DOMAIN out /\ out'[n] = out[n]) \/ (n = next /\ out'[n] = new)
    <3>1. out \in Seq(Seq(Manifests)) /\ Len(out) = next - 1
      BY <1>2 DEF TurnInv
    <3>2. out' \in Seq(Seq(Manifests)) /\ Len(out') = Len(out) + 1 /\ DOMAIN out' = 1..(Len(out) + 1)
          /\ DOMAIN out = 1..Len(out) /\ Len(out) \in Nat
      BY <1>2, <2>1, <3>1
    <3>3. Len(out) + 1 = next
      BY <1>2, <3>1
    <3>4. \A n \in 1..Len(out) : out'[n] = out[n]
      BY <1>2, <2>1, <3>1
    <3>5. out'[Len(out) + 1] = new
      BY <1>2, <2>1, <3>1
    <3>6. \A n \in DOMAIN out' : n \in 1..Len(out) \/ n = Len(out) + 1
      BY <3>2
    <3> QED
      BY <3>2, <3>3, <3>4, <3>5, <3>6
  <2>9. ASSUME NEW n \in DOMAIN out' PROVE Sound(n, n)' /\ out'[n] = GetApplySets(n)'
    <3>1. Sound(n, n) /\ out'[n] = GetApplySets(n)
      BY <1>2, <2>4, <2>8 DEF TurnInv
    <3> QED
      BY <1>1, <3>1, DerivedSame, ResultsSame
  <2>10. \A i \in Instances' : worker'[i] = "idle"
    BY <1>1, <1>2, <1>3 DEF TurnInv
  <2>11. phase' # "failed"
    BY <2>1
  <2>12. TurnInv'
    <3>1. \A j \in 1..(next' - 1) : Compiles(j)'
      BY <2>2, <2>5
    <3>2. Validating' => \A j \in 1..(next' - 1) : ~VendoredCRDsFail(bundle.dir[j])'
      BY <2>2, <2>5
    <3>3. RenderedCRDs(next - 1)' = RenderedCRDs(next)
      BY <1>1, <2>2, ResultsSame DEF RenderedCRDs
    <3>4. VendoredCRDs(next - 1)' = VendoredCRDs(next)
      BY <1>1, <2>2, ResultsSame DEF VendoredCRDs
    <3>5. Validating' => /\ AllDecode(RenderedCRDs(next - 1))' /\ AllDecode(VendoredCRDs(next - 1))'
                         /\ Knows(schemas, VendoredCRDs(next - 1), RenderedCRDs(next - 1))'
      <4>1. Validating => AllDecode(RenderedCRDs(next)) /\ AllDecode(VendoredCRDs(next))
        BY <2>4 DEF Sound
      <4>2. Validating => Knows(schemas', VendoredCRDs(next), RenderedCRDs(next))
        BY <2>1, <2>4
      <4>3. AllDecode(RenderedCRDs(next - 1))' <=> AllDecode(RenderedCRDs(next))
        BY <3>3 DEF AllDecode
      <4>4. AllDecode(VendoredCRDs(next - 1))' <=> AllDecode(VendoredCRDs(next))
        BY <3>4 DEF AllDecode
      <4>5. Knows(schemas, VendoredCRDs(next - 1), RenderedCRDs(next - 1))'
               <=> Knows(schemas', VendoredCRDs(next), RenderedCRDs(next))
        <5>1. \A k : /\ Defining(RenderedCRDs(next - 1), k)' = Defining(RenderedCRDs(next), k)
                     /\ Defining(VendoredCRDs(next - 1), k)' = Defining(VendoredCRDs(next), k)
          BY <3>3, <3>4 DEF Defining
        <5>2. \A k : KnownSchema(VendoredCRDs(next - 1), RenderedCRDs(next - 1), k)'
                       = KnownSchema(VendoredCRDs(next), RenderedCRDs(next), k)
          BY <3>3, <3>4, <5>1 DEF KnownSchema
        <5> QED
          BY <5>1, <5>2 DEF Knows
      <4> QED
        BY <1>3, <4>1, <4>2, <4>3, <4>4, <4>5
    <3> QED
      BY <1>1, <1>3, <2>2, <2>8, <2>9, <2>10, <2>11, <3>1, <3>2, <3>5 DEF TurnInv
  <2> QED
    BY <1>3, <1>4, <2>3, <2>12 DEF BuildInv
<1>7. CASE ~Accepted
  <2>1. phase' = "failed" /\ UNCHANGED <<next, objects, schemas, out>>
    BY <1>7 DEF ApplyInstance
  <2>2. BuildTypes'
    BY <1>1, <1>2, <1>3, <1>5, <2>1 DEF BuildInv, BuildTypes
  <2>3. ~Sound(next, next) \/ (bundle.command = "mod vet" /\ GetApplySets(next) = << >>)
    BY <1>1, <1>7, AcceptedIs
  <2>4. (Sound(next, next)' <=> Sound(next, next)) /\ GetApplySets(next)' = GetApplySets(next)
    <3>1. \A n : (Sound(n, n)' <=> Sound(n, n)) /\ GetApplySets(n)' = GetApplySets(n)
      BY <1>1, DerivedSame, ResultsSame
    <3> QED
      BY <2>1, <3>1
  <2>5. \A n \in DOMAIN out' : Sound(n, n)' /\ out'[n] = GetApplySets(n)'
    BY <1>1, <1>2, <2>1, DerivedSame, ResultsSame DEF TurnInv
  <2>6. TurnInv'
    BY <1>1, <1>2, <1>3, <2>1, <2>3, <2>4, <2>5 DEF TurnInv
  <2> QED
    BY <1>3, <1>4, <2>2, <2>6 DEF BuildInv
<1> QED
  BY <1>6, <1>7

LEMMA BuildStutters == ASSUME BuildInv, UNCHANGED buildVars PROVE BuildInv'
<1>1. UNCHANGED <<bundle, phase, next, worker, crds, objects, failed, schemas, files, out>>
  BY DEF buildVars
<1>2. /\ Instances' = Instances /\ (Concurrent' <=> Concurrent) /\ (Validating' <=> Validating)
      /\ (CacheInv' <=> CacheInv) /\ (AllSound' <=> AllSound)
  BY <1>1, WorkSame
<1>3. BuildTypes'
  BY <1>1, <1>2 DEF BuildInv, BuildTypes
<1>4. ASSUME Concurrent, NEW i \in Instances PROVE WorkerInv(i)'
  <2>1. /\ Built(i)' <=> Built(i)
        /\ Compiles(i)' <=> Compiles(i)
        /\ VendoredCRDsFail(bundle.dir[i])' <=> VendoredCRDsFail(bundle.dir[i])
        /\ FilesOf(i, Len(objects[i]))' = FilesOf(i, Len(objects[i]))
    BY <1>1, WorkSame, ResultsSame
  <2> QED
    BY <1>1, <1>4, <2>1 DEF BuildInv, WorkerInv
<1>5. ASSUME Concurrent PROVE PhaseInv'
  <2>1. \A i : (Buildable(i)' <=> Buildable(i)) /\ (Short(i)' <=> Short(i))
    BY <1>1, WorkSame
  <2> QED
    BY <1>1, <1>2, <1>5, <2>1 DEF BuildInv, PhaseInv
<1>6. ASSUME ~Concurrent PROVE TurnInv'
  <2>1. \A n : RenderedCRDs(n)' = RenderedCRDs(n) /\ VendoredCRDs(n)' = VendoredCRDs(n)
               /\ (Sound(n, n)' <=> Sound(n, n)) /\ GetApplySets(n)' = GetApplySets(n)
               /\ (Compiles(n)' <=> Compiles(n))
    BY <1>1, DerivedSame, ResultsSame
  <2>2. \A n : VendoredCRDsFail(bundle.dir[n])' <=> VendoredCRDsFail(bundle.dir[n])
    BY <1>1, ResultsSame
  <2>3. RenderedCRDs(next - 1)' = RenderedCRDs(next - 1) /\ VendoredCRDs(next - 1)' = VendoredCRDs(next - 1)
    BY <1>1, ResultsSame DEF RenderedCRDs, VendoredCRDs
  <2>4. /\ AllDecode(RenderedCRDs(next - 1))' <=> AllDecode(RenderedCRDs(next - 1))
        /\ AllDecode(VendoredCRDs(next - 1))' <=> AllDecode(VendoredCRDs(next - 1))
    BY <2>3 DEF AllDecode
  <2>5. Knows(schemas, VendoredCRDs(next - 1), RenderedCRDs(next - 1))'
           <=> Knows(schemas, VendoredCRDs(next - 1), RenderedCRDs(next - 1))
    <3>1. \A k : /\ Defining(RenderedCRDs(next - 1), k)' = Defining(RenderedCRDs(next - 1), k)
                 /\ Defining(VendoredCRDs(next - 1), k)' = Defining(VendoredCRDs(next - 1), k)
      BY <2>3 DEF Defining
    <3>2. \A k : KnownSchema(VendoredCRDs(next - 1), RenderedCRDs(next - 1), k)'
                   = KnownSchema(VendoredCRDs(next - 1), RenderedCRDs(next - 1), k)
      BY <2>3, <3>1 DEF KnownSchema
    <3> QED
      BY <1>1, <3>1, <3>2 DEF Knows
  <2>6. (Sound(next, next)' <=> Sound(next, next)) /\ GetApplySets(next)' = GetApplySets(next)
    <3>1. \A n : next' = n => (Sound(next, next)' <=> Sound(n, n)') /\ GetApplySets(next)' = GetApplySets(n)'
      OBVIOUS
    <3> QED
      BY <1>1, <2>1, <3>1
  <2>7. TurnInv
    BY <1>6 DEF BuildInv
  <2> QED
    BY <1>1, <1>2, <2>1, <2>2, <2>4, <2>5, <2>6, <2>7 DEF TurnInv
<1> QED
  BY <1>2, <1>3, <1>4, <1>5, <1>6 DEF BuildInv

LEMMA BuildNextKeeps == BuildInv /\ [BuildNext]_buildVars => BuildInv'
<1> SUFFICES ASSUME BuildInv, [BuildNext]_buildVars PROVE BuildInv'
  OBVIOUS
<1>1. CASE Go
  BY <1>1, GoKeeps
<1>2. CASE Wait
  BY <1>2, WaitKeeps
<1>3. CASE ValidateBundle
  BY <1>3, ValidateBundleKeeps
<1>4. CASE PrintBundle
  BY <1>4, PrintBundleKeeps
<1>5. CASE StartWriting
  BY <1>5, StartWritingKeeps
<1>6. CASE ApplyInstance
  BY <1>6, ApplyInstanceKeeps
<1>7. CASE BuildStopped
  BY <1>7, BuildStutters DEF BuildStopped
<1>8. ASSUME NEW i \in Instances, BuildObjects(i) \/ LookUp(i) \/ Extract(i) PROVE BuildInv'
  BY <1>8, BuildObjectsKeeps, LookUpKeeps, ExtractKeeps
<1>9. ASSUME NEW i \in Instances, CachePut(i) \/ WriteFiles(i) PROVE BuildInv'
  BY <1>9, CachePutKeeps, WriteFilesKeeps
<1>10. CASE UNCHANGED buildVars
  BY <1>10, BuildStutters
<1> QED
  BY <1>1, <1>2, <1>3, <1>4, <1>5, <1>6, <1>7, <1>8, <1>9, <1>10 DEF BuildNext

LEMMA BuildOutcomeFollows == ASSUME BuildInv PROVE BuildOutcome
<1> SUFFICES ASSUME Concurrent PROVE BuildOutcome
  BY DEF BuildOutcome
<1> DEFINE rendered == [i \in Instances |-> InstanceObjects(i)]
<1>1. PhaseInv /\ (\A i \in Instances : WorkerInv(i)) /\ DOMAIN objects = Instances
      /\ objects = [i \in Instances |-> objects[i]]
  BY DEF BuildInv, BuildTypes
<1>2. ASSUME phase \in {"output", "write", "done"} PROVE AllSound /\ objects = rendered
  <2>1. \A i \in Instances : objects[i] = InstanceObjects(i)
    BY <1>1, <1>2 DEF WorkerInv, Built
  <2> QED
    BY <1>1, <1>2, <2>1 DEF PhaseInv
<1>3. phase = "failed" => ~AllSound \/ \E i \in Instances :
                              bundle.toDir /\ Len(objects[i]) > Cardinality(DOMAIN files[i])
  BY <1>1 DEF PhaseInv, Short
<1>4. out # << >> \/ (\E i \in Instances : files[i] # << >>) => AllSound
  BY <1>1 DEF PhaseInv
<1>5. phase = "done" /\ ~bundle.toDir => out = rendered
  BY <1>1, <1>2 DEF PhaseInv
<1> HIDE DEF rendered
<1>6. AllSound <=> \A i \in Instances : Sound(Len(bundle.dir), i)
  BY DEF AllSound
<1> QED
  BY <1>2, <1>3, <1>4, <1>5, <1>6 DEF BuildOutcome, rendered

LEMMA ApplyValidatesFollows == ASSUME BuildInv PROVE ApplyValidates
<1> SUFFICES ASSUME ~Concurrent PROVE ApplyValidates
  BY DEF ApplyValidates
<1>1. TurnInv /\ bundle \in Bundles
  BY DEF BuildInv, BuildTypes
<1>2. phase = "done" => Len(out) = Len(bundle.dir)
  <2>1. Len(bundle.dir) \in Nat
    BY <1>1, BundleIs
  <2> QED
    BY <1>1, <2>1 DEF TurnInv
<1> QED
  BY <1>1, <1>2 DEF TurnInv, ApplyValidates

(* An object that has no file has the name of the file of a later one.       *)
LEMMA FilesFollow == ASSUME BuildInv PROVE ManifestFilesWritten
<1> SUFFICES ASSUME phase = "done", Concurrent, bundle.toDir, NEW i \in Instances, NEW m \in DOMAIN objects[i]
             PROVE  LET obj == objects[i][m]
                        Same(other) ==
                            /\ other.kind = obj.kind /\ other.lower = obj.lower
                            /\ \/ other.namespace = obj.namespace
                               \/ "" \in {other.namespace, obj.namespace} /\ Cardinality(Namespaces(i)) = 1
                    IN  \/ \E name \in DOMAIN files[i] : files[i][name] = obj
                        \/ \E k \in DOMAIN objects[i] : k # m /\ Same(objects[i][k])
  BY DEF ManifestFilesWritten
<1> DEFINE obj == objects[i][m]
           n == Len(objects[i])
           mine == FileName(i, obj)
           Alike == {l \in 1..n : FileName(i, objects[i][l]) = mine}
           Same(other) ==
               /\ other.kind = obj.kind /\ other.lower = obj.lower
               /\ \/ other.namespace = obj.namespace
                  \/ "" \in {other.namespace, obj.namespace} /\ Cardinality(Namespaces(i)) = 1
<1>1. n \in Nat /\ DOMAIN objects[i] = 1..n /\ m \in 1..n
  BY DEF BuildInv, BuildTypes
<1>2. files[i] = FilesOf(i, n)
  BY DEF BuildInv, WorkerInv
<1>3. PICK k \in Alike : \A l \in Alike : l <= k
  <2>1. m \in Alike /\ Alike \in SUBSET (0..n)
    BY <1>1
  <2> HIDE DEF Alike
  <2> QED
    BY <1>1, <2>1, LargestNat
<1>4. Max(Alike) = k
  <2>1. Alike \in SUBSET Nat
    BY <1>1
  <2> HIDE DEF Alike
  <2> QED
    BY <1>3, <2>1, MaxIs
<1>5. mine \in DOMAIN files[i] /\ files[i][mine] = objects[i][k]
  <2>1. mine \in {FileName(i, objects[i][l]) : l \in 1..n}
    BY <1>1
  <2>2. files[i][mine] = objects[i][Max(Alike)]
    BY <1>2, <2>1 DEF FilesOf
  <2> QED
    BY <1>2, <1>4, <2>1, <2>2 DEF FilesOf
<1>6. CASE k = m
  BY <1>5, <1>6
<1>7. CASE k # m
  <2> DEFINE other == objects[i][k]
  <2>1. k \in 1..n /\ FileName(i, other) = FileName(i, obj)
    BY <1>3
  <2>2. obj.namespace # "" => obj.namespace \in Namespaces(i)
    BY <1>1 DEF Namespaces, ToSet
  <2>3. other.namespace # "" => other.namespace \in Namespaces(i)
    BY <1>1, <2>1 DEF Namespaces, ToSet
  <2>4. IsFiniteSet(Namespaces(i))
    <3>1. Namespaces(i) \subseteq {objects[i][l].namespace : l \in 1..n}
      BY <1>1 DEF Namespaces, ToSet
    <3> DEFINE f == [l \in 1..n |-> objects[i][l].namespace]
               T == {objects[i][l].namespace : l \in 1..n}
    <3>2. f \in Surjection(1..n, T)
      BY DEF Surjection
    <3>3. IsFiniteSet(1..n)
      BY <1>1, FS_Interval
    <3>4. IsFiniteSet(T)
      <4> HIDE DEF f, T
      <4> QED
        BY <3>2, <3>3, FS_Surjection
    <3> QED
      BY <3>1, <3>4, FS_Subset
  <2>5. /\ other.kind = obj.kind /\ other.lower = obj.lower
        /\ Cardinality(Namespaces(i)) > 1 => other.namespace = obj.namespace
    BY <2>1 DEF FileName
  <2>6. Same(other)
    <3> SUFFICES ASSUME other.namespace # obj.namespace
                 PROVE  "" \in {other.namespace, obj.namespace} /\ Cardinality(Namespaces(i)) = 1
      BY <2>5
    <3> HIDE DEF other, obj
    <3> DEFINE N == Namespaces(i)
    <3>1. Cardinality(N) \in Nat /\ ~(Cardinality(N) > 1)
      BY <2>4, <2>5, FS_CardinalityType
    <3>2. PICK x : x \in N /\ x \in {other.namespace, obj.namespace}
      BY <2>2, <2>3
    <3>3. Cardinality(N) = 1
      <4>1. Cardinality(N) # 0
        BY <2>4, <3>2, FS_EmptySet
      <4> QED
        BY <3>1, <4>1
    <3>4. PICK y : N = {y}
      BY <2>4, <3>3, FS_Singleton
    <3>5. "" \in {other.namespace, obj.namespace}
      BY <2>2, <2>3, <3>4
    <3> QED
      BY <3>3, <3>5
  <2> QED
    BY <1>1, <1>7, <2>1, <2>6
<1> QED
  BY <1>6, <1>7

(* What goroutines, cache and validator hold at every moment.                *)
THEOREM BuildInvariant == BuildSpec => []BuildInv
<1>1. BuildInit => BuildInv
  BY BuildStarts
<1>2. BuildInv /\ [BuildNext]_buildVars => BuildInv'
  BY BuildNextKeeps
<1> QED
  BY <1>1, <1>2, PTL DEF BuildSpec

(* ManifestsValid, for any bundles, modules, packages and manifests: in      *)
(* whatever order the goroutines of `bundle build` run, and whichever of     *)
(* them fills the cache, everything is printed or written when all of it is  *)
(* valid for the CRDs of the bundle and nothing when it is not; the commands *)
(* that take instances in turn pass on what is valid for the CRDs so far.    *)
THEOREM ManifestsValidHolds == BuildSpec => []ManifestsValid
<1>1. BuildInv => ManifestsValid
  BY BuildOutcomeFollows, ApplyValidatesFollows DEF ManifestsValid
<1> QED
  BY <1>1, BuildInvariant, PTL

(* ManifestFilesWritten, for any objects: when the files of a bundle build   *)
(* are written, an object without a file of its own shares its name with     *)
(* another of the instance.                                                  *)
THEOREM ManifestFilesWrittenHolds == BuildSpec => []ManifestFilesWritten
<1>1. BuildInv => ManifestFilesWritten
  BY FilesFollow
<1> QED
  BY <1>1, BuildInvariant, PTL

================================================================================
