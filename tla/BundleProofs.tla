------------------------------ MODULE BundleProofs ------------------------------
(***************************************************************************)
(* What the commands on several instances keep, for any clusters,          *)
(* instances, bundles and plans: their types, for commands that run side   *)
(* by side; and, for one command at a time, that owners change only when   *)
(* asked, that a command that ends well has done its work, and that a      *)
(* bundle delete removes its own instances, last installed first.          *)
(***************************************************************************)
EXTENDS Bundle, FiniteSetTheorems, TLAPS

--------------------------------------------------------------------------------
(* Sequences. *)

Covered(s, x) == \E j \in DOMAIN s : s[j] = x

LEMMA TailElements ==
    ASSUME NEW S, NEW s \in Seq(S), s # << >>
    PROVE  /\ Head(s) \in S /\ Head(s) = s[1] /\ 1 \in DOMAIN s
           /\ Tail(s) \in Seq(S)
           /\ \A j \in DOMAIN Tail(s) : j + 1 \in DOMAIN s /\ Tail(s)[j] = s[j + 1]
           /\ \A j \in DOMAIN s : j # 1 => j - 1 \in DOMAIN Tail(s) /\ Tail(s)[j - 1] = s[j]
           /\ DOMAIN s \subseteq Nat \ {0}
  OBVIOUS

LEMMA TailCovers ==
    ASSUME NEW S, NEW s \in Seq(S), s # << >>, NEW x
    PROVE  Covered(s, x) <=> x = Head(s) \/ Covered(Tail(s), x)
<1>1. ASSUME Covered(s, x), x # Head(s)
      PROVE  Covered(Tail(s), x)
  <2>1. PICK j \in DOMAIN s : s[j] = x
    BY <1>1 DEF Covered
  <2>2. j # 1
    BY <1>1, <2>1, TailElements
  <2>3. j - 1 \in DOMAIN Tail(s) /\ Tail(s)[j - 1] = x
    BY <2>1, <2>2, TailElements
  <2>4. QED
    BY <2>3 DEF Covered
<1>2. ASSUME x = Head(s) \/ Covered(Tail(s), x)
      PROVE  Covered(s, x)
  BY <1>2, TailElements DEF Covered
<1>3. QED
  BY <1>1, <1>2

--------------------------------------------------------------------------------
(* The memory of a command. *)

Shaped(m) ==
    /\ m \in Memory
    /\ m.pc \notin Outcomes => m.targets # << >>
    /\ InInstance(m) => m.queue # << >>

LEMMA MemoryFields ==
    ASSUME NEW m \in Memory
    PROVE  /\ m.pc \in ApplyStages \cup DeleteStages \cup Outcomes
           /\ m.owner \in Owners
           /\ m.alone \in BOOLEAN /\ m.deletes \in BOOLEAN /\ m.overwrite \in BOOLEAN
           /\ m.conflict \in BOOLEAN /\ m.expired \in BOOLEAN /\ m.stale \in BOOLEAN
           /\ m.selected \in Seq(Clusters) /\ m.targets \in Seq(Clusters)
           /\ m.plan \in [Clusters -> Seq(Instances)]
           /\ m.queue \in Seq(Instances) /\ m.unread \in Seq(Instances)
  BY DEF Memory

LEMMA EndedShaped ==
    ASSUME NEW outcome \in Outcomes
    PROVE  Shaped(Ended(outcome)) /\ Ended(outcome).pc = outcome
  BY DEF Ended, Shaped, Memory, Outcomes, Owners, InInstance

LEMMA EndedMemory ==
    ASSUME NEW pc \in ApplyStages \cup DeleteStages \cup Outcomes
    PROVE  Ended(pc) \in Memory
  BY DEF Ended, Memory, Owners

LEMMA GotoShaped ==
    ASSUME NEW m \in Memory, m.targets # << >>, m.queue # << >>,
           NEW stage \in ApplyStages \cup DeleteStages
    PROVE  Shaped(Goto(m, stage))
  BY DEF Goto, Shaped, Memory, InInstance

LEMMA EnterClusterShaped ==
    ASSUME NEW m \in Memory
    PROVE  Shaped(EnterCluster(m))
<1>1. CASE m.targets = << >>
  BY <1>1, EndedShaped DEF EnterCluster, Outcomes
<1>2. CASE m.targets # << >> /\ m.deletes
  BY <1>2 DEF EnterCluster, Goto, Shaped, Memory, InInstance, DeleteStages
<1>3. CASE m.targets # << >> /\ ~m.deletes
  <2> DEFINE stage == IF m.overwrite THEN "fetch" ELSE "check"
             plan  == m.plan[Here(m)]
  <2>1. Here(m) \in Clusters
    BY <1>3, MemoryFields, TailElements DEF Here
  <2>2. plan \in Seq(Instances)
    BY <2>1, MemoryFields
  <2>3. stage \in ApplyStages /\ stage \in {"fetch", "check"}
    BY DEF ApplyStages
  <2>4. EnterCluster(m) = [m EXCEPT !.pc = stage, !.queue = plan, !.unread = plan]
    BY <1>3 DEF EnterCluster
  <2> HIDE DEF stage, plan
  <2>5. QED
    BY <1>3, <2>2, <2>3, <2>4 DEF Shaped, Memory, InInstance
<1>4. QED
  BY <1>1, <1>2, <1>3

LEMMA NextClusterShaped ==
    ASSUME NEW m \in Memory, m.targets # << >>
    PROVE  Shaped(NextCluster(m))
<1> DEFINE rest == Tail(m.targets)
           none == << >>
<1>1. rest \in Seq(Clusters)
  BY MemoryFields, TailElements
<1>2. none \in Seq(Instances)
  OBVIOUS
<1>3. NextCluster(m) = EnterCluster([m EXCEPT !.targets = rest, !.queue = none])
  BY DEF NextCluster
<1> HIDE DEF rest, none
<1>4. [m EXCEPT !.targets = rest, !.queue = none] \in Memory
  BY <1>1, <1>2 DEF Memory
<1>5. QED
  BY <1>3, <1>4, EnterClusterShaped

(* What is left of the memory for the next instance. *)
Rest(m) == [m EXCEPT !.queue = Tail(@), !.found = FALSE, !.stale = FALSE, !.pruned = FALSE]

LEMMA RestMemory ==
    ASSUME NEW m \in Memory, m.queue # << >>
    PROVE  /\ Rest(m) \in Memory
           /\ Rest(m).queue = Tail(m.queue)
           /\ Rest(m).pc = m.pc /\ Rest(m).owner = m.owner
           /\ Rest(m).alone = m.alone /\ Rest(m).deletes = m.deletes
           /\ Rest(m).overwrite = m.overwrite /\ Rest(m).conflict = m.conflict
           /\ Rest(m).selected = m.selected /\ Rest(m).targets = m.targets
           /\ Rest(m).plan = m.plan /\ Rest(m).unread = m.unread
<1>1. Tail(m.queue) \in Seq(Instances)
  BY MemoryFields, TailElements
<1>2. QED
  BY <1>1 DEF Memory, Rest

LEMMA NextInstanceShaped ==
    ASSUME NEW m \in Memory, m.targets # << >>, m.queue # << >>, NEW stage \in {"init", "get"}
    PROVE  Shaped(NextInstance(m, stage))
<1>1. Rest(m) \in Memory /\ Rest(m).targets = m.targets
  BY RestMemory
<1>2. CASE Rest(m).queue = << >>
  BY <1>1, <1>2, NextClusterShaped DEF NextInstance, Rest
<1>3. CASE Rest(m).queue # << >>
  BY <1>1, <1>3, GotoShaped DEF NextInstance, Rest, ApplyStages, DeleteStages
<1>4. QED
  BY <1>2, <1>3

--------------------------------------------------------------------------------
(* Type correctness. *)

LEMMA BecomesTyped ==
    ASSUME TypeOK, NEW r \in Commands, NEW m \in Memory, Shaped(m), Becomes(r, m)
    PROVE  /\ cmd' \in [Commands -> Memory]
           /\ cmd'[r] = m
           /\ \A q \in Commands \ {r} : cmd'[q] = cmd[q]
           /\ \A q \in Commands : Shaped(cmd'[q])
<1>1. cmd' = [cmd EXCEPT ![r] = m] /\ cmd \in [Commands -> Memory]
  BY DEF Becomes, TypeOK
<1>2. \A q \in Commands : Shaped(cmd[q])
  BY DEF TypeOK, Shaped, Active
<1>3. \A q \in Commands : cmd'[q] = IF q = r THEN m ELSE cmd[q]
  BY <1>1
<1>4. QED
  BY <1>1, <1>2, <1>3

LEMMA CommandShaped ==
    ASSUME TypeOK, NEW r \in Commands
    PROVE  Shaped(cmd[r]) /\ cmd[r] \in Memory
  BY DEF TypeOK, Shaped, Active

LEMMA HereTyped ==
    ASSUME NEW m, Shaped(m)
    PROVE  /\ m.pc \notin Outcomes => Here(m) \in Clusters
           /\ InInstance(m) => Current(m) \in Instances /\ m.pc \notin Outcomes
  BY MemoryFields, TailElements DEF Shaped, Here, Current, InInstance, Outcomes

LEMMA StoreTyped ==
    ASSUME TypeOK, NEW m \in Memory, Here(m) \in Clusters, Current(m) \in Instances, Store(m)
    PROVE  /\ record' \in [Clusters -> [Instances -> Record]]
           /\ earlier' \in [Clusters -> SUBSET (Instances \X Instances)]
           /\ clock' \in Nat
<1> DEFINE c == Here(m)
           i == Current(m)
           before == {j \in Instances : record[c][j].exists} \X {i}
<1>0. c \in Clusters /\ i \in Instances /\ before \subseteq Instances \X Instances
  OBVIOUS
<1>t. /\ record \in [Clusters -> [Instances -> Record]] /\ clock \in Nat
      /\ earlier \in [Clusters -> SUBSET (Instances \X Instances)] /\ m.owner \in Owners
  BY MemoryFields DEF TypeOK
<1>1. CASE record[c][i].exists
  <2>1. record' = [record EXCEPT ![c][i].bundle = m.owner] /\ UNCHANGED <<earlier, clock>>
    BY <1>1 DEF Store
  <2> DEFINE kept == [record[c][i] EXCEPT !.bundle = m.owner]
             row  == [record[c] EXCEPT ![i] = kept]
  <2>2. record[c][i] \in Record /\ record[c] \in [Instances -> Record]
    BY <1>0, <1>t
  <2>3. kept \in Record
    BY <2>2, <1>t DEF Record
  <2>4. record' = [record EXCEPT ![c] = row]
    BY <2>1
  <2> HIDE DEF c, i, kept
  <2>5. row \in [Instances -> Record]
    BY <2>2, <2>3, <1>0
  <2> HIDE DEF row
  <2>6. QED
    BY <2>1, <2>4, <2>5, <1>0, <1>t
<1>2. CASE ~record[c][i].exists
  <2>0. /\ \E later \in (IF SameSecond THEN {0, 1} ELSE {1}) : clock' = clock + later
        /\ record' = [record EXCEPT ![c][i] =
                         [exists |-> TRUE, bundle |-> m.owner, created |-> clock']]
        /\ earlier' = [earlier EXCEPT ![c] = @ \cup before]
    BY <1>2, Zenon DEF Store
  <2>1. clock' = clock \/ clock' = clock + 1
    <3>1. PICK later \in (IF SameSecond THEN {0, 1} ELSE {1}) : clock' = clock + later
      BY <2>0
    <3>2. QED
      BY <3>1, <1>t
  <2> HIDE DEF c, i, before
  <2>2. clock' \in Nat
    BY <2>1, <1>t
  <2>3. [exists |-> TRUE, bundle |-> m.owner, created |-> clock'] \in Record
    BY <2>2, <1>t DEF Record
  <2>4. QED
    BY <2>0, <2>2, <2>3, <1>0, <1>t
<1>3. QED
  BY <1>1, <1>2

LEMMA MoveTyped ==
    ASSUME TypeOK, NEW r \in Commands, NEW m \in Memory, Shaped(m), Becomes(r, m),
           record' \in [Clusters -> [Instances -> Record]],
           earlier' \in [Clusters -> SUBSET (Instances \X Instances)],
           clock' \in Nat, starts' \in 0..MaxStarts, faults' \in 0..MaxFaults
    PROVE  TypeOK'
<1>1. cmd' \in [Commands -> Memory] /\ \A q \in Commands : Shaped(cmd'[q])
  BY BecomesTyped
<1>2. QED
  BY <1>1 DEF TypeOK, Shaped, Active, InInstance

(* The memory alone changes. *)
LEMMA OnlyMoveTyped ==
    ASSUME TypeOK, NEW r \in Commands, NEW m \in Memory, Shaped(m), Becomes(r, m),
           UNCHANGED <<record, earlier, clock>>,
           starts' \in 0..MaxStarts, faults' \in 0..MaxFaults
    PROVE  TypeOK'
<1>1. /\ record' \in [Clusters -> [Instances -> Record]] /\ clock' \in Nat
      /\ earlier' \in [Clusters -> SUBSET (Instances \X Instances)]
  BY DEF TypeOK
<1>2. QED
  BY <1>1, MoveTyped

LEMMA EndTyped ==
    ASSUME TypeOK, NEW r \in Commands, NEW outcome \in Outcomes, End(r, outcome),
           starts' \in 0..MaxStarts, faults' \in 0..MaxFaults
    PROVE  TypeOK'
<1>1. Becomes(r, Ended(outcome)) /\ UNCHANGED <<record, earlier, clock>>
  BY DEF End
<1>2. Shaped(Ended(outcome)) /\ Ended(outcome) \in Memory
  BY EndedShaped DEF Shaped
<1>3. QED
  BY <1>1, <1>2, OnlyMoveTyped

LEMMA CountersTyped ==
    ASSUME TypeOK
    PROVE  /\ UNCHANGED starts => starts' \in 0..MaxStarts
           /\ UNCHANGED faults => faults' \in 0..MaxFaults
           /\ starts < MaxStarts /\ starts' = starts + 1 => starts' \in 0..MaxStarts
           /\ Inject => faults' \in 0..MaxFaults
  BY BoundAssumption DEF TypeOK, Inject

(* The memory a command begins with. *)
LEMMA StartShaped ==
    ASSUME NEW m, m \in Memory, m.targets # << >>, InInstance(m) => m.queue # << >>
    PROVE  Shaped(m)
  BY DEF Shaped

LEMMA BundleApplyMemory ==
    ASSUME NEW b \in Bundles, NEW targets \in Selections, NEW overwrite \in BOOLEAN,
           NEW wait \in BOOLEAN, NEW plan \in [Clusters -> Plans[b]]
    PROVE  [Ended("check") EXCEPT !.owner = b, !.overwrite = overwrite, !.wait = wait,
                !.selected = targets, !.targets = targets, !.plan = plan] \in Memory
<1>1. Ended("check") \in Memory
  BY EndedMemory DEF ApplyStages
<1>2. targets \in Seq(Clusters) /\ b \in Owners
  BY SelectAssumption DEF Owners
<1>3. plan \in [Clusters -> Seq(Instances)]
  BY PlansAssumption
<1>4. QED
  BY <1>1, <1>2, <1>3 DEF Memory

LEMMA BundleDeleteMemory ==
    ASSUME NEW b \in Bundles, NEW targets \in Selections, NEW wait \in BOOLEAN
    PROVE  [Ended("list") EXCEPT !.owner = b, !.deletes = TRUE, !.wait = wait,
                !.selected = targets, !.targets = targets] \in Memory
<1>1. Ended("list") \in Memory
  BY EndedMemory DEF DeleteStages
<1>2. targets \in Seq(Clusters) /\ b \in Owners
  BY SelectAssumption DEF Owners
<1>3. QED
  BY <1>1, <1>2 DEF Memory

LEMMA AloneMemory ==
    ASSUME NEW i \in Instances, NEW c \in Clusters, NEW overwrite \in BOOLEAN,
           NEW wait \in BOOLEAN
    PROVE  /\ [Ended("init") EXCEPT !.alone = TRUE, !.overwrite = overwrite, !.wait = wait,
                   !.targets = <<c>>, !.queue = <<i>>] \in Memory
           /\ [Ended("get") EXCEPT !.alone = TRUE, !.deletes = TRUE, !.wait = wait,
                   !.targets = <<c>>, !.queue = <<i>>] \in Memory
<1> DEFINE here == <<c>>
           this == <<i>>
<1>1. Ended("init") \in Memory /\ Ended("get") \in Memory
  BY EndedMemory DEF ApplyStages, DeleteStages
<1>2. here \in Seq(Clusters) /\ this \in Seq(Instances)
  OBVIOUS
<1> HIDE DEF here, this
<1>3. [Ended("init") EXCEPT !.alone = TRUE, !.overwrite = overwrite, !.wait = wait,
           !.targets = here, !.queue = this] \in Memory
  <2> DEFINE m == Ended("init")
  <2>1. m \in Memory
    BY <1>1
  <2> HIDE DEF m
  <2>2. [m EXCEPT !.alone = TRUE, !.overwrite = overwrite, !.wait = wait,
             !.targets = here, !.queue = this] \in Memory
    BY <1>2, <2>1 DEF Memory
  <2> QED
    BY <2>2 DEF m
<1>4. [Ended("get") EXCEPT !.alone = TRUE, !.deletes = TRUE, !.wait = wait,
           !.targets = here, !.queue = this] \in Memory
  <2> DEFINE m == Ended("get")
  <2>1. m \in Memory
    BY <1>1
  <2> HIDE DEF m
  <2>2. [m EXCEPT !.alone = TRUE, !.deletes = TRUE, !.wait = wait,
             !.targets = here, !.queue = this] \in Memory
    BY <1>2, <2>1 DEF Memory
  <2> QED
    BY <2>2 DEF m
<1>5. QED
  BY <1>3, <1>4 DEF here, this

(* What a command begins with. *)
FreshAlone(m) ==
    /\ m.alone /\ m.owner = NoBundle
    /\ m.selected = << >> /\ m.plan = [c \in Clusters |-> << >>]
    /\ Len(m.targets) = 1 /\ Len(m.queue) = 1
    /\ m.deletes \in BOOLEAN /\ m.pc = IF m.deletes THEN "get" ELSE "init"

FreshApply(m) ==
    /\ ~m.alone /\ ~m.deletes /\ ~m.conflict
    /\ m.pc = IF m.overwrite THEN "fetch" ELSE "check"
    /\ m.targets = m.selected /\ m.queue = m.plan[Here(m)] /\ m.unread = m.queue

FreshDelete(m) ==
    /\ ~m.alone /\ m.deletes /\ m.pc = "list"
    /\ m.targets = m.selected /\ m.plan = [c \in Clusters |-> << >>]

LEMMA StartBundleApplyMemory ==
    ASSUME NEW r \in Commands, StartBundleApply(r)
    PROVE  \E m \in Memory : Begin(r, m) /\ Shaped(m) /\ FreshApply(m)
<1>1. PICK b \in Bundles, targets \in Selections, overwrite \in BOOLEAN, wait \in BOOLEAN :
          \E plan \in [Clusters -> Plans[b]] :
          Begin(r, EnterCluster([Ended("check") EXCEPT
                   !.owner = b, !.overwrite = overwrite, !.wait = wait,
                   !.selected = targets, !.targets = targets, !.plan = plan]))
  BY DEF StartBundleApply
<1>2. PICK plan \in [Clusters -> Plans[b]] :
          Begin(r, EnterCluster([Ended("check") EXCEPT
                   !.owner = b, !.overwrite = overwrite, !.wait = wait,
                   !.selected = targets, !.targets = targets, !.plan = plan]))
  BY <1>1
<1> DEFINE m == [Ended("check") EXCEPT
                   !.owner = b, !.overwrite = overwrite, !.wait = wait,
                   !.selected = targets, !.targets = targets, !.plan = plan]
           stage == IF overwrite THEN "fetch" ELSE "check"
           todo == m.plan[Here(m)]
<1>3. m \in Memory
  BY BundleApplyMemory
<1>4. /\ ~m.alone /\ ~m.deletes /\ ~m.conflict /\ m.overwrite = overwrite
      /\ m.targets = targets /\ m.selected = targets
  BY DEF Ended
<1>5. targets # << >>
  BY SelectAssumption
<1>6. EnterCluster(m) = [m EXCEPT !.pc = stage, !.queue = todo, !.unread = todo]
  BY <1>4, <1>5 DEF EnterCluster
<1>7. Shaped(EnterCluster(m))
  BY <1>3, EnterClusterShaped
<1>8. Here(EnterCluster(m)) = Here(m)
  <2> HIDE DEF m, todo, stage
  <2>1. QED
    BY <1>3, <1>6 DEF Here, Memory
<1>9. FreshApply(EnterCluster(m))
  <2> HIDE DEF m, todo
  <2>1. /\ EnterCluster(m).alone = m.alone /\ EnterCluster(m).deletes = m.deletes
        /\ EnterCluster(m).conflict = m.conflict /\ EnterCluster(m).overwrite = m.overwrite
        /\ EnterCluster(m).targets = m.targets /\ EnterCluster(m).selected = m.selected
        /\ EnterCluster(m).plan = m.plan /\ EnterCluster(m).pc = stage
        /\ EnterCluster(m).queue = todo /\ EnterCluster(m).unread = todo
    BY <1>3, <1>6 DEF Memory
  <2>2. QED
    BY <2>1, <1>4, <1>8 DEF FreshApply, todo
<1>10. QED
  BY <1>2, <1>7, <1>9 DEF Shaped

LEMMA StartBundleDeleteMemory ==
    ASSUME NEW r \in Commands, StartBundleDelete(r)
    PROVE  \E m \in Memory : Begin(r, m) /\ Shaped(m) /\ FreshDelete(m)
<1>1. PICK b \in Bundles, targets \in Selections, wait \in BOOLEAN :
          Begin(r, [Ended("list") EXCEPT
                   !.owner = b, !.deletes = TRUE, !.wait = wait,
                   !.selected = targets, !.targets = targets])
  BY DEF StartBundleDelete
<1> DEFINE m == [Ended("list") EXCEPT !.owner = b, !.deletes = TRUE, !.wait = wait,
                     !.selected = targets, !.targets = targets]
<1>2. m \in Memory
  BY BundleDeleteMemory
<1>3. m.targets # << >> /\ ~InInstance(m) /\ FreshDelete(m)
  BY SelectAssumption DEF Ended, InInstance, FreshDelete
<1> HIDE DEF m
<1>4. Shaped(m)
  BY <1>2, <1>3, StartShaped
<1>5. QED
  BY <1>1, <1>2, <1>3, <1>4 DEF m

LEMMA StartAloneMemory ==
    ASSUME NEW r \in Commands, StartApply(r) \/ StartDelete(r)
    PROVE  \E m \in Memory : Begin(r, m) /\ Shaped(m) /\ FreshAlone(m)
<1>1. CASE StartApply(r)
  <2>1. PICK i \in Instances, c \in Clusters, overwrite \in BOOLEAN, wait \in BOOLEAN :
            Begin(r, [Ended("init") EXCEPT
                     !.alone = TRUE, !.overwrite = overwrite, !.wait = wait,
                     !.targets = <<c>>, !.queue = <<i>>])
    BY <1>1 DEF StartApply
  <2> DEFINE m == [Ended("init") EXCEPT !.alone = TRUE, !.overwrite = overwrite,
                       !.wait = wait, !.targets = <<c>>, !.queue = <<i>>]
  <2>2. m \in Memory
    BY AloneMemory, Zenon
  <2>3. m.targets # << >> /\ m.queue # << >> /\ FreshAlone(m)
    BY DEF Ended, FreshAlone
  <2> HIDE DEF m
  <2>4. Shaped(m)
    BY <2>2, <2>3, StartShaped
  <2>5. QED
    BY <2>1, <2>2, <2>3, <2>4 DEF m
<1>2. CASE StartDelete(r)
  <2>1. PICK i \in Instances, c \in Clusters, wait \in BOOLEAN :
            Begin(r, [Ended("get") EXCEPT
                     !.alone = TRUE, !.deletes = TRUE, !.wait = wait,
                     !.targets = <<c>>, !.queue = <<i>>])
    BY <1>2 DEF StartDelete
  <2> DEFINE m == [Ended("get") EXCEPT !.alone = TRUE, !.deletes = TRUE, !.wait = wait,
                       !.targets = <<c>>, !.queue = <<i>>]
  <2>2. m \in Memory
    BY AloneMemory
  <2>3. m.targets # << >> /\ m.queue # << >> /\ FreshAlone(m)
    BY DEF Ended, FreshAlone
  <2> HIDE DEF m
  <2>4. Shaped(m)
    BY <2>2, <2>3, StartShaped
  <2>5. QED
    BY <2>1, <2>2, <2>3, <2>4 DEF m
<1>3. QED
  BY <1>1, <1>2

LEMMA StartMemory ==
    ASSUME NEW r \in Commands, Start(r)
    PROVE  \E m \in Memory : /\ Begin(r, m) /\ Shaped(m)
                             /\ FreshAlone(m) \/ FreshApply(m) \/ FreshDelete(m)
  BY StartBundleApplyMemory, StartBundleDeleteMemory, StartAloneMemory DEF Start

LEMMA StartTyped ==
    ASSUME TypeOK, NEW r \in Commands, Start(r)
    PROVE  TypeOK'
<1>1. PICK m \in Memory : /\ Begin(r, m) /\ Shaped(m)
                          /\ FreshAlone(m) \/ FreshApply(m) \/ FreshDelete(m)
  BY StartMemory
<1>2. Becomes(r, m) /\ UNCHANGED <<record, earlier, clock>>
  BY <1>1 DEF Begin
<1>3. starts' \in 0..MaxStarts /\ faults' \in 0..MaxFaults
  BY <1>1, CountersTyped DEF Begin
<1>4. Shaped(m)
  BY <1>1
<1>5. QED
  BY <1>2, <1>3, <1>4, OnlyMoveTyped

LEMMA QuietTyped ==
    ASSUME TypeOK, NEW r \in Commands, NEW m \in Memory, Shaped(m), Becomes(r, m),
           UNCHANGED <<record, earlier, clock, starts, faults>>
    PROVE  TypeOK'
<1>1. starts' \in 0..MaxStarts /\ faults' \in 0..MaxFaults
  BY DEF TypeOK
<1>2. UNCHANGED <<record, earlier, clock>>
  OBVIOUS
<1>3. QED
  BY <1>1, <1>2, OnlyMoveTyped

(* The instances of a bundle, as they are listed and turned around.          *)
LEMMA LabelledFinite ==
    ASSUME NEW c, NEW b
    PROVE  IsFiniteSet(Labelled(c, b)) /\ Cardinality(Labelled(c, b)) \in Nat
<1>1. Labelled(c, b) \in SUBSET Instances
  BY DEF Labelled
<1>2. IsFiniteSet(Labelled(c, b))
  BY <1>1, FiniteAssumption, FS_Subset
<1>3. QED
  BY <1>2, FS_CardinalityType

LEMMA BackwardListing ==
    ASSUME NEW c, NEW b, NEW s \in Listings(c, b)
    PROVE  /\ Backward(s) \in Seq(Instances)
           /\ Len(Backward(s)) = Len(s) /\ Len(s) \in Nat
           /\ s \in [1..Len(s) -> Labelled(c, b)]
           /\ \A k \in 1..Len(s) : Backward(s)[k] = s[Len(s) + 1 - k]
           /\ s = << >> <=> Len(s) = 0
<1> DEFINE n == Cardinality(Labelled(c, b))
<1>1. n \in Nat /\ s \in [1..n -> Labelled(c, b)] /\ Labelled(c, b) \subseteq Instances
  BY LabelledFinite DEF Listings, Labelled
<1> HIDE DEF n
<1>2. s \in Seq(Instances) /\ Len(s) = n /\ DOMAIN s = 1..n
  BY <1>1
<1>3. Backward(s) = [k \in 1..n |-> s[n + 1 - k]]
  BY <1>2 DEF Backward
<1>4. \A k \in 1..n : n + 1 - k \in 1..n
  BY <1>1
<1>5. Backward(s) \in [1..n -> Instances]
  BY <1>1, <1>3, <1>4
<1>6. Backward(s) \in Seq(Instances) /\ Len(Backward(s)) = n
  BY <1>1, <1>5
<1>7. s = << >> <=> Len(s) = 0
  BY <1>2
<1>8. QED
  BY <1>1, <1>2, <1>3, <1>6, <1>7

LEMMA StepTyped ==
    ASSUME TypeOK, NEW r \in Commands, Step(r)
    PROVE  TypeOK'
<1> DEFINE m == cmd[r]
<1>m. m \in Memory /\ Shaped(m)
  BY CommandShaped
<1>c. /\ UNCHANGED starts => starts' \in 0..MaxStarts
      /\ UNCHANGED faults => faults' \in 0..MaxFaults
      /\ Inject => faults' \in 0..MaxFaults
  BY CountersTyped
<1>o. {"done", "failed", "refused"} \subseteq Outcomes
  BY DEF Outcomes
<1>g. ASSUME m.pc \in {"init", "record", "apply", "prune", "pruneWait", "update", "get"},
             NEW stage \in ApplyStages \cup DeleteStages
      PROVE  Goto(m, stage) \in Memory /\ Shaped(Goto(m, stage))
  <2>1. m.targets # << >> /\ m.queue # << >>
    BY <1>g, <1>m DEF Shaped, InInstance, Outcomes
  <2>2. QED
    BY <2>1, <1>m, GotoShaped DEF Shaped
<1> HIDE DEF m
<1>1. CASE CheckOwner(r)
  <2>1. m.unread # << >> /\ m.pc = "check" /\ m.targets # << >>
    BY <1>1, <1>m DEF CheckOwner, At, m, Shaped, Outcomes
  <2>2. PICK found \in Reads(r, Head(m.unread)) :
            /\ Becomes(r, [m EXCEPT !.unread = Tail(@),
                                    !.conflict = @ \/ ConflictsWith(found, m.owner)])
            /\ faults' = IF found = record[Here(m)][Head(m.unread)] THEN faults ELSE faults + 1
    BY <1>1 DEF CheckOwner, m
  <2> DEFINE rest == Tail(m.unread)
             bad == m.conflict \/ ConflictsWith(found, m.owner)
             n == [m EXCEPT !.unread = rest, !.conflict = bad]
  <2>3. rest \in Seq(Instances) /\ bad \in BOOLEAN
    BY <2>1, <1>m, MemoryFields, TailElements
  <2>4. Becomes(r, n)
    BY <2>2
  <2>5. found # record[Here(m)][Head(m.unread)] => faults < MaxFaults
    BY <2>2 DEF Reads, m
  <2>6. faults' \in 0..MaxFaults
    BY <2>2, <2>5, BoundAssumption DEF TypeOK
  <2> HIDE DEF rest, bad
  <2>7. n \in Memory /\ n.pc = m.pc /\ n.targets = m.targets
    BY <2>3, <1>m DEF Memory
  <2>8. Shaped(n)
    BY <2>1, <2>7 DEF Shaped, InInstance
  <2> HIDE DEF n
  <2>9. UNCHANGED <<record, earlier, clock>> /\ starts' \in 0..MaxStarts
    BY <1>1, <1>c DEF CheckOwner
  <2>10. QED
    BY <2>4, <2>6, <2>7, <2>8, <2>9, OnlyMoveTyped
<1>2. CASE RefuseBundle(r) \/ RefuseInstance(r)
  BY <1>2, <1>c, <1>o, EndTyped DEF RefuseBundle, RefuseInstance
<1>3. CASE DeadlineExceeded(r)
  BY <1>3, <1>c, <1>o, EndTyped DEF DeadlineExceeded
<1>4. CASE AcceptBundle(r)
  <2>1. m.pc = "check" /\ m.targets # << >>
    BY <1>4, <1>m DEF AcceptBundle, At, m, Shaped, Outcomes
  <2>2. Goto(m, "fetch") \in Memory /\ Shaped(Goto(m, "fetch"))
    BY <2>1, <1>m DEF Goto, Memory, Shaped, InInstance, ApplyStages
  <2>3. QED
    BY <1>4, <2>2, QuietTyped DEF AcceptBundle, m
<1>5. CASE FetchModules(r)
  <2>1. m.pc = "fetch" /\ m.targets # << >>
    BY <1>5, <1>m DEF FetchModules, At, m, Shaped, Outcomes
  <2>2. m.queue = << >> => NextCluster(m) \in Memory /\ Shaped(NextCluster(m))
    BY <2>1, <1>m, NextClusterShaped DEF Shaped
  <2>3. m.queue # << >> => Goto(m, "init") \in Memory /\ Shaped(Goto(m, "init"))
    BY <2>1, <1>m, GotoShaped DEF Shaped, ApplyStages
  <2>4. /\ m.queue = << >> => Becomes(r, NextCluster(m))
        /\ m.queue # << >> => Becomes(r, Goto(m, "init"))
        /\ UNCHANGED <<record, earlier, clock, starts, faults>>
    BY <1>5 DEF FetchModules, m
  <2>5. QED
    BY <2>2, <2>3, <2>4, QuietTyped
<1>6. CASE ReadInstance(r)
  <2>1. m.pc = "init" /\ m.targets # << >> /\ m.queue # << >>
    BY <1>6, <1>m DEF ReadInstance, At, m, Shaped, Outcomes, InInstance
  <2>2. PICK stale \in BOOLEAN :
            Becomes(r, [m EXCEPT !.pc = "record", !.stale = stale, !.found = Known(m).exists])
    BY <1>6 DEF ReadInstance, m
  <2> DEFINE found == Known(m).exists
             n == [m EXCEPT !.pc = "record", !.stale = stale, !.found = found]
  <2>3. found \in BOOLEAN
    BY <2>1, <1>m, HereTyped DEF Known, TypeOK, Record, Shaped, InInstance
  <2> HIDE DEF found
  <2>4. n \in Memory /\ n.targets # << >> /\ n.queue # << >>
    BY <2>1, <2>3, <1>m DEF Memory, ApplyStages
  <2>5. Becomes(r, n)
    BY <2>2 DEF found
  <2> HIDE DEF n
  <2>6. Shaped(n) /\ UNCHANGED <<record, earlier, clock, starts, faults>>
    BY <1>6, <2>4 DEF Shaped, ReadInstance
  <2>7. QED
    BY <2>4, <2>5, <2>6, QuietTyped
<1>7. CASE Install(r)
  <2>1. m.pc = "record" /\ Store(m) /\ Becomes(r, Goto(m, "apply")) /\ UNCHANGED <<starts, faults>>
    BY <1>7 DEF Install, At, m
  <2>2. Here(m) \in Clusters /\ Current(m) \in Instances
    BY <2>1, <1>m, HereTyped DEF InInstance, Outcomes
  <2>3. Goto(m, "apply") \in Memory /\ Shaped(Goto(m, "apply"))
    BY <2>1, <1>g DEF ApplyStages
  <2>4. QED
    BY <2>1, <2>2, <2>3, <1>m, <1>c, StoreTyped, MoveTyped
<1>8. CASE Upgrade(r)
  <2>1. m.pc = "record" /\ UNCHANGED <<record, earlier, clock, starts, faults>>
    BY <1>8 DEF Upgrade, At, m
  <2>2. Becomes(r, Goto(m, "apply")) \/ Becomes(r, Ended("failed"))
    BY <1>8 DEF Upgrade, m
  <2>3. Goto(m, "apply") \in Memory /\ Shaped(Goto(m, "apply"))
    BY <2>1, <1>g DEF ApplyStages
  <2>4. Ended("failed") \in Memory /\ Shaped(Ended("failed"))
    BY <1>o, EndedShaped DEF Shaped
  <2>5. QED
    BY <2>1, <2>2, <2>3, <2>4, QuietTyped
<1>9. CASE Applied(r)
  <2>1. m.pc = "apply" /\ Becomes(r, Goto(m, "prune"))
        /\ UNCHANGED <<record, earlier, clock, starts, faults>>
    BY <1>9 DEF Applied, At, m
  <2>2. Goto(m, "prune") \in Memory /\ Shaped(Goto(m, "prune"))
    BY <2>1, <1>g DEF ApplyStages
  <2>3. QED
    BY <2>1, <2>2, QuietTyped
<1>p. ASSUME m.pc \in {"prune", "pruneWait"}
      PROVE  AfterPrune(m) \in Memory /\ Shaped(AfterPrune(m))
  <2>1. Goto(m, "update") \in Memory /\ Shaped(Goto(m, "update"))
    BY <1>p, <1>g DEF ApplyStages
  <2>2. Ended("failed") \in Memory /\ Shaped(Ended("failed"))
    BY <1>o, EndedShaped DEF Shaped
  <2>3. QED
    BY <2>1, <2>2 DEF AfterPrune
<1>10. CASE Prune(r)
  <2> DEFINE n == [m EXCEPT !.pc = "pruneWait", !.pruned = TRUE]
  <2>1. m.pc = "prune" /\ UNCHANGED <<record, earlier, clock, starts, faults>>
    BY <1>10 DEF Prune, At, m
  <2>2. Becomes(r, n) \/ Becomes(r, AfterPrune(m))
    BY <1>10 DEF Prune, m
  <2>3. m.targets # << >> /\ m.queue # << >>
    BY <2>1, <1>m DEF Shaped, InInstance, Outcomes
  <2>4. n \in Memory /\ Shaped(n)
    BY <2>3, <1>m DEF Memory, Shaped, ApplyStages
  <2> HIDE DEF n
  <2>5. QED
    BY <2>1, <2>2, <2>4, <1>p, QuietTyped
<1>11. CASE PruneDone(r)
  <2>1. m.pc = "pruneWait" /\ Becomes(r, AfterPrune(m))
        /\ UNCHANGED <<record, earlier, clock, starts, faults>>
    BY <1>11 DEF PruneDone, At, m
  <2>2. QED
    BY <2>1, <1>p, QuietTyped
<1>12. CASE Update(r)
  <2>1. m.pc = "update" /\ Store(m) /\ Becomes(r, NextInstance(m, "init"))
        /\ UNCHANGED <<starts, faults>>
    BY <1>12 DEF Update, At, m
  <2>2. Here(m) \in Clusters /\ Current(m) \in Instances
    BY <2>1, <1>m, HereTyped DEF InInstance, Outcomes
  <2>3. m.targets # << >> /\ m.queue # << >>
    BY <2>1, <1>m DEF Shaped, InInstance, Outcomes
  <2>4. NextInstance(m, "init") \in Memory /\ Shaped(NextInstance(m, "init"))
    BY <2>3, <1>m, NextInstanceShaped DEF Shaped
  <2>5. QED
    BY <2>1, <2>2, <2>4, <1>m, <1>c, StoreTyped, MoveTyped
<1>13. CASE ListBundle(r)
  <2>1. m.pc = "list" /\ m.targets # << >> /\ UNCHANGED <<record, earlier, clock, starts, faults>>
    BY <1>13, <1>m DEF ListBundle, At, m, Shaped, Outcomes
  <2>2. PICK s \in Listings(Here(m), m.owner) :
            Becomes(r, IF s = << >> THEN NextCluster(m)
                       ELSE [m EXCEPT !.pc = "get", !.queue = Backward(s)])
    BY <1>13 DEF ListBundle, m
  <2> DEFINE todo == Backward(s)
             n == [m EXCEPT !.pc = "get", !.queue = todo]
  <2>3. NextCluster(m) \in Memory /\ Shaped(NextCluster(m))
    BY <2>1, <1>m, NextClusterShaped DEF Shaped
  <2>4. todo \in Seq(Instances) /\ (s # << >> => todo # << >>)
    BY BackwardListing
  <2>5. Becomes(r, NextCluster(m)) \/ (s # << >> /\ Becomes(r, n))
    BY <2>2
  <2> HIDE DEF todo
  <2>6. s # << >> => n \in Memory /\ n.targets # << >> /\ n.queue # << >>
    BY <2>1, <2>4, <1>m DEF Memory, DeleteStages
  <2> HIDE DEF n
  <2>7. s # << >> => Shaped(n)
    BY <2>6 DEF Shaped
  <2>8. QED
    BY <2>1, <2>3, <2>5, <2>6, <2>7, QuietTyped
<1>14. CASE GetForDelete(r)
  <2>1. m.pc = "get" /\ UNCHANGED <<record, earlier, clock, starts, faults>>
    BY <1>14 DEF GetForDelete, At, m
  <2>2. Becomes(r, Goto(m, "remove")) \/ Becomes(r, Ended("failed"))
    BY <1>14 DEF GetForDelete, m
  <2>3. Goto(m, "remove") \in Memory /\ Shaped(Goto(m, "remove"))
    BY <2>1, <1>g DEF DeleteStages
  <2>4. Ended("failed") \in Memory /\ Shaped(Ended("failed"))
    BY <1>o, EndedShaped DEF Shaped
  <2>5. QED
    BY <2>1, <2>2, <2>3, <2>4, QuietTyped
<1>15. CASE Remove(r)
  <2>1. m.pc = "remove" /\ UNCHANGED <<clock, starts, faults>> /\ Becomes(r, NextInstance(m, "get"))
    BY <1>15 DEF Remove, At, m
  <2>2. /\ record' = [record EXCEPT ![Here(m)][Current(m)] = NoRecord]
        /\ earlier' = [earlier EXCEPT ![Here(m)] = {p \in @ : Current(m) \notin {p[1], p[2]}}]
    BY <1>15 DEF Remove, m
  <2>3. m.targets # << >> /\ m.queue # << >>
    BY <2>1, <1>m DEF Shaped, InInstance, Outcomes
  <2>4. NextInstance(m, "get") \in Memory /\ Shaped(NextInstance(m, "get"))
    BY <2>3, <1>m, NextInstanceShaped DEF Shaped
  <2>5. NoRecord \in Record
    BY DEF NoRecord, Record, Owners
  <2>6. record' \in [Clusters -> [Instances -> Record]]
    BY <2>2, <2>5 DEF TypeOK
  <2>7. earlier' \in [Clusters -> SUBSET (Instances \X Instances)] /\ clock' \in Nat
    BY <2>1, <2>2 DEF TypeOK
  <2>8. QED
    BY <2>1, <2>4, <2>6, <2>7, <1>c, MoveTyped
<1>16. QED
  BY <1>1, <1>2, <1>3, <1>4, <1>5, <1>6, <1>7, <1>8, <1>9, <1>10, <1>11, <1>12, <1>13, <1>14,
     <1>15 DEF Step

LEMMA FaultTyped ==
    ASSUME TypeOK, NEW r \in Commands, Fault(r)
    PROVE  TypeOK'
<1> DEFINE m == cmd[r]
<1>m. m \in Memory /\ Shaped(m)
  BY CommandShaped
<1>c. /\ UNCHANGED starts => starts' \in 0..MaxStarts
      /\ Inject => faults' \in 0..MaxFaults
  BY CountersTyped
<1> HIDE DEF m
<1>1. CASE Abort(r)
  BY <1>1, <1>c, EndTyped DEF Abort, Outcomes
<1>2. CASE Expire(r)
  <2> DEFINE n == [m EXCEPT !.expired = TRUE]
  <2>1. Becomes(r, n) /\ UNCHANGED <<record, earlier, clock, starts>> /\ Inject
    BY <1>2 DEF Expire, m
  <2>2. n \in Memory /\ Shaped(n)
    BY <1>m DEF Memory, Shaped, InInstance
  <2> HIDE DEF n
  <2>3. QED
    BY <2>1, <2>2, <1>c, OnlyMoveTyped
<1>3. CASE NotReady(r) \/ ReadinessTimeout(r)
  <2> DEFINE n == [m EXCEPT !.pc = "prune", !.unready = TRUE]
             t == [m EXCEPT !.pc = "prune", !.unready = TRUE, !.expired = TRUE]
  <2>1. /\ Becomes(r, n) \/ Becomes(r, t)
        /\ m.pc = "apply" /\ UNCHANGED <<record, earlier, clock, starts>> /\ Inject
    BY <1>3 DEF NotReady, ReadinessTimeout, At, m
  <2>2. m.targets # << >> /\ m.queue # << >>
    BY <2>1, <1>m DEF Shaped, InInstance, Outcomes
  <2>3. n \in Memory /\ Shaped(n) /\ t \in Memory /\ Shaped(t)
    BY <2>2, <1>m DEF Memory, Shaped, ApplyStages
  <2> HIDE DEF n, t
  <2>4. QED
    BY <2>1, <2>3, <1>c, OnlyMoveTyped
<1>4. QED
  BY <1>1, <1>2, <1>3 DEF Fault

(* The records, their order and the memories of commands keep their types,   *)
(* and a command in a loop has the element it is about to work on: for any   *)
(* commands running side by side, with any failures.                         *)
THEOREM BundleTypeCorrect == Spec => []TypeOK
<1>1. Init => TypeOK
  <2> SUFFICES ASSUME Init PROVE TypeOK
    OBVIOUS
  <2>1. Shaped(Ended("idle")) /\ Ended("idle").pc = "idle"
    BY EndedShaped DEF Outcomes
  <2>2. NoRecord \in Record
    BY DEF NoRecord, Record, Owners
  <2>3. QED
    BY <2>1, <2>2, BoundAssumption DEF Init, TypeOK, Shaped, Active, Outcomes, InInstance
<1>2. TypeOK /\ [Next]_vars => TypeOK'
  <2> SUFFICES ASSUME TypeOK, [Next]_vars PROVE TypeOK'
    OBVIOUS
  <2>1. CASE UNCHANGED vars
    BY <2>1 DEF vars, TypeOK, Active, InInstance
  <2>2. CASE Quiet
    BY <2>2 DEF Quiet, vars, TypeOK, Active, InInstance
  <2>3. QED
    BY <2>1, <2>2, StartTyped, StepTyped, FaultTyped DEF Next
<1>3. QED
  BY <1>1, <1>2, PTL DEF Spec

--------------------------------------------------------------------------------
(* What a step makes of the memory of its command. *)

SameCommand(m, n) ==
    /\ n.owner = m.owner /\ n.alone = m.alone /\ n.deletes = m.deletes
    /\ n.overwrite = m.overwrite /\ n.selected = m.selected /\ n.plan = m.plan

SameWork(m, n) == SameCommand(m, n) /\ n.targets = m.targets /\ n.queue = m.queue

(* The next cluster is entered, or the command is done. *)
EntersNext(m, n) ==
    \/ Tail(m.targets) = << >> /\ n = Ended("done")
    \/ /\ Tail(m.targets) # << >> /\ SameCommand(m, n) /\ n.targets = Tail(m.targets)
       /\ m.deletes => n.pc = "list"
       /\ ~m.deletes => /\ n.pc = IF m.overwrite THEN "fetch" ELSE "check"
                        /\ n.queue = n.plan[Here(n)] /\ n.unread = n.queue

(* The next instance of the cluster is taken up, or the next cluster. *)
GoesOn(m, n, stage) ==
    \/ /\ Tail(m.queue) # << >> /\ SameCommand(m, n) /\ n.targets = m.targets
       /\ n.queue = Tail(m.queue) /\ n.pc = stage
    \/ Tail(m.queue) = << >> /\ EntersNext(m, n)

LEMMA NextClusterEnters ==
    ASSUME NEW m \in Memory, m.targets # << >>
    PROVE  EntersNext(m, NextCluster(m))
<1> DEFINE rest == Tail(m.targets)
           none == << >>
           next == [m EXCEPT !.targets = rest, !.queue = none]
           stage == IF m.overwrite THEN "fetch" ELSE "check"
           todo == m.plan[Head(rest)]
<1>1. NextCluster(m) = EnterCluster(next)
  BY DEF NextCluster
<1>2. /\ SameCommand(m, next) /\ next.targets = rest
      /\ next \in Memory
  <2>1. rest \in Seq(Clusters) /\ none \in Seq(Instances)
    BY MemoryFields, TailElements
  <2> HIDE DEF rest, none
  <2>2. QED
    BY <2>1 DEF Memory, SameCommand
<1> HIDE DEF next
<1>3. CASE rest = << >>
  BY <1>1, <1>2, <1>3 DEF EnterCluster, EntersNext
<1>4. CASE rest # << >> /\ m.deletes
  <2>1. EnterCluster(next) = [next EXCEPT !.pc = "list"]
    BY <1>2, <1>4 DEF EnterCluster, Goto, SameCommand
  <2> HIDE DEF rest
  <2>2. /\ SameCommand(m, EnterCluster(next)) /\ EnterCluster(next).targets = rest
        /\ EnterCluster(next).pc = "list"
    BY <1>2, <2>1 DEF Memory, SameCommand
  <2>3. QED
    BY <1>1, <1>4, <2>2 DEF EntersNext, rest
<1>5. CASE rest # << >> /\ ~m.deletes
  <2>1. EnterCluster(next) = [next EXCEPT !.pc = stage, !.queue = todo, !.unread = todo]
    BY <1>2, <1>5 DEF EnterCluster, SameCommand, Here
  <2> HIDE DEF rest, todo, stage
  <2>2. /\ SameCommand(m, EnterCluster(next)) /\ EnterCluster(next).targets = rest
        /\ EnterCluster(next).pc = stage
        /\ EnterCluster(next).queue = todo /\ EnterCluster(next).unread = todo
        /\ EnterCluster(next).plan = m.plan
    BY <1>2, <2>1 DEF Memory, SameCommand
  <2>3. EnterCluster(next).plan[Here(EnterCluster(next))] = todo
    BY <2>2 DEF Here, todo
  <2> HIDE DEF EntersNext
  <2>4. QED
    BY <1>1, <1>5, <2>2, <2>3 DEF EntersNext, rest, stage
<1>6. QED
  BY <1>3, <1>4, <1>5

LEMMA NextInstanceGoesOn ==
    ASSUME NEW m \in Memory, m.targets # << >>, m.queue # << >>, NEW stage
    PROVE  GoesOn(m, NextInstance(m, stage), stage)
<1>1. /\ Rest(m) \in Memory /\ SameCommand(m, Rest(m)) /\ Rest(m).targets = m.targets
      /\ Rest(m).queue = Tail(m.queue)
  BY RestMemory DEF SameCommand
<1>2. NextInstance(m, stage) = IF Rest(m).queue = << >> THEN NextCluster(Rest(m))
                                                     ELSE Goto(Rest(m), stage)
  BY DEF NextInstance, Rest
<1>3. CASE Rest(m).queue = << >>
  <2>1. EntersNext(Rest(m), NextCluster(Rest(m)))
    BY <1>1, NextClusterEnters
  <2>2. EntersNext(m, NextCluster(Rest(m)))
    BY <1>1, <2>1 DEF EntersNext, SameCommand
  <2>3. QED
    BY <1>1, <1>2, <1>3, <2>2 DEF GoesOn
<1>4. CASE Rest(m).queue # << >>
  <2> DEFINE n == Goto(Rest(m), stage)
  <2>1. SameCommand(Rest(m), n) /\ n.targets = Rest(m).targets
        /\ n.queue = Rest(m).queue /\ n.pc = stage
    BY <1>1 DEF Goto, Memory, SameCommand
  <2> HIDE DEF n
  <2>2. SameCommand(m, n)
    BY <1>1, <2>1 DEF SameCommand
  <2>3. QED
    BY <1>1, <1>2, <1>4, <2>1, <2>2 DEF GoesOn, n
<1>5. QED
  BY <1>3, <1>4

Untouched == UNCHANGED <<record, earlier, clock>>

Applying == {"record", "apply", "prune", "pruneWait", "update"}

Gone(n) == n.pc \in {"failed", "refused"} /\ Untouched

Moves(m, n) ==
    /\ SameWork(m, n) /\ Untouched
    /\ \/ n.pc = m.pc /\ n.unread = m.unread /\ n.conflict = m.conflict
       \/ m.pc = "check" /\ n.pc = "fetch" /\ m.unread = << >> /\ ~m.conflict
       \/ m.pc = "fetch" /\ n.pc = "init" /\ m.queue # << >>
       \/ m.pc = "init" /\ n.pc = "record" /\ ~RefusedAlone(m)
       \/ m.pc \in Applying /\ n.pc \in Applying
       \/ m.pc = "get" /\ n.pc = "remove"

Checks(r, m, n) ==
    /\ m.pc = "check" /\ n.pc = "check" /\ SameWork(m, n) /\ Untouched
    /\ m.unread # << >> /\ n.unread = Tail(m.unread)
    /\ \E found \in Reads(r, Head(m.unread)) :
           n.conflict = (m.conflict \/ ConflictsWith(found, m.owner))

Stores(m, n) ==
    /\ Store(m)
    /\ \/ m.pc = "record" /\ n.pc = "apply" /\ SameWork(m, n)
       \/ m.pc = "update" /\ GoesOn(m, n, "init")

Skips(m, n) ==
    /\ Untouched /\ EntersNext(m, n)
    /\ \/ m.pc = "fetch" /\ m.queue = << >>
       \/ m.pc = "list" /\ Labelled(Here(m), m.owner) = {}

Lists(m, n) ==
    /\ m.pc = "list" /\ n.pc = "get" /\ Untouched
    /\ SameCommand(m, n) /\ n.targets = m.targets
    /\ \E s \in Listings(Here(m), m.owner) : s # << >> /\ n.queue = Backward(s)

Removes(m, n) ==
    /\ m.pc = "remove" /\ UNCHANGED clock /\ GoesOn(m, n, "get")
    /\ record' = [record EXCEPT ![Here(m)][Current(m)] = NoRecord]
    /\ earlier' = [earlier EXCEPT ![Here(m)] = {p \in @ : Current(m) \notin {p[1], p[2]}}]

Works(r, m, n) ==
    \/ Gone(n) \/ Moves(m, n) \/ Checks(r, m, n) \/ Stores(m, n)
    \/ Skips(m, n) \/ Lists(m, n) \/ Removes(m, n)

(* A listing holds every instance of the bundle: it has as many, each once.  *)
LEMMA ListingComplete ==
    ASSUME NEW c, NEW b, NEW s \in Listings(c, b), NEW i \in Labelled(c, b)
    PROVE  \E j \in DOMAIN s : s[j] = i
<1> DEFINE n == Cardinality(Labelled(c, b))
<1>1. /\ n \in Nat /\ s \in [1..n -> Labelled(c, b)]
      /\ \A j, k \in 1..n : j # k => s[j] # s[k]
      /\ IsFiniteSet(Labelled(c, b))
  BY LabelledFinite DEF Listings
<1>2. s \in Injection(1..n, Labelled(c, b))
  BY <1>1 DEF Injection, IsInjective
<1>3. Cardinality(1..n) = n
  BY <1>1, FS_Interval
<1>4. s \in Surjection(1..n, Labelled(c, b))
  BY <1>1, <1>2, <1>3, FS_Injection
<1>5. QED
  BY <1>1, <1>4 DEF Surjection

LEMMA EmptyListing ==
    ASSUME NEW c, NEW b, << >> \in Listings(c, b)
    PROVE  Labelled(c, b) = {}
  BY ListingComplete

LEMMA StepWorks ==
    ASSUME TypeOK, NEW r \in Commands, Step(r) \/ Fault(r)
    PROVE  /\ cmd[r].pc \notin Outcomes
           /\ \E n : Becomes(r, n) /\ Works(r, cmd[r], n)
<1> DEFINE m == cmd[r]
<1>m. m \in Memory /\ Shaped(m)
  BY CommandShaped
<1> HIDE DEF m
<1>1. ASSUME NEW outcome \in {"failed", "refused"}, m.pc \notin Outcomes, End(r, outcome)
      PROVE  m.pc \notin Outcomes /\ \E n : Becomes(r, n) /\ Works(r, m, n)
  <2>1. Ended(outcome).pc = outcome
    BY <1>1, EndedShaped DEF Outcomes
  <2>2. Becomes(r, Ended(outcome)) /\ Gone(Ended(outcome))
    BY <1>1, <2>1 DEF End, Gone, Untouched
  <2>3. QED
    BY <1>1, <2>2 DEF Works
<1>2. CASE Fault(r)
  <2>1. CASE Abort(r)
    BY <1>1, <2>1 DEF Abort, Active, m
  <2>2. CASE Expire(r)
    <3> DEFINE n == [m EXCEPT !.expired = TRUE]
    <3>1. Becomes(r, n) /\ Untouched /\ m.pc \notin Outcomes
      BY <2>2 DEF Expire, Untouched, Active, m
    <3>2. SameWork(m, n) /\ n.pc = m.pc /\ n.unread = m.unread /\ n.conflict = m.conflict
      BY <1>m DEF Memory, SameWork, SameCommand
    <3>3. QED
      BY <3>1, <3>2 DEF Works, Moves, m
  <2>3. CASE NotReady(r) \/ ReadinessTimeout(r)
    <3> DEFINE n == [m EXCEPT !.pc = "prune", !.unready = TRUE]
               t == [m EXCEPT !.pc = "prune", !.unready = TRUE, !.expired = TRUE]
    <3>1. (Becomes(r, n) \/ Becomes(r, t)) /\ Untouched /\ m.pc = "apply"
      BY <2>3 DEF NotReady, ReadinessTimeout, Untouched, At, m
    <3>2. SameWork(m, n) /\ n.pc = "prune" /\ SameWork(m, t) /\ t.pc = "prune"
      BY <1>m DEF Memory, SameWork, SameCommand
    <3> HIDE DEF n, t
    <3>3. QED
      BY <3>1, <3>2 DEF Works, Moves, m, Applying, Outcomes
  <2>4. QED
    BY <1>2, <2>1, <2>2, <2>3 DEF Fault
<1>g. ASSUME NEW stage
      PROVE  /\ SameWork(m, Goto(m, stage)) /\ Goto(m, stage).pc = stage
             /\ Goto(m, stage).unread = m.unread
  BY <1>m DEF Goto, Memory, SameWork, SameCommand
<1>f. /\ m.pc \notin Outcomes => m.targets # << >>
      /\ InInstance(m) => m.queue # << >> /\ m.pc \notin Outcomes
  BY <1>m DEF Shaped, InInstance, Outcomes
<1>3. CASE CheckOwner(r)
  <2>1. m.pc = "check" /\ m.unread # << >> /\ Untouched
    BY <1>3 DEF CheckOwner, At, Untouched, m
  <2>2. PICK found \in Reads(r, Head(m.unread)) :
            Becomes(r, [m EXCEPT !.unread = Tail(@),
                                 !.conflict = @ \/ ConflictsWith(found, m.owner)])
    BY <1>3 DEF CheckOwner, m
  <2> DEFINE rest == Tail(m.unread)
             bad == m.conflict \/ ConflictsWith(found, m.owner)
             n == [m EXCEPT !.unread = rest, !.conflict = bad]
  <2>3. Becomes(r, n)
    BY <2>2
  <2> HIDE DEF rest, bad
  <2>4. SameWork(m, n) /\ n.pc = m.pc /\ n.unread = rest /\ n.conflict = bad
    BY <1>m DEF Memory, SameWork, SameCommand
  <2> HIDE DEF n
  <2>5. \E found_1 \in Reads(r, Head(m.unread)) :
            n.conflict = (m.conflict \/ ConflictsWith(found_1, m.owner))
    BY <2>4 DEF bad
  <2>6. Checks(r, m, n)
    BY <2>1, <2>4, <2>5 DEF Checks, rest
  <2>7. QED
    BY <2>1, <2>3, <2>6 DEF Works, m, Outcomes
<1>4. CASE AcceptBundle(r)
  <2>1. /\ m.pc = "check" /\ m.unread = << >> /\ ~m.conflict /\ Untouched
        /\ Becomes(r, Goto(m, "fetch"))
    BY <1>4 DEF AcceptBundle, At, Untouched, m
  <2>2. Moves(m, Goto(m, "fetch"))
    BY <2>1, <1>g DEF Moves
  <2>3. QED
    BY <2>1, <2>2 DEF Works, m, Outcomes
<1>5. CASE RefuseBundle(r)
  <2>1. m.pc = "check" /\ End(r, "refused")
    BY <1>5 DEF RefuseBundle, At, m
  <2>2. QED
    BY <2>1, <1>1 DEF m, Outcomes
<1>6. CASE FetchModules(r)
  <2>1. /\ m.pc = "fetch" /\ Untouched
        /\ m.queue = << >> => Becomes(r, NextCluster(m))
        /\ m.queue # << >> => Becomes(r, Goto(m, "init"))
    BY <1>6 DEF FetchModules, At, Untouched, m
  <2>2. EntersNext(m, NextCluster(m))
    BY <2>1, <1>m, <1>f, NextClusterEnters DEF Outcomes
  <2>3. m.queue = << >> => Skips(m, NextCluster(m))
    BY <2>1, <2>2 DEF Skips
  <2>4. m.queue # << >> => Moves(m, Goto(m, "init"))
    BY <2>1, <1>g DEF Moves
  <2>5. QED
    BY <2>1, <2>3, <2>4 DEF Works, m, Outcomes
<1>7. CASE ReadInstance(r)
  <2>1. m.pc = "init" /\ ~RefusedAlone(m) /\ Untouched
    BY <1>7 DEF ReadInstance, At, Untouched, m
  <2>2. PICK stale \in BOOLEAN :
            Becomes(r, [m EXCEPT !.pc = "record", !.stale = stale, !.found = Known(m).exists])
    BY <1>7 DEF ReadInstance, m
  <2> DEFINE n == [m EXCEPT !.pc = "record", !.stale = stale, !.found = Known(m).exists]
  <2>3. SameWork(m, n) /\ n.pc = "record"
    BY <1>m DEF Memory, SameWork, SameCommand
  <2> HIDE DEF n
  <2>4. Moves(m, n)
    BY <2>1, <2>3 DEF Moves
  <2>5. QED
    BY <2>1, <2>2, <2>4 DEF Works, m, n, Outcomes
<1>8. CASE RefuseInstance(r)
  <2>1. m.pc = "init" /\ End(r, "refused")
    BY <1>8 DEF RefuseInstance, At, m
  <2>2. QED
    BY <2>1, <1>1 DEF m, Outcomes
<1>9. CASE Install(r)
  <2>1. m.pc = "record" /\ Store(m) /\ Becomes(r, Goto(m, "apply"))
    BY <1>9 DEF Install, At, m
  <2>2. Stores(m, Goto(m, "apply"))
    BY <2>1, <1>g DEF Stores
  <2>3. QED
    BY <2>1, <2>2 DEF Works, m, Outcomes
<1>10. CASE Upgrade(r)
  <2>1. m.pc = "record" /\ Untouched
    BY <1>10 DEF Upgrade, At, Untouched, m
  <2>2. Becomes(r, Goto(m, "apply")) \/ End(r, "failed")
    BY <1>10 DEF Upgrade, End, m
  <2>3. Moves(m, Goto(m, "apply"))
    BY <2>1, <1>g DEF Moves, Applying
  <2>4. QED
    BY <2>1, <2>2, <2>3, <1>1 DEF Works, m, Outcomes
<1>11. CASE Applied(r)
  <2>1. m.pc = "apply" /\ Untouched /\ Becomes(r, Goto(m, "prune"))
    BY <1>11 DEF Applied, At, Untouched, m
  <2>2. Moves(m, Goto(m, "prune"))
    BY <2>1, <1>g DEF Moves, Applying
  <2>3. QED
    BY <2>1, <2>2 DEF Works, m, Outcomes
<1>12. CASE Prune(r)
  <2> DEFINE n == [m EXCEPT !.pc = "pruneWait", !.pruned = TRUE]
  <2>1. m.pc = "prune" /\ Untouched
    BY <1>12 DEF Prune, At, Untouched, m
  <2>2. Becomes(r, n) \/ Becomes(r, Goto(m, "update")) \/ End(r, "failed")
    BY <1>12 DEF Prune, AfterPrune, End, m
  <2>3. SameWork(m, n) /\ n.pc = "pruneWait"
    BY <1>m DEF Memory, SameWork, SameCommand
  <2> HIDE DEF n
  <2>4. Moves(m, n) /\ Moves(m, Goto(m, "update"))
    BY <2>1, <2>3, <1>g DEF Moves, Applying
  <2>5. QED
    BY <2>1, <2>2, <2>4, <1>1 DEF Works, m, Outcomes
<1>13. CASE PruneDone(r)
  <2>1. m.pc = "pruneWait" /\ Untouched
    BY <1>13 DEF PruneDone, At, Untouched, m
  <2>2. Becomes(r, Goto(m, "update")) \/ End(r, "failed")
    BY <1>13 DEF PruneDone, AfterPrune, End, m
  <2>3. Moves(m, Goto(m, "update"))
    BY <2>1, <1>g DEF Moves, Applying
  <2>4. QED
    BY <2>1, <2>2, <2>3, <1>1 DEF Works, m, Outcomes
<1>14. CASE Update(r)
  <2>1. m.pc = "update" /\ Store(m) /\ Becomes(r, NextInstance(m, "init"))
    BY <1>14 DEF Update, At, m
  <2>2. GoesOn(m, NextInstance(m, "init"), "init")
    BY <2>1, <1>m, <1>f, NextInstanceGoesOn DEF InInstance, Outcomes
  <2>3. QED
    BY <2>1, <2>2 DEF Works, Stores, m, Outcomes
<1>15. CASE ListBundle(r)
  <2>1. m.pc = "list" /\ Untouched /\ m.targets # << >>
    BY <1>15, <1>f DEF ListBundle, At, Untouched, m, Outcomes
  <2>2. PICK s \in Listings(Here(m), m.owner) :
            Becomes(r, IF s = << >> THEN NextCluster(m)
                       ELSE [m EXCEPT !.pc = "get", !.queue = Backward(s)])
    BY <1>15 DEF ListBundle, m
  <2>3. CASE s = << >>
    <3>1. Labelled(Here(m), m.owner) = {}
      BY <2>3, EmptyListing
    <3>2. Skips(m, NextCluster(m))
      BY <2>1, <3>1, <1>m, NextClusterEnters DEF Skips
    <3>3. QED
      BY <2>1, <2>2, <2>3, <3>2 DEF Works, m, Outcomes
  <2>4. CASE s # << >>
    <3> DEFINE todo == Backward(s)
               n == [m EXCEPT !.pc = "get", !.queue = todo]
    <3>1. Becomes(r, n)
      BY <2>2, <2>4
    <3> HIDE DEF todo
    <3>2. SameCommand(m, n) /\ n.targets = m.targets /\ n.pc = "get" /\ n.queue = todo
      BY <1>m DEF Memory, SameCommand
    <3> HIDE DEF n
    <3>3. Lists(m, n)
      BY <2>1, <2>4, <3>2 DEF Lists, todo
    <3>4. QED
      BY <2>1, <3>1, <3>3 DEF Works, m, Outcomes
  <2>5. QED
    BY <2>3, <2>4
<1>16. CASE GetForDelete(r)
  <2>1. m.pc = "get" /\ Untouched
    BY <1>16 DEF GetForDelete, At, Untouched, m
  <2>2. Becomes(r, Goto(m, "remove")) \/ End(r, "failed")
    BY <1>16 DEF GetForDelete, End, m
  <2>3. Moves(m, Goto(m, "remove"))
    BY <2>1, <1>g DEF Moves
  <2>4. QED
    BY <2>1, <2>2, <2>3, <1>1 DEF Works, m, Outcomes
<1>17. CASE Remove(r)
  <2>1. /\ m.pc = "remove" /\ UNCHANGED clock /\ Becomes(r, NextInstance(m, "get"))
        /\ record' = [record EXCEPT ![Here(m)][Current(m)] = NoRecord]
        /\ earlier' = [earlier EXCEPT ![Here(m)] = {p \in @ : Current(m) \notin {p[1], p[2]}}]
    BY <1>17 DEF Remove, At, m
  <2>2. GoesOn(m, NextInstance(m, "get"), "get")
    BY <2>1, <1>m, <1>f, NextInstanceGoesOn DEF InInstance, Outcomes
  <2>3. Removes(m, NextInstance(m, "get"))
    BY <2>1, <2>2 DEF Removes
  <2>4. QED
    BY <2>1, <2>3 DEF Works, m, Outcomes
<1>18. CASE DeadlineExceeded(r)
  <2>1. End(r, "failed") /\ m.pc \notin Outcomes
    BY <1>18 DEF DeadlineExceeded, NeedsContext, m, Outcomes
  <2>2. QED
    BY <2>1, <1>1 DEF m
<1>19. QED
  BY <1>2, <1>3, <1>4, <1>5, <1>6, <1>7, <1>8, <1>9, <1>10, <1>11, <1>12, <1>13, <1>14, <1>15,
     <1>16, <1>17, <1>18 DEF Step, m

--------------------------------------------------------------------------------
(* One command at a time: what holds of its work between two steps.          *)

Holds(rec, c, i, b) == rec[c][i].exists /\ rec[c][i].bundle = b

OneAtATime == \A q, r \in Commands : Active(q) /\ Active(r) => q = r

(* What kind of command it is shows in its stage and its plan; a standalone  *)
(* one is at its last instance on its last cluster.                          *)
Kind(m) ==
    /\ m.deletes <=> m.pc \in DeleteStages
    /\ m.alone => /\ InInstance(m) /\ m.owner = NoBundle /\ m.selected = << >>
                  /\ Tail(m.targets) = << >> /\ Tail(m.queue) = << >>
    /\ m.alone \/ m.deletes => \A c \in Clusters : m.plan[c] = << >>

Finished(m, c, rec) ==
    /\ ~m.deletes => \A p \in DOMAIN m.plan[c] : Holds(rec, c, m.plan[c][p], m.owner)
    /\ m.deletes /\ ~m.alone => \A i \in Instances : ~Holds(rec, c, i, m.owner)

(* The work is done on the selected clusters other than those to come.       *)
ClustersDone(m, targets, rec) ==
    \A k \in DOMAIN m.selected :
        Covered(targets, m.selected[k]) \/ Finished(m, m.selected[k], rec)

(* On the cluster at hand it is done but for the instances to come.          *)
InstancesDone(m, queue, rec) ==
    /\ ~m.deletes => \A p \in DOMAIN m.plan[Here(m)] :
           \/ Covered(queue, m.plan[Here(m)][p])
           \/ Holds(rec, Here(m), m.plan[Here(m)][p], m.owner)
    /\ m.deletes /\ ~m.alone => \A i \in Instances :
           Holds(rec, Here(m), i, m.owner) => Covered(queue, i)

(* The instances a bundle delete has still to remove are of its bundle, each *)
(* once, those created last first.                                           *)
Ordered(m, queue, rec) ==
    /\ \A j \in DOMAIN queue : Holds(rec, Here(m), queue[j], m.owner)
    /\ \A j, k \in DOMAIN queue : j < k =>
           /\ queue[j] # queue[k]
           /\ rec[Here(m)][queue[k]].created <= rec[Here(m)][queue[j]].created

WorkInv(m, rec) ==
    /\ Kind(m)
    /\ ClustersDone(m, m.targets, rec)
    /\ m.pc # "list" => InstancesDone(m, m.queue, rec)
    /\ InInstance(m) /\ m.deletes /\ ~m.alone => Ordered(m, m.queue, rec)

(* The instances to come that belong to another owner: none, once they are   *)
(* checked.                                                                  *)
OwnerInv(m, rec) ==
    ~m.deletes =>
        /\ m.pc = "check" => \A i \in Instances : Covered(m.queue, i) =>
               Covered(m.unread, i) \/ m.conflict \/ ~ConflictsWith(rec[Here(m)][i], m.owner)
        /\ ~m.overwrite /\ m.pc # "check" /\ ~(m.alone /\ m.pc = "init") =>
               \A i \in Instances : Covered(m.queue, i) => ~ConflictsWith(rec[Here(m)][i], m.owner)

(* The seconds of creation tell the order of installation.                   *)
EarlierInv ==
    \A c \in Clusters :
        /\ \A i \in Instances : record[c][i].exists => record[c][i].created <= clock
        /\ \A i, j \in Instances : <<i, j>> \in earlier[c] =>
               /\ record[c][i].exists /\ record[c][j].exists
               /\ record[c][i].created < record[c][j].created

LEMMA RecordTyped ==
    ASSUME TypeOK, NEW c \in Clusters, NEW i \in Instances
    PROVE  /\ record[c] \in [Instances -> Record] /\ record[c][i] \in Record
           /\ record[c][i].created \in Nat
           /\ record \in [Clusters -> [Instances -> Record]]
  BY DEF TypeOK, Record

(* Storing the record of an instance leaves it to the owner of the command,  *)
(* and every other record as it was.                                         *)
LEMMA StoreChanges ==
    ASSUME TypeOK, NEW m \in Memory, Here(m) \in Clusters, Current(m) \in Instances, Store(m)
    PROVE  /\ Holds(record', Here(m), Current(m), m.owner)
           /\ \A c \in Clusters, i \in Instances :
                  c # Here(m) \/ i # Current(m) => record'[c][i] = record[c][i]
<1> DEFINE here == Here(m)
           this == Current(m)
<1>1. record[here] \in [Instances -> Record] /\ record[here][this] \in Record
  BY RecordTyped
<1>2. record \in [Clusters -> [Instances -> Record]]
  BY RecordTyped
<1>3. CASE record[here][this].exists
  <2>1. record' = [record EXCEPT ![here][this].bundle = m.owner]
    BY <1>3 DEF Store
  <2> HIDE DEF here, this
  <2>2. record[here][this] \in [exists : BOOLEAN, bundle : Owners, created : Nat]
    BY <1>1 DEF Record
  <2>3. here \in Clusters /\ this \in Instances
    BY DEF here, this
  <2>4. /\ record'[here][this].exists /\ record'[here][this].bundle = m.owner
        /\ \A c \in Clusters, i \in Instances :
               c # here \/ i # this => record'[c][i] = record[c][i]
    BY <1>1, <1>2, <1>3, <2>1, <2>2, <2>3
  <2>5. QED
    BY <2>4 DEF here, this, Holds
<1>4. CASE ~record[here][this].exists
  <2>1. record' = [record EXCEPT ![here][this] =
                       [exists |-> TRUE, bundle |-> m.owner, created |-> clock']]
    BY <1>4, Zenon DEF Store
  <2> HIDE DEF here, this
  <2>2. here \in Clusters /\ this \in Instances
    BY DEF here, this
  <2>3. /\ record'[here][this].exists /\ record'[here][this].bundle = m.owner
        /\ \A c \in Clusters, i \in Instances :
               c # here \/ i # this => record'[c][i] = record[c][i]
    BY <1>1, <1>2, <2>1, <2>2
  <2>4. QED
    BY <2>3 DEF here, this, Holds
<1>5. QED
  BY <1>3, <1>4

LEMMA RemoveChanges ==
    ASSUME TypeOK, NEW c \in Clusters, NEW i \in Instances,
           record' = [record EXCEPT ![c][i] = NoRecord]
    PROVE  /\ record'[c][i] = NoRecord /\ ~record'[c][i].exists
           /\ \A d \in Clusters, j \in Instances :
                  d # c \/ j # i => record'[d][j] = record[d][j]
  BY RecordTyped DEF NoRecord

LEMMA EmptyCovers ==
    ASSUME NEW x
    PROVE  ~Covered(<< >>, x)
  BY DEF Covered

(* A cluster on which no instance is to come is finished with.               *)
LEMMA ClusterFinished ==
    ASSUME NEW m \in Memory, m.targets # << >>, NEW rec,
           ClustersDone(m, m.targets, rec), InstancesDone(m, << >>, rec)
    PROVE  ClustersDone(m, Tail(m.targets), rec)
<1>1. m.targets \in Seq(Clusters)
  BY MemoryFields
<1>2. Finished(m, Here(m), rec)
  BY EmptyCovers DEF InstancesDone, Finished
<1>3. \A k \in DOMAIN m.selected :
          Covered(m.targets, m.selected[k]) <=>
              m.selected[k] = Here(m) \/ Covered(Tail(m.targets), m.selected[k])
  BY <1>1, TailCovers DEF Here
<1>4. QED
  BY <1>2, <1>3 DEF ClustersDone

LEMMA SameClustersDone ==
    ASSUME NEW m, NEW n, SameCommand(m, n), NEW targets, NEW rec, ClustersDone(m, targets, rec)
    PROVE  ClustersDone(n, targets, rec)
  BY DEF SameCommand, ClustersDone, Finished

LEMMA EnterKeeps ==
    ASSUME NEW m \in Memory, NEW n, NEW rec, Kind(m), EntersNext(m, n),
           ClustersDone(m, Tail(m.targets), rec)
    PROVE  /\ n.pc \notin Outcomes => WorkInv(n, rec)
           /\ n.pc = "done" => ClustersDone(m, << >>, rec)
<1>1. CASE Tail(m.targets) = << >> /\ n = Ended("done")
  BY <1>1, EndedShaped DEF Outcomes
<1>2. CASE Tail(m.targets) # << >>
  <2>1. /\ SameCommand(m, n) /\ n.targets = Tail(m.targets)
        /\ m.deletes => n.pc = "list"
        /\ ~m.deletes => /\ n.pc \in {"check", "fetch"}
                         /\ n.queue = n.plan[Here(n)]
    BY <1>2 DEF EntersNext
  <2>2. n.pc \notin Outcomes /\ ~InInstance(n)
    BY <2>1 DEF Outcomes, InInstance
  <2>3. ~n.alone /\ n.deletes = m.deletes /\ n.plan = m.plan /\ m.deletes \in BOOLEAN
    BY <1>2, <2>1, MemoryFields DEF SameCommand, Kind
  <2>4. Kind(n)
    BY <2>1, <2>3 DEF Kind, DeleteStages
  <2>5. ClustersDone(n, n.targets, rec)
    BY <2>1, SameClustersDone
  <2>6. n.pc # "list" => InstancesDone(n, n.queue, rec)
    BY <2>1, <2>3 DEF InstancesDone, Covered
  <2>7. QED
    BY <2>2, <2>4, <2>5, <2>6 DEF WorkInv, Outcomes
<1>3. QED
  BY <1>1, <1>2 DEF EntersNext

LEMMA SameInstancesDone ==
    ASSUME NEW m, NEW n, SameCommand(m, n), n.targets = m.targets, NEW queue, NEW rec,
           InstancesDone(m, queue, rec)
    PROVE  InstancesDone(n, queue, rec)
  BY DEF SameCommand, InstancesDone, Here

LEMMA SameOrdered ==
    ASSUME NEW m, NEW n, SameCommand(m, n), n.targets = m.targets, NEW queue, NEW rec,
           Ordered(m, queue, rec)
    PROVE  Ordered(n, queue, rec)
  BY DEF SameCommand, Ordered, Here

LEMMA GoesOnKeeps ==
    ASSUME NEW m \in Memory, NEW n, NEW rec, Kind(m), m.targets # << >>,
           NEW stage \in {"init", "get"}, stage = "get" <=> m.deletes,
           GoesOn(m, n, stage),
           ClustersDone(m, m.targets, rec), InstancesDone(m, Tail(m.queue), rec),
           m.deletes /\ ~m.alone => Ordered(m, Tail(m.queue), rec)
    PROVE  /\ n.pc \notin Outcomes => WorkInv(n, rec)
           /\ n.pc = "done" => ClustersDone(m, << >>, rec)
<1>1. CASE Tail(m.queue) = << >>
  <2>1. EntersNext(m, n)
    BY <1>1 DEF GoesOn
  <2>2. ClustersDone(m, Tail(m.targets), rec)
    BY <1>1, ClusterFinished
  <2>3. QED
    BY <2>1, <2>2, EnterKeeps
<1>2. CASE Tail(m.queue) # << >>
  <2>1. /\ SameCommand(m, n) /\ n.targets = m.targets
        /\ n.queue = Tail(m.queue) /\ n.pc = stage
    BY <1>2 DEF GoesOn
  <2>2. ~n.alone /\ ~m.alone /\ n.deletes = m.deletes /\ n.plan = m.plan
    BY <1>2, <2>1 DEF SameCommand, Kind
  <2>3. Kind(n)
    BY <2>1, <2>2 DEF Kind, DeleteStages
  <2>4. ClustersDone(n, n.targets, rec) /\ InstancesDone(n, n.queue, rec)
    BY <2>1, SameClustersDone, SameInstancesDone
  <2>5. n.deletes => Ordered(n, n.queue, rec)
    BY <2>1, <2>2, SameOrdered
  <2>6. QED
    BY <2>1, <2>3, <2>4, <2>5 DEF WorkInv
<1>3. QED
  BY <1>1, <1>2

LEMMA StoreKeeps ==
    ASSUME TypeOK, NEW m \in Memory, Shaped(m), InInstance(m), ~m.deletes, Store(m),
           ClustersDone(m, m.targets, record), InstancesDone(m, m.queue, record)
    PROVE  /\ ClustersDone(m, m.targets, record')
           /\ InstancesDone(m, m.queue, record')
           /\ InstancesDone(m, Tail(m.queue), record')
<1>1. /\ m.queue # << >> /\ m.queue \in Seq(Instances)
      /\ Here(m) \in Clusters /\ Current(m) \in Instances
  BY HereTyped, MemoryFields DEF Shaped
<1>2. Holds(record', Here(m), Current(m), m.owner)
  BY <1>1, StoreChanges
<1>3. ASSUME NEW c \in Clusters, NEW i \in Instances, Holds(record, c, i, m.owner)
      PROVE  Holds(record', c, i, m.owner)
  <2>1. CASE c = Here(m) /\ i = Current(m)
    BY <1>2, <2>1
  <2>2. CASE c # Here(m) \/ i # Current(m)
    <3>1. record'[c][i] = record[c][i]
      BY <1>1, <2>2, StoreChanges
    <3>2. QED
      BY <1>3, <3>1 DEF Holds
  <2>3. QED
    BY <2>1, <2>2
<1>4. \A c \in Clusters : \A p \in DOMAIN m.plan[c] : m.plan[c][p] \in Instances
  <2>1. m.plan \in [Clusters -> Seq(Instances)]
    BY MemoryFields
  <2>2. QED
    BY <2>1
<1>5. \A k \in DOMAIN m.selected : m.selected[k] \in Clusters
  <2>1. m.selected \in Seq(Clusters)
    BY MemoryFields
  <2>2. QED
    BY <2>1
<1>6. \A c \in Clusters : Finished(m, c, record) => Finished(m, c, record')
  BY <1>3, <1>4 DEF Finished
<1>7. \A x : Covered(m.queue, x) <=> x = Current(m) \/ Covered(Tail(m.queue), x)
  BY <1>1, TailCovers DEF Current
<1>8. InstancesDone(m, m.queue, record') /\ InstancesDone(m, Tail(m.queue), record')
  BY <1>1, <1>2, <1>3, <1>4, <1>7 DEF InstancesDone
<1>9. QED
  BY <1>5, <1>6, <1>8 DEF ClustersDone

LEMMA RemoveKeeps ==
    ASSUME TypeOK, NEW m \in Memory, Shaped(m), InInstance(m), m.deletes,
           record' = [record EXCEPT ![Here(m)][Current(m)] = NoRecord], WorkInv(m, record)
    PROVE  /\ ClustersDone(m, m.targets, record')
           /\ InstancesDone(m, Tail(m.queue), record')
           /\ ~m.alone => Ordered(m, Tail(m.queue), record')
<1>1. /\ m.queue # << >> /\ m.queue \in Seq(Instances)
      /\ Here(m) \in Clusters /\ Current(m) \in Instances
  BY HereTyped, MemoryFields DEF Shaped
<1>2. /\ ~record'[Here(m)][Current(m)].exists
      /\ \A d \in Clusters, j \in Instances :
             d # Here(m) \/ j # Current(m) => record'[d][j] = record[d][j]
  BY <1>1, RemoveChanges
<1>3. CASE m.alone
  <2>1. DOMAIN m.selected = {}
    BY <1>3 DEF WorkInv, Kind
  <2>2. QED
    BY <1>3, <2>1 DEF ClustersDone, InstancesDone
<1>4. CASE ~m.alone
  <2>1. ClustersDone(m, m.targets, record) /\ InstancesDone(m, m.queue, record)
        /\ Ordered(m, m.queue, record)
    BY <1>4 DEF WorkInv, InInstance
  <2>2. \A c \in Clusters, i \in Instances :
            Holds(record', c, i, m.owner) => /\ Holds(record, c, i, m.owner)
                                             /\ c # Here(m) \/ i # Current(m)
    BY <1>2 DEF Holds
  <2>3. ClustersDone(m, m.targets, record')
    <3>1. \A k \in DOMAIN m.selected : m.selected[k] \in Clusters
      <4>1. m.selected \in Seq(Clusters)
        BY MemoryFields
      <4>2. QED
        BY <4>1
    <3>2. \A c \in Clusters : Finished(m, c, record) => Finished(m, c, record')
      BY <1>4, <2>2 DEF Finished
    <3>3. QED
      BY <2>1, <3>1, <3>2 DEF ClustersDone
  <2>4. InstancesDone(m, Tail(m.queue), record')
    <3>1. \A x : Covered(m.queue, x) <=> x = Current(m) \/ Covered(Tail(m.queue), x)
      BY <1>1, TailCovers DEF Current
    <3>2. QED
      BY <1>1, <1>4, <2>1, <2>2, <3>1 DEF InstancesDone
  <2>5. Ordered(m, Tail(m.queue), record')
    <3> DEFINE rest == Tail(m.queue)
    <3>1. \A j \in DOMAIN rest : /\ j + 1 \in DOMAIN m.queue /\ rest[j] = m.queue[j + 1]
                                 /\ 1 < j + 1
      <4>1. rest \in Seq(Instances)
        BY <1>1, TailElements
      <4>2. \A j \in DOMAIN rest : j \in Nat /\ 1 <= j
        BY <4>1
      <4> HIDE DEF rest
      <4>3. \A j \in DOMAIN rest : 1 < j + 1
        BY <4>2
      <4>4. QED
        BY <1>1, <4>3, TailElements DEF rest
    <3>2. Current(m) = m.queue[1] /\ 1 \in DOMAIN m.queue
      BY <1>1, TailElements DEF Current
    <3>3. \A j \in DOMAIN rest : rest[j] # Current(m) /\ rest[j] \in Instances
      BY <1>1, <2>1, <3>1, <3>2 DEF Ordered
    <3>4. \A j \in DOMAIN rest : record'[Here(m)][rest[j]] = record[Here(m)][rest[j]]
      BY <1>1, <1>2, <3>3
    <3>5. \A j, k \in DOMAIN rest : j < k => j + 1 < k + 1
      <4>1. rest \in Seq(Instances)
        BY <1>1, TailElements
      <4>2. QED
        BY <4>1
    <3> HIDE DEF rest
    <3>6. Ordered(m, rest, record')
      BY <2>1, <3>1, <3>4, <3>5 DEF Ordered, Holds
    <3>7. QED
      BY <3>6 DEF rest
  <2>6. QED
    BY <2>3, <2>4, <2>5
<1>5. QED
  BY <1>3, <1>4

(* What bundle delete lists is in order and complete.                        *)
LEMMA ListKeeps ==
    ASSUME TypeOK, NEW m, NEW n, Kind(m), ClustersDone(m, m.targets, record), Lists(m, n)
    PROVE  n.pc = "get" /\ WorkInv(n, record)
<1>1. /\ m.pc = "list" /\ n.pc = "get" /\ SameCommand(m, n) /\ n.targets = m.targets
  BY DEF Lists
<1>2. PICK s \in Listings(Here(m), m.owner) : s # << >> /\ n.queue = Backward(s)
  BY DEF Lists
<1> DEFINE have == Labelled(Here(m), m.owner)
           size == Cardinality(have)
<1>3. /\ size \in Nat /\ s \in [1..size -> have]
      /\ \A j, k \in 1..size :
             /\ j # k => s[j] # s[k]
             /\ j < k => record[Here(m)][s[j]].created <= record[Here(m)][s[k]].created
  BY <1>2, LabelledFinite DEF Listings
<1>4. \A i : i \in have <=> i \in Instances /\ Holds(record, Here(m), i, m.owner)
  BY DEF Labelled, Holds
<1>5. \A i \in have : \E j \in 1..size : s[j] = i
  <2>1. \A i \in have : \E j \in DOMAIN s : s[j] = i
    BY <1>2, ListingComplete
  <2>2. QED
    BY <1>3, <2>1
<1> HIDE DEF have, size
<1>6. DOMAIN n.queue = 1..size /\ \A k \in 1..size : n.queue[k] = s[size + 1 - k]
  <2>1. /\ Len(s) \in Nat /\ DOMAIN s = 1..Len(s) /\ DOMAIN n.queue = 1..Len(s)
        /\ \A k \in 1..Len(s) : n.queue[k] = s[Len(s) + 1 - k]
    BY <1>2, BackwardListing
  <2>2. Len(s) = size
    BY <1>3, <2>1
  <2>3. QED
    BY <2>1, <2>2
<1>7. n.deletes /\ ~n.alone /\ ~m.alone
  BY <1>1 DEF Kind, SameCommand, DeleteStages, InInstance
<1>8. Kind(n)
  BY <1>1, <1>7 DEF Kind, SameCommand, DeleteStages
<1>9. ClustersDone(n, n.targets, record)
  BY <1>1, SameClustersDone
<1>10. InstancesDone(n, n.queue, record)
  <2>1. \A i \in have : Covered(n.queue, i)
    <3> SUFFICES ASSUME NEW i \in have PROVE Covered(n.queue, i)
      OBVIOUS
    <3>1. PICK j \in 1..size : s[j] = i
      BY <1>5
    <3>2. size + 1 - j \in 1..size /\ size + 1 - (size + 1 - j) = j
      BY <1>3, <3>1
    <3>3. QED
      BY <1>6, <3>1, <3>2 DEF Covered
  <2>2. QED
    BY <1>1, <1>4, <1>7, <2>1 DEF InstancesDone, SameCommand, Here
<1>11. Ordered(n, n.queue, record)
  <2>1. \A k \in 1..size : size + 1 - k \in 1..size
    BY <1>3
  <2>2. \A j, k \in 1..size : j < k => /\ size + 1 - k < size + 1 - j
                                       /\ size + 1 - k # size + 1 - j
    BY <1>3
  <2>3. \A k \in 1..size : n.queue[k] \in have
    BY <1>3, <1>6, <2>1
  <2>4. \A j, k \in 1..size : j < k =>
            /\ n.queue[j] # n.queue[k]
            /\ record[Here(m)][n.queue[k]].created <= record[Here(m)][n.queue[j]].created
    BY <1>3, <1>6, <2>1, <2>2
  <2>5. QED
    BY <1>1, <1>4, <1>6, <2>3, <2>4 DEF Ordered, SameCommand, Here
<1>12. QED
  BY <1>1, <1>8, <1>9, <1>10, <1>11 DEF WorkInv

(* A step keeps the work of its command in order, and the command is done    *)
(* only when no cluster is left.                                             *)
LEMMA WorkKept ==
    ASSUME TypeOK, NEW r, NEW m \in Memory, NEW n, Shaped(m), m.pc \notin Outcomes,
           WorkInv(m, record), Works(r, m, n)
    PROVE  /\ n.pc \notin Outcomes => WorkInv(n, record')
           /\ n.pc = "done" => ClustersDone(m, << >>, record')
<1>1. /\ Kind(m) /\ ClustersDone(m, m.targets, record) /\ m.targets # << >>
      /\ m.deletes \in BOOLEAN /\ m.alone \in BOOLEAN
      /\ m.pc # "list" => InstancesDone(m, m.queue, record)
      /\ InInstance(m) /\ m.deletes /\ ~m.alone => Ordered(m, m.queue, record)
  BY MemoryFields DEF WorkInv, Shaped
<1>2. ASSUME SameWork(m, n), n.pc # "list", m.pc # "list",
             m.deletes <=> n.pc \in DeleteStages, m.alone => InInstance(n), n.pc \notin Outcomes,
             ClustersDone(m, m.targets, record'), InstancesDone(m, m.queue, record'),
             InInstance(n) /\ m.deletes /\ ~m.alone => Ordered(m, m.queue, record')
      PROVE  WorkInv(n, record') /\ n.pc # "done"
  <2>1. SameCommand(m, n) /\ n.targets = m.targets /\ n.queue = m.queue
    BY <1>2 DEF SameWork
  <2>2. Kind(n)
    BY <1>1, <1>2, <2>1 DEF Kind, SameCommand
  <2>3. ClustersDone(n, n.targets, record') /\ InstancesDone(n, n.queue, record')
    BY <1>2, <2>1, SameClustersDone, SameInstancesDone
  <2>4. InInstance(n) /\ n.deletes /\ ~n.alone => Ordered(n, n.queue, record')
    BY <1>2, <2>1, SameOrdered DEF SameCommand
  <2>5. QED
    BY <1>2, <2>2, <2>3, <2>4 DEF WorkInv, Outcomes
<1>3. CASE Gone(n)
  BY <1>3 DEF Gone, Outcomes
<1>4. CASE Moves(m, n) \/ Checks(r, m, n)
  <2>1. record' = record /\ SameWork(m, n)
    BY <1>4 DEF Moves, Checks, Untouched
  <2>2. \/ n.pc = m.pc
        \/ m.pc = "check" /\ n.pc = "fetch"
        \/ m.pc = "fetch" /\ n.pc = "init"
        \/ m.pc = "init" /\ n.pc = "record"
        \/ m.pc \in Applying /\ n.pc \in Applying
        \/ m.pc = "get" /\ n.pc = "remove"
    BY <1>4 DEF Moves, Checks
  <2>3. /\ n.pc # "list" <=> m.pc # "list"
        /\ n.pc \in DeleteStages <=> m.pc \in DeleteStages
        /\ InInstance(m) => InInstance(n)
        /\ InInstance(n) /\ m.pc \in DeleteStages => InInstance(m)
        /\ n.pc \notin Outcomes
    BY <2>2 DEF DeleteStages, InInstance, Applying, Outcomes
  <2>4. (m.deletes <=> n.pc \in DeleteStages) /\ (m.alone => InInstance(n))
    BY <1>1, <2>3 DEF Kind
  <2>5. CASE m.pc # "list"
    BY <1>1, <1>2, <2>1, <2>3, <2>4, <2>5 DEF Kind
  <2>6. CASE m.pc = "list"
    <3>1. n.pc = "list" /\ ~InInstance(n)
      BY <2>2, <2>6 DEF Applying, InInstance
    <3>2. SameCommand(m, n) /\ n.targets = m.targets
      BY <2>1 DEF SameWork
    <3>3. ClustersDone(n, n.targets, record)
      BY <1>1, <3>2, SameClustersDone
    <3>4. Kind(n)
      BY <1>1, <2>4, <2>6, <3>2 DEF Kind, SameCommand, InInstance
    <3>5. QED
      BY <2>1, <3>1, <3>3, <3>4 DEF WorkInv, Outcomes
  <2>7. QED
    BY <2>5, <2>6
<1>5. CASE Stores(m, n)
  <2>1. Store(m) /\ m.pc \in {"record", "update"}
    BY <1>5 DEF Stores
  <2>2. InInstance(m) /\ ~m.deletes /\ m.pc # "list"
    BY <1>1, <2>1 DEF InInstance, Kind, DeleteStages
  <2>3. /\ ClustersDone(m, m.targets, record')
        /\ InstancesDone(m, m.queue, record') /\ InstancesDone(m, Tail(m.queue), record')
    BY <1>1, <2>1, <2>2, StoreKeeps
  <2>4. CASE n.pc = "apply" /\ SameWork(m, n)
    <3>1. n.pc # "list" /\ InInstance(n) /\ n.pc \notin Outcomes /\ n.pc \notin DeleteStages
      BY <2>4 DEF InInstance, Outcomes, DeleteStages
    <3>2. QED
      BY <1>2, <2>2, <2>3, <2>4, <3>1
  <2>5. CASE GoesOn(m, n, "init")
    BY <1>1, <2>2, <2>3, <2>5, GoesOnKeeps
  <2>6. QED
    BY <1>5, <2>4, <2>5 DEF Stores
<1>6. CASE Skips(m, n)
  <2>1. record' = record /\ EntersNext(m, n)
    BY <1>6 DEF Skips, Untouched
  <2>2. InstancesDone(m, << >>, record)
    <3>1. CASE m.pc = "fetch" /\ m.queue = << >>
      BY <1>1, <3>1
    <3>2. CASE m.pc = "list" /\ Labelled(Here(m), m.owner) = {}
      <4>1. m.deletes
        BY <1>1, <3>2 DEF Kind, DeleteStages
      <4>2. QED
        BY <3>2, <4>1 DEF InstancesDone, Labelled, Holds
    <3>3. QED
      BY <1>6, <3>1, <3>2 DEF Skips
  <2>3. ClustersDone(m, Tail(m.targets), record)
    BY <1>1, <2>2, ClusterFinished
  <2>4. QED
    BY <1>1, <2>1, <2>3, EnterKeeps
<1>7. CASE Lists(m, n)
  <2>1. record' = record
    BY <1>7 DEF Lists, Untouched
  <2>2. QED
    BY <1>1, <1>7, <2>1, ListKeeps
<1>8. CASE Removes(m, n)
  <2>1. /\ m.pc = "remove" /\ GoesOn(m, n, "get")
        /\ record' = [record EXCEPT ![Here(m)][Current(m)] = NoRecord]
    BY <1>8 DEF Removes
  <2>2. InInstance(m) /\ m.deletes
    BY <1>1, <2>1 DEF InInstance, Kind, DeleteStages
  <2>3. /\ ClustersDone(m, m.targets, record')
        /\ InstancesDone(m, Tail(m.queue), record')
        /\ ~m.alone => Ordered(m, Tail(m.queue), record')
    BY <2>1, <2>2, RemoveKeeps
  <2>4. QED
    BY <1>1, <2>1, <2>2, <2>3, GoesOnKeeps
<1>9. QED
  BY <1>3, <1>4, <1>5, <1>6, <1>7, <1>8 DEF Works

LEMMA OnlyElement ==
    ASSUME NEW S, NEW s \in Seq(S), Len(s) = 1
    PROVE  Tail(s) = << >> /\ s # << >>
<1>1. Tail(s) \in Seq(S) /\ Len(Tail(s)) = 0
  OBVIOUS
<1>2. \A t \in Seq(S) : Len(t) = 0 => t = << >>
  OBVIOUS
<1>3. Len(<< >>) = 0
  OBVIOUS
<1>4. Tail(s) = << >>
  BY <1>1, <1>2
<1>5. s # << >>
  BY <1>3
<1>6. QED
  BY <1>4, <1>5

LEMMA FreshKeeps ==
    ASSUME NEW m \in Memory, FreshAlone(m) \/ FreshApply(m) \/ FreshDelete(m), NEW rec
    PROVE  WorkInv(m, rec)
<1>1. CASE FreshAlone(m)
  <2>1. Tail(m.targets) = << >> /\ Tail(m.queue) = << >>
    BY <1>1, MemoryFields, OnlyElement DEF FreshAlone
  <2>2. m.pc = IF m.deletes THEN "get" ELSE "init"
    BY <1>1 DEF FreshAlone
  <2>3. (m.deletes <=> m.pc \in DeleteStages) /\ InInstance(m)
    BY <2>2, MemoryFields DEF DeleteStages, InInstance
  <2>4. \A c \in Clusters : m.plan[c] = << >>
    BY <1>1 DEF FreshAlone
  <2>5. Kind(m)
    BY <1>1, <2>1, <2>3, <2>4 DEF FreshAlone, Kind
  <2>6. ClustersDone(m, m.targets, rec)
    <3>1. DOMAIN m.selected = {}
      BY <1>1 DEF FreshAlone
    <3>2. QED
      BY <3>1 DEF ClustersDone
  <2>7. InstancesDone(m, m.queue, rec)
    <3>1. Here(m) \in Clusters
      <4>1. m.targets \in Seq(Clusters) /\ m.targets # << >>
        BY <1>1, MemoryFields, OnlyElement DEF FreshAlone
      <4>2. QED
        BY <4>1, TailElements DEF Here
    <3>2. DOMAIN m.plan[Here(m)] = {}
      BY <2>4, <3>1
    <3>3. QED
      BY <1>1, <3>2 DEF InstancesDone, FreshAlone
  <2>8. QED
    BY <1>1, <2>5, <2>6, <2>7 DEF WorkInv, FreshAlone
<1>2. CASE FreshApply(m)
  <2>1. m.pc \in {"check", "fetch"} /\ ~m.deletes /\ ~m.alone
    BY <1>2 DEF FreshApply
  <2>2. Kind(m) /\ ~InInstance(m)
    BY <2>1 DEF Kind, InInstance, DeleteStages
  <2>3. ClustersDone(m, m.targets, rec) /\ InstancesDone(m, m.queue, rec)
    BY <1>2 DEF FreshApply, ClustersDone, InstancesDone, Covered
  <2>4. QED
    BY <2>2, <2>3 DEF WorkInv
<1>3. CASE FreshDelete(m)
  <2>1. m.pc = "list" /\ m.deletes /\ ~m.alone /\ \A c \in Clusters : m.plan[c] = << >>
    BY <1>3 DEF FreshDelete
  <2>2. Kind(m) /\ ~InInstance(m)
    BY <2>1 DEF Kind, InInstance, DeleteStages
  <2>3. ClustersDone(m, m.targets, rec)
    BY <1>3 DEF FreshDelete, ClustersDone, Covered
  <2>4. QED
    BY <2>1, <2>2, <2>3 DEF WorkInv
<1>4. QED
  BY <1>1, <1>2, <1>3

(* The invariant of one command at a time. *)
SerialInv ==
    /\ OneAtATime
    /\ \A r \in Commands : Active(r) => WorkInv(cmd[r], record)

LEMMA SerialInvInit == Init => SerialInv
<1>1. Ended("idle").pc \in Outcomes
  BY EndedShaped DEF Outcomes
<1>2. QED
  BY <1>1 DEF Init, SerialInv, OneAtATime, Active

(* What a command at work does is the whole of the step.                     *)
LEMMA AtWork ==
    ASSUME TypeOK, OneAtATime, NEW r \in Commands, Step(r) \/ Fault(r)
    PROVE  \E n : /\ Works(r, cmd[r], n) /\ Active(r) /\ cmd'[r] = n
                  /\ \A q \in Commands \ {r} : cmd'[q] = cmd[q] /\ ~Active(q)
<1>1. Active(r)
  BY StepWorks DEF Active
<1>2. PICK n : Becomes(r, n) /\ Works(r, cmd[r], n)
  BY StepWorks
<1>3. cmd'[r] = n /\ \A q \in Commands \ {r} : cmd'[q] = cmd[q]
  BY <1>2 DEF Becomes, TypeOK
<1>4. \A q \in Commands \ {r} : ~Active(q)
  BY <1>1 DEF OneAtATime
<1>5. QED
  BY <1>1, <1>2, <1>3, <1>4

LEMMA AtStart ==
    ASSUME TypeOK, Serial, NEW r \in Commands, Start(r)
    PROVE  \E n \in Memory :
               /\ Shaped(n)
               /\ FreshAlone(n) \/ FreshApply(n) \/ FreshDelete(n)
               /\ cmd'[r] = n /\ \A q \in Commands : ~Active(q)
               /\ \A q \in Commands \ {r} : cmd'[q] = cmd[q]
               /\ UNCHANGED <<record, earlier, clock>>
<1>1. PICK n \in Memory : /\ Begin(r, n) /\ Shaped(n)
                          /\ FreshAlone(n) \/ FreshApply(n) \/ FreshDelete(n)
  BY StartMemory
<1>2. /\ \A q \in Commands : ~Active(q)
      /\ cmd' = [cmd EXCEPT ![r] = n] /\ UNCHANGED <<record, earlier, clock>>
  BY <1>1 DEF Begin, Becomes
<1>3. cmd'[r] = n /\ \A q \in Commands \ {r} : cmd'[q] = cmd[q]
  BY <1>2 DEF TypeOK
<1>4. QED
  BY <1>1, <1>2, <1>3

LEMMA SerialInvNext ==
    ASSUME Serial
    PROVE  TypeOK /\ SerialInv /\ [Next]_vars => SerialInv'
<1> SUFFICES ASSUME TypeOK, SerialInv, [Next]_vars
             PROVE  SerialInv'
  OBVIOUS
<1>1. CASE UNCHANGED vars \/ Quiet
  BY <1>1 DEF vars, Quiet, SerialInv, OneAtATime, Active
<1>2. ASSUME NEW r \in Commands, Start(r)
      PROVE  SerialInv'
  <2>1. PICK n \in Memory :
            /\ Shaped(n)
            /\ FreshAlone(n) \/ FreshApply(n) \/ FreshDelete(n)
            /\ cmd'[r] = n /\ \A q \in Commands : ~Active(q)
            /\ \A q \in Commands \ {r} : cmd'[q] = cmd[q]
            /\ UNCHANGED <<record, earlier, clock>>
    BY <1>2, AtStart
  <2>2. WorkInv(n, record')
    BY <2>1, FreshKeeps
  <2>3. \A q \in Commands \ {r} : cmd'[q].pc \in Outcomes
    BY <2>1 DEF Active
  <2>4. QED
    BY <2>1, <2>2, <2>3 DEF SerialInv, OneAtATime, Active
<1>3. ASSUME NEW r \in Commands, Step(r) \/ Fault(r)
      PROVE  SerialInv'
  <2>1. PICK n : /\ Works(r, cmd[r], n) /\ Active(r) /\ cmd'[r] = n
                 /\ \A q \in Commands \ {r} : cmd'[q] = cmd[q] /\ ~Active(q)
    BY <1>3, AtWork DEF SerialInv
  <2>2. n.pc \notin Outcomes => WorkInv(n, record')
    BY <2>1, WorkKept, CommandShaped DEF SerialInv, Active
  <2>3. \A q \in Commands \ {r} : cmd'[q].pc \in Outcomes
    BY <2>1 DEF Active
  <2>4. QED
    BY <2>1, <2>2, <2>3 DEF SerialInv, OneAtATime, Active
<1>4. QED
  BY <1>1, <1>2, <1>3 DEF Next

(* One command at a time keeps its work in order. *)
LEMMA SerialInvHolds ==
    ASSUME Serial
    PROVE  Spec => []SerialInv
<1>1. TypeOK /\ SerialInv /\ [Next]_vars => SerialInv'
  BY SerialInvNext
<1>2. QED
  BY <1>1, SerialInvInit, BundleTypeCorrect, PTL DEF Spec

(* When the operators run one command at a time, a bundle apply that ends    *)
(* well has installed all its instances on all its clusters, and a bundle    *)
(* delete that ends well has left none: whatever the bundle, the clusters    *)
(* selected, what was installed before, and what failed before.              *)
THEOREM DoneIsCompleteHolds ==
    ASSUME Serial
    PROVE  Spec => DoneIsComplete
<1>1. ASSUME TypeOK, SerialInv, [Next]_vars, NEW r \in Commands
      PROVE  DoneAsAsked(r)
  <2> SUFFICES ASSUME Active(r), cmd'[r].pc = "done",
                      NEW k \in DOMAIN cmd[r].selected
               PROVE  LET c == cmd[r].selected[k]
                      IN  /\ InstalledOn(r, c)
                          /\ cmd[r].deletes /\ ~cmd[r].alone => RemovedFrom(r, c)
    BY DEF DoneAsAsked
  <2> DEFINE m == cmd[r]
             c == cmd[r].selected[k]
  <2>1. cmd[r].pc # cmd'[r].pc
    BY DEF Active, Outcomes
  <2>2. PICK q \in Commands : Start(q) \/ Step(q) \/ Fault(q)
    BY <1>1, <2>1 DEF Next, Quiet, vars
  <2>3. CASE Start(q)
    BY <1>1, <2>3, AtStart
  <2>4. CASE Step(q) \/ Fault(q)
    <3>1. PICK n : /\ Works(q, cmd[q], n) /\ Active(q) /\ cmd'[q] = n
                   /\ \A p \in Commands \ {q} : cmd'[p] = cmd[p] /\ ~Active(p)
      BY <1>1, <2>4, AtWork DEF SerialInv
    <3>2. q = r
      BY <3>1
    <3>3. ClustersDone(cmd[r], << >>, record') /\ WorkInv(cmd[r], record)
      BY <1>1, <3>1, <3>2, WorkKept, CommandShaped DEF SerialInv, Active
    <3>4. Finished(cmd[r], c, record')
      BY <3>3, EmptyCovers DEF ClustersDone
    <3>5. c \in Clusters
      <4>1. cmd[r].selected \in Seq(Clusters)
        BY <1>1, CommandShaped, MemoryFields
      <4>2. QED
        BY <4>1
    <3>6. cmd[r].deletes => cmd[r].plan[c] = << >>
      BY <3>3, <3>5 DEF WorkInv, Kind
    <3>7. InstalledOn(r, c)
      <4>1. ASSUME NEW p \in DOMAIN cmd[r].plan[c]
            PROVE  Holds(record', c, cmd[r].plan[c][p], cmd[r].owner)
        <5>1. ~cmd[r].deletes
          BY <3>6
        <5>2. QED
          BY <3>4, <5>1 DEF Finished
      <4>2. QED
        BY <4>1 DEF InstalledOn, Holds
    <3>8. cmd[r].deletes /\ ~cmd[r].alone => RemovedFrom(r, c)
      BY <3>4 DEF Finished, RemovedFrom, Holds
    <3>9. QED
      BY <3>7, <3>8
  <2>5. QED
    BY <2>2, <2>3, <2>4
<1>2. TypeOK /\ SerialInv /\ [Next]_vars => [\A r \in Commands : DoneAsAsked(r)]_vars
  BY <1>1
<1>3. QED
  BY <1>2, BundleTypeCorrect, SerialInvHolds, PTL DEF Spec, DoneIsComplete

(* The owners that a bundle apply has checked.                               *)
OwnersInv == \A r \in Commands : Active(r) => OwnerInv(cmd[r], record)

LEMMA EnterOwner ==
    ASSUME NEW m \in Memory, NEW n, NEW rec, EntersNext(m, n), n.pc \notin Outcomes
    PROVE  OwnerInv(n, rec)
<1>1. Ended("done").pc \in Outcomes
  BY EndedShaped DEF Outcomes
<1>2. n # Ended("done")
  BY <1>1
<1>3. SameCommand(m, n)
  BY <1>2 DEF EntersNext
<1>4. n.overwrite = m.overwrite /\ n.deletes = m.deletes /\ m.overwrite \in BOOLEAN
  BY <1>3, MemoryFields DEF SameCommand
<1>5. CASE m.deletes
  BY <1>4, <1>5 DEF OwnerInv
<1>6. CASE ~m.deletes
  <2>1. n.unread = n.queue /\ n.pc \in {"fetch", "check"}
    BY <1>2, <1>6 DEF EntersNext
  <2>2. n.pc # "check" => n.overwrite
    BY <1>2, <1>4, <1>6 DEF EntersNext
  <2>3. QED
    BY <2>1, <2>2 DEF OwnerInv
<1>7. QED
  BY <1>5, <1>6

LEMMA OwnerKept ==
    ASSUME TypeOK, ~Misread, NEW r \in Commands, Active(r), NEW n, n.pc \notin Outcomes,
           WorkInv(cmd[r], record), OwnerInv(cmd[r], record), Works(r, cmd[r], n)
    PROVE  OwnerInv(n, record')
<1> DEFINE m == cmd[r]
<1>m. /\ m \in Memory /\ Shaped(m) /\ Kind(m) /\ OwnerInv(m, record)
      /\ m.queue \in Seq(Instances) /\ m.unread \in Seq(Instances)
      /\ m.pc \notin Outcomes /\ Here(m) \in Clusters
      /\ m.deletes \in BOOLEAN /\ m.overwrite \in BOOLEAN
  BY CommandShaped, MemoryFields, HereTyped DEF WorkInv, Active
<1>r. \A i : Reads(r, i) = {record[Here(m)][i]}
  BY DEF Reads
<1>w. Works(r, m, n)
  OBVIOUS
<1>1. CASE m.deletes
  <2>1. m.pc \in DeleteStages
    BY <1>1, <1>m DEF Kind
  <2>2. SameCommand(m, n)
    <3>1. n # Ended("done")
      BY EndedShaped DEF Outcomes
    <3>2. ~Gone(n)
      BY DEF Gone, Outcomes
    <3>3. QED
      BY <1>w, <3>1, <3>2 DEF Works, Moves, Checks, Stores, Skips, Lists, Removes, GoesOn,
         EntersNext, SameWork
  <2>3. QED
    BY <1>1, <2>2 DEF SameCommand, OwnerInv
<1>2. CASE ~m.deletes
  <2>0. m.pc \notin DeleteStages
    BY <1>2, <1>m DEF Kind
  <2> HIDE DEF m
  <2>1. CASE Moves(m, n)
    <3>1. /\ record' = record /\ n.queue = m.queue /\ n.targets = m.targets
          /\ n.owner = m.owner /\ n.alone = m.alone /\ n.overwrite = m.overwrite
          /\ Here(n) = Here(m)
      BY <2>1 DEF Moves, Untouched, SameWork, SameCommand, Here
    <3>2. CASE n.pc = m.pc /\ n.unread = m.unread /\ n.conflict = m.conflict
      BY <1>m, <1>2, <3>1, <3>2 DEF OwnerInv
    <3>3. CASE m.pc = "check" /\ n.pc = "fetch" /\ m.unread = << >> /\ ~m.conflict
      BY <1>m, <1>2, <3>1, <3>3, EmptyCovers DEF OwnerInv
    <3>4. CASE m.pc = "fetch" /\ n.pc = "init"
      BY <1>m, <1>2, <3>1, <3>4 DEF OwnerInv
    <3>5. CASE m.pc = "init" /\ n.pc = "record" /\ ~RefusedAlone(m)
      <4>1. CASE m.alone
        <5>1. \A i : Covered(m.queue, i) => i = Current(m)
          <6>1. Tail(m.queue) = << >> /\ m.queue # << >>
            BY <1>m, <3>5, <4>1 DEF Kind, Shaped, InInstance
          <6>2. QED
            BY <1>m, <6>1, TailCovers, EmptyCovers DEF Current
        <5>2. ~m.overwrite => ~ConflictsWith(record[Here(m)][Current(m)], m.owner)
          BY <1>m, <3>5, <4>1 DEF RefusedAlone, ConflictsWith, Known, Kind
        <5>3. QED
          BY <3>1, <3>5, <5>1, <5>2 DEF OwnerInv
      <4>2. CASE ~m.alone
        BY <1>m, <1>2, <3>1, <3>5, <4>2 DEF OwnerInv
      <4>3. QED
        BY <4>1, <4>2
    <3>6. CASE m.pc \in Applying /\ n.pc \in Applying
      BY <1>m, <1>2, <3>1, <3>6 DEF OwnerInv, Applying
    <3>7. QED
      BY <2>0, <2>1, <3>2, <3>3, <3>4, <3>5, <3>6 DEF Moves, DeleteStages
  <2>2. CASE Checks(r, m, n)
    <3>1. /\ record' = record /\ n.queue = m.queue /\ n.owner = m.owner /\ Here(n) = Here(m)
          /\ m.pc = "check" /\ n.pc = "check"
          /\ m.unread # << >> /\ n.unread = Tail(m.unread)
      BY <2>2 DEF Checks, Untouched, SameWork, SameCommand, Here
    <3>2. n.conflict = (m.conflict \/ ConflictsWith(record[Here(m)][Head(m.unread)], m.owner))
      BY <2>2, <1>r DEF Checks, m
    <3>3. \A i : Covered(m.unread, i) <=> i = Head(m.unread) \/ Covered(n.unread, i)
      BY <1>m, <3>1, TailCovers
    <3>4. ASSUME NEW i \in Instances, Covered(m.queue, i)
          PROVE  Covered(n.unread, i) \/ n.conflict \/ ~ConflictsWith(record[Here(m)][i], m.owner)
      <4>1. Covered(m.unread, i) \/ m.conflict \/ ~ConflictsWith(record[Here(m)][i], m.owner)
        BY <1>m, <1>2, <3>1, <3>4 DEF OwnerInv
      <4>2. QED
        BY <3>2, <3>3, <4>1
    <3>5. QED
      BY <3>1, <3>4 DEF OwnerInv
  <2>3. CASE Stores(m, n)
    <3>1. Store(m) /\ InInstance(m) /\ m.queue # << >> /\ m.pc \in {"record", "update"}
      BY <1>m, <2>3 DEF Stores, InInstance, Shaped
    <3>2. ASSUME NEW i \in Instances, ~m.overwrite, Covered(m.queue, i)
          PROVE  ~ConflictsWith(record'[Here(m)][i], m.owner)
      <4>1. Current(m) \in Instances
        BY <1>m, <3>1, HereTyped
      <4>2. CASE i = Current(m)
        BY <1>m, <3>1, <4>1, <4>2, StoreChanges DEF Holds, ConflictsWith
      <4>3. CASE i # Current(m)
        <5>1. record'[Here(m)][i] = record[Here(m)][i]
          BY <1>m, <3>1, <4>1, <4>3, StoreChanges
        <5>2. ~ConflictsWith(record[Here(m)][i], m.owner)
          BY <1>m, <1>2, <3>1, <3>2 DEF OwnerInv
        <5>3. QED
          BY <5>1, <5>2
      <4>4. QED
        BY <4>2, <4>3
    <3>3. CASE n.pc = "apply" /\ SameWork(m, n)
      BY <3>2, <3>3 DEF OwnerInv, SameWork, SameCommand, Here
    <3>4. CASE GoesOn(m, n, "init")
      <4>1. CASE Tail(m.queue) = << >>
        BY <1>m, <3>4, <4>1, EnterOwner DEF GoesOn
      <4>2. CASE Tail(m.queue) # << >>
        <5>1. SameCommand(m, n) /\ n.targets = m.targets /\ n.queue = Tail(m.queue) /\ n.pc = "init"
          BY <3>4, <4>2 DEF GoesOn
        <5>2. \A i : Covered(n.queue, i) => Covered(m.queue, i)
          BY <1>m, <3>1, <5>1, TailCovers
        <5>3. QED
          BY <3>2, <5>1, <5>2 DEF OwnerInv, SameCommand, Here
      <4>3. QED
        BY <4>1, <4>2
    <3>5. QED
      BY <2>3, <3>3, <3>4 DEF Stores
  <2>4. CASE Skips(m, n)
    BY <1>m, <2>4, EnterOwner DEF Skips
  <2>5. CASE Gone(n) \/ Lists(m, n) \/ Removes(m, n)
    BY <2>0, <2>5 DEF Gone, Lists, Removes, DeleteStages, Outcomes
  <2>6. QED
    BY <1>w, <2>1, <2>2, <2>3, <2>4, <2>5 DEF Works
<1>3. QED
  BY <1>m, <1>1, <1>2

LEMMA OwnersInvHolds ==
    ASSUME Serial, ~Misread
    PROVE  Spec => []OwnersInv
<1>1. Init => OwnersInv
  <2>1. Ended("idle").pc \in Outcomes
    BY EndedShaped DEF Outcomes
  <2>2. QED
    BY <2>1 DEF Init, OwnersInv, Active
<1>2. TypeOK /\ SerialInv /\ OwnersInv /\ [Next]_vars => OwnersInv'
  <2> SUFFICES ASSUME TypeOK, SerialInv, OwnersInv, [Next]_vars
               PROVE  OwnersInv'
    OBVIOUS
  <2>1. CASE UNCHANGED vars \/ Quiet
    BY <2>1 DEF vars, Quiet, OwnersInv, Active
  <2>2. ASSUME NEW r \in Commands, Start(r)
        PROVE  OwnersInv'
    <3>1. PICK n \in Memory :
              /\ Shaped(n)
              /\ FreshAlone(n) \/ FreshApply(n) \/ FreshDelete(n)
              /\ cmd'[r] = n /\ \A q \in Commands : ~Active(q)
              /\ \A q \in Commands \ {r} : cmd'[q] = cmd[q]
              /\ UNCHANGED <<record, earlier, clock>>
      BY <2>2, AtStart
    <3>2. OwnerInv(n, record')
      BY <3>1, MemoryFields DEF OwnerInv, FreshAlone, FreshApply, FreshDelete
    <3>3. \A q \in Commands \ {r} : cmd'[q].pc \in Outcomes
      BY <3>1 DEF Active
    <3>4. QED
      BY <3>1, <3>2, <3>3 DEF OwnersInv, Active
  <2>3. ASSUME NEW r \in Commands, Step(r) \/ Fault(r)
        PROVE  OwnersInv'
    <3>1. PICK n : /\ Works(r, cmd[r], n) /\ Active(r) /\ cmd'[r] = n
                   /\ \A q \in Commands \ {r} : cmd'[q] = cmd[q] /\ ~Active(q)
      BY <2>3, AtWork DEF SerialInv
    <3>2. n.pc \notin Outcomes => OwnerInv(n, record')
      BY <3>1, OwnerKept DEF SerialInv, OwnersInv
    <3>3. \A q \in Commands \ {r} : cmd'[q].pc \in Outcomes
      BY <3>1 DEF Active
    <3>4. QED
      BY <3>1, <3>2, <3>3 DEF OwnersInv, Active
  <2>4. QED
    BY <2>1, <2>2, <2>3 DEF Next
<1>3. QED
  BY <1>1, <1>2, BundleTypeCorrect, SerialInvHolds, PTL DEF Spec

LEMMA RecordWriters ==
    ASSUME NEW r \in Commands, Start(r) \/ Step(r) \/ Fault(r)
    PROVE  UNCHANGED <<record, earlier, clock>> \/ Install(r) \/ Update(r) \/ Remove(r)
<1>1. CASE Start(r)
  BY <1>1 DEF Start, StartBundleApply, StartBundleDelete, StartApply, StartDelete, Begin
<1>2. CASE Step(r)
  BY <1>2 DEF Step, CheckOwner, AcceptBundle, RefuseBundle, FetchModules, ReadInstance,
     RefuseInstance, Upgrade, Applied, Prune, PruneDone, ListBundle, GetForDelete,
     DeadlineExceeded, End
<1>3. CASE Fault(r)
  BY <1>3 DEF Fault, Abort, Expire, NotReady, ReadinessTimeout, End
<1>4. QED
  BY <1>1, <1>2, <1>3

(* When the operators run one command at a time and every read of a record   *)
(* tells whether it is there, an instance changes owner only at the hand of  *)
(* a command told to overwrite: the check that a bundle apply makes before   *)
(* its first instance holds until its last.                                  *)
THEOREM TakeoverHolds ==
    ASSUME Serial, ~Misread
    PROVE  Spec => TakeoverOnlyWhenAsked
<1>1. ASSUME TypeOK, SerialInv, OwnersInv, Next, NEW c \in Clusters, NEW i \in Instances
      PROVE  TakenOverAsAsked(c, i)
  <2> SUFFICES ASSUME record[c][i].exists, record'[c][i].exists,
                      record'[c][i].bundle # record[c][i].bundle
               PROVE  \E r \in Commands : cmd[r].overwrite /\ (Install(r) \/ Update(r))
    BY DEF TakenOverAsAsked
  <2>1. PICK r \in Commands : Install(r) \/ Update(r) \/ Remove(r)
    BY <1>1, RecordWriters DEF Next, Quiet, vars
  <2> DEFINE m == cmd[r]
  <2>2. m \in Memory /\ Shaped(m) /\ m.overwrite \in BOOLEAN /\ m.pc \in {"record", "update", "remove"}
    BY <1>1, <2>1, CommandShaped, MemoryFields DEF Install, Update, Remove, At
  <2>3. InInstance(m) /\ Active(r)
    BY <2>2 DEF InInstance, Active, Outcomes
  <2>4. Here(m) \in Clusters /\ Current(m) \in Instances
    BY <2>2, <2>3, HereTyped
  <2>5. ~Remove(r)
    <3>1. ASSUME NEW d \in Clusters, NEW j \in Instances,
                 record' = [record EXCEPT ![d][j] = NoRecord]
          PROVE  FALSE
      <4>1. TypeOK
        BY <1>1
      <4>2. ~record'[d][j].exists
        BY <3>1, <4>1, RemoveChanges
      <4>3. \A e \in Clusters, k \in Instances :
                e # d \/ k # j => record'[e][k] = record[e][k]
        BY <3>1, <4>1, RemoveChanges
      <4>4. QED
        BY <4>2, <4>3
    <3>2. QED
      BY <2>4, <3>1 DEF Remove
  <2>6. Store(m) /\ m.pc \in {"record", "update"}
    BY <2>1, <2>5 DEF Install, Update, At
  <2>7. c = Here(m) /\ i = Current(m) /\ record'[c][i].bundle = m.owner
    BY <1>1, <2>2, <2>4, <2>6, StoreChanges DEF Holds
  <2>8. ~m.deletes
    BY <1>1, <2>3, <2>6 DEF SerialInv, WorkInv, Kind, DeleteStages
  <2>9. Covered(m.queue, Current(m))
    BY <2>2, <2>3, MemoryFields, TailCovers DEF Current, Shaped
  <2>10. m.overwrite
    BY <1>1, <2>2, <2>3, <2>4, <2>6, <2>7, <2>8, <2>9 DEF OwnersInv, OwnerInv, ConflictsWith
  <2>11. QED
    BY <2>1, <2>5, <2>10
<1>2. TypeOK /\ SerialInv /\ OwnersInv /\ [Next]_vars =>
          [\A c \in Clusters, i \in Instances : TakenOverAsAsked(c, i)]_vars
  BY <1>1
<1>3. QED
  BY <1>2, BundleTypeCorrect, SerialInvHolds, OwnersInvHolds, PTL DEF Spec, TakeoverOnlyWhenAsked

(* When no two records of a cluster are created in the same second, the      *)
(* seconds tell the order of installation; for any commands side by side.    *)
LEMMA EarlierInvHolds ==
    ASSUME ~SameSecond
    PROVE  Spec => []EarlierInv
<1>1. Init => EarlierInv
  BY DEF Init, EarlierInv, NoRecord
<1>2. TypeOK /\ EarlierInv /\ [Next]_vars => EarlierInv'
  <2> SUFFICES ASSUME TypeOK, EarlierInv, [Next]_vars
               PROVE  EarlierInv'
    OBVIOUS
  <2>1. CASE UNCHANGED <<record, earlier, clock>>
    BY <2>1 DEF EarlierInv
  <2>2. ASSUME NEW r \in Commands, Install(r) \/ Update(r) \/ Remove(r)
        PROVE  EarlierInv'
    <3> DEFINE m == cmd[r]
               here == Here(m)
               this == Current(m)
    <3>1. m \in Memory /\ Shaped(m) /\ InInstance(m) /\ m.pc \notin Outcomes
      BY <2>2, CommandShaped DEF Install, Update, Remove, At, InInstance, Outcomes
    <3>2. here \in Clusters /\ this \in Instances
      BY <3>1, HereTyped
    <3>t. /\ record \in [Clusters -> [Instances -> Record]] /\ clock \in Nat
          /\ earlier \in [Clusters -> SUBSET (Instances \X Instances)]
          /\ \A c \in Clusters, i \in Instances : record[c][i].created \in Nat
      BY RecordTyped DEF TypeOK
    <3>3. CASE Remove(r)
      <4>1. /\ record' = [record EXCEPT ![here][this] = NoRecord] /\ clock' = clock
            /\ earlier' = [earlier EXCEPT ![here] = {p \in @ : this \notin {p[1], p[2]}}]
        BY <3>3 DEF Remove
      <4>2. /\ ~record'[here][this].exists
            /\ \A c \in Clusters, i \in Instances :
                   c # here \/ i # this => record'[c][i] = record[c][i]
        BY <3>2, <4>1, RemoveChanges
      <4> HIDE DEF m, here, this
      <4>3. \A c \in Clusters, i, j \in Instances : <<i, j>> \in earlier'[c] =>
                /\ <<i, j>> \in earlier[c]
                /\ c # here \/ (i # this /\ j # this)
        BY <3>2, <3>t, <4>1
      <4>4. QED
        BY <4>1, <4>2, <4>3 DEF EarlierInv
    <3>4. CASE Install(r) \/ Update(r)
      <4>1. Store(m)
        BY <3>4 DEF Install, Update
      <4>2. CASE record[here][this].exists
        <5>1. record' = [record EXCEPT ![here][this].bundle = m.owner]
              /\ UNCHANGED <<earlier, clock>>
          BY <4>1, <4>2 DEF Store
        <5>2. record[here][this] \in [exists : BOOLEAN, bundle : Owners, created : Nat]
          BY <3>2, <3>t DEF Record
        <5> HIDE DEF m, here, this
        <5>3. \A c \in Clusters, i \in Instances :
                  /\ record'[c][i].exists = record[c][i].exists
                  /\ record'[c][i].created = record[c][i].created
          BY <3>2, <3>t, <5>1, <5>2
        <5>4. QED
          BY <5>1, <5>3 DEF EarlierInv
      <4>3. CASE ~record[here][this].exists
        <5>1. /\ clock' = clock + 1
              /\ record' = [record EXCEPT ![here][this] =
                     [exists |-> TRUE, bundle |-> m.owner, created |-> clock']]
              /\ earlier' = [earlier EXCEPT ![here] =
                     @ \cup ({j \in Instances : record[here][j].exists} \X {this})]
          BY <4>1, <4>3 DEF Store
        <5> HIDE DEF m, here, this
        <5>2. record'[here][this].exists /\ record'[here][this].created = clock + 1
          BY <3>2, <3>t, <5>1
        <5>3. \A c \in Clusters, i \in Instances :
                  c # here \/ i # this => record'[c][i] = record[c][i]
          BY <3>2, <3>t, <5>1
        <5>4. \A c \in Clusters, i, j \in Instances : <<i, j>> \in earlier'[c] =>
                  \/ <<i, j>> \in earlier[c]
                  \/ c = here /\ j = this /\ record[c][i].exists
          BY <3>2, <3>t, <5>1
        <5>5. \A c \in Clusters, i \in Instances :
                  record[c][i].exists => /\ record[c][i].created < clock + 1
                                         /\ record[c][i].created <= clock'
                                         /\ record'[c][i] = record[c][i]
          BY <3>t, <4>3, <5>1, <5>3 DEF EarlierInv
        <5>6. \A c \in Clusters, i \in Instances :
                  record'[c][i].exists => record'[c][i].created <= clock'
          BY <3>t, <5>1, <5>2, <5>3, <5>5
        <5>7. \A c \in Clusters, i, j \in Instances : <<i, j>> \in earlier'[c] =>
                  /\ record'[c][i].exists /\ record'[c][j].exists
                  /\ record'[c][i].created < record'[c][j].created
          BY <5>2, <5>4, <5>5 DEF EarlierInv
        <5>8. QED
          BY <5>6, <5>7 DEF EarlierInv
      <4>4. QED
        BY <4>2, <4>3
    <3>5. QED
      BY <2>2, <3>3, <3>4
  <2>3. QED
    BY <2>1, <2>2, RecordWriters DEF Next, Quiet, vars
<1>3. QED
  BY <1>1, <1>2, BundleTypeCorrect, PTL DEF Spec

(* When the operators run one command at a time and no two records of a      *)
(* cluster are created in the same second, a bundle delete removes the       *)
(* instances of its bundle in the reverse order of their installation.       *)
THEOREM LastInstalledFirstHolds ==
    ASSUME Serial, ~SameSecond
    PROVE  Spec => LastInstalledFirst
<1>1. ASSUME TypeOK, SerialInv, EarlierInv,
             NEW r \in Commands, NEW c \in Clusters, NEW i \in Instances
      PROVE  RemovesLast(r, c, i)
  <2> SUFFICES ASSUME Remove(r), ~cmd[r].alone, record[c][i].exists, ~record'[c][i].exists,
                      NEW j \in Instances, <<i, j>> \in earlier[c],
                      record[c][j].bundle = cmd[r].owner
               PROVE  FALSE
    BY DEF RemovesLast
  <2> DEFINE m == cmd[r]
  <2>1. /\ m.pc = "remove" /\ m \in Memory /\ Shaped(m) /\ m.queue \in Seq(Instances)
        /\ record' = [record EXCEPT ![Here(m)][Current(m)] = NoRecord]
    BY <1>1, CommandShaped, MemoryFields DEF Remove, At
  <2>2. InInstance(m) /\ Active(r) /\ m.queue # << >>
    BY <2>1 DEF InInstance, Active, Outcomes, Shaped
  <2>3. Here(m) \in Clusters /\ Current(m) \in Instances
    BY <2>1, <2>2, HereTyped DEF Active
  <2>4. c = Here(m) /\ i = Current(m)
    BY <1>1, <2>1, <2>3, RemoveChanges
  <2>5. Kind(m) /\ Ordered(m, m.queue, record) /\ InstancesDone(m, m.queue, record) /\ m.deletes
    BY <1>1, <2>1, <2>2 DEF SerialInv, WorkInv, Kind, DeleteStages
  <2>6. /\ record[c][j].exists /\ record[c][i].created < record[c][j].created
        /\ record[c][i].created \in Nat /\ record[c][j].created \in Nat
    BY <1>1, RecordTyped DEF EarlierInv
  <2>7. Covered(m.queue, j)
    BY <2>4, <2>5, <2>6 DEF InstancesDone, Holds
  <2>8. PICK k \in DOMAIN m.queue : m.queue[k] = j
    BY <2>7 DEF Covered
  <2>9. i = m.queue[1] /\ 1 \in DOMAIN m.queue /\ k \in Nat \ {0}
    BY <2>1, <2>2, <2>4, TailElements DEF Current
  <2>10. k # 1
    BY <2>6, <2>8, <2>9
  <2>11. record[Here(m)][m.queue[k]].created <= record[Here(m)][m.queue[1]].created
    <3>1. 1 < k
      BY <2>9, <2>10
    <3> QED
      BY <2>5, <2>8, <2>9, <3>1 DEF Ordered
  <2>12. record[c][j].created <= record[c][i].created
    BY <2>4, <2>8, <2>9, <2>11
  <2>13. QED
    BY <2>6, <2>12
<1>2. TypeOK /\ SerialInv /\ EarlierInv /\ [Next]_vars =>
          [\A r \in Commands, c \in Clusters, i \in Instances : RemovesLast(r, c, i)]_vars
  BY <1>1
<1>3. QED
  BY <1>2, BundleTypeCorrect, SerialInvHolds, EarlierInvHolds, PTL DEF Spec, LastInstalledFirst

================================================================================
