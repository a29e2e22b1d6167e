--------------------------- MODULE ReconcilerProofs ---------------------------
(***************************************************************************)
(* Theorems about Reconciler, for every set of objects, instances, renders *)
(* and concurrent invocations, and every bound on starts and failures.     *)
(***************************************************************************)
EXTENDS Reconciler, TLAPS

LEMMA ListMetaType ==
    ASSUME NEW inv \in Inventories
    PROVE  ListMeta(inv) \subseteq Objects
BY DEF ListMeta, Inventories, Ref

LEMMA DesiredType ==
    ASSUME NEW m \in RunState
    PROVE  /\ Desired(m) \in Inventories
           /\ ListMeta(Desired(m)) \subseteq Objects
           /\ \A k \in DOMAIN m.render :
                  /\ m.render[k] \in Inventories
                  /\ ListMeta(m.render[k]) \subseteq ListMeta(Desired(m))
<1>1. m.render \in Seq(Inventories)
  BY DEF RunState, AllRenders
<1>2. \A k \in DOMAIN m.render : m.render[k] \in SUBSET Ref
  BY <1>1 DEF Inventories
<1>3. Desired(m) \in Inventories
  BY <1>2 DEF Desired, Inventories
<1>4. \A k \in DOMAIN m.render : m.render[k] \subseteq Desired(m)
  BY DEF Desired
<1>5. QED
  BY <1>2, <1>3, <1>4, ListMetaType DEF ListMeta, Inventories

LEMMA EndedType ==
    ASSUME NEW outcome \in ApplyStages \cup DeleteStages \cup Outcomes
    PROVE  Ended(outcome) \in RunState
<1>1. AnyInstance \in Instances
  BY InstanceAssumption DEF AnyInstance
<1>2. << >> \in AllRenders
  BY DEF AllRenders
<1>3. NoRecord(NoBundle) \in Records(Owners)
  BY DEF NoRecord, Records, Owners, Inventories
<1>4. QED
  BY <1>1, <1>2, <1>3 DEF Ended, RunState, Owners, Inventories

(* A run that turns to a set or to the prune remembers a legal state. *)
LEMMA EnterSetType ==
    ASSUME NEW m \in RunState, NEW k \in Nat
    PROVE  EnterSet(m, k) \in RunState
<1>1. CASE k \in DOMAIN m.render
  <2>1. ListMeta(m.render[k]) \in SUBSET Objects
    BY <1>1, DesiredType
  <2>2. QED
    BY <1>1, <2>1 DEF EnterSet, RunState, ApplyStages
<1>2. CASE k \notin DOMAIN m.render
  BY <1>2 DEF EnterSet, RunState, ApplyStages
<1>3. QED BY <1>1, <1>2

LEMMA StoredType ==
    ASSUME TypeOK, NEW m \in RunState
    PROVE  StoredRecord(record[m.inst], Desired(m), m.bundle) \in Records(Owners)
BY DesiredType DEF TypeOK, StoredRecord, Records, RunState, Inventories

LEMMA WriteRecordType ==
    ASSUME TypeOK, NEW m \in RunState, WriteRecord(m)
    PROVE  record' \in [Instances -> Records(Owners)]
BY StoredType DEF WriteRecord, TypeOK, RunState

LEMMA PendingObjectsType ==
    ASSUME NEW rec \in Records(Owners)
    PROVE  /\ PendingObjects(rec) \subseteq Objects
           /\ ListMeta(rec.inv) \subseteq Objects
BY ListMetaType DEF PendingObjects, Records

(***************************************************************************)
(* Type correctness, one lemma per group of steps.                         *)
(***************************************************************************)

LEMMA TypeInit == Init => TypeOK
<1> SUFFICES ASSUME Init PROVE TypeOK
  OBVIOUS
<1>1. record \in [Instances -> Records(Owners)]
  BY DEF Init, NoRecord, Records, Owners, Inventories
<1>2. cluster \in [Objects -> ClusterObject]
  BY DEF Init, ClusterObject, Absent
<1>3. run \in [Runs -> RunState]
  BY EndedType DEF Init, Outcomes
<1>4. QED
  BY <1>1, <1>2, <1>3, BoundAssumption DEF TypeOK, Init

LEMMA BecomesType ==
    ASSUME TypeOK, NEW r \in Runs, NEW m \in RunState, Becomes(r, m)
    PROVE  run' \in [Runs -> RunState]
BY DEF TypeOK, Becomes

LEMMA FailType ==
    ASSUME TypeOK, NEW r \in Runs, Fail(r)
    PROVE  run' \in [Runs -> RunState] /\ UNCHANGED <<record, cluster>>
<1>1. Ended("failed") \in RunState
  BY EndedType DEF Outcomes
<1>2. QED
  BY <1>1, BecomesType DEF Fail

LEMMA RemovedType ==
    ASSUME NEW c \in [Objects -> ClusterObject], NEW o
    PROVE  Removed(c, o) \in [Objects -> ClusterObject]
BY DEF Removed, ClusterObject, Absent

(* An object that a delete request has reached is not live. *)
LEMMA RemovedObjects ==
    ASSUME NEW c \in [Objects -> ClusterObject], NEW o \in Objects,
           NEW d, d = Removed(c, o)
    PROVE  /\ d[o].phase # "live"
           /\ d[o].owner \in {c[o].owner, Nobody}
           /\ \A p : p # o => d[p] = c[p]
BY DEF Removed, ClusterObject, Absent

(* An object that is looked at is found deletable, or passed over. *)
LEMMA LookBecomes ==
    ASSUME NEW r \in Runs, NEW stage, LookAt(r, stage)
    PROVE  \E o \in run[r].todo : \E g \in {run[r].gone, run[r].gone \cup {o}} :
               \/ /\ Deletable(o, run[r].inst)
                  /\ Becomes(r, [run[r] EXCEPT !.looked = {o}])
               \/ /\ ~Deletable(o, run[r].inst)
                  /\ cluster[o].phase = "absent" => o \in g
                  /\ Becomes(r, [run[r] EXCEPT !.todo = @ \ {o}, !.gone = g])
<1> DEFINE m == run[r]
           Gone(o) == IF cluster[o].phase = "absent" THEN m.gone \cup {o} ELSE m.gone
<1>1. PICK o \in m.todo :
          Becomes(r, IF Deletable(o, m.inst) THEN [m EXCEPT !.looked = {o}]
                     ELSE [m EXCEPT !.todo = @ \ {o},
                                    !.gone = IF cluster[o].phase = "absent"
                                             THEN @ \cup {o} ELSE @])
  BY DEF LookAt
<1>2. [m EXCEPT !.todo = @ \ {o}, !.gone = IF cluster[o].phase = "absent"
                                          THEN @ \cup {o} ELSE @] =
          [m EXCEPT !.todo = @ \ {o}, !.gone = Gone(o)]
  OBVIOUS
<1>3. \/ Deletable(o, m.inst) /\ Becomes(r, [m EXCEPT !.looked = {o}])
      \/ ~Deletable(o, m.inst) /\ Becomes(r, [m EXCEPT !.todo = @ \ {o}, !.gone = Gone(o)])
  BY <1>1, <1>2
<1>4. /\ Gone(o) \in {m.gone, m.gone \cup {o}}
      /\ cluster[o].phase = "absent" => o \in Gone(o)
  OBVIOUS
<1> HIDE DEF Gone
<1>5. QED
  BY <1>3, <1>4

LEMMA InjectType ==
    ASSUME TypeOK, Inject
    PROVE  faults' \in 0..MaxFaults
BY BoundAssumption DEF TypeOK, Inject

(* A slot gets a fresh memory, of an apply or of a delete. *)
LEMMA StartBecomes ==
    ASSUME NEW r \in Runs, Start(r)
    PROVE  \E i \in Instances, n \in RunState :
               /\ MayStart(r, i) /\ Becomes(r, n)
               /\ n.inst = i /\ n.doomed = {} /\ n.looked = {} /\ n.gone = {}
               /\ n.pc = "get" \/ (n.pc = "list" /\ n.render = << >>)
               /\ UNCHANGED <<record, cluster, faults>>
<1>1. ASSUME NEW stage \in {"get", "list"}, NEW i \in Instances, NEW wait \in BOOLEAN
      PROVE  /\ Started(stage, i, wait) \in RunState
             /\ Started(stage, i, wait).pc = stage
             /\ Started(stage, i, wait).inst = i
             /\ Started(stage, i, wait).render = << >>
             /\ Started(stage, i, wait).doomed = {}
             /\ Started(stage, i, wait).looked = {}
             /\ Started(stage, i, wait).gone = {}
  <2>1. Ended(stage) \in RunState
    BY EndedType DEF ApplyStages, DeleteStages
  <2>2. Started(stage, i, wait) \in RunState
    BY <2>1 DEF Started, RunState
  <2>3. QED
    BY <2>2 DEF Started, Ended
<1>2. CASE StartApply(r)
  <2> DEFINE Fresh(i, render, owner, overwrite, wait, recreate) ==
                 [Started("get", i, wait) EXCEPT
                     !.render = render, !.bundle = owner,
                     !.overwrite = overwrite, !.recreate = recreate]
  <2>1. PICK i \in Instances : \E render \in Renders[i] :
             \E owner \in Owners, overwrite, wait \in BOOLEAN :
             \E recreate \in {Immutable, Immutable \cap Forced} :
                 /\ MayStart(r, i)
                 /\ owner # NoBundle => ~overwrite
                 /\ run' = [run EXCEPT ![r] =
                                Fresh(i, render, owner, overwrite, wait, recreate)]
                 /\ UNCHANGED <<record, cluster, faults>>
    BY <1>2 DEF StartApply
  <2> HIDE DEF Fresh
  <2>8. PICK render \in Renders[i] :
             \E owner \in Owners, overwrite, wait \in BOOLEAN :
             \E recreate \in {Immutable, Immutable \cap Forced} :
                 /\ MayStart(r, i)
                 /\ run' = [run EXCEPT ![r] =
                                Fresh(i, render, owner, overwrite, wait, recreate)]
                 /\ UNCHANGED <<record, cluster, faults>>
    BY <2>1
  <2>9. PICK owner \in Owners, overwrite \in BOOLEAN, wait \in BOOLEAN :
             \E recreate \in {Immutable, Immutable \cap Forced} :
                 /\ MayStart(r, i)
                 /\ run' = [run EXCEPT ![r] =
                                Fresh(i, render, owner, overwrite, wait, recreate)]
                 /\ UNCHANGED <<record, cluster, faults>>
    BY <2>8
  <2>2. PICK recreate \in {Immutable, Immutable \cap Forced} :
                 /\ MayStart(r, i)
                 /\ run' = [run EXCEPT ![r] =
                                Fresh(i, render, owner, overwrite, wait, recreate)]
                 /\ UNCHANGED <<record, cluster, faults>>
    BY <2>9
  <2> DEFINE e == Started("get", i, wait)
             n == [e EXCEPT !.render = render, !.bundle = owner,
                            !.overwrite = overwrite, !.recreate = recreate]
  <2>3. /\ e \in RunState /\ e.pc = "get" /\ e.inst = i /\ e.doomed = {}
        /\ e.looked = {} /\ e.gone = {}
    BY <1>1
  <2>4. render \in AllRenders /\ recreate \in SUBSET Objects
    BY RendersAssumption, SelectorAssumption
  <2>5. Becomes(r, n)
    BY <2>2 DEF Becomes, Fresh
  <2> HIDE DEF e
  <2>6. /\ n \in RunState /\ n.pc = "get" /\ n.inst = i /\ n.doomed = {}
        /\ n.looked = {} /\ n.gone = {}
    BY <2>3, <2>4 DEF RunState
  <2> HIDE DEF n
  <2>7. QED
    BY <2>2, <2>5, <2>6
<1>3. CASE StartDelete(r)
  <2>1. PICK i \in Instances, wait \in BOOLEAN :
             /\ MayStart(r, i)
             /\ run' = [run EXCEPT ![r] = Started("list", i, wait)]
             /\ UNCHANGED <<record, cluster, faults>>
    BY <1>3 DEF StartDelete
  <2>2. Becomes(r, Started("list", i, wait))
    BY <2>1 DEF Becomes
  <2>3. QED
    BY <1>1, <2>1, <2>2
<1>4. QED
  BY <1>2, <1>3 DEF Start

LEMMA TypeStart ==
    ASSUME TypeOK, NEW r \in Runs, Start(r)
    PROVE  TypeOK'
<1>1. PICK i \in Instances, n \in RunState :
          MayStart(r, i) /\ Becomes(r, n) /\ UNCHANGED <<record, cluster, faults>>
  BY StartBecomes
<1>2. starts' \in 0..MaxStarts
  BY <1>1, BoundAssumption DEF MayStart, TypeOK
<1>3. QED
  BY <1>1, <1>2, BecomesType DEF TypeOK

(* Reads and writes of the record by an apply. *)
LEMMA TypeRecordSteps ==
    ASSUME TypeOK, NEW r \in Runs,
           \/ GetInstance(r) \/ RefuseOwnership(r) \/ MisreadInstance(r)
           \/ GetStaleObjects(r) \/ GetPending(r)
           \/ Install(r) \/ Reapply(r) \/ ReadForPending(r) \/ SavePending(r)
           \/ UpdateInventory(r)
    PROVE  TypeOK'
<1> DEFINE m == run[r]
           found == record[m.inst]
<1>1. m \in RunState /\ m.inst \in Instances /\ found \in Records(Owners)
  BY DEF TypeOK, RunState
<1>2. ListMeta(found.inv) \subseteq Objects /\ PendingObjects(found) \subseteq Objects
  BY <1>1, PendingObjectsType
<1>3. found.exists \in BOOLEAN /\ found.inv \in Inventories
  BY <1>1 DEF Records
<1>4. CASE GetInstance(r)
  <2>1. [Goto(m, "stale") EXCEPT !.exists = found.exists,
                                 !.predecessor = found.inv] \in RunState
    BY <1>1, <1>3 DEF Goto, RunState, ApplyStages
  <2>2. QED
    BY <1>4, <2>1, BecomesType DEF GetInstance, TypeOK
<1>5. CASE RefuseOwnership(r)
  BY <1>5, FailType DEF RefuseOwnership, TypeOK
<1>6. CASE MisreadInstance(r)
  <2>1. [Goto(m, "stale") EXCEPT !.exists = FALSE] \in RunState
    BY <1>1 DEF Goto, RunState, ApplyStages
  <2>2. QED
    BY <1>6, <2>1, BecomesType, InjectType DEF MisreadInstance, TypeOK
<1>7. CASE GetStaleObjects(r)
  <2> DEFINE doomed == IF found.exists THEN Diff(found.inv, Desired(m)) ELSE {}
  <2>1. doomed \in SUBSET Objects
    BY <1>2 DEF Diff
  <2>2. [Goto(m, "pending") EXCEPT !.doomed = doomed] \in RunState
    BY <1>1, <2>1 DEF Goto, RunState, ApplyStages
  <2>3. QED
    BY <1>7, <2>2, BecomesType DEF GetStaleObjects, TypeOK
<1>8. CASE GetPending(r)
  <2> DEFINE doomed == m.doomed \cup (PendingObjects(found) \ ListMeta(Desired(m)))
  <2>1. doomed \in SUBSET Objects
    BY <1>1, <1>2 DEF RunState
  <2>2. [Goto(m, "record") EXCEPT !.doomed = doomed] \in RunState
    BY <1>1, <2>1 DEF Goto, RunState, ApplyStages
  <2>3. QED
    BY <1>8, <2>2, BecomesType DEF GetPending, TypeOK
<1>9. EnterSet(m, 1) \in RunState
  BY <1>1, EnterSetType
<1>10. CASE Install(r)
  BY <1>1, <1>9, <1>10, WriteRecordType, BecomesType DEF Install, TypeOK
<1>11. CASE Reapply(r)
  BY <1>9, <1>11, BecomesType DEF Reapply, TypeOK
<1>12. CASE ReadForPending(r)
  <2>1. [Goto(m, "savePending") EXCEPT !.seen = found] \in RunState
    BY <1>1 DEF Goto, RunState, ApplyStages
  <2>2. QED
    BY <1>12, <2>1, BecomesType, FailType DEF ReadForPending, TypeOK
<1>13. CASE SavePending(r)
  <2>1. Desired(m) \in Inventories /\ m.seen \in Records(Owners)
    BY <1>1, DesiredType DEF RunState
  <2>2. PendingRecord(found, m.seen, Desired(m)) \in Records(Owners)
    BY <1>1, <2>1 DEF PendingRecord, Records
  <2>3. record' \in [Instances -> Records(Owners)]
    BY <1>1, <1>13, <2>2 DEF SavePending, TypeOK
  <2>4. NoRecord(NoBundle) \in Records(Owners)
    BY DEF NoRecord, Records, Owners, Inventories
  <2>5. EnterSet([m EXCEPT !.seen = NoRecord(NoBundle)], 1) \in RunState
    <3>1. [m EXCEPT !.seen = NoRecord(NoBundle)] \in RunState
      BY <1>1, <2>4 DEF RunState
    <3>2. QED
      BY <3>1, EnterSetType
  <2>6. QED
    BY <1>13, <2>3, <2>5, BecomesType DEF SavePending, TypeOK
<1>14. CASE UpdateInventory(r)
  <2>1. Ended("done") \in RunState
    BY EndedType DEF Outcomes
  <2>2. QED
    BY <1>1, <1>14, <2>1, WriteRecordType, BecomesType DEF UpdateInventory, TypeOK
<1>15. QED
  BY <1>4, <1>5, <1>6, <1>7, <1>8, <1>10, <1>11, <1>12, <1>13, <1>14

(* The apply of the sets. *)
LEMMA TypeApplySteps ==
    ASSUME TypeOK, NEW r \in Runs,
           \/ CheckObject(r) \/ Recreate(r) \/ Recreated(r)
           \/ ApplyObject(r) \/ SetReady(r) \/ SetNotReady(r)
    PROVE  TypeOK'
<1> DEFINE m == run[r]
<1>1. m \in RunState /\ m.inst \in Instances
  BY DEF TypeOK, RunState
<1>6. CASE CheckObject(r)
  <2>1. PICK o \in m.todo :
            \/ Becomes(r, [m EXCEPT !.todo = @ \ {o}])
            \/ Becomes(r, [m EXCEPT !.looked = @ \cup {o}])
    BY <1>6 DEF CheckObject
  <2>2. /\ [m EXCEPT !.todo = @ \ {o}] \in RunState
        /\ [m EXCEPT !.looked = @ \cup {o}] \in RunState
    BY <1>1 DEF RunState
  <2>3. QED
    BY <1>6, <2>1, <2>2, BecomesType DEF CheckObject, TypeOK
<1>7. CASE Recreate(r)
  <2>1. PICK o \in m.todo : /\ cluster' = Removed(cluster, o)
                            /\ Becomes(r, [m EXCEPT !.gone = @ \cup {o}])
    BY <1>7 DEF Recreate
  <2>2. [m EXCEPT !.gone = @ \cup {o}] \in RunState
    BY <1>1 DEF RunState
  <2>3. cluster' \in [Objects -> ClusterObject]
    BY <2>1, RemovedType DEF TypeOK
  <2>4. QED
    BY <1>7, <2>1, <2>2, <2>3, BecomesType DEF Recreate, TypeOK
<1>8. CASE Recreated(r)
  <2>1. PICK o \in m.gone :
            Becomes(r, [m EXCEPT !.gone = @ \ {o}, !.looked = @ \cup {o}])
    BY <1>8 DEF Recreated
  <2>2. [m EXCEPT !.gone = @ \ {o}, !.looked = @ \cup {o}] \in RunState
    BY <1>1 DEF RunState
  <2>3. QED
    BY <1>8, <2>1, <2>2, BecomesType DEF Recreated, TypeOK
<1>2. CASE ApplyObject(r)
  <2>1. PICK o \in m.looked :
            /\ cluster' = Applied(cluster, o, m.inst)
            /\ Becomes(r, [m EXCEPT !.todo = @ \ {o}, !.looked = @ \ {o}])
    BY <1>2 DEF ApplyObject
  <2>2. [m EXCEPT !.todo = @ \ {o}, !.looked = @ \ {o}] \in RunState
    BY <1>1 DEF RunState
  <2>3. cluster' \in [Objects -> ClusterObject]
    BY <1>1, <2>1 DEF Applied, TypeOK, ClusterObject
  <2>4. QED
    BY <1>2, <2>1, <2>2, <2>3, BecomesType DEF ApplyObject, TypeOK
<1>3. CASE SetReady(r)
  <2>1. m.set + 1 \in Nat
    BY <1>1 DEF RunState
  <2>2. QED
    BY <1>1, <1>3, <2>1, EnterSetType, BecomesType DEF SetReady, TypeOK
<1>4. CASE SetNotReady(r)
  <2>1. [m EXCEPT !.pc = "prune", !.todo = m.doomed, !.unready = TRUE] \in RunState
    BY <1>1 DEF RunState, ApplyStages
  <2>2. faults' \in 0..MaxFaults
    BY <1>4, InjectType DEF SetNotReady, TypeOK
  <2>3. QED
    BY <1>4, <2>1, <2>2, BecomesType DEF SetNotReady, TypeOK
<1>5. QED
  BY <1>2, <1>3, <1>4, <1>6, <1>7, <1>8

(* The loops that delete objects, of a prune and of a delete, and the waits. *)
LEMMA TypeDeleteSteps ==
    ASSUME TypeOK, NEW r \in Runs, NEW stage,
           \/ LookAt(r, stage) \/ RequestDelete(r, stage)
           \/ DeleteRequestFails(r, stage) \/ TerminationTimeout(r, stage)
    PROVE  TypeOK'
<1> DEFINE m == run[r]
<1>1. m \in RunState /\ m.inst \in Instances
  BY DEF TypeOK, RunState
<1>2. CASE LookAt(r, stage)
  <2>0. PICK o \in m.todo : \E g \in {m.gone, m.gone \cup {o}} :
            \/ Becomes(r, [m EXCEPT !.looked = {o}])
            \/ Becomes(r, [m EXCEPT !.todo = @ \ {o}, !.gone = g])
    BY <1>2, LookBecomes
  <2>1. PICK g \in {m.gone, m.gone \cup {o}} :
            \/ Becomes(r, [m EXCEPT !.looked = {o}])
            \/ Becomes(r, [m EXCEPT !.todo = @ \ {o}, !.gone = g])
    BY <2>0
  <2>2. /\ [m EXCEPT !.looked = {o}] \in RunState
        /\ [m EXCEPT !.todo = @ \ {o}, !.gone = g] \in RunState
    BY <1>1 DEF RunState
  <2>3. QED
    BY <1>2, <2>1, <2>2, BecomesType DEF LookAt, TypeOK
<1>3. CASE RequestDelete(r, stage)
  <2>1. PICK o \in m.looked :
            /\ cluster' = Removed(cluster, o)
            /\ Becomes(r, [m EXCEPT !.todo = @ \ {o}, !.looked = {},
                                    !.gone = @ \cup {o}])
    BY <1>3 DEF RequestDelete
  <2>2. [m EXCEPT !.todo = @ \ {o}, !.looked = {}, !.gone = @ \cup {o}] \in RunState
    BY <1>1 DEF RunState
  <2>3. cluster' \in [Objects -> ClusterObject]
    BY <2>1, RemovedType DEF TypeOK
  <2>4. QED
    BY <1>3, <2>1, <2>2, <2>3, BecomesType DEF RequestDelete, TypeOK
<1>4. CASE DeleteRequestFails(r, stage)
  <2>1. PICK o : Becomes(r, [m EXCEPT !.todo = @ \ {o}, !.looked = {}, !.erred = TRUE])
    BY <1>4 DEF DeleteRequestFails
  <2>2. [m EXCEPT !.todo = @ \ {o}, !.looked = {}, !.erred = TRUE] \in RunState
    BY <1>1 DEF RunState
  <2>3. QED
    BY <1>4, <2>1, <2>2, BecomesType, InjectType DEF DeleteRequestFails, TypeOK
<1>5. CASE TerminationTimeout(r, stage)
  <2>1. faults' \in 0..MaxFaults
    BY <1>5, InjectType DEF TerminationTimeout, TypeOK
  <2>2. QED
    BY <1>5, <2>1, FailType DEF TerminationTimeout, TypeOK
<1>6. QED
  BY <1>2, <1>3, <1>4, <1>5

(* What is left of an apply after the prune, and of a delete. *)
LEMMA TypeEndSteps ==
    ASSUME TypeOK, NEW r \in Runs,
           \/ Pruned(r) \/ PruneTerminated(r) \/ Abort(r)
           \/ ListStored(r) \/ ListPending(r) \/ SetDeleting(r)
           \/ Deleted(r) \/ DeleteTerminated(r) \/ DeleteRecord(r)
    PROVE  TypeOK'
<1> DEFINE m == run[r]
           found == record[m.inst]
<1>1. m \in RunState /\ m.inst \in Instances /\ found \in Records(Owners)
  BY DEF TypeOK, RunState
<1>2. ListMeta(found.inv) \subseteq Objects /\ PendingObjects(found) \subseteq Objects
  BY <1>1, PendingObjectsType
<1>3. \A stage \in ApplyStages \cup DeleteStages : Goto(m, stage) \in RunState
  BY <1>1 DEF Goto, RunState
<1>4. ASSUME AfterPrune(r)
      PROVE  run' \in [Runs -> RunState] /\ UNCHANGED <<record, cluster>>
  BY <1>3, <1>4, FailType, BecomesType DEF AfterPrune, ApplyStages
<1>5. CASE Pruned(r)
  BY <1>3, <1>4, <1>5, FailType, BecomesType DEF Pruned, ApplyStages, TypeOK
<1>6. CASE PruneTerminated(r)
  BY <1>4, <1>6 DEF PruneTerminated, TypeOK
<1>7. CASE Abort(r)
  BY <1>7, FailType, InjectType DEF Abort, TypeOK
<1>8. CASE ListStored(r)
  <2>1. [Goto(m, "listPending") EXCEPT !.doomed = ListMeta(found.inv)] \in RunState
    BY <1>2, <1>3 DEF RunState, DeleteStages
  <2>2. QED
    BY <1>8, <2>1, FailType, BecomesType DEF ListStored, TypeOK
<1>9. CASE ListPending(r)
  <2> DEFINE listed == m.doomed \cup PendingObjects(found)
             n == [m EXCEPT !.pc = IF m.wait THEN "mark" ELSE "delete",
                            !.doomed = listed, !.todo = listed]
  <2>1. listed \in SUBSET Objects
    BY <1>1, <1>2 DEF RunState
  <2>2. n \in RunState
    BY <1>1, <2>1 DEF RunState, DeleteStages
  <2>3. QED
    BY <1>9, <2>2, BecomesType DEF ListPending, TypeOK
<1>10. CASE SetDeleting(r)
  <2>1. [found EXCEPT !.deleting = TRUE] \in Records(Owners)
    BY <1>1 DEF Records
  <2>2. [record EXCEPT ![m.inst].deleting = TRUE] \in [Instances -> Records(Owners)]
    BY <1>1, <2>1 DEF TypeOK
  <2>3. QED
    BY <1>3, <1>10, <2>2, FailType, BecomesType DEF SetDeleting, DeleteStages, TypeOK
<1>11. CASE Deleted(r)
  BY <1>3, <1>11, FailType, BecomesType DEF Deleted, DeleteStages, TypeOK
<1>12. CASE DeleteTerminated(r)
  BY <1>3, <1>12, BecomesType DEF DeleteTerminated, DeleteStages, TypeOK
<1>13. CASE DeleteRecord(r)
  <2>1. NoRecord(NoBundle) \in Records(Owners)
    BY DEF NoRecord, Records, Owners, Inventories
  <2>2. Ended("done") \in RunState
    BY EndedType DEF Outcomes
  <2>3. QED
    BY <1>13, <2>1, <2>2, BecomesType DEF DeleteRecord, TypeOK
<1>14. QED
  BY <1>5, <1>6, <1>7, <1>8, <1>9, <1>10, <1>11, <1>12, <1>13

LEMMA TypeNext == TypeOK /\ [Next]_vars => TypeOK'
<1> SUFFICES ASSUME TypeOK, [Next]_vars PROVE TypeOK'
  OBVIOUS
<1>1. CASE UNCHANGED vars
  BY <1>1 DEF vars, TypeOK
<1>2. ASSUME NEW r \in Runs, Start(r)
      PROVE  TypeOK'
  BY <1>2, TypeStart
<1>3. ASSUME NEW r \in Runs, Step(r)
      PROVE  TypeOK'
  BY <1>3, TypeRecordSteps, TypeApplySteps, TypeDeleteSteps, TypeEndSteps
     DEF Step, LookAtStale, PruneObject, LookAtListed, DeleteListed
<1>4. ASSUME NEW r \in Runs, Fault(r)
      PROVE  TypeOK'
  BY <1>4, TypeRecordSteps, TypeApplySteps, TypeDeleteSteps, TypeEndSteps
     DEF Fault, PruneObjectFails, DeleteListedFails, RecreateTimeout, PruneTimeout,
         DeleteTimeout
<1>5. ASSUME NEW o \in Objects, ClearFinalizer(o)
      PROVE  TypeOK'
  BY <1>5 DEF ClearFinalizer, TypeOK, ClusterObject, Absent
<1>6. CASE Quiet
  BY <1>1, <1>6 DEF Quiet
<1>7. QED
  BY <1>1, <1>2, <1>3, <1>4, <1>5, <1>6 DEF Next

(* Every reachable state is well-formed: records, objects and the memory of  *)
(* the invocations stay within their types, and the bounds are kept.         *)
THEOREM TypeCorrect == Spec => []TypeOK
<1>1. Init => TypeOK
  BY TypeInit
<1>2. TypeOK /\ [Next]_vars => TypeOK'
  BY TypeNext
<1>3. QED
  BY <1>1, <1>2, PTL DEF Spec

--------------------------------------------------------------------------------
(***************************************************************************)
(* The inductive invariant.                                                *)
(***************************************************************************)

(* The operators take care, or there is only one slot. *)
OneAtATime == Serial \/ \A q, r \in Runs : q = r

(* A run that has ended knows nothing that could be wrong. *)
LEMMA EndedFacts ==
    ASSUME NEW r \in Runs, ~Active(r)
    PROVE  Facts(r)
BY DEF Active, Outcomes, Facts, ReadsAreFresh, NothingForgotten, WriteAhead, LookedAhead,
       DoomedUnwanted, ApplyStages, DeleteStages

(* What a run knows stays true while its record is left alone and no object  *)
(* is labelled with its instance.                                            *)
LEMMA FactsKept ==
    ASSUME NEW q \in Runs, Facts(q), run'[q] = run[q],
           record'[run[q].inst] = record[run[q].inst],
           \A o : Held(o, run[q].inst)' => Held(o, run[q].inst)
    PROVE  Facts(q)'
<1>1. Listed(q)' = Listed(q) /\ Wanted(q)' = Wanted(q)
  BY DEF Listed, Wanted
<1>2. ReadsAreFresh(q)'
  BY <1>1 DEF Facts, ReadsAreFresh
<1>3. NothingForgotten(q)'
  BY <1>1 DEF Facts, NothingForgotten
<1>4. WriteAhead(q)' /\ LookedAhead(q)' /\ DoomedUnwanted(q)'
  BY <1>1 DEF Facts, WriteAhead, LookedAhead, DoomedUnwanted
<1>5. QED
  BY <1>2, <1>3, <1>4 DEF Facts

(* A step of r disturbs no other run: it touches the record of its own       *)
(* instance only and labels objects with that instance only.                 *)
LEMMA StepFrame ==
    ASSUME TypeOK, Inductive, NEW r \in Runs, NEW m \in RunState, Active(r),
           Becomes(r, m),
           m.inst = run[r].inst \/ m.pc \in Outcomes,
           \A j \in Instances \ {run[r].inst} :
               /\ record'[j] = record[j]
               /\ \A o : Held(o, j)' => Held(o, j),
           Facts(r)'
    PROVE  Inductive'
<1>1. run'[r] = m /\ \A q \in Runs \ {r} : run'[q] = run[q]
  BY DEF Becomes, TypeOK
<1>2. \A q \in Runs : run[q].inst \in Instances
  BY DEF TypeOK, RunState
<1>3. Solo'
  BY <1>1 DEF Inductive, Solo, Active
<1>4. ASSUME NEW q \in Runs \ {r}
      PROVE  Facts(q)'
  <2>1. CASE Active(q)
    <3>1. run[q].inst \in Instances \ {run[r].inst}
      BY <1>2, <2>1 DEF Inductive, Solo
    <3>2. QED
      BY <1>1, <3>1, FactsKept DEF Inductive
  <2>2. CASE ~Active(q)
    <3>1. ~Active(q)'
      BY <1>1, <2>2 DEF Active
    <3>2. QED
      BY <3>1 DEF Active, Outcomes, Facts, ReadsAreFresh, NothingForgotten,
                  WriteAhead, LookedAhead, DoomedUnwanted, ApplyStages, DeleteStages
  <2>3. QED
    BY <2>1, <2>2
<1>5. QED
  BY <1>3, <1>4 DEF Inductive

LEMMA StepActive ==
    ASSUME NEW r \in Runs, Step(r) \/ Fault(r)
    PROVE  Active(r)
BY DEF Step, Fault, GetInstance, RefuseOwnership, GetStaleObjects, GetPending,
       Install, Reapply, ReadForPending, SavePending, CheckObject, Recreate, Recreated,
       ApplyObject, SetReady, LookAtStale, LookAt, PruneObject, RequestDelete, Pruned,
       PruneTerminated, UpdateInventory, ListStored, ListPending, SetDeleting, LookAtListed,
       DeleteListed, Deleted, DeleteTerminated, DeleteRecord, Abort, MisreadInstance,
       RecreateTimeout, SetNotReady, PruneObjectFails, DeleteRequestFails, PruneTimeout,
       TerminationTimeout, DeleteListedFails, DeleteTimeout, At, Active, Outcomes

(* A step of r touches its own memory and the record of its own instance.    *)
LEMMA RunFrame ==
    ASSUME TypeOK, NEW r \in Runs, Step(r) \/ Fault(r)
    PROVE  /\ \A q \in Runs \ {r} : run'[q] = run[q]
           /\ \A j \in Instances \ {run[r].inst} : record'[j] = record[j]
<1> DEFINE Framed == /\ \A q \in Runs \ {r} : run'[q] = run[q]
                     /\ \A j \in Instances \ {run[r].inst} : record'[j] = record[j]
<1>1. ASSUME NEW m, Becomes(r, m), record' = record
      PROVE  Framed
  BY <1>1 DEF Becomes, TypeOK
<1>2. ASSUME NEW m, Becomes(r, m), NEW rec, record' = [record EXCEPT ![run[r].inst] = rec]
      PROVE  Framed
  BY <1>2 DEF Becomes, TypeOK
<1>3. CASE Install(r) \/ SavePending(r) \/ UpdateInventory(r) \/ DeleteRecord(r)
  BY <1>2, <1>3 DEF Install, SavePending, UpdateInventory, DeleteRecord, WriteRecord
<1>4. CASE SetDeleting(r)
  <2>1. ASSUME ~Fail(r)
        PROVE  Framed
    BY <1>4, <2>1 DEF SetDeleting, Becomes, TypeOK
  <2>2. QED
    BY <1>1, <2>1 DEF Fail
<1>5. ASSUME NEW stage,
             Fail(r) \/ LookAt(r, stage) \/ RequestDelete(r, stage)
             \/ DeleteRequestFails(r, stage) \/ TerminationTimeout(r, stage)
      PROVE  Framed
  BY <1>1, <1>5 DEF Fail, LookAt, RequestDelete, DeleteRequestFails, TerminationTimeout
<1>6. CASE \/ GetInstance(r) \/ RefuseOwnership(r) \/ GetStaleObjects(r) \/ GetPending(r)
           \/ Reapply(r) \/ ReadForPending(r)
           \/ CheckObject(r) \/ Recreate(r) \/ Recreated(r) \/ ApplyObject(r) \/ SetReady(r)
           \/ LookAtStale(r) \/ PruneObject(r) \/ Pruned(r) \/ PruneTerminated(r)
           \/ ListStored(r) \/ ListPending(r)
           \/ LookAtListed(r) \/ DeleteListed(r) \/ Deleted(r) \/ DeleteTerminated(r)
  BY <1>1, <1>5, <1>6 DEF GetInstance, RefuseOwnership, GetStaleObjects, GetPending,
     Reapply, ReadForPending, CheckObject, Recreate, Recreated, ApplyObject, SetReady,
     LookAtStale, PruneObject, Pruned, AfterPrune, PruneTerminated, ListStored,
     ListPending, LookAtListed, DeleteListed, Deleted, DeleteTerminated
<1>7. CASE Fault(r)
  BY <1>1, <1>5, <1>7 DEF Fault, Abort, MisreadInstance, RecreateTimeout, SetNotReady,
     PruneObjectFails, PruneTimeout, DeleteListedFails, DeleteTimeout
<1>8. QED
  BY <1>3, <1>4, <1>6, <1>7 DEF Step

LEMMA FailInductive ==
    ASSUME TypeOK, Inductive, NEW r \in Runs, Active(r), Fail(r)
    PROVE  Inductive'
<1>1. Ended("failed") \in RunState
  BY EndedType DEF Outcomes
<1>2. Ended("failed").pc \in Outcomes
  BY DEF Ended, Outcomes
<1>3. run'[r] = Ended("failed")
  BY DEF Fail, Becomes, TypeOK
<1>4. Facts(r)'
  BY <1>2, <1>3 DEF Outcomes, Facts, ReadsAreFresh, NothingForgotten,
                    WriteAhead, LookedAhead, DoomedUnwanted, ApplyStages, DeleteStages
<1>5. QED
  BY <1>1, <1>2, <1>4, StepFrame DEF Fail, Held

(* Turning to a set or to the prune, with everything wanted recorded and     *)
(* everything else that is recorded doomed.                                  *)
LEMMA EnterSetFacts ==
    ASSUME TypeOK, NEW r \in Runs, NEW m \in RunState, NEW k \in Nat,
           run'[r] = EnterSet(m, k),
           ListMeta(Desired(m)) \subseteq ListAllObjects(record'[m.inst]),
           ListAllObjects(record'[m.inst]) \ ListMeta(Desired(m)) \subseteq m.doomed,
           m.doomed \cap ListMeta(Desired(m)) = {},
           m.looked \cup m.gone = {}
    PROVE  Facts(r)'
<1> DEFINE n == EnterSet(m, k)
<1>1. /\ n.inst = m.inst /\ n.render = m.render /\ n.doomed = m.doomed
      /\ n.looked = m.looked /\ n.gone = m.gone
      /\ n.pc \in {"apply", "prune"}
      /\ n.pc = "apply" => n.todo \subseteq ListMeta(Desired(m))
      /\ n.pc = "prune" => n.todo = m.doomed
  <2>1. CASE k \in DOMAIN m.render
    BY <2>1, DesiredType DEF EnterSet, RunState
  <2>2. CASE k \notin DOMAIN m.render
    BY <2>2 DEF EnterSet, RunState
  <2>3. QED
    BY <2>1, <2>2
<1>2. Desired(n) = Desired(m)
  BY <1>1 DEF Desired
<1>3. /\ Wanted(r)' = ListMeta(Desired(m))
      /\ Listed(r)' = ListAllObjects(record'[m.inst])
  BY <1>1, <1>2 DEF Wanted, Listed
<1>4. ReadsAreFresh(r)' /\ WriteAhead(r)' /\ LookedAhead(r)' /\ DoomedUnwanted(r)'
  BY <1>1, <1>3 DEF ReadsAreFresh, WriteAhead, LookedAhead, DoomedUnwanted, DeleteStages
<1>5. NothingForgotten(r)'
  BY <1>1, <1>3 DEF NothingForgotten
<1>6. QED
  BY <1>4, <1>5 DEF Facts

LEMMA InductiveInit == Init => Inductive
<1> SUFFICES ASSUME Init PROVE Inductive
  OBVIOUS
<1>1. \A r \in Runs : ~Active(r)
  BY DEF Init, Active, Outcomes, Ended
<1>2. QED
  BY <1>1, EndedFacts DEF Inductive, Solo

LEMMA InductiveStart ==
    ASSUME TypeOK, Inductive, OneAtATime, NEW r \in Runs, Start(r)
    PROVE  Inductive'
<1>1. PICK i \in Instances, n \in RunState :
          /\ MayStart(r, i) /\ Becomes(r, n)
          /\ n.inst = i /\ n.doomed = {} /\ n.looked = {} /\ n.gone = {}
          /\ n.pc = "get" \/ (n.pc = "list" /\ n.render = << >>)
          /\ UNCHANGED <<record, cluster, faults>>
  BY StartBecomes
<1>2. run'[r] = n /\ \A q \in Runs \ {r} : run'[q] = run[q]
  BY <1>1 DEF Becomes, TypeOK
<1>3. \A q \in Runs \ {r} : Active(q) => run[q].inst # i
  BY <1>1 DEF MayStart, OneAtATime
<1>4. Solo'
  BY <1>1, <1>2, <1>3 DEF Inductive, Solo, Active
<1>5. ASSUME NEW q \in Runs \ {r} PROVE Facts(q)'
  <2>1. \A o : Held(o, run[q].inst)' => Held(o, run[q].inst)
    BY <1>1, <1>2 DEF Held
  <2>2. QED
    BY <1>1, <1>2, <2>1, FactsKept DEF Inductive
<1>6. Facts(r)'
  <2>1. n.render = << >> => Desired(n) = {}
    BY DEF Desired
  <2>2. n.render = << >> => Wanted(r)' = {}
    BY <1>2, <2>1 DEF Wanted, ListMeta
  <2>3. QED
    BY <1>1, <1>2, <2>2 DEF Facts, ReadsAreFresh, NothingForgotten, WriteAhead,
                            LookedAhead, DoomedUnwanted, ApplyStages, DeleteStages
<1>7. QED
  BY <1>4, <1>5, <1>6 DEF Inductive

(* A run that reads: the memory changes, the API does not. *)
LEMMA ReaderFrame ==
    ASSUME TypeOK, Inductive, NEW r \in Runs, NEW m \in RunState, Active(r),
           Becomes(r, m), m.inst = run[r].inst, UNCHANGED <<record, cluster>>,
           Facts(r)'
    PROVE  Inductive'
BY StepFrame DEF Held

LEMMA InductiveReads ==
    ASSUME TypeOK, Inductive, NEW r \in Runs,
           \/ GetInstance(r) \/ RefuseOwnership(r) \/ MisreadInstance(r)
           \/ GetStaleObjects(r) \/ GetPending(r) \/ Reapply(r) \/ ReadForPending(r)
           \/ ListStored(r) \/ ListPending(r)
    PROVE  Inductive'
<1> DEFINE m == run[r]
           found == record[m.inst]
<1>1. m \in RunState /\ m.inst \in Instances /\ found \in Records(Owners)
  BY DEF TypeOK, RunState
<1>2. /\ ListMeta(found.inv) \subseteq Objects /\ PendingObjects(found) \subseteq Objects
      /\ found.exists \in BOOLEAN /\ found.inv \in Inventories
  BY <1>1, PendingObjectsType DEF Records
<1>3. ASSUME NEW n, Becomes(r, n) PROVE run'[r] = n
  BY <1>3 DEF Becomes, TypeOK
<1>4. ASSUME NEW n, n.render = m.render, n.inst = m.inst, run'[r] = n,
             UNCHANGED <<record, cluster>>
      PROVE  Wanted(r)' = Wanted(r) /\ Listed(r)' = Listed(r)
  BY <1>4 DEF Wanted, Listed, Desired
<1>5. CASE GetInstance(r)
  <2> DEFINE n == [Goto(m, "stale") EXCEPT !.exists = found.exists,
                                           !.predecessor = found.inv]
  <2>1. n \in RunState
    BY <1>1, <1>2 DEF Goto, RunState, ApplyStages
  <2>2. /\ n.pc = "stale" /\ n.inst = m.inst /\ n.render = m.render
        /\ n.looked = m.looked /\ n.gone = m.gone
        /\ n.exists = found.exists /\ n.predecessor = found.inv /\ n.doomed = m.doomed
    BY <1>1 DEF Goto, RunState
  <2>3. run'[r] = n /\ Active(r) /\ m.pc = "get" /\ UNCHANGED <<record, cluster>>
    BY <1>3, <1>5 DEF GetInstance, At, Active, Outcomes
  <2> HIDE DEF n
  <2>4. Facts(r)'
    BY <1>4, <2>2, <2>3 DEF Inductive, Facts, ReadsAreFresh, NothingForgotten, WriteAhead, LookedAhead,
                            DoomedUnwanted, ApplyStages, DeleteStages
  <2>5. QED
    BY <1>5, <2>1, <2>2, <2>3, <2>4, ReaderFrame DEF GetInstance, n
<1>6. CASE RefuseOwnership(r)
  BY <1>6, FailInductive DEF RefuseOwnership, At, Active, Outcomes
<1>7. CASE MisreadInstance(r)
  <2> DEFINE n == [Goto(m, "stale") EXCEPT !.exists = FALSE]
  <2>1. n \in RunState
    BY <1>1 DEF Goto, RunState, ApplyStages
  <2>2. /\ n.pc = "stale" /\ n.inst = m.inst /\ n.render = m.render
        /\ n.looked = m.looked /\ n.gone = m.gone
        /\ ~n.exists /\ n.doomed = m.doomed
    BY <1>1 DEF Goto, RunState
  <2>3. run'[r] = n /\ Active(r) /\ m.pc = "get" /\ UNCHANGED <<record, cluster>>
    BY <1>3, <1>7 DEF MisreadInstance, At, Active, Outcomes
  <2> HIDE DEF n
  <2>4. Facts(r)'
    BY <1>4, <2>2, <2>3 DEF Inductive, Facts, ReadsAreFresh, NothingForgotten,
                            WriteAhead, LookedAhead, DoomedUnwanted, ApplyStages, DeleteStages
  <2>5. QED
    BY <1>7, <2>1, <2>2, <2>3, <2>4, ReaderFrame DEF MisreadInstance, n
<1>8. CASE GetStaleObjects(r)
  <2> DEFINE doomed == IF found.exists THEN Diff(found.inv, Desired(m)) ELSE {}
             n == [Goto(m, "pending") EXCEPT !.doomed = doomed]
  <2>1. doomed \in SUBSET Objects
    BY <1>2 DEF Diff
  <2>2. n \in RunState
    BY <1>1, <2>1 DEF Goto, RunState, ApplyStages
  <2>3. /\ n.pc = "pending" /\ n.inst = m.inst /\ n.render = m.render
        /\ n.looked = m.looked /\ n.gone = m.gone
        /\ n.exists = m.exists /\ n.predecessor = m.predecessor /\ n.doomed = doomed
    BY <1>1 DEF Goto, RunState
  <2>4. run'[r] = n /\ Active(r) /\ m.pc = "stale" /\ UNCHANGED <<record, cluster>>
    BY <1>3, <1>8 DEF GetStaleObjects, At, Active, Outcomes
  <2>5. /\ found.exists => ListMeta(found.inv) \ Wanted(r) \subseteq doomed
        /\ doomed \cap Wanted(r) = {}
    BY DEF Diff, Wanted
  <2> HIDE DEF n, doomed
  <2>6. Facts(r)'
    BY <1>4, <2>3, <2>4, <2>5 DEF Inductive, Facts, ReadsAreFresh, NothingForgotten,
                                  WriteAhead, LookedAhead, DoomedUnwanted, ApplyStages, DeleteStages
  <2>7. QED
    BY <1>8, <2>2, <2>3, <2>4, <2>6, ReaderFrame DEF GetStaleObjects, n, doomed
<1>9. CASE GetPending(r)
  <2> DEFINE doomed == m.doomed \cup (PendingObjects(found) \ ListMeta(Desired(m)))
             n == [Goto(m, "record") EXCEPT !.doomed = doomed]
  <2>1. doomed \in SUBSET Objects
    BY <1>1, <1>2 DEF RunState
  <2>2. n \in RunState
    BY <1>1, <2>1 DEF Goto, RunState, ApplyStages
  <2>3. /\ n.pc = "record" /\ n.inst = m.inst /\ n.render = m.render
        /\ n.looked = m.looked /\ n.gone = m.gone
        /\ n.exists = m.exists /\ n.predecessor = m.predecessor /\ n.doomed = doomed
    BY <1>1 DEF Goto, RunState
  <2>4. run'[r] = n /\ Active(r) /\ m.pc = "pending" /\ UNCHANGED <<record, cluster>>
    BY <1>3, <1>9 DEF GetPending, At, Active, Outcomes
  <2>5. found.exists => ListMeta(found.inv) \ Wanted(r) \subseteq m.doomed
    BY <2>4 DEF Inductive, Facts, ReadsAreFresh
  <2>6. /\ Listed(r) \ Wanted(r) \subseteq doomed
        /\ m.doomed \cap Wanted(r) = {} => doomed \cap Wanted(r) = {}
    BY <2>5 DEF Listed, ListAllObjects, Wanted
  <2> HIDE DEF n, doomed
  <2>7. Facts(r)'
    BY <1>4, <2>3, <2>4, <2>6 DEF Inductive, Facts, ReadsAreFresh, NothingForgotten,
                                  WriteAhead, LookedAhead, DoomedUnwanted, ApplyStages, DeleteStages
  <2>8. QED
    BY <1>9, <2>2, <2>3, <2>4, <2>7, ReaderFrame DEF GetPending, n, doomed
<1>10. CASE Reapply(r)
  <2>1. /\ run'[r] = EnterSet(m, 1) /\ Active(r) /\ m.pc = "record"
        /\ UNCHANGED <<record, cluster>> /\ m.exists /\ Desired(m) = m.predecessor
    BY <1>3, <1>10 DEF Reapply, At, Active, Outcomes, SameInventory
  <2>2. /\ found.exists /\ found.inv = Desired(m)
        /\ Listed(r) \ Wanted(r) \subseteq m.doomed
        /\ m.doomed \cap Wanted(r) = {}
        /\ m.looked \cup m.gone = {}
    BY <2>1 DEF Inductive, Facts, ReadsAreFresh, NothingForgotten, LookedAhead,
                DoomedUnwanted, ApplyStages
  <2>3. Facts(r)'
    BY <1>1, <2>1, <2>2, EnterSetFacts DEF Listed, Wanted, ListAllObjects
  <2>4. EnterSet(m, 1) \in RunState /\ EnterSet(m, 1).inst = m.inst
    BY <1>1, EnterSetType DEF EnterSet, RunState
  <2>5. QED
    BY <1>10, <2>1, <2>3, <2>4, ReaderFrame DEF Reapply
<1>11. CASE ReadForPending(r)
  <2>1. Active(r) /\ m.pc = "record" /\ m.exists
    BY <1>11 DEF ReadForPending, At, Active, Outcomes
  <2>2. CASE ~found.exists
    BY <1>11, <2>1, <2>2, FailInductive DEF ReadForPending
  <2>3. CASE found.exists
    <3> DEFINE n == [Goto(m, "savePending") EXCEPT !.seen = found]
    <3>1. n \in RunState
      BY <1>1 DEF Goto, RunState, ApplyStages
    <3>2. /\ n.pc = "savePending" /\ n.inst = m.inst /\ n.render = m.render
          /\ n.looked = m.looked /\ n.gone = m.gone
          /\ n.seen = found /\ n.doomed = m.doomed
      BY <1>1 DEF Goto, RunState
    <3>3. run'[r] = n /\ UNCHANGED <<record, cluster>>
      BY <1>3, <1>11, <2>3 DEF ReadForPending
    <3> HIDE DEF n
    <3>4. Facts(r)'
      BY <1>4, <2>1, <2>3, <3>2, <3>3 DEF Inductive, Facts, ReadsAreFresh,
           NothingForgotten, WriteAhead, LookedAhead, DoomedUnwanted, ApplyStages, DeleteStages
    <3>5. QED
      BY <1>11, <2>1, <2>3, <3>1, <3>2, <3>3, <3>4, ReaderFrame DEF ReadForPending, n
  <2>4. QED
    BY <2>2, <2>3
<1>12. CASE ListStored(r)
  <2>1. Active(r) /\ m.pc = "list"
    BY <1>12 DEF ListStored, At, Active, Outcomes
  <2>2. CASE ~found.exists
    BY <1>12, <2>1, <2>2, FailInductive DEF ListStored
  <2>3. CASE found.exists
    <3> DEFINE n == [Goto(m, "listPending") EXCEPT !.doomed = ListMeta(found.inv)]
    <3>1. n \in RunState
      BY <1>1, <1>2 DEF Goto, RunState, DeleteStages
    <3>2. /\ n.pc = "listPending" /\ n.inst = m.inst /\ n.render = m.render
          /\ n.looked = m.looked /\ n.gone = m.gone
          /\ n.doomed = ListMeta(found.inv)
      BY <1>1 DEF Goto, RunState
    <3>3. run'[r] = n /\ UNCHANGED <<record, cluster>>
      BY <1>3, <1>12, <2>3 DEF ListStored
    <3> HIDE DEF n
    <3>4. Facts(r)'
      BY <1>4, <2>1, <2>3, <3>2, <3>3 DEF Inductive, Facts, ReadsAreFresh,
           NothingForgotten, WriteAhead, LookedAhead, DoomedUnwanted, ApplyStages, DeleteStages
    <3>5. QED
      BY <1>12, <2>1, <2>3, <3>1, <3>2, <3>3, <3>4, ReaderFrame DEF ListStored, n
  <2>4. QED
    BY <2>2, <2>3
<1>13. CASE ListPending(r)
  <2> DEFINE listed == m.doomed \cup PendingObjects(found)
             n == [m EXCEPT !.pc = IF m.wait THEN "mark" ELSE "delete",
                            !.doomed = listed, !.todo = listed]
  <2>1. listed \in SUBSET Objects
    BY <1>1, <1>2 DEF RunState
  <2>2. n \in RunState
    BY <1>1, <2>1 DEF RunState, DeleteStages
  <2>3. /\ n.pc \in {"mark", "delete"} /\ n.inst = m.inst /\ n.render = m.render
        /\ n.looked = m.looked /\ n.gone = m.gone
        /\ n.doomed = listed /\ n.todo = listed
    BY <1>1 DEF RunState
  <2>4. run'[r] = n /\ Active(r) /\ m.pc = "listPending" /\ UNCHANGED <<record, cluster>>
    BY <1>3, <1>13 DEF ListPending, At, Active, Outcomes
  <2>5. /\ Wanted(r) = {} /\ m.looked = {} /\ m.gone = {}
        /\ found.exists => ListMeta(found.inv) \subseteq m.doomed
    BY <2>4 DEF Inductive, Facts, ReadsAreFresh, LookedAhead, DoomedUnwanted, DeleteStages
  <2>6. Listed(r) \subseteq listed
    BY <2>5 DEF Listed, ListAllObjects
  <2> HIDE DEF n, listed
  <2>7. Facts(r)'
    <3>1. run'[r] = n /\ Wanted(r)' = {} /\ Listed(r)' \subseteq listed
      BY <1>4, <2>3, <2>4, <2>5, <2>6
    <3>2. ReadsAreFresh(r)' /\ WriteAhead(r)' /\ LookedAhead(r)'
      BY <2>3, <2>5, <3>1 DEF ReadsAreFresh, WriteAhead, LookedAhead
    <3>3. NothingForgotten(r)' /\ DoomedUnwanted(r)'
      BY <2>3, <3>1 DEF NothingForgotten, DoomedUnwanted, ApplyStages
    <3>4. QED
      BY <3>2, <3>3 DEF Facts
  <2>8. QED
    BY <1>13, <2>2, <2>3, <2>4, <2>7, ReaderFrame DEF ListPending, n, listed
<1>14. QED
  BY <1>5, <1>6, <1>7, <1>8, <1>9, <1>10, <1>11, <1>12, <1>13

(* The writes of the record: each leaves the records of other instances and  *)
(* the cluster alone.                                                        *)
LEMMA InductiveWrites ==
    ASSUME TypeOK, Inductive, NEW r \in Runs,
           \/ Install(r) \/ SavePending(r) \/ UpdateInventory(r)
           \/ SetDeleting(r) \/ DeleteRecord(r)
    PROVE  Inductive'
<1> DEFINE m == run[r]
           found == record[m.inst]
<1>1. m \in RunState /\ m.inst \in Instances /\ found \in Records(Owners)
  BY DEF TypeOK, RunState
<1>2. ASSUME NEW n, Becomes(r, n) PROVE run'[r] = n
  BY <1>2 DEF Becomes, TypeOK
<1>3. ASSUME NEW n \in RunState, NEW rec, Active(r), Becomes(r, n),
             n.inst = m.inst \/ n.pc \in Outcomes,
             record' = [record EXCEPT ![m.inst] = rec], UNCHANGED cluster, Facts(r)'
      PROVE  Inductive'
  <2>1. \A j \in Instances \ {m.inst} :
            record'[j] = record[j] /\ \A o : Held(o, j)' => Held(o, j)
    BY <1>1, <1>3 DEF TypeOK, Held
  <2>2. QED
    BY <1>3, <2>1, StepFrame
<1>4. ASSUME NEW rec, record' = [record EXCEPT ![m.inst] = rec]
      PROVE  record'[m.inst] = rec
  BY <1>1, <1>4 DEF TypeOK
<1>5. EnterSet(m, 1) \in RunState /\ EnterSet(m, 1).inst = m.inst
  BY <1>1, EnterSetType DEF EnterSet, RunState
<1>6. Ended("done") \in RunState /\ Ended("done").pc \in Outcomes
  BY EndedType DEF Outcomes, Ended
<1>7. ASSUME run'[r] = Ended("done")
      PROVE  Facts(r)'
  BY <1>6, <1>7 DEF Outcomes, Facts, ReadsAreFresh, NothingForgotten,
                    WriteAhead, LookedAhead, DoomedUnwanted, ApplyStages, DeleteStages
<1>8. CASE Install(r)
  <2> DEFINE rec == StoredRecord(found, Desired(m), m.bundle)
  <2>1. /\ Active(r) /\ m.pc = "record" /\ Becomes(r, EnterSet(m, 1))
        /\ record' = [record EXCEPT ![m.inst] = rec] /\ UNCHANGED cluster
    BY <1>8 DEF Install, WriteRecord, At, Active, Outcomes
  <2>2. ListAllObjects(rec) = ListMeta(Desired(m))
    BY DEF StoredRecord, ListAllObjects, PendingObjects
  <2>3. m.doomed \cap ListMeta(Desired(m)) = {} /\ m.looked \cup m.gone = {}
    BY <2>1 DEF Inductive, Facts, LookedAhead, DoomedUnwanted, Wanted, ApplyStages
  <2> HIDE DEF rec
  <2>4. Facts(r)'
    BY <1>1, <1>2, <1>4, <2>1, <2>2, <2>3, EnterSetFacts
  <2>5. QED
    BY <1>3, <1>5, <2>1, <2>4
<1>9. CASE SavePending(r)
  <2> DEFINE rec == PendingRecord(found, m.seen, Desired(m))
             n == [m EXCEPT !.seen = NoRecord(NoBundle)]
  <2>1. /\ Active(r) /\ m.pc = "savePending" /\ Becomes(r, EnterSet(n, 1))
        /\ record' = [record EXCEPT ![m.inst] = rec] /\ UNCHANGED cluster
    BY <1>9 DEF SavePending, At, Active, Outcomes
  <2>2. NoRecord(NoBundle) \in Records(Owners)
    BY DEF NoRecord, Records, Owners, Inventories
  <2>3. /\ n \in RunState /\ n.inst = m.inst /\ n.doomed = m.doomed
        /\ n.render = m.render /\ n.looked = m.looked /\ n.gone = m.gone
    BY <1>1, <2>2 DEF RunState
  <2>4. Desired(n) = Desired(m)
    BY <2>3 DEF Desired
  <2>5. ListAllObjects(rec) = ListMeta(m.seen.inv) \cup ListMeta(Desired(m))
    BY DEF PendingRecord, ListAllObjects, PendingObjects
  <2>6. /\ found.exists /\ m.seen = found
        /\ Listed(r) \ Wanted(r) \subseteq m.doomed
        /\ m.doomed \cap Wanted(r) = {}
        /\ m.looked \cup m.gone = {}
    BY <2>1 DEF Inductive, Facts, ReadsAreFresh, NothingForgotten, LookedAhead,
                DoomedUnwanted, ApplyStages
  <2>7. ListMeta(m.seen.inv) \subseteq Listed(r)
    BY <2>6 DEF Listed, ListAllObjects
  <2> HIDE DEF rec, n
  <2>8. EnterSet(n, 1) \in RunState /\ EnterSet(n, 1).inst = m.inst
    <3>1. EnterSet(n, 1) \in RunState
      BY <2>3, EnterSetType
    <3>2. EnterSet(n, 1).inst = n.inst
      BY <2>3 DEF EnterSet, RunState
    <3>3. QED
      BY <2>3, <3>1, <3>2
  <2>9. Facts(r)'
    <3>1. ListMeta(Desired(n)) \subseteq ListAllObjects(record'[n.inst])
      BY <1>4, <2>1, <2>3, <2>4, <2>5
    <3>2. ListAllObjects(record'[n.inst]) \ ListMeta(Desired(n)) \subseteq n.doomed
      BY <1>4, <2>1, <2>3, <2>4, <2>5, <2>6, <2>7 DEF Wanted
    <3>3. n.doomed \cap ListMeta(Desired(n)) = {} /\ n.looked \cup n.gone = {}
      BY <2>3, <2>4, <2>6 DEF Wanted
    <3>4. QED
      BY <1>2, <2>1, <2>3, <3>1, <3>2, <3>3, EnterSetFacts
  <2>10. QED
    BY <1>3, <2>1, <2>8, <2>9
<1>10. CASE UpdateInventory(r)
  <2>1. Active(r)
    BY <1>10 DEF UpdateInventory, At, Active, Outcomes
  <2>2. QED
    BY <1>2, <1>3, <1>6, <1>7, <1>10, <2>1 DEF UpdateInventory, WriteRecord
<1>11. CASE SetDeleting(r)
  <2>1. Active(r) /\ m.pc = "mark"
    BY <1>11 DEF SetDeleting, At, Active, Outcomes
  <2>2. CASE ~found.exists
    BY <1>11, <2>1, <2>2, FailInductive DEF SetDeleting
  <2>3. CASE found.exists
    <3> DEFINE rec == [found EXCEPT !.deleting = TRUE]
               n == Goto(m, "delete")
    <3>1. /\ Becomes(r, n) /\ UNCHANGED cluster
          /\ record' = [record EXCEPT ![m.inst] = rec]
      BY <1>1, <1>11, <2>3 DEF SetDeleting, TypeOK
    <3>2. /\ n \in RunState /\ n.pc = "delete" /\ n.inst = m.inst
          /\ n.render = m.render /\ n.doomed = m.doomed /\ n.todo = m.todo
          /\ n.looked = m.looked
      BY <1>1 DEF Goto, RunState, DeleteStages
    <3>3. ListAllObjects(rec) = ListAllObjects(found)
      BY <1>1 DEF Records, ListAllObjects, PendingObjects
    <3>4. Wanted(r) = {} /\ Listed(r) \subseteq m.todo /\ m.looked = {}
      BY <2>1 DEF Inductive, Facts, NothingForgotten, LookedAhead, DoomedUnwanted, DeleteStages
    <3> HIDE DEF rec, n
    <3>5. run'[r] = n /\ Wanted(r)' = Wanted(r) /\ Listed(r)' = Listed(r)
      BY <1>2, <1>4, <3>1, <3>2, <3>3 DEF Wanted, Listed, Desired
    <3>6. Facts(r)'
      BY <3>2, <3>4, <3>5 DEF Facts, ReadsAreFresh,
         NothingForgotten, WriteAhead, LookedAhead, DoomedUnwanted, ApplyStages, DeleteStages
    <3>7. QED
      BY <1>3, <2>1, <3>1, <3>2, <3>6
  <2>4. QED
    BY <2>2, <2>3
<1>12. CASE DeleteRecord(r)
  <2>1. Active(r)
    BY <1>12 DEF DeleteRecord, At, Active, Outcomes
  <2>2. QED
    BY <1>2, <1>3, <1>6, <1>7, <1>12, <2>1 DEF DeleteRecord
<1>13. QED
  BY <1>8, <1>9, <1>10, <1>11, <1>12

(* The apply of the sets only labels objects that are recorded. *)
LEMMA InductiveApplies ==
    ASSUME TypeOK, Inductive, NEW r \in Runs,
           \/ CheckObject(r) \/ Recreate(r) \/ Recreated(r)
           \/ ApplyObject(r) \/ SetReady(r) \/ SetNotReady(r)
    PROVE  Inductive'
<1> DEFINE m == run[r]
<1>1. m \in RunState /\ m.inst \in Instances
  BY DEF TypeOK, RunState
<1>2. Active(r) /\ m.pc = "apply"
  BY DEF CheckObject, Recreate, Recreated, ApplyObject, SetReady, SetNotReady,
         At, Active, Outcomes
<1>3. /\ Wanted(r) \subseteq Listed(r) /\ m.todo \subseteq Wanted(r)
      /\ Listed(r) \ Wanted(r) \subseteq m.doomed
      /\ m.doomed \cap Wanted(r) = {}
      /\ m.looked \subseteq m.todo /\ m.gone \subseteq m.todo
      /\ m.looked \cap m.gone = {} /\ m.todo \subseteq Objects
  BY <1>1, <1>2 DEF Inductive, Facts, WriteAhead, NothingForgotten, LookedAhead,
                    DoomedUnwanted, ApplyStages, RunState
<1>4. ASSUME NEW n, Becomes(r, n) PROVE run'[r] = n
  BY <1>4 DEF Becomes, TypeOK
<1>5. ASSUME NEW n \in RunState, Becomes(r, n), record' = record,
             n.pc = m.pc, n.inst = m.inst, n.render = m.render, n.doomed = m.doomed,
             n.todo \subseteq m.todo, n.looked \subseteq n.todo, n.gone \subseteq n.todo,
             n.looked \cap n.gone = {},
             \A j \in Instances \ {m.inst} : \A o : Held(o, j)' => Held(o, j)
      PROVE  Inductive'
  <2>1. run'[r] = n
    BY <1>4, <1>5
  <2>2. Wanted(r)' = Wanted(r) /\ Listed(r)' = Listed(r)
    BY <1>5, <2>1 DEF Wanted, Listed, Desired
  <2>3. Facts(r)'
    BY <1>2, <1>3, <1>5, <2>1, <2>2 DEF Facts, ReadsAreFresh,
         NothingForgotten, WriteAhead, LookedAhead, DoomedUnwanted, ApplyStages, DeleteStages
  <2>4. QED
    BY <1>2, <1>5, <2>3, StepFrame
<1>6. CASE CheckObject(r)
  <2> DEFINE Skip(o) == [m EXCEPT !.todo = @ \ {o}]
             Look(o) == [m EXCEPT !.looked = @ \cup {o}]
  <2>1. PICK o \in m.todo \ (m.looked \cup m.gone) :
            Becomes(r, Skip(o)) \/ Becomes(r, Look(o))
    BY <1>6 DEF CheckObject
  <2>2. PICK n \in {Skip(o), Look(o)} : Becomes(r, n)
    BY <2>1
  <2>3. /\ n \in RunState /\ n.pc = m.pc /\ n.inst = m.inst /\ n.render = m.render
        /\ n.doomed = m.doomed /\ n.gone = m.gone
        /\ \/ n.todo = m.todo \ {o} /\ n.looked = m.looked
           \/ n.todo = m.todo /\ n.looked = m.looked \cup {o}
    BY <1>1, <1>3 DEF RunState
  <2> HIDE DEF Skip, Look
  <2>4. n.todo \subseteq m.todo /\ n.looked \subseteq n.todo /\ n.gone \subseteq n.todo
        /\ n.looked \cap n.gone = {}
    BY <1>3, <2>1, <2>3
  <2>5. record' = record /\ \A j \in Instances \ {m.inst} : \A p : Held(p, j)' => Held(p, j)
    BY <1>6 DEF CheckObject, Held
  <2>6. QED
    BY <1>5, <2>2, <2>3, <2>4, <2>5
<1>7. CASE Recreate(r)
  <2>1. PICK o \in m.todo \ (m.looked \cup m.gone) :
            /\ cluster' = Removed(cluster, o)
            /\ Becomes(r, [m EXCEPT !.gone = @ \cup {o}])
    BY <1>7 DEF Recreate
  <2> DEFINE n == [m EXCEPT !.gone = @ \cup {o}]
  <2>2. /\ n \in RunState /\ n.pc = m.pc /\ n.inst = m.inst /\ n.render = m.render
        /\ n.doomed = m.doomed /\ n.todo = m.todo /\ n.looked = m.looked
        /\ n.gone = m.gone \cup {o}
    BY <1>1, <1>3, <2>1 DEF RunState
  <2>3. Becomes(r, n)
    BY <2>1
  <2> HIDE DEF n
  <2>4. n.looked \subseteq n.todo /\ n.gone \subseteq n.todo /\ n.looked \cap n.gone = {}
    BY <1>3, <2>1, <2>2
  <2>5. \A j \in Instances \ {m.inst} : \A p : Held(p, j)' => Held(p, j)
    BY <1>3, <2>1, RemovedObjects DEF Held, TypeOK
  <2>6. QED
    BY <1>5, <1>7, <2>2, <2>3, <2>4, <2>5 DEF Recreate
<1>8. CASE Recreated(r)
  <2>1. PICK o \in m.gone :
            Becomes(r, [m EXCEPT !.gone = @ \ {o}, !.looked = @ \cup {o}])
    BY <1>8 DEF Recreated
  <2> DEFINE n == [m EXCEPT !.gone = @ \ {o}, !.looked = @ \cup {o}]
  <2>2. /\ n \in RunState /\ n.pc = m.pc /\ n.inst = m.inst /\ n.render = m.render
        /\ n.doomed = m.doomed /\ n.todo = m.todo /\ n.looked = m.looked \cup {o}
        /\ n.gone = m.gone \ {o}
    BY <1>1, <1>3, <2>1 DEF RunState
  <2>3. Becomes(r, n)
    BY <2>1
  <2> HIDE DEF n
  <2>4. n.looked \subseteq n.todo /\ n.gone \subseteq n.todo /\ n.looked \cap n.gone = {}
    BY <1>3, <2>1, <2>2
  <2>5. record' = record /\ \A j \in Instances \ {m.inst} : \A p : Held(p, j)' => Held(p, j)
    BY <1>8 DEF Recreated, Held
  <2>6. QED
    BY <1>5, <2>2, <2>3, <2>4, <2>5
<1>9. CASE ApplyObject(r)
  <2>1. PICK o \in m.looked :
            /\ cluster' = Applied(cluster, o, m.inst)
            /\ Becomes(r, [m EXCEPT !.todo = @ \ {o}, !.looked = @ \ {o}])
    BY <1>9 DEF ApplyObject
  <2> DEFINE n == [m EXCEPT !.todo = @ \ {o}, !.looked = @ \ {o}]
  <2>2. /\ n \in RunState /\ n.pc = m.pc /\ n.inst = m.inst /\ n.render = m.render
        /\ n.doomed = m.doomed /\ n.todo = m.todo \ {o} /\ n.looked = m.looked \ {o}
        /\ n.gone = m.gone
    BY <1>1 DEF RunState
  <2>3. Becomes(r, n)
    BY <2>1
  <2> HIDE DEF n
  <2>4. n.todo \subseteq m.todo /\ n.looked \subseteq n.todo /\ n.gone \subseteq n.todo
        /\ n.looked \cap n.gone = {}
    BY <1>3, <2>1, <2>2
  <2>5. ASSUME NEW j \in Instances \ {m.inst}, NEW p, Held(p, j)'
        PROVE  Held(p, j)
    <3>1. CASE p = o
      BY <1>1, <1>3, <2>1, <2>5, <3>1 DEF Held, Applied, TypeOK
    <3>2. CASE p # o
      BY <2>1, <2>5, <3>2 DEF Held, Applied
    <3>3. QED
      BY <3>1, <3>2
  <2>6. QED
    BY <1>5, <1>9, <2>2, <2>3, <2>4, <2>5 DEF ApplyObject
<1>10. CASE SetReady(r)
  <2>1. m.set + 1 \in Nat
    BY <1>1 DEF RunState
  <2>2. EnterSet(m, m.set + 1) \in RunState /\ EnterSet(m, m.set + 1).inst = m.inst
    <3>1. \A k : EnterSet(m, k).inst = m.inst
      BY <1>1 DEF EnterSet, RunState
    <3>2. QED
      BY <1>1, <2>1, <3>1, EnterSetType
  <2>3. /\ Becomes(r, EnterSet(m, m.set + 1)) /\ UNCHANGED <<record, cluster>>
        /\ run'[r] = EnterSet(m, m.set + 1) /\ m.todo = {}
    BY <1>4, <1>10 DEF SetReady
  <2>4. m.looked \cup m.gone = {}
    BY <1>3, <2>3
  <2>5. Facts(r)'
    BY <1>1, <1>3, <2>1, <2>3, <2>4, EnterSetFacts DEF Listed, Wanted
  <2>6. QED
    BY <1>2, <2>2, <2>3, <2>5, ReaderFrame
<1>11. CASE SetNotReady(r)
  <2> DEFINE n == [m EXCEPT !.pc = "prune", !.todo = m.doomed, !.unready = TRUE]
  <2>1. /\ n \in RunState /\ n.pc = "prune" /\ n.inst = m.inst
        /\ n.render = m.render /\ n.doomed = m.doomed /\ n.todo = m.doomed
        /\ n.looked = m.looked
    BY <1>1 DEF RunState, ApplyStages
  <2>2. Becomes(r, n) /\ UNCHANGED <<record, cluster>> /\ run'[r] = n /\ m.todo = {}
    BY <1>4, <1>11 DEF SetNotReady
  <2>3. m.looked = {}
    BY <1>3, <2>2
  <2> HIDE DEF n
  <2>4. Wanted(r)' = Wanted(r) /\ Listed(r)' = Listed(r)
    BY <2>1, <2>2 DEF Wanted, Listed, Desired
  <2>5. Facts(r)'
    BY <1>3, <2>1, <2>2, <2>3, <2>4 DEF Facts, ReadsAreFresh,
         NothingForgotten, WriteAhead, LookedAhead, DoomedUnwanted, ApplyStages, DeleteStages
  <2>6. QED
    BY <1>2, <2>1, <2>2, <2>5, ReaderFrame
<1>12. QED
  BY <1>6, <1>7, <1>8, <1>9, <1>10, <1>11

(* An object that is read is deletable or out of the instance's hands, and a *)
(* delete request takes the one that was found deletable out of them.        *)
LEMMA InductiveRequests ==
    ASSUME TypeOK, Inductive, NEW r \in Runs, NEW stage \in {"prune", "delete"},
           LookAt(r, stage) \/ RequestDelete(r, stage) \/ DeleteRequestFails(r, stage)
    PROVE  Inductive'
<1> DEFINE m == run[r]
<1>1. m \in RunState /\ m.inst \in Instances
  BY DEF TypeOK, RunState
<1>2. Active(r) /\ m.pc = stage
  BY DEF LookAt, RequestDelete, DeleteRequestFails, At, Active, Outcomes
<1>3. /\ m.looked \subseteq m.todo \ Keep /\ m.todo \subseteq Objects
      /\ m.gone \subseteq Objects
  BY <1>1, <1>2 DEF Inductive, Facts, LookedAhead, RunState
<1>4. PICK i \in Instances : i = m.inst
  BY <1>1
<1>5. ASSUME NEW n \in RunState, Becomes(r, n), record' = record,
             n.pc = m.pc, n.inst = m.inst, n.render = m.render, n.doomed = m.doomed,
             n.todo \subseteq m.todo, n.looked \subseteq n.todo \ Keep,
             \A j \in Instances : \A o : Held(o, j)' => Held(o, j),
             ~n.erred => ~m.erred /\ \A o \in m.todo \ n.todo : ~Held(o, i)'
      PROVE  Inductive'
  <2>1. run'[r] = n
    BY <1>5 DEF Becomes, TypeOK
  <2>2. Wanted(r)' = Wanted(r) /\ Listed(r)' = Listed(r)
    BY <1>5, <2>1 DEF Wanted, Listed, Desired
  <2>3. NothingForgotten(r)'
    <3>1. ASSUME ~n.erred, NEW p \in Listed(r) \ Wanted(r), Held(p, i)'
          PROVE  p \in n.todo
      <4>1. Held(p, i)
        BY <1>5, <3>1
      <4>2. p \in m.todo
        BY <1>4, <1>2, <1>5, <3>1, <4>1 DEF Inductive, Facts, NothingForgotten
      <4>3. QED
        BY <1>5, <3>1, <4>2
    <3>2. \A p : Held(p, run[r].inst)' <=> Held(p, i)'
      BY <1>4, <1>5, <2>1 DEF Held
    <3>3. QED
      BY <1>2, <1>5, <2>1, <2>2, <3>1, <3>2 DEF NothingForgotten
  <2>4. ReadsAreFresh(r)' /\ WriteAhead(r)' /\ LookedAhead(r)' /\ DoomedUnwanted(r)'
    BY <1>2, <1>5, <2>1, <2>2 DEF Inductive, Facts, ReadsAreFresh, WriteAhead,
       LookedAhead, DoomedUnwanted, ApplyStages, DeleteStages
  <2>5. QED
    BY <1>2, <1>5, <2>3, <2>4, StepFrame DEF Facts
<1>6. CASE LookAt(r, stage)
  <2>1. UNCHANGED <<record, cluster>> /\ m.looked = {}
    BY <1>6 DEF LookAt
  <2> DEFINE Found(o) == [m EXCEPT !.looked = {o}]
             Passed(o, g) == [m EXCEPT !.todo = @ \ {o}, !.gone = g]
  <2>2. PICK o \in m.todo : \E g \in {m.gone, m.gone \cup {o}} :
            \/ Deletable(o, m.inst) /\ Becomes(r, Found(o))
            \/ ~Deletable(o, m.inst) /\ Becomes(r, Passed(o, g))
    BY <1>6, LookBecomes
  <2>3. PICK g \in {m.gone, m.gone \cup {o}} :
            \/ Deletable(o, m.inst) /\ Becomes(r, Found(o))
            \/ ~Deletable(o, m.inst) /\ Becomes(r, Passed(o, g))
    BY <2>2
  <2>4. \A j \in Instances : \A p : Held(p, j)' <=> Held(p, j)
    BY <2>1 DEF Held
  <2>5. CASE Deletable(o, m.inst) /\ Becomes(r, Found(o))
    <3> DEFINE n == Found(o)
    <3>1. /\ n \in RunState /\ n.pc = m.pc /\ n.inst = m.inst /\ n.render = m.render
          /\ n.doomed = m.doomed /\ n.todo = m.todo /\ n.looked = {o} /\ n.erred = m.erred
      BY <1>1, <1>3, <2>2 DEF RunState
    <3> HIDE DEF n
    <3>2. {o} \subseteq m.todo \ Keep
      BY <2>2, <2>5 DEF Deletable
    <3>3. Becomes(r, n)
      BY <2>5 DEF n
    <3>4. ~n.erred => ~m.erred /\ \A p \in m.todo \ n.todo : ~Held(p, i)'
      BY <3>1
    <3>5. QED
      BY <1>5, <2>1, <2>4, <3>1, <3>2, <3>3, <3>4
  <2>6. CASE ~Deletable(o, m.inst) /\ Becomes(r, Passed(o, g))
    <3> DEFINE n == Passed(o, g)
    <3>1. g \in SUBSET Objects
      BY <1>3, <2>2, <2>3
    <3>2. /\ n \in RunState /\ n.pc = m.pc /\ n.inst = m.inst /\ n.render = m.render
          /\ n.doomed = m.doomed /\ n.todo = m.todo \ {o} /\ n.looked = m.looked
          /\ n.erred = m.erred
      BY <1>1, <3>1 DEF RunState
    <3> HIDE DEF n
    <3>3. ~Held(o, i)
      BY <1>4, <2>6 DEF Deletable, Held
    <3>4. ~Held(o, i)'
      BY <2>4, <3>3
    <3>5. \A p \in m.todo \ n.todo : p = o
      BY <3>2
    <3>6. ~n.erred => ~m.erred /\ \A p \in m.todo \ n.todo : ~Held(p, i)'
      BY <3>2, <3>4, <3>5
    <3>7. Becomes(r, n)
      BY <2>6 DEF n
    <3>8. n.todo \subseteq m.todo /\ n.looked \subseteq n.todo \ Keep
      BY <2>1, <3>2
    <3>9. QED
      BY <1>5, <2>1, <2>4, <3>2, <3>6, <3>7, <3>8
  <2>7. QED
    BY <2>3, <2>5, <2>6
<1>7. CASE RequestDelete(r, stage)
  <2>1. PICK o \in m.looked :
            /\ cluster' = Removed(cluster, o)
            /\ Becomes(r, [m EXCEPT !.todo = @ \ {o}, !.looked = {},
                                    !.gone = @ \cup {o}])
    BY <1>7 DEF RequestDelete
  <2> DEFINE n == [m EXCEPT !.todo = @ \ {o}, !.looked = {}, !.gone = @ \cup {o}]
  <2>2. o \in Objects
    BY <1>3, <2>1
  <2>3. /\ n \in RunState /\ n.pc = m.pc /\ n.inst = m.inst /\ n.render = m.render
        /\ n.doomed = m.doomed /\ n.todo = m.todo \ {o} /\ n.looked = {}
        /\ n.erred = m.erred
    BY <1>1, <2>2 DEF RunState
  <2>4. Becomes(r, n)
    BY <2>1
  <2> HIDE DEF n
  <2>5. /\ cluster'[o].phase # "live"
        /\ \A p : p # o => cluster'[p] = cluster[p]
    BY <2>1, <2>2, RemovedObjects DEF TypeOK
  <2>6. /\ \A j \in Instances : \A p : Held(p, j)' => Held(p, j)
        /\ ~Held(o, i)'
    BY <2>5 DEF Held
  <2>7. \A p \in m.todo \ n.todo : p = o
    BY <2>3
  <2>8. ~n.erred => ~m.erred /\ \A p \in m.todo \ n.todo : ~Held(p, i)'
    BY <2>3, <2>6, <2>7
  <2>9. QED
    BY <1>5, <1>7, <2>3, <2>4, <2>6, <2>8 DEF RequestDelete
<1>8. CASE DeleteRequestFails(r, stage)
  <2>1. PICK o : Becomes(r, [m EXCEPT !.todo = @ \ {o}, !.looked = {}, !.erred = TRUE])
    BY <1>8 DEF DeleteRequestFails
  <2> DEFINE n == [m EXCEPT !.todo = @ \ {o}, !.looked = {}, !.erred = TRUE]
  <2>2. /\ n \in RunState /\ n.pc = m.pc /\ n.inst = m.inst /\ n.render = m.render
        /\ n.doomed = m.doomed /\ n.todo = m.todo \ {o} /\ n.looked = {} /\ n.erred
    BY <1>1 DEF RunState
  <2>3. Becomes(r, n)
    BY <2>1
  <2> HIDE DEF n
  <2>4. record' = record /\ \A j \in Instances : \A p : Held(p, j)' => Held(p, j)
    BY <1>8 DEF DeleteRequestFails, Held
  <2>5. QED
    BY <1>5, <2>2, <2>3, <2>4
<1>9. QED
  BY <1>6, <1>7, <1>8

(* After a loop without errors nothing is left to remove. *)
LEMMA InductiveEnds ==
    ASSUME TypeOK, Inductive, NEW r \in Runs,
           \/ Pruned(r) \/ PruneTerminated(r) \/ Deleted(r) \/ DeleteTerminated(r)
           \/ Abort(r) \/ RecreateTimeout(r) \/ PruneTimeout(r) \/ DeleteTimeout(r)
    PROVE  Inductive'
<1> DEFINE m == run[r]
<1>1. m \in RunState /\ m.inst \in Instances /\ Active(r)
  BY DEF TypeOK, RunState, Pruned, PruneTerminated, Deleted, DeleteTerminated, Abort,
         RecreateTimeout, PruneTimeout, DeleteTimeout, TerminationTimeout, At, Active, Outcomes
<1>2. ASSUME NEW n, Becomes(r, n) PROVE run'[r] = n
  BY <1>2 DEF Becomes, TypeOK
<1>3. ASSUME NEW stage \in {"pruneWait", "update", "deleteWait", "forget"},
             Becomes(r, Goto(m, stage)), UNCHANGED <<record, cluster>>,
             stage \in ApplyStages <=> m.pc \in ApplyStages,
             \A o \in Listed(r) \ Wanted(r) : ~Held(o, m.inst)
      PROVE  Inductive'
  <2> DEFINE n == Goto(m, stage)
  <2>1. /\ n \in RunState /\ n.pc = stage /\ n.inst = m.inst
        /\ n.render = m.render /\ n.doomed = m.doomed
    BY <1>1 DEF Goto, RunState, ApplyStages, DeleteStages
  <2>2. run'[r] = n
    BY <1>2, <1>3
  <2> HIDE DEF n
  <2>3. Wanted(r)' = Wanted(r) /\ Listed(r)' = Listed(r)
    BY <1>3, <2>1, <2>2 DEF Wanted, Listed, Desired
  <2>4. \A o : Held(o, m.inst)' => Held(o, m.inst)
    BY <1>3, <2>1, <2>2 DEF Held
  <2>5. ReadsAreFresh(r)' /\ WriteAhead(r)' /\ LookedAhead(r)'
    BY <2>1, <2>2 DEF ReadsAreFresh, WriteAhead, LookedAhead
  <2>6. m.pc \in ApplyStages \cup DeleteStages
    BY <1>1 DEF RunState, Active
  <2>7. DoomedUnwanted(r)'
    BY <1>3, <2>1, <2>2, <2>3, <2>6 DEF Inductive, Facts, DoomedUnwanted,
         ApplyStages, DeleteStages
  <2>8. NothingForgotten(r)'
    BY <1>3, <2>1, <2>2, <2>3, <2>4 DEF NothingForgotten, Held
  <2>9. QED
    BY <1>1, <1>3, <2>1, <2>5, <2>7, <2>8, ReaderFrame DEF Facts, n
<1>4. CASE Pruned(r)
  <2>1. m.pc = "prune" /\ m.todo = {}
    BY <1>4 DEF Pruned, At
  <2>2. CASE Fail(r)
    BY <1>1, <2>2, FailInductive
  <2>3. CASE ~Fail(r)
    <3>1. \A o \in Listed(r) \ Wanted(r) : ~Held(o, m.inst)
      BY <1>4, <2>1, <2>3 DEF Pruned, Inductive, Facts, NothingForgotten
    <3>2. /\ Becomes(r, Goto(m, "pruneWait")) \/ Becomes(r, Goto(m, "update"))
          /\ UNCHANGED <<record, cluster>>
      BY <1>4, <2>3 DEF Pruned, AfterPrune
    <3>3. QED
      BY <1>3, <2>1, <3>1, <3>2 DEF ApplyStages
  <2>4. QED
    BY <2>2, <2>3
<1>5. CASE PruneTerminated(r)
  <2>1. m.pc = "pruneWait"
    BY <1>5 DEF PruneTerminated, At
  <2>2. CASE Fail(r)
    BY <1>1, <2>2, FailInductive
  <2>3. CASE ~Fail(r)
    <3>1. \A o \in Listed(r) \ Wanted(r) : ~Held(o, m.inst)
      BY <2>1 DEF Inductive, Facts, NothingForgotten
    <3>2. Becomes(r, Goto(m, "update")) /\ UNCHANGED <<record, cluster>>
      BY <1>5, <2>3 DEF PruneTerminated, AfterPrune
    <3>3. QED
      BY <1>3, <2>1, <3>1, <3>2 DEF ApplyStages
  <2>4. QED
    BY <2>2, <2>3
<1>6. CASE Deleted(r)
  <2>1. m.pc = "delete" /\ m.todo = {}
    BY <1>6 DEF Deleted, At
  <2>2. CASE m.erred
    BY <1>1, <1>6, <2>2, FailInductive DEF Deleted
  <2>3. CASE ~m.erred
    <3>1. \A o \in Listed(r) \ Wanted(r) : ~Held(o, m.inst)
      BY <2>1, <2>3 DEF Inductive, Facts, NothingForgotten
    <3>2. /\ Becomes(r, Goto(m, "deleteWait")) \/ Becomes(r, Goto(m, "forget"))
          /\ UNCHANGED <<record, cluster>>
      BY <1>6, <2>3 DEF Deleted
    <3>3. QED
      BY <1>3, <2>1, <3>1, <3>2 DEF ApplyStages
  <2>4. QED
    BY <2>2, <2>3
<1>7. CASE DeleteTerminated(r)
  <2>1. m.pc = "deleteWait"
    BY <1>7 DEF DeleteTerminated, At
  <2>2. \A o \in Listed(r) \ Wanted(r) : ~Held(o, m.inst)
    BY <2>1 DEF Inductive, Facts, NothingForgotten
  <2>3. QED
    BY <1>3, <1>7, <2>1, <2>2 DEF DeleteTerminated, ApplyStages
<1>8. CASE Abort(r)
  BY <1>8, FailInductive DEF Abort
<1>9. CASE RecreateTimeout(r) \/ PruneTimeout(r) \/ DeleteTimeout(r)
  BY <1>1, <1>9, FailInductive
     DEF RecreateTimeout, PruneTimeout, DeleteTimeout, TerminationTimeout
<1>10. QED
  BY <1>4, <1>5, <1>6, <1>7, <1>8, <1>9

LEMMA InductiveNext ==
    ASSUME OneAtATime
    PROVE  TypeOK /\ Inductive /\ [Next]_vars => Inductive'
<1> SUFFICES ASSUME TypeOK, Inductive, [Next]_vars PROVE Inductive'
  OBVIOUS
<1>1. CASE UNCHANGED vars
  <2>1. \A q \in Runs : Facts(q)'
    BY <1>1, FactsKept DEF vars, Inductive, Held
  <2>2. QED
    BY <1>1, <2>1 DEF vars, Inductive, Solo, Active
<1>2. ASSUME NEW r \in Runs, Start(r)
      PROVE  Inductive'
  BY <1>2, InductiveStart
<1>3. ASSUME NEW r \in Runs, Step(r)
      PROVE  Inductive'
  BY <1>3, InductiveReads, InductiveWrites, InductiveApplies, InductiveRequests,
     InductiveEnds DEF Step, LookAtStale, PruneObject, LookAtListed, DeleteListed
<1>4. ASSUME NEW r \in Runs, Fault(r)
      PROVE  Inductive'
  BY <1>4, InductiveReads, InductiveApplies, InductiveRequests, InductiveEnds
     DEF Fault, PruneObjectFails, DeleteListedFails
<1>5. ASSUME NEW o \in Objects, ClearFinalizer(o)
      PROVE  Inductive'
  <2>1. \A q \in Runs : \A p : Held(p, run[q].inst)' => Held(p, run[q].inst)
    BY <1>5 DEF ClearFinalizer, Held, TypeOK, Absent
  <2>2. \A q \in Runs : Facts(q)'
    BY <1>5, <2>1, FactsKept DEF ClearFinalizer, Inductive
  <2>3. QED
    BY <1>5, <2>2 DEF ClearFinalizer, Inductive, Solo, Active
<1>6. CASE Quiet
  BY <1>1, <1>6 DEF Quiet
<1>7. QED
  BY <1>1, <1>2, <1>3, <1>4, <1>5, <1>6 DEF Next

LEMMA InductiveAlways ==
    ASSUME OneAtATime
    PROVE  Spec => []Inductive
<1>1. Init => Inductive
  BY InductiveInit
<1>2. TypeOK /\ Inductive /\ [Next]_vars => Inductive'
  BY InductiveNext
<1>3. QED
  BY <1>1, <1>2, TypeCorrect, PTL DEF Spec

(* While the operators run one command per instance at a time, what a run    *)
(* has read stays fresh, what it applies is recorded before, and nothing     *)
(* recorded is forgotten on the way to its prune or its delete.              *)
THEOREM InductiveHolds ==
    ASSUME Serial
    PROVE  Spec => []Inductive
BY InductiveAlways DEF OneAtATime

--------------------------------------------------------------------------------
(***************************************************************************)
(* No object is lost.                                                      *)
(***************************************************************************)

(* A step that leaves an object and the record of its owner alone does not   *)
(* orphan it.                                                                *)
LEMMA NoNewOrphan ==
    ASSUME NEW o \in Objects, Orphan(o)',
           cluster'[o] = cluster[o],
           ListAllObjects(record[cluster[o].owner]) \subseteq
               ListAllObjects(record'[cluster[o].owner])
    PROVE  Orphan(o)
BY DEF Orphan

LEMMA OrphanWrites ==
    ASSUME TypeOK, Inductive, NEW r \in Runs,
           \/ Install(r) \/ SavePending(r) \/ UpdateInventory(r)
           \/ SetDeleting(r) \/ DeleteRecord(r),
           ~ReplacesPending(r), ~InstallsOverRecord(r),
           NEW o \in Objects, Orphan(o)'
    PROVE  Orphan(o)
<1> DEFINE m == run[r]
           found == record[m.inst]
           i == cluster[o].owner
<1>1. m \in RunState /\ m.inst \in Instances /\ found \in Records(Owners)
  BY DEF TypeOK, RunState
<1>2. cluster' = cluster /\ i \in Instances /\ o \notin Keep /\ cluster[o].phase = "live"
  <2>1. cluster' = cluster
    BY DEF Install, SavePending, UpdateInventory, SetDeleting, DeleteRecord, Fail
  <2>2. QED
    BY <2>1 DEF Orphan, TypeOK, ClusterObject
<1>3. ASSUME NEW rec, record' = [record EXCEPT ![m.inst] = rec]
      PROVE  /\ record'[m.inst] = rec
             /\ i # m.inst => record'[i] = record[i]
  BY <1>1, <1>2, <1>3 DEF TypeOK
<1>4. CASE i # m.inst
  <2>1. record'[i] = record[i]
    <3>1. ASSUME SetDeleting(r)
          PROVE  record'[i] = record[i]
      BY <1>1, <1>2, <1>4, <3>1 DEF SetDeleting, Fail, TypeOK
    <3>2. QED
      BY <1>3, <1>4, <3>1 DEF Install, SavePending, UpdateInventory, WriteRecord, DeleteRecord
  <2>2. QED
    BY <1>2, <2>1, NoNewOrphan
<1>5. CASE i = m.inst /\ Install(r)
  <2>1. ~found.exists
    BY <1>5 DEF InstallsOverRecord
  <2>2. QED
    BY <1>2, <1>5, <2>1 DEF Orphan, ListAllObjects
<1>6. CASE i = m.inst /\ SavePending(r)
  <2>1. found.exists /\ m.seen = found /\ ~found.hasPending
    BY <1>6 DEF SavePending, At, Inductive, Facts, ReadsAreFresh, ReplacesPending
  <2>2. record'[m.inst] = PendingRecord(found, m.seen, Desired(m))
    BY <1>3, <1>6 DEF SavePending
  <2>3. ListAllObjects(found) \subseteq ListAllObjects(record'[m.inst])
    BY <2>1, <2>2 DEF PendingRecord, ListAllObjects, PendingObjects
  <2>4. QED
    BY <1>2, <1>6, <2>3, NoNewOrphan
<1>7. CASE i = m.inst /\ UpdateInventory(r)
  <2>1. record'[m.inst] = StoredRecord(found, Desired(m), m.bundle)
    BY <1>3, <1>7 DEF UpdateInventory, WriteRecord
  <2>2. ListAllObjects(record'[m.inst]) = Wanted(r)
    BY <2>1 DEF StoredRecord, ListAllObjects, PendingObjects, Wanted
  <2>3. o \notin Wanted(r)
    BY <1>2, <1>7, <2>2 DEF Orphan
  <2>4. \A p \in Listed(r) \ Wanted(r) : ~Held(p, m.inst)
    BY <1>7 DEF UpdateInventory, At, Inductive, Facts, NothingForgotten
  <2>5. Held(o, m.inst)
    BY <1>2, <1>7 DEF Held
  <2>6. QED
    BY <1>2, <1>7, <2>3, <2>4, <2>5, AbsentAssumption DEF Orphan, Listed
<1>8. CASE i = m.inst /\ SetDeleting(r)
  <2>1. record'[m.inst] \in {found, [found EXCEPT !.deleting = TRUE]}
    BY <1>1, <1>8 DEF SetDeleting, Fail, TypeOK
  <2>2. ListAllObjects([found EXCEPT !.deleting = TRUE]) = ListAllObjects(found)
    BY <1>1 DEF Records, ListAllObjects, PendingObjects
  <2>3. QED
    BY <1>2, <1>8, <2>1, <2>2, NoNewOrphan
<1>9. CASE i = m.inst /\ DeleteRecord(r)
  <2>1. Wanted(r) = {} /\ \A p \in Listed(r) \ Wanted(r) : ~Held(p, m.inst)
    BY <1>9 DEF DeleteRecord, At, Inductive, Facts, NothingForgotten, DoomedUnwanted,
                DeleteStages
  <2>2. Held(o, m.inst)
    BY <1>2, <1>9 DEF Held
  <2>3. QED
    BY <1>2, <1>9, <2>1, <2>2, AbsentAssumption DEF Orphan, Listed
<1>10. QED
  BY <1>4, <1>5, <1>6, <1>7, <1>8, <1>9

(* An applied object is recorded, a deleted one is not live. *)
LEMMA OrphanObjects ==
    ASSUME TypeOK, Inductive, NEW r \in Runs, NEW stage \in {"prune", "delete"},
           Recreate(r) \/ ApplyObject(r) \/ RequestDelete(r, stage),
           NEW o \in Objects, Orphan(o)'
    PROVE  Orphan(o)
<1> DEFINE m == run[r]
<1>1. m \in RunState /\ m.inst \in Instances /\ record' = record
  BY DEF TypeOK, RunState, Recreate, ApplyObject, RequestDelete
<1>2. CASE cluster'[o] = cluster[o]
  BY <1>1, <1>2, NoNewOrphan
<1>3. CASE cluster'[o] # cluster[o] /\ ApplyObject(r)
  <2>1. PICK p \in m.looked : cluster' = Applied(cluster, p, m.inst)
    BY <1>3 DEF ApplyObject
  <2>2. o = p /\ cluster'[o].owner = m.inst
    BY <1>3, <2>1 DEF Applied, TypeOK
  <2>3. o \in Listed(r)
    BY <1>3, <2>1, <2>2 DEF ApplyObject, At, Inductive, Facts, WriteAhead, LookedAhead
  <2>4. QED
    BY <1>1, <2>2, <2>3 DEF Orphan, Listed
<1>4. CASE cluster'[o] # cluster[o] /\ (Recreate(r) \/ RequestDelete(r, stage))
  <2>1. PICK p : cluster' = Removed(cluster, p)
    BY <1>4 DEF Recreate, RequestDelete
  <2>2. o = p
    BY <1>4, <2>1 DEF Removed
  <2>3. QED
    BY <2>1, <2>2, RemovedObjects DEF TypeOK, Orphan
<1>5. QED
  BY <1>2, <1>3, <1>4

LEMMA OrphanNext ==
    ASSUME TypeOK, Inductive, [Next]_vars, NEW o \in Objects, Orphan(o)'
    PROVE  \/ Orphan(o)
           \/ \E r \in Runs : ReplacesPending(r) \/ InstallsOverRecord(r)
<1>1. ASSUME UNCHANGED <<record, cluster>>
      PROVE  Orphan(o)
  BY <1>1 DEF Orphan
<1>2. ASSUME NEW r \in Runs, Start(r)
      PROVE  Orphan(o)
  BY <1>1, <1>2 DEF Start, StartApply, StartDelete
<1>3. ASSUME NEW r \in Runs, Step(r), ~ReplacesPending(r), ~InstallsOverRecord(r)
      PROVE  Orphan(o)
  <2>1. CASE \/ Install(r) \/ SavePending(r) \/ UpdateInventory(r)
             \/ SetDeleting(r) \/ DeleteRecord(r)
    BY <1>3, <2>1, OrphanWrites
  <2>2. CASE Recreate(r) \/ ApplyObject(r) \/ PruneObject(r) \/ DeleteListed(r)
    BY <2>2, OrphanObjects DEF PruneObject, DeleteListed
  <2>3. CASE \/ GetInstance(r) \/ RefuseOwnership(r)
             \/ GetStaleObjects(r) \/ GetPending(r)
             \/ Reapply(r) \/ ReadForPending(r)
             \/ CheckObject(r) \/ Recreated(r) \/ SetReady(r)
             \/ LookAtStale(r) \/ Pruned(r) \/ PruneTerminated(r)
             \/ ListStored(r) \/ ListPending(r)
             \/ LookAtListed(r) \/ Deleted(r) \/ DeleteTerminated(r)
    BY <1>1, <2>3 DEF GetInstance, RefuseOwnership, GetStaleObjects, GetPending,
         Reapply, ReadForPending, CheckObject, Recreated, SetReady, LookAtStale, LookAt,
         Pruned, PruneTerminated, AfterPrune, ListStored, ListPending, LookAtListed,
         Deleted, DeleteTerminated, Fail
  <2>4. QED
    BY <1>3, <2>1, <2>2, <2>3 DEF Step
<1>4. ASSUME NEW r \in Runs, Fault(r)
      PROVE  Orphan(o)
  BY <1>1, <1>4 DEF Fault, Abort, MisreadInstance, RecreateTimeout, SetNotReady, PruneObjectFails,
       PruneTimeout, DeleteListedFails, DeleteTimeout, DeleteRequestFails,
       TerminationTimeout, Fail
<1>5. ASSUME NEW p \in Objects, ClearFinalizer(p)
      PROVE  Orphan(o)
  BY <1>5 DEF ClearFinalizer, Orphan, TypeOK, Absent
<1>6. CASE Quiet \/ UNCHANGED vars
  BY <1>1, <1>6 DEF Quiet, vars
<1>7. QED
  BY <1>2, <1>3, <1>4, <1>5, <1>6 DEF Next

(* While the operators run one command per instance at a time, a live object *)
(* escapes the records of its instance only when a pending revision is saved *)
(* over an earlier one, or when an install replaces a record that the run    *)
(* failed to read: no kill, API error or timeout, and no other instance's    *)
(* run, can make it happen.                                                  *)
THEOREM OnlyOverwritesOrphan ==
    ASSUME Serial
    PROVE  Spec => OrphanOnlyByOverwrite
<1>1. TypeOK /\ Inductive /\ [Next]_vars =>
          [\A o \in Objects : Orphan(o)' =>
               \/ Orphan(o)
               \/ \E r \in Runs : ReplacesPending(r) \/ InstallsOverRecord(r)]_vars
  BY OrphanNext
<1>2. QED
  BY <1>1, TypeCorrect, InductiveHolds, PTL DEF Spec, OrphanOnlyByOverwrite

--------------------------------------------------------------------------------
(***************************************************************************)
(* Nothing else is deleted.                                                *)
(***************************************************************************)

(* What a run has read to delete it is its own at that moment. *)
LEMMA LookedAtOwn ==
    ASSUME TypeOK, Inductive, NEW r \in Runs, Step(r) \/ Fault(r),
           run'[r].pc \in {"prune", "delete"}, NEW o \in run'[r].looked
    PROVE  cluster'[o].owner = run'[r].inst
<1> DEFINE m == run[r]
<1>1. m \in RunState
  BY DEF TypeOK
<1>2. ASSUME NEW n, Becomes(r, n), n.pc \notin {"prune", "delete"} \/ n.looked = {}
      PROVE  FALSE
  BY <1>2 DEF Becomes, TypeOK
<1>3. ASSUME NEW stage, LookAt(r, stage)
      PROVE  cluster'[o].owner = run'[r].inst
  <2>1. m.looked = {} /\ cluster' = cluster
    BY <1>3 DEF LookAt
  <2>2. PICK p \in m.todo : \E g \in {m.gone, m.gone \cup {p}} :
            \/ Deletable(p, m.inst) /\ Becomes(r, [m EXCEPT !.looked = {p}])
            \/ Becomes(r, [m EXCEPT !.todo = @ \ {p}, !.gone = g])
    BY <1>3, LookBecomes
  <2>3. ASSUME NEW g, Becomes(r, [m EXCEPT !.todo = @ \ {p}, !.gone = g])
        PROVE  FALSE
    <3>1. [m EXCEPT !.todo = @ \ {p}, !.gone = g].looked = {}
      BY <1>1, <2>1 DEF RunState
    <3>2. QED
      BY <1>2, <2>3, <3>1
  <2>4. Deletable(p, m.inst) /\ Becomes(r, [m EXCEPT !.looked = {p}])
    BY <2>2, <2>3
  <2>5. o = p /\ run'[r].inst = m.inst
    BY <1>1, <2>4 DEF Becomes, TypeOK, RunState
  <2>6. QED
    BY <2>1, <2>4, <2>5 DEF Deletable
<1>4. ASSUME NEW stage, DeleteRequestFails(r, stage) \/ RequestDelete(r, stage)
      PROVE  FALSE
  <2>1. \/ \E p : Becomes(r, [m EXCEPT !.todo = @ \ {p}, !.looked = {}, !.erred = TRUE])
        \/ \E p : Becomes(r, [m EXCEPT !.todo = @ \ {p}, !.looked = {}, !.gone = @ \cup {p}])
    BY <1>4 DEF DeleteRequestFails, RequestDelete
  <2>2. \A p :
          /\ [m EXCEPT !.todo = @ \ {p}, !.looked = {}, !.erred = TRUE].looked = {}
          /\ [m EXCEPT !.todo = @ \ {p}, !.looked = {}, !.gone = @ \cup {p}].looked = {}
    BY <1>1 DEF RunState
  <2>3. QED
    BY <1>2, <2>1, <2>2
<1>5. ASSUME Fail(r)
      PROVE  FALSE
  <2>1. Ended("failed").looked = {}
    BY DEF Ended
  <2>2. QED
    BY <1>2, <1>5, <2>1 DEF Fail
<1>6. CASE CheckObject(r) \/ Recreate(r) \/ Recreated(r) \/ ApplyObject(r)
  <2>1. m.pc = "apply"
    BY <1>6 DEF CheckObject, Recreate, Recreated, ApplyObject, At
  <2>2. \A todo, looked, gone :
          /\ [m EXCEPT !.todo = todo].pc = "apply"
          /\ [m EXCEPT !.looked = looked].pc = "apply"
          /\ [m EXCEPT !.gone = gone].pc = "apply"
          /\ [m EXCEPT !.gone = gone, !.looked = looked].pc = "apply"
          /\ [m EXCEPT !.todo = todo, !.looked = looked].pc = "apply"
    BY <1>1, <2>1 DEF RunState
  <2>3. CASE CheckObject(r)
    BY <1>2, <2>2, <2>3 DEF CheckObject
  <2>4. CASE Recreate(r)
    BY <1>2, <2>2, <2>4 DEF Recreate
  <2>5. CASE Recreated(r)
    BY <1>2, <2>2, <2>5 DEF Recreated
  <2>6. CASE ApplyObject(r)
    BY <1>2, <2>2, <2>6 DEF ApplyObject
  <2>7. QED
    BY <1>6, <2>3, <2>4, <2>5, <2>6
<1>7. CASE SetReady(r) \/ SetNotReady(r) \/ ListPending(r) \/ SetDeleting(r)
  <2>1. m.looked = {}
    BY <1>7 DEF SetReady, SetNotReady, ListPending, SetDeleting, At, Inductive, Facts,
                LookedAhead
  <2>2. /\ EnterSet(m, m.set + 1).looked = {}
        /\ [m EXCEPT !.pc = "prune", !.todo = m.doomed, !.unready = TRUE].looked = {}
        /\ \A stage, listed : [m EXCEPT !.pc = stage, !.doomed = listed,
                                         !.todo = listed].looked = {}
        /\ Goto(m, "delete").looked = {}
    BY <1>1, <2>1 DEF EnterSet, Goto, RunState
  <2>3. Fail(r) \/ \E n : Becomes(r, n) /\ n.looked = {}
    BY <1>7, <2>2 DEF SetReady, SetNotReady, ListPending, SetDeleting
  <2>4. QED
    BY <1>2, <1>5, <2>3
<1>8. CASE Install(r) \/ Reapply(r) \/ SavePending(r)
  <2>1. m.looked = {}
    BY <1>8 DEF Install, Reapply, SavePending, At, Inductive, Facts, LookedAhead
  <2>2. /\ EnterSet(m, 1).looked = {}
        /\ EnterSet([m EXCEPT !.seen = NoRecord(NoBundle)], 1).looked = {}
    BY <1>1, <2>1 DEF EnterSet, RunState
  <2>3. QED
    BY <1>2, <1>8, <2>2 DEF Install, Reapply, SavePending
<1>9. CASE \/ GetInstance(r) \/ MisreadInstance(r) \/ GetStaleObjects(r) \/ GetPending(r)
           \/ ReadForPending(r) \/ ListStored(r)
  <2>1. ASSUME GetInstance(r) \/ MisreadInstance(r) PROVE FALSE
    <3>1. /\ \A e, p : [Goto(m, "stale") EXCEPT !.exists = e, !.predecessor = p].pc = "stale"
          /\ \A e : [Goto(m, "stale") EXCEPT !.exists = e].pc = "stale"
      BY <1>1 DEF Goto, RunState
    <3>2. QED
      BY <1>2, <2>1, <3>1 DEF GetInstance, MisreadInstance
  <2>2. ASSUME GetStaleObjects(r) \/ GetPending(r) PROVE FALSE
    <3>1. \A d : /\ [Goto(m, "pending") EXCEPT !.doomed = d].pc = "pending"
                /\ [Goto(m, "record") EXCEPT !.doomed = d].pc = "record"
      BY <1>1 DEF Goto, RunState
    <3>2. QED
      BY <1>2, <2>2, <3>1 DEF GetStaleObjects, GetPending
  <2>3. ASSUME ReadForPending(r) PROVE FALSE
    <3>1. \A f : [Goto(m, "savePending") EXCEPT !.seen = f].pc = "savePending"
      BY <1>1 DEF Goto, RunState
    <3>2. QED
      BY <1>2, <1>5, <2>3, <3>1 DEF ReadForPending
  <2>4. ASSUME ListStored(r) PROVE FALSE
    <3>1. \A d : [Goto(m, "listPending") EXCEPT !.doomed = d].pc = "listPending"
      BY <1>1 DEF Goto, RunState
    <3>2. QED
      BY <1>2, <1>5, <2>4, <3>1 DEF ListStored
  <2>5. QED
    BY <1>9, <2>1, <2>2, <2>3, <2>4
<1>10. CASE \/ Pruned(r) \/ PruneTerminated(r) \/ UpdateInventory(r)
            \/ Deleted(r) \/ DeleteTerminated(r) \/ DeleteRecord(r)
  <2>1. /\ \A stage : Goto(m, stage).pc = stage
        /\ Ended("done").pc = "done"
    BY <1>1 DEF Goto, RunState, Ended
  <2>2. Fail(r) \/ \E n : Becomes(r, n) /\ n.pc \notin {"prune", "delete"}
    BY <1>10, <2>1 DEF Pruned, PruneTerminated, AfterPrune, UpdateInventory,
       Deleted, DeleteTerminated, DeleteRecord
  <2>3. QED
    BY <1>2, <1>5, <2>2
<1>11. CASE Step(r)
  BY <1>3, <1>4, <1>5, <1>6, <1>7, <1>8, <1>9, <1>10, <1>11
     DEF Step, RefuseOwnership, LookAtStale, LookAtListed, PruneObject, DeleteListed
<1>12. CASE Fault(r)
  BY <1>4, <1>5, <1>7, <1>9, <1>12
     DEF Fault, Abort, RecreateTimeout, PruneTimeout, DeleteTimeout, TerminationTimeout,
         PruneObjectFails, DeleteListedFails
<1>13. QED
  BY <1>11, <1>12

(* The steps that touch the cluster: an apply of an object, and the requests *)
(* that delete one.                                                          *)
LEMMA ClusterSteps ==
    ASSUME NEW r \in Runs, Step(r) \/ Fault(r)
    PROVE  \/ cluster' = cluster
           \/ ApplyObject(r) \/ Recreate(r)
           \/ RequestDelete(r, "prune") \/ RequestDelete(r, "delete")
<1>1. ASSUME NEW stage, LookAt(r, stage) \/ DeleteRequestFails(r, stage)
                        \/ TerminationTimeout(r, stage) \/ Fail(r)
      PROVE  cluster' = cluster
  BY <1>1 DEF LookAt, DeleteRequestFails, TerminationTimeout, Fail
<1>2. CASE Step(r)
  BY <1>1, <1>2 DEF Step, GetInstance, RefuseOwnership, GetStaleObjects, GetPending,
     Install, Reapply, ReadForPending, SavePending, CheckObject, Recreated, SetReady,
     LookAtStale, PruneObject, Pruned, AfterPrune, PruneTerminated, UpdateInventory,
     ListStored, ListPending, SetDeleting, LookAtListed, DeleteListed, Deleted,
     DeleteTerminated, DeleteRecord
<1>3. CASE Fault(r)
  BY <1>1, <1>3 DEF Fault, Abort, MisreadInstance, RecreateTimeout, SetNotReady,
     PruneObjectFails, PruneTimeout, DeleteListedFails, DeleteTimeout
<1>4. QED
  BY <1>2, <1>3

(* While the operators run one command per instance at a time, whatever the  *)
(* other instances do meanwhile: an object is deleted only by a run of the   *)
(* instance of its labels, never against its annotation, never by an apply   *)
(* that renders it unless to create it again, and otherwise only if another  *)
(* instance, which has it in its record, took it over after it was read.     *)
THEOREM DeletesOnlyOwnHolds ==
    ASSUME Serial
    PROVE  Spec => DeletesOnlyOwn
<1> DEFINE Own(o) ==
        cluster[o].phase = "live" /\ cluster'[o].phase # "live" =>
            \E r \in Runs :
                \/ /\ At(r, "prune") \/ At(r, "delete")
                   /\ cluster[o].owner = run[r].inst \/ Overtaken(r, o)
                   /\ o \notin Keep \cup ListMeta(Desired(run[r]))
                \/ /\ At(r, "apply")
                   /\ o \in ListMeta(Desired(run[r])) \cap run[r].recreate
           Taken(o) ==
        \A r \in Runs : Overtaken(r, o)' /\ ~Overtaken(r, o) =>
            \E q \in Runs :
                /\ At(q, "apply")
                /\ cluster'[o].owner = run[q].inst
                /\ o \in ListAllObjects(record[run[q].inst])
<1>1. ASSUME TypeOK, Inductive, NEW r \in Runs, Step(r) \/ Fault(r), NEW o \in Objects
      PROVE  Own(o) /\ Taken(o)
  <2>1. \A q \in Runs : run[q] \in RunState
    BY <1>1 DEF TypeOK
  <2>2. ASSUME NEW q \in Runs, Overtaken(q, o)', ~Overtaken(q, o)
        PROVE  q # r /\ cluster'[o] # cluster[o] /\ cluster'[o].phase = "live"
    <3>1. /\ run'[q].pc \in {"prune", "delete"} /\ o \in run'[q].looked
          /\ cluster'[o].phase = "live" /\ cluster'[o].owner # run'[q].inst
      BY <2>2 DEF Overtaken, At
    <3>2. q # r
      BY <1>1, <3>1, LookedAtOwn
    <3>3. run'[q] = run[q]
      BY <1>1, <3>2, RunFrame
    <3>4. QED
      BY <2>2, <3>1, <3>2, <3>3 DEF Overtaken, At
  <2>3. CASE cluster' = cluster
    BY <2>2, <2>3
  <2>4. CASE ApplyObject(r)
    <3>1. PICK p \in run[r].looked : cluster' = Applied(cluster, p, run[r].inst)
      BY <2>4 DEF ApplyObject
    <3>2. At(r, "apply") /\ p \in Listed(r)
      BY <1>1, <2>4, <3>1 DEF ApplyObject, At, Inductive, Facts, WriteAhead, LookedAhead
    <3>3. Own(o)
      BY <1>1, <3>1 DEF Applied, TypeOK
    <3>4. cluster'[o] # cluster[o] => o = p /\ cluster'[o].owner = run[r].inst
      BY <1>1, <3>1 DEF Applied, TypeOK
    <3>5. Taken(o)
      BY <2>2, <3>2, <3>4 DEF Listed
    <3>6. QED
      BY <3>3, <3>5
  <2>5. CASE Recreate(r)
    <3>1. PICK p \in run[r].todo \cap run[r].recreate : cluster' = Removed(cluster, p)
      BY <2>5 DEF Recreate
    <3>2. At(r, "apply") /\ p \in ListMeta(Desired(run[r])) /\ p \in Objects
      BY <1>1, <2>1, <2>5, <3>1 DEF Recreate, At, Inductive, Facts, WriteAhead, Wanted,
                                    RunState
    <3>3. cluster'[p].phase # "live" /\ \A x : x # p => cluster'[x] = cluster[x]
      BY <1>1, <3>1, <3>2, RemovedObjects DEF TypeOK
    <3>4. Taken(o)
      BY <2>2, <3>3
    <3>5. Own(o)
      BY <3>1, <3>2, <3>3
    <3>6. QED
      BY <3>4, <3>5
  <2>6. ASSUME NEW stage \in {"prune", "delete"}, RequestDelete(r, stage)
        PROVE  Own(o) /\ Taken(o)
    <3>1. PICK p \in run[r].looked : cluster' = Removed(cluster, p)
      BY <2>6 DEF RequestDelete
    <3>2. At(r, stage) /\ p \in run[r].todo \ Keep
      BY <1>1, <2>6, <3>1 DEF RequestDelete, At, Inductive, Facts, LookedAhead
    <3>3. p \in Objects
      BY <2>1, <3>2 DEF RunState
    <3>4. p \notin ListMeta(Desired(run[r]))
      BY <1>1, <2>6, <3>2 DEF At, Inductive, Facts, DoomedUnwanted, Wanted,
                              ApplyStages, DeleteStages
    <3>5. cluster'[p].phase # "live" /\ \A x : x # p => cluster'[x] = cluster[x]
      BY <1>1, <3>1, <3>3, RemovedObjects DEF TypeOK
    <3>6. Taken(o)
      BY <2>2, <3>5
    <3>7. Own(o)
      BY <2>6, <3>1, <3>2, <3>4, <3>5 DEF Overtaken
    <3>8. QED
      BY <3>6, <3>7
  <2>7. QED
    BY <1>1, <2>3, <2>4, <2>5, <2>6, ClusterSteps
<1>2. ASSUME TypeOK, Inductive, NEW r \in Runs, Start(r), NEW o \in Objects
      PROVE  Own(o) /\ Taken(o)
  <2>1. PICK n : /\ Becomes(r, n) /\ n.pc \in {"get", "list"} /\ cluster' = cluster
    BY <1>2, StartBecomes
  <2>2. \A q \in Runs : run'[q] = run[q] \/ run'[q].pc \in {"get", "list"}
    BY <1>2, <2>1 DEF Becomes, TypeOK
  <2>3. \A q \in Runs : Overtaken(q, o)' => Overtaken(q, o)
    BY <2>1, <2>2 DEF Overtaken, At
  <2>4. QED
    BY <2>1, <2>3
<1>3. ASSUME TypeOK, NEW p \in Objects, ClearFinalizer(p), NEW o \in Objects
      PROVE  Own(o) /\ Taken(o)
  <2>1. /\ run' = run /\ cluster[p].phase = "terminating" /\ cluster'[p].phase = "absent"
        /\ \A x \in Objects \ {p} : cluster'[x] = cluster[x]
    BY <1>3 DEF ClearFinalizer, TypeOK, Absent
  <2>2. \A q \in Runs : Overtaken(q, o)' => Overtaken(q, o)
    BY <2>1 DEF Overtaken, At
  <2>3. QED
    BY <2>1, <2>2
<1>4. ASSUME UNCHANGED vars, NEW o \in Objects
      PROVE  Own(o) /\ Taken(o)
  BY <1>4 DEF vars, Overtaken, At
<1>5. TypeOK /\ Inductive /\ [Next]_vars =>
        [\A o \in Objects :
           /\ cluster[o].phase = "live" /\ cluster'[o].phase # "live" =>
                  \E r \in Runs :
                      \/ /\ At(r, "prune") \/ At(r, "delete")
                         /\ cluster[o].owner = run[r].inst \/ Overtaken(r, o)
                         /\ o \notin Keep \cup ListMeta(Desired(run[r]))
                      \/ /\ At(r, "apply")
                         /\ o \in ListMeta(Desired(run[r])) \cap run[r].recreate
           /\ \A r \in Runs : Overtaken(r, o)' /\ ~Overtaken(r, o) =>
                  \E q \in Runs :
                      /\ At(q, "apply")
                      /\ cluster'[o].owner = run[q].inst
                      /\ o \in ListAllObjects(record[run[q].inst])]_vars
  BY <1>1, <1>2, <1>3, <1>4 DEF Next, Quiet
<1>6. QED
  BY <1>5, TypeCorrect, InductiveHolds, PTL DEF Spec, DeletesOnlyOwn

================================================================================
