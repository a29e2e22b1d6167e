-------------------------- MODULE ReconcilerPromises --------------------------
(***************************************************************************)
(* Promises of Reconciler to the operators, for every set of objects,      *)
(* instances and renders, when they run one command per instance at a      *)
(* time: a delete that reports success has confirmed it, a bundle does not *)
(* lose an instance unasked, and, when nothing else runs, sets are applied *)
(* in their order; and, when records are not misread, that the records are *)
(* ledgers as Ledger specifies them.                                       *)
(***************************************************************************)
EXTENDS ReconcilerProofs

--------------------------------------------------------------------------------
(***************************************************************************)
(* What a step of a run touches.                                           *)
(***************************************************************************)

LEMMA RecordSteps ==
    ASSUME NEW r \in Runs, Step(r) \/ Fault(r)
    PROVE  \/ record' = record
           \/ Install(r) \/ SavePending(r) \/ UpdateInventory(r)
           \/ SetDeleting(r) \/ DeleteRecord(r)
<1>1. ASSUME NEW stage, LookAt(r, stage) \/ RequestDelete(r, stage)
                        \/ DeleteRequestFails(r, stage) \/ TerminationTimeout(r, stage)
                        \/ Fail(r)
      PROVE  record' = record
  BY <1>1 DEF LookAt, RequestDelete, DeleteRequestFails, TerminationTimeout, Fail
<1>2. CASE Step(r)
  BY <1>1, <1>2 DEF Step, GetInstance, RefuseOwnership, GetStaleObjects, GetPending,
     Reapply, ReadForPending, CheckObject, Recreate, Recreated, ApplyObject, SetReady,
     LookAtStale, PruneObject, Pruned, AfterPrune, PruneTerminated, ListStored,
     ListPending, LookAtListed, DeleteListed, Deleted, DeleteTerminated
<1>3. CASE Fault(r)
  BY <1>1, <1>3 DEF Fault, Abort, MisreadInstance, RecreateTimeout, SetNotReady,
     PruneObjectFails, PruneTimeout, DeleteListedFails, DeleteTimeout
<1>4. QED
  BY <1>2, <1>3

(* A start changes the memory of its slot only. *)
LEMMA StartFrame ==
    ASSUME TypeOK, NEW r \in Runs, Start(r)
    PROVE  /\ run'[r].pc \in {"get", "list"}
           /\ \A q \in Runs \ {r} : run'[q] = run[q]
           /\ UNCHANGED <<record, cluster>>
<1>1. PICK n : /\ Becomes(r, n) /\ n.pc \in {"get", "list"}
               /\ UNCHANGED <<record, cluster>>
  BY StartBecomes
<1>2. QED
  BY <1>1 DEF Becomes, TypeOK

(* A step of r leaves alone what the other runs are about.                   *)
LEMMA OtherFrame ==
    ASSUME TypeOK, Inductive, NEW r \in Runs, Step(r) \/ Fault(r),
           NEW q \in Runs \ {r}, Active(q)
    PROVE  /\ run'[q] = run[q]
           /\ run[q].inst \in Instances \ {run[r].inst}
           /\ record'[run[q].inst] = record[run[q].inst]
<1>1. run[q].inst \in Instances \ {run[r].inst}
  BY StepActive DEF Inductive, Solo, TypeOK, RunState
<1>2. QED
  BY <1>1, RunFrame

(* A step of r labels objects with the instance of r only, and takes the     *)
(* labels off those that it removes.                                         *)
LEMMA LabelFrame ==
    ASSUME TypeOK, NEW r \in Runs, Step(r) \/ Fault(r), NEW o \in Objects
    PROVE  cluster'[o].owner \in {cluster[o].owner, run[r].inst, Nobody}
<1>1. CASE cluster' = cluster
  BY <1>1
<1>2. CASE ApplyObject(r)
  BY <1>2 DEF ApplyObject, Applied, TypeOK, ClusterObject
<1>3. CASE Recreate(r) \/ RequestDelete(r, "prune") \/ RequestDelete(r, "delete")
  <2>1. PICK p : cluster' = Removed(cluster, p)
    BY <1>3 DEF Recreate, RequestDelete
  <2>2. QED
    BY <2>1 DEF Removed, TypeOK, ClusterObject, Absent
<1>4. QED
  BY <1>1, <1>2, <1>3, ClusterSteps

(* A run forgets who it is only when it ends. *)
LEMMA IdentityKept ==
    ASSUME TypeOK, NEW r \in Runs, Step(r) \/ Fault(r)
    PROVE  \/ run'[r].pc \in Outcomes
           \/ /\ run'[r].inst = run[r].inst /\ run'[r].bundle = run[r].bundle
              /\ run'[r].overwrite = run[r].overwrite /\ run'[r].wait = run[r].wait
              /\ run'[r].pc \in ApplyStages <=> run[r].pc \in ApplyStages
              /\ run'[r].pc = "get" => run[r].pc = "get"
<1> DEFINE m == run[r]
           found == record[m.inst]
           Same(n) == /\ n.inst = m.inst /\ n.bundle = m.bundle
                      /\ n.overwrite = m.overwrite /\ n.wait = m.wait
           Kept == \/ run'[r].pc \in Outcomes
                   \/ /\ Same(run'[r])
                      /\ run'[r].pc \in ApplyStages <=> run[r].pc \in ApplyStages
                      /\ run'[r].pc = "get" => run[r].pc = "get"
<1> SUFFICES Kept
  OBVIOUS
<1>1. m \in RunState
  BY DEF TypeOK
<1>2. ASSUME NEW n, Becomes(r, n), Same(n),
             n.pc \in ApplyStages <=> m.pc \in ApplyStages, n.pc # "get"
      PROVE  Kept
  <2>1. run'[r] = n
    BY <1>2 DEF Becomes, TypeOK
  <2>2. QED
    BY <1>2, <2>1
<1>3. ASSUME NEW outcome \in Outcomes, Becomes(r, Ended(outcome))
      PROVE  Kept
  BY <1>3 DEF Becomes, TypeOK, Ended
<1>4. ASSUME Fail(r)
      PROVE  Kept
  BY <1>3, <1>4 DEF Fail, Outcomes
<1>5. ASSUME NEW n \in RunState, NEW k, Becomes(r, EnterSet(n, k)), Same(n),
             m.pc \in ApplyStages
      PROVE  Kept
  <2> DEFINE e == EnterSet(n, k)
  <2>1. Same(e) /\ e.pc \in {"apply", "prune"}
    BY <1>5 DEF EnterSet, RunState
  <2>2. Becomes(r, e)
    BY <1>5
  <2> HIDE DEF e
  <2>3. QED
    BY <1>2, <1>5, <2>1, <2>2 DEF ApplyStages
<1>6. ASSUME NEW stage, stage # "get", stage \in ApplyStages <=> m.pc \in ApplyStages,
             Becomes(r, Goto(m, stage))
      PROVE  Kept
  <2>1. Same(Goto(m, stage)) /\ Goto(m, stage).pc = stage
    BY <1>1 DEF Goto, RunState
  <2>2. QED
    BY <1>2, <1>6, <2>1
<1>7. CASE GetInstance(r)
  <2> DEFINE n == [Goto(m, "stale") EXCEPT !.exists = found.exists,
                                           !.predecessor = found.inv]
  <2>1. Same(n) /\ n.pc = "stale"
    BY <1>1 DEF Goto, RunState
  <2>2. Becomes(r, n) /\ m.pc = "get"
    BY <1>7 DEF GetInstance, At
  <2> HIDE DEF n, Kept
  <2>3. QED
    BY <1>2, <2>1, <2>2 DEF ApplyStages
<1>8. CASE MisreadInstance(r)
  <2> DEFINE n == [Goto(m, "stale") EXCEPT !.exists = FALSE]
  <2>1. Same(n) /\ n.pc = "stale"
    BY <1>1 DEF Goto, RunState
  <2>2. Becomes(r, n) /\ m.pc = "get"
    BY <1>8 DEF MisreadInstance, At
  <2> HIDE DEF n, Kept
  <2>3. QED
    BY <1>2, <2>1, <2>2 DEF ApplyStages
<1>25. ASSUME NEW d, NEW stage \in {"pending", "record"},
              Becomes(r, [Goto(m, stage) EXCEPT !.doomed = d]), m.pc \in {"stale", "pending"}
       PROVE  Kept
  <2> DEFINE n == [Goto(m, stage) EXCEPT !.doomed = d]
  <2>1. Same(n) /\ n.pc = stage
    BY <1>1 DEF Goto, RunState
  <2>2. Becomes(r, n)
    BY <1>25
  <2> HIDE DEF n, Kept
  <2>3. QED
    BY <1>2, <1>25, <2>1, <2>2 DEF ApplyStages
<1>9. CASE GetStaleObjects(r) \/ GetPending(r)
  <2> DEFINE d == IF found.exists THEN Diff(found.inv, Desired(m)) ELSE {}
             e == m.doomed \cup (PendingObjects(found) \ ListMeta(Desired(m)))
  <2>1. \/ /\ Becomes(r, [Goto(m, "pending") EXCEPT !.doomed = d])
           /\ m.pc = "stale"
        \/ /\ Becomes(r, [Goto(m, "record") EXCEPT !.doomed = e])
           /\ m.pc = "pending"
    BY <1>9 DEF GetStaleObjects, GetPending, At
  <2> HIDE DEF Kept, d, e
  <2>2. QED
    BY <1>25, <2>1
<1>10. CASE Install(r) \/ Reapply(r) \/ SetReady(r)
  <2>1. m.pc \in {"record", "apply"} /\ Same(m)
    BY <1>10 DEF Install, Reapply, SetReady, At
  <2>2. PICK k : Becomes(r, EnterSet(m, k))
    BY <1>10 DEF Install, Reapply, SetReady
  <2> HIDE DEF Kept
  <2>3. QED
    BY <1>1, <1>5, <2>1, <2>2 DEF ApplyStages
<1>11. CASE ReadForPending(r)
  <2> DEFINE n == [Goto(m, "savePending") EXCEPT !.seen = found]
  <2>1. Same(n) /\ n.pc = "savePending"
    BY <1>1 DEF Goto, RunState
  <2>2. (Becomes(r, n) \/ Fail(r)) /\ m.pc = "record"
    BY <1>11 DEF ReadForPending, At
  <2> HIDE DEF n, Kept
  <2>3. QED
    BY <1>2, <1>4, <2>1, <2>2 DEF ApplyStages
<1>12. CASE SavePending(r)
  <2> DEFINE n == [m EXCEPT !.seen = NoRecord(NoBundle)]
  <2>1. NoRecord(NoBundle) \in Records(Owners)
    BY DEF NoRecord, Records, Owners, Inventories
  <2>2. n \in RunState /\ Same(n)
    BY <1>1, <2>1 DEF RunState
  <2>3. Becomes(r, EnterSet(n, 1)) /\ m.pc = "savePending"
    BY <1>12 DEF SavePending, At
  <2> HIDE DEF n, Kept
  <2>4. QED
    BY <1>5, <2>2, <2>3 DEF ApplyStages
<1>13. ASSUME NEW n, Becomes(r, n), Same(n), n.pc = m.pc, m.pc # "get"
       PROVE  Kept
  BY <1>2, <1>13
<1>26. \A d, l, g, e :
           /\ \A n \in {[m EXCEPT !.todo = d], [m EXCEPT !.looked = l], [m EXCEPT !.gone = g]} :
                  Same(n) /\ n.pc = m.pc
           /\ \A n \in {[m EXCEPT !.todo = d, !.looked = l], [m EXCEPT !.todo = d, !.gone = g],
                         [m EXCEPT !.gone = g, !.looked = l]} :
                  Same(n) /\ n.pc = m.pc
           /\ \A n \in {[m EXCEPT !.todo = d, !.looked = l, !.gone = g],
                         [m EXCEPT !.todo = d, !.looked = l, !.erred = e]} :
                  Same(n) /\ n.pc = m.pc
  BY <1>1 DEF RunState
<1>14. CASE CheckObject(r) \/ Recreate(r) \/ Recreated(r) \/ ApplyObject(r)
  <2>1. m.pc # "get"
    BY <1>14 DEF CheckObject, Recreate, Recreated, ApplyObject, At
  <2> HIDE DEF Kept, Same
  <2>2. CASE CheckObject(r)
    <3>1. PICK o : \/ Becomes(r, [m EXCEPT !.todo = @ \ {o}])
                   \/ Becomes(r, [m EXCEPT !.looked = @ \cup {o}])
      BY <2>2 DEF CheckObject
    <3>2. QED
      BY <1>13, <1>26, <2>1, <3>1
  <2>3. CASE Recreate(r)
    <3>1. PICK o : Becomes(r, [m EXCEPT !.gone = @ \cup {o}])
      BY <2>3 DEF Recreate
    <3>2. QED
      BY <1>13, <1>26, <2>1, <3>1
  <2>4. CASE Recreated(r)
    <3>1. PICK o : Becomes(r, [m EXCEPT !.gone = @ \ {o}, !.looked = @ \cup {o}])
      BY <2>4 DEF Recreated
    <3>2. QED
      BY <1>13, <1>26, <2>1, <3>1
  <2>5. CASE ApplyObject(r)
    <3>1. PICK o : Becomes(r, [m EXCEPT !.todo = @ \ {o}, !.looked = @ \ {o}])
      BY <2>5 DEF ApplyObject
    <3>2. QED
      BY <1>13, <1>26, <2>1, <3>1
  <2>6. QED
    BY <1>14, <2>2, <2>3, <2>4, <2>5
<1>15. ASSUME NEW stage \in {"prune", "delete"},
              LookAt(r, stage) \/ RequestDelete(r, stage) \/ DeleteRequestFails(r, stage)
       PROVE  Kept
  <2>1. m.pc # "get"
    BY <1>15 DEF LookAt, RequestDelete, DeleteRequestFails, At
  <2> HIDE DEF Kept, Same
  <2>2. CASE LookAt(r, stage)
    <3>1. PICK o \in m.todo : \E g \in {m.gone, m.gone \cup {o}} :
              \/ Becomes(r, [m EXCEPT !.looked = {o}])
              \/ Becomes(r, [m EXCEPT !.todo = @ \ {o}, !.gone = g])
      BY <2>2, LookBecomes
    <3>2. QED
      BY <1>13, <1>26, <2>1, <3>1
  <2>3. CASE RequestDelete(r, stage)
    <3>1. PICK o : Becomes(r, [m EXCEPT !.todo = @ \ {o}, !.looked = {},
                                        !.gone = @ \cup {o}])
      BY <2>3 DEF RequestDelete
    <3>2. QED
      BY <1>13, <1>26, <2>1, <3>1
  <2>4. CASE DeleteRequestFails(r, stage)
    <3>1. PICK o : Becomes(r, [m EXCEPT !.todo = @ \ {o}, !.looked = {}, !.erred = TRUE])
      BY <2>4 DEF DeleteRequestFails
    <3>2. QED
      BY <1>13, <1>26, <2>1, <3>1
  <2>5. QED
    BY <1>15, <2>2, <2>3, <2>4
<1>17. CASE SetNotReady(r)
  <2> DEFINE n == [m EXCEPT !.pc = "prune", !.todo = m.doomed, !.unready = TRUE]
  <2>1. Same(n) /\ n.pc = "prune"
    BY <1>1 DEF RunState
  <2>2. Becomes(r, n) /\ m.pc = "apply"
    BY <1>17 DEF SetNotReady, At
  <2> HIDE DEF n, Kept
  <2>3. QED
    BY <1>2, <2>1, <2>2 DEF ApplyStages
<1>18. CASE Pruned(r) \/ PruneTerminated(r)
  <2>1. \/ Fail(r) \/ Becomes(r, Goto(m, "pruneWait")) \/ Becomes(r, Goto(m, "update"))
    BY <1>18 DEF Pruned, PruneTerminated, AfterPrune
  <2>2. m.pc \in {"prune", "pruneWait"}
    BY <1>18 DEF Pruned, PruneTerminated, At
  <2> HIDE DEF Kept
  <2>3. QED
    BY <1>4, <1>6, <2>1, <2>2 DEF ApplyStages
<1>19. CASE Deleted(r) \/ DeleteTerminated(r) \/ SetDeleting(r)
  <2>1. \/ Fail(r)
        \/ \E stage \in {"deleteWait", "forget", "delete"} : Becomes(r, Goto(m, stage))
    BY <1>19 DEF Deleted, DeleteTerminated, SetDeleting
  <2>2. m.pc \in {"delete", "deleteWait", "mark"}
    BY <1>19 DEF Deleted, DeleteTerminated, SetDeleting, At
  <2> HIDE DEF Kept
  <2>3. QED
    BY <1>4, <1>6, <2>1, <2>2 DEF ApplyStages
<1>20. CASE ListStored(r)
  <2> DEFINE n == [Goto(m, "listPending") EXCEPT !.doomed = ListMeta(found.inv)]
  <2>1. Same(n) /\ n.pc = "listPending"
    BY <1>1 DEF Goto, RunState
  <2>2. (Becomes(r, n) \/ Fail(r)) /\ m.pc = "list"
    BY <1>20 DEF ListStored, At
  <2> HIDE DEF n, Kept
  <2>3. QED
    BY <1>2, <1>4, <2>1, <2>2 DEF ApplyStages
<1>21. CASE ListPending(r)
  <2> DEFINE listed == m.doomed \cup PendingObjects(found)
             stage == IF m.wait THEN "mark" ELSE "delete"
             n == [m EXCEPT !.pc = stage, !.doomed = listed, !.todo = listed]
  <2>1. Same(n) /\ n.pc = stage
    BY <1>1 DEF RunState
  <2>2. Becomes(r, n) /\ m.pc = "listPending" /\ stage \in {"mark", "delete"}
    BY <1>21 DEF ListPending, At
  <2> HIDE DEF n, Kept, stage
  <2>3. QED
    BY <1>2, <2>1, <2>2 DEF ApplyStages
<1>22. CASE UpdateInventory(r) \/ DeleteRecord(r)
  BY <1>3, <1>22 DEF UpdateInventory, DeleteRecord, Outcomes
<1>23. CASE \/ RefuseOwnership(r) \/ Abort(r)
            \/ RecreateTimeout(r) \/ PruneTimeout(r) \/ DeleteTimeout(r)
  BY <1>4, <1>23 DEF RefuseOwnership, Abort, RecreateTimeout, PruneTimeout, DeleteTimeout,
     TerminationTimeout
<1>24. QED
  <2> HIDE DEF Kept
  <2>1. QED
    BY <1>7, <1>8, <1>9, <1>10, <1>11, <1>12, <1>14, <1>15, <1>17, <1>18,
       <1>19, <1>20, <1>21, <1>22, <1>23
       DEF Step, Fault, LookAtStale, PruneObject, LookAtListed, DeleteListed,
           PruneObjectFails, DeleteListedFails

--------------------------------------------------------------------------------
(***************************************************************************)
(* A delete is confirmed.                                                  *)
(***************************************************************************)

(* The recorded objects that r has to see go. *)
Ours(r) == {o \in Listed(r) \ Keep : cluster[o].owner = run[r].inst}

(* A delete that waits has each of them ahead of it, or has their removal    *)
(* accepted and waits for them to be gone.                                   *)
AwaitsAll(r) ==
    run[r].wait =>
        /\ run[r].pc = "delete" /\ ~run[r].erred => Ours(r) \subseteq run[r].todo \cup run[r].gone
        /\ run[r].pc = "deleteWait" => Ours(r) \subseteq run[r].gone
        /\ run[r].pc = "forget" => Ours(r) = {}

AbsentUnowned ==
    \A o \in Objects : cluster[o].phase = "absent" => cluster[o].owner = Nobody

Confirming == AbsentUnowned /\ \A r \in Runs : AwaitsAll(r)

Late == {"delete", "deleteWait", "forget"}

(* A run comes to delete only by these steps. *)
LEMMA LateSteps ==
    ASSUME TypeOK, NEW r \in Runs, Step(r) \/ Fault(r), run'[r].pc \in Late
    PROVE  \/ ListPending(r) \/ SetDeleting(r)
           \/ LookAt(r, "delete") \/ RequestDelete(r, "delete")
           \/ DeleteRequestFails(r, "delete")
           \/ Deleted(r) \/ DeleteTerminated(r)
<1>1. run[r].pc \in DeleteStages \/ run[r].pc \in ApplyStages
  BY StepActive DEF Active, TypeOK, RunState
<1>2. run[r].pc \in DeleteStages
  BY <1>1, IdentityKept DEF Late, Outcomes, ApplyStages, DeleteStages
<1>3. ASSUME Fail(r)
      PROVE  FALSE
  BY <1>3 DEF Fail, Becomes, TypeOK, Ended, Late
<1>4. ~(UpdateInventory(r) \/ DeleteRecord(r) \/ RefuseOwnership(r) \/ Abort(r)
        \/ DeleteTimeout(r) \/ PruneTimeout(r) \/ RecreateTimeout(r))
  <2>1. ASSUME Becomes(r, Ended("done"))
        PROVE  FALSE
    BY <2>1 DEF Becomes, TypeOK, Ended, Late
  <2>2. QED
    BY <1>3, <2>1 DEF UpdateInventory, DeleteRecord, RefuseOwnership, Abort,
                      DeleteTimeout, PruneTimeout, RecreateTimeout, TerminationTimeout
<1>5. ~ListStored(r)
  <2>1. ASSUME Becomes(r, [Goto(run[r], "listPending") EXCEPT
                               !.doomed = ListMeta(record[run[r].inst].inv)])
        PROVE  FALSE
    BY <2>1 DEF Becomes, TypeOK, Goto, RunState, Late
  <2>2. QED
    BY <1>3, <2>1 DEF ListStored
<1>6. QED
  BY <1>2, <1>4, <1>5
     DEF Step, Fault, DeleteStages, At, GetInstance, GetStaleObjects, GetPending, Install,
         Reapply, ReadForPending, SavePending, CheckObject, Recreate, Recreated,
         ApplyObject, SetReady, LookAtStale, LookAt, PruneObject, RequestDelete, Pruned,
         PruneTerminated, LookAtListed, DeleteListed, MisreadInstance,
         SetNotReady, PruneObjectFails, DeleteRequestFails, DeleteListedFails

(* What such a step has to see go is what was listed. *)
LEMMA AwaitsStep ==
    ASSUME TypeOK, Inductive, Confirming, NEW r \in Runs, Step(r) \/ Fault(r)
    PROVE  AwaitsAll(r)'
<1> DEFINE m == run[r]
           found == record[m.inst]
<1>1. m \in RunState /\ m.inst \in Instances /\ found \in Records(Owners)
  BY DEF TypeOK, RunState
<1>2. AwaitsAll(r) /\ Facts(r)
  BY DEF Confirming, Inductive
<1>3. CASE run'[r].pc \notin Late
  BY <1>3 DEF AwaitsAll, Late
<1>4. ASSUME NEW n, Becomes(r, n)
      PROVE  run'[r] = n
  BY <1>4 DEF Becomes, TypeOK
<1>5. ASSUME Fail(r)
      PROVE  AwaitsAll(r)'
  BY <1>5 DEF Fail, Becomes, TypeOK, Ended, AwaitsAll
<1>6. ASSUME UNCHANGED <<record, cluster>>, run'[r].inst = m.inst
      PROVE  Ours(r)' = Ours(r)
  BY <1>6 DEF Ours, Listed
<1>7. CASE ListPending(r)
  <2> DEFINE listed == m.doomed \cup PendingObjects(found)
             n == [m EXCEPT !.pc = IF m.wait THEN "mark" ELSE "delete",
                            !.doomed = listed, !.todo = listed]
  <2>1. n.wait = m.wait /\ n.pc = IF m.wait THEN "mark" ELSE "delete"
    BY <1>1 DEF RunState
  <2>2. run'[r] = n
    BY <1>4, <1>7 DEF ListPending
  <2> HIDE DEF n
  <2>3. QED
    BY <2>1, <2>2 DEF AwaitsAll
<1>8. CASE SetDeleting(r)
  <2>1. CASE found.exists
    <3>1. /\ record' = [record EXCEPT ![m.inst].deleting = TRUE]
          /\ run'[r] = Goto(m, "delete")
          /\ cluster' = cluster /\ m.pc = "mark"
      BY <1>4, <1>8, <2>1 DEF SetDeleting, At
    <3>2. /\ run'[r].pc = "delete" /\ run'[r].inst = m.inst
          /\ run'[r].todo = m.todo /\ run'[r].gone = m.gone
      BY <1>1, <3>1 DEF Goto, RunState
    <3>3. record'[m.inst] = [found EXCEPT !.deleting = TRUE]
      BY <1>1, <3>1 DEF TypeOK
    <3>4. Listed(r)' = Listed(r)
      BY <1>1, <3>2, <3>3 DEF Listed, ListAllObjects, PendingObjects, Records
    <3>5. Listed(r) \subseteq m.todo
      BY <1>2, <3>1 DEF Facts, NothingForgotten, DoomedUnwanted, DeleteStages
    <3>6. QED
      BY <3>2, <3>4, <3>5 DEF AwaitsAll, Ours
  <2>2. CASE ~found.exists
    BY <1>5, <1>8, <2>2 DEF SetDeleting
  <2>3. QED
    BY <2>1, <2>2
<1>9. CASE RequestDelete(r, "delete")
  <2>1. PICK o \in m.looked :
            /\ cluster' = Removed(cluster, o)
            /\ Becomes(r, [m EXCEPT !.todo = @ \ {o}, !.looked = {},
                                    !.gone = @ \cup {o}])
    BY <1>9 DEF RequestDelete
  <2>2. /\ run'[r].pc = m.pc /\ run'[r].inst = m.inst /\ run'[r].wait = m.wait
        /\ run'[r].erred = m.erred
        /\ run'[r].todo = m.todo \ {o} /\ run'[r].gone = m.gone \cup {o}
    BY <1>1, <1>4, <2>1 DEF RunState
  <2>3. m.pc = "delete" /\ record' = record
    BY <1>9 DEF RequestDelete, At
  <2>4. Ours(r)' \subseteq Ours(r)
    <3>1. ASSUME NEW p \in Objects, cluster'[p].owner = m.inst
          PROVE  cluster[p].owner = m.inst
      BY <1>1, <2>1, <3>1, AbsentAssumption DEF Removed, TypeOK, Absent, ClusterObject
    <3>2. Listed(r)' = Listed(r) /\ Listed(r) \subseteq Objects
      BY <1>1, <2>2, <2>3, PendingObjectsType DEF Listed, ListAllObjects
    <3>3. QED
      BY <2>2, <3>1, <3>2 DEF Ours
  <2>5. m.wait /\ ~m.erred => Ours(r) \subseteq m.todo \cup m.gone
    BY <1>2, <2>3 DEF AwaitsAll
  <2>6. QED
    BY <2>2, <2>3, <2>4, <2>5 DEF AwaitsAll
<1>14. CASE LookAt(r, "delete")
  <2>1. UNCHANGED <<record, cluster>> /\ m.pc = "delete"
    BY <1>14 DEF LookAt, At
  <2>2. PICK o \in m.todo : \E g \in {m.gone, m.gone \cup {o}} :
            \/ Becomes(r, [m EXCEPT !.looked = {o}])
            \/ /\ ~Deletable(o, m.inst)
               /\ Becomes(r, [m EXCEPT !.todo = @ \ {o}, !.gone = g])
    BY <1>14, LookBecomes
  <2>3. PICK g \in {m.gone, m.gone \cup {o}} :
            \/ Becomes(r, [m EXCEPT !.looked = {o}])
            \/ /\ ~Deletable(o, m.inst)
               /\ Becomes(r, [m EXCEPT !.todo = @ \ {o}, !.gone = g])
    BY <2>2
  <2>4. /\ run'[r].pc = m.pc /\ run'[r].inst = m.inst /\ run'[r].wait = m.wait
        /\ run'[r].erred = m.erred
        /\ \/ run'[r].todo = m.todo /\ run'[r].gone = m.gone
           \/ /\ ~Deletable(o, m.inst)
              /\ run'[r].todo = m.todo \ {o} /\ run'[r].gone = g
    BY <1>1, <1>4, <2>3 DEF RunState
  <2>5. Ours(r)' = Ours(r)
    BY <1>6, <2>1, <2>4
  <2>6. ~Deletable(o, m.inst) => o \notin Ours(r)
    <3>1. o \in Objects
      BY <1>1, <2>2 DEF RunState
    <3>2. cluster[o].owner = m.inst => cluster[o].phase # "absent"
      BY <1>1, <3>1, AbsentAssumption DEF Confirming, AbsentUnowned
    <3>3. QED
      BY <3>2 DEF Deletable, Ours
  <2>7. m.wait /\ ~m.erred => Ours(r) \subseteq m.todo \cup m.gone
    BY <1>2, <2>1 DEF AwaitsAll
  <2>8. m.gone \subseteq g
    BY <2>3
  <2>9. QED
    BY <2>1, <2>4, <2>5, <2>6, <2>7, <2>8 DEF AwaitsAll
<1>10. CASE DeleteRequestFails(r, "delete")
  <2>1. PICK o : Becomes(r, [m EXCEPT !.todo = @ \ {o}, !.looked = {}, !.erred = TRUE])
    BY <1>10 DEF DeleteRequestFails
  <2>2. run'[r].pc = m.pc /\ run'[r].erred
    BY <1>1, <1>4, <2>1 DEF RunState
  <2>3. m.pc = "delete"
    BY <1>10 DEF DeleteRequestFails, At
  <2>4. QED
    BY <2>2, <2>3 DEF AwaitsAll
<1>11. CASE Deleted(r)
  <2>1. CASE m.erred
    BY <1>5, <1>11, <2>1 DEF Deleted
  <2>2. CASE ~m.erred
    <3> DEFINE stage == IF m.wait /\ m.gone # {} THEN "deleteWait" ELSE "forget"
    <3>1. /\ run'[r] = Goto(m, stage) /\ UNCHANGED <<record, cluster>>
          /\ m.pc = "delete" /\ m.todo = {}
      BY <1>4, <1>11, <2>2 DEF Deleted, At
    <3>2. /\ run'[r].pc = stage /\ run'[r].inst = m.inst
          /\ run'[r].wait = m.wait /\ run'[r].gone = m.gone
      BY <1>1, <3>1 DEF Goto, RunState
    <3>3. Ours(r)' = Ours(r)
      BY <1>6, <3>1, <3>2
    <3>4. m.wait => Ours(r) \subseteq m.gone
      BY <1>2, <2>2, <3>1 DEF AwaitsAll
    <3>5. QED
      BY <3>2, <3>3, <3>4 DEF AwaitsAll
  <2>3. QED
    BY <2>1, <2>2
<1>12. CASE DeleteTerminated(r)
  <2>1. /\ run'[r] = Goto(m, "forget") /\ UNCHANGED <<record, cluster>>
        /\ m.pc = "deleteWait" /\ Terminated(m)
    BY <1>4, <1>12 DEF DeleteTerminated, At
  <2>2. run'[r].pc = "forget" /\ run'[r].inst = m.inst /\ run'[r].wait = m.wait
    BY <1>1, <2>1 DEF Goto, RunState
  <2>3. \A o \in m.gone : cluster[o].owner = Nobody
    BY <1>1, <2>1 DEF Terminated, Confirming, AbsentUnowned, RunState
  <2>4. m.wait => Ours(r) = {}
    BY <1>1, <1>2, <2>1, <2>3, AbsentAssumption DEF AwaitsAll, Ours
  <2>5. Ours(r)' = Ours(r)
    BY <1>6, <2>1, <2>2
  <2>6. QED
    BY <2>2, <2>4, <2>5 DEF AwaitsAll
<1>13. QED
  BY <1>3, <1>7, <1>8, <1>9, <1>10, <1>11, <1>12, <1>14, LateSteps

(* What disturbs no object of q leaves it as it was. *)
LEMMA AwaitsKept ==
    ASSUME NEW q \in Runs, AwaitsAll(q), run'[q] = run[q],
           record'[run[q].inst] = record[run[q].inst],
           \A o \in Listed(q) : cluster'[o].owner = run[q].inst =>
                                  cluster[o].owner = run[q].inst
    PROVE  AwaitsAll(q)'
<1>1. Ours(q)' \subseteq Ours(q)
  BY DEF Ours, Listed
<1>2. QED
  BY <1>1 DEF AwaitsAll

LEMMA AbsentUnownedNext ==
    ASSUME TypeOK, AbsentUnowned, [Next]_vars
    PROVE  AbsentUnowned'
<1>1. ASSUME cluster' = cluster
      PROVE  AbsentUnowned'
  BY <1>1 DEF AbsentUnowned
<1>2. ASSUME NEW r \in Runs, ApplyObject(r)
      PROVE  AbsentUnowned'
  BY <1>2 DEF ApplyObject, Applied, AbsentUnowned, TypeOK, ClusterObject
<1>3. ASSUME NEW r \in Runs,
             Recreate(r) \/ RequestDelete(r, "prune") \/ RequestDelete(r, "delete")
      PROVE  AbsentUnowned'
  <2>1. PICK o : cluster' = Removed(cluster, o)
    BY <1>3 DEF Recreate, RequestDelete
  <2>2. QED
    BY <2>1 DEF Removed, Absent, AbsentUnowned, TypeOK, ClusterObject
<1>4. ASSUME NEW o \in Objects, ClearFinalizer(o)
      PROVE  AbsentUnowned'
  BY <1>4 DEF ClearFinalizer, Absent, AbsentUnowned, TypeOK
<1>5. ASSUME NEW r \in Runs, Start(r)
      PROVE  AbsentUnowned'
  BY <1>1, <1>5, StartFrame
<1>6. QED
  BY <1>1, <1>2, <1>3, <1>4, <1>5, ClusterSteps DEF Next, Quiet, vars

LEMMA ConfirmingNext ==
    ASSUME TypeOK, Inductive, Confirming, [Next]_vars
    PROVE  Confirming'
<1>1. AbsentUnowned'
  BY AbsentUnownedNext DEF Confirming
<1>2. \A q \in Runs : Listed(q) \subseteq Objects /\ run[q].inst \in Instances
  BY PendingObjectsType DEF Listed, ListAllObjects, TypeOK, RunState
<1>3. ASSUME NEW r \in Runs, Step(r) \/ Fault(r), NEW q \in Runs \ {r}
      PROVE  AwaitsAll(q)'
  <2>1. CASE Active(q)
    <3>1. /\ run'[q] = run[q] /\ run[q].inst \in Instances \ {run[r].inst}
          /\ record'[run[q].inst] = record[run[q].inst]
      BY <1>3, <2>1, OtherFrame
    <3>2. \A o \in Listed(q) : cluster'[o].owner = run[q].inst =>
                                 cluster[o].owner = run[q].inst
      BY <1>2, <1>3, <3>1, LabelFrame, AbsentAssumption
    <3>3. QED
      BY <3>1, <3>2, AwaitsKept DEF Confirming
  <2>2. CASE ~Active(q)
    <3>1. run'[q] = run[q]
      BY <1>3, RunFrame
    <3>2. QED
      BY <2>2, <3>1 DEF Active, Outcomes, AwaitsAll
  <2>3. QED
    BY <2>1, <2>2
<1>4. ASSUME NEW r \in Runs, Step(r) \/ Fault(r)
      PROVE  \A q \in Runs : AwaitsAll(q)'
  BY <1>3, <1>4, AwaitsStep
<1>5. ASSUME NEW r \in Runs, Start(r)
      PROVE  \A q \in Runs : AwaitsAll(q)'
  <2>1. AwaitsAll(r)'
    BY <1>5, StartFrame DEF AwaitsAll
  <2>2. \A q \in Runs \ {r} : AwaitsAll(q)'
    BY <1>5, StartFrame, AwaitsKept DEF Confirming
  <2>3. QED
    BY <2>1, <2>2
<1>6. ASSUME NEW p \in Objects, ClearFinalizer(p)
      PROVE  \A q \in Runs : AwaitsAll(q)'
  <2>1. \A o \in Objects : cluster'[o].owner \in {cluster[o].owner, Nobody}
    BY <1>6 DEF ClearFinalizer, TypeOK, Absent
  <2>2. QED
    BY <1>2, <1>6, <2>1, AwaitsKept, AbsentAssumption DEF Confirming, ClearFinalizer
<1>7. ASSUME UNCHANGED vars
      PROVE  \A q \in Runs : AwaitsAll(q)'
  BY <1>7, AwaitsKept DEF vars, Confirming
<1>8. QED
  BY <1>1, <1>4, <1>5, <1>6, <1>7 DEF Next, Quiet, Confirming

(* While the operators run one command per instance at a time, a delete      *)
(* forgets the instance only when each recorded object is out of its hands:  *)
(* gone, another's, kept by annotation, or being finalized under an operator *)
(* who asked not to wait.                                                    *)
THEOREM DeleteConfirmedHolds ==
    ASSUME Serial
    PROVE  Spec => DeleteConfirmed
<1> DEFINE Forgets(r) ==
        DeleteRecord(r) =>
            \A o \in ListAllObjects(record[run[r].inst]) \ Keep :
                cluster[o].owner = run[r].inst =>
                    ~run[r].wait /\ cluster[o].phase = "terminating"
<1>1. ASSUME TypeOK, Inductive, Confirming, NEW r \in Runs
      PROVE  Forgets(r)
  <2> SUFFICES ASSUME DeleteRecord(r), NEW o \in Listed(r) \ Keep,
                      cluster[o].owner = run[r].inst
               PROVE  ~run[r].wait /\ cluster[o].phase = "terminating"
    BY DEF Listed
  <2>1. run[r].pc = "forget" /\ run[r].inst \in Instances
    BY <1>1 DEF DeleteRecord, At, TypeOK, RunState
  <2>2. o \in Objects
    BY <1>1, <2>1, PendingObjectsType DEF Listed, ListAllObjects, TypeOK
  <2>3. ~run[r].wait
    BY <1>1, <2>1 DEF Confirming, AwaitsAll, Ours
  <2>4. ~Held(o, run[r].inst)
    BY <1>1, <2>1 DEF Inductive, Facts, NothingForgotten, DoomedUnwanted, DeleteStages
  <2>5. cluster[o].phase # "absent"
    BY <1>1, <2>1, <2>2, AbsentAssumption DEF Confirming, AbsentUnowned
  <2>6. cluster[o].phase \in {"absent", "live", "terminating"}
    BY <1>1, <2>2 DEF TypeOK, ClusterObject
  <2>7. QED
    BY <2>3, <2>4, <2>5, <2>6 DEF Held
<1>2. TypeOK /\ Inductive /\ Confirming /\ [Next]_vars => [\A r \in Runs : Forgets(r)]_vars
  BY <1>1
<1>3. Init => Confirming
  BY DEF Init, Confirming, AbsentUnowned, AwaitsAll, Absent, Ended
<1>4. TypeOK /\ Inductive /\ Confirming /\ [Next]_vars => Confirming'
  BY ConfirmingNext
<1>5. QED
  BY <1>2, <1>3, <1>4, TypeCorrect, InductiveHolds, PTL DEF Spec, DeleteConfirmed

--------------------------------------------------------------------------------
(***************************************************************************)
(* A bundle does not lose an instance unasked.                             *)
(***************************************************************************)

(* A standalone apply that was not asked to overwrite the owner, and has     *)
(* passed the check of Init, is about an instance that no bundle owns.       *)
Unclaimed(r) ==
    /\ run[r].pc \in ApplyStages \ {"get"}
    /\ run[r].bundle = NoBundle
    /\ ~run[r].overwrite
    => ~record[run[r].inst].exists \/ record[run[r].inst].bundle = NoBundle

NoneStolen == \A r \in Runs : Unclaimed(r)

(* Who owns an instance is written by an install and by the last write of an *)
(* apply; a pending revision carries over the owner that was read.           *)
LEMMA OwnerWrites ==
    ASSUME TypeOK, Inductive, NEW r \in Runs, Step(r) \/ Fault(r), NEW i \in Instances
    PROVE  \/ record'[i].exists = record[i].exists /\ record'[i].bundle = record[i].bundle
           \/ ~record'[i].exists
           \/ /\ i = run[r].inst
              /\ Install(r) \/ UpdateInventory(r)
              /\ record'[i].bundle = run[r].bundle
<1> DEFINE m == run[r]
           found == record[m.inst]
<1>1. m \in RunState /\ m.inst \in Instances /\ found \in Records(Owners)
  BY DEF TypeOK, RunState
<1>2. CASE i # m.inst
  BY <1>2, RunFrame
<1>3. CASE record' = record
  BY <1>3
<1>4. ASSUME NEW rec, record' = [record EXCEPT ![m.inst] = rec]
      PROVE  record'[m.inst] = rec
  BY <1>1, <1>4 DEF TypeOK
<1>5. CASE i = m.inst /\ (Install(r) \/ UpdateInventory(r))
  <2>1. record'[i] = StoredRecord(found, Desired(m), m.bundle)
    BY <1>4, <1>5 DEF Install, UpdateInventory, WriteRecord
  <2>2. record'[i].bundle = m.bundle
    BY <2>1 DEF StoredRecord
  <2>3. QED
    BY <1>5, <2>2, Zenon
<1>6. CASE i = m.inst /\ SavePending(r)
  <2>1. record'[i] = PendingRecord(found, m.seen, Desired(m))
    BY <1>4, <1>6 DEF SavePending
  <2>2. found.exists /\ m.seen = found
    BY <1>6 DEF SavePending, At, Inductive, Facts, ReadsAreFresh
  <2>3. QED
    BY <1>6, <2>1, <2>2 DEF PendingRecord
<1>7. CASE i = m.inst /\ SetDeleting(r)
  <2>1. record'[i] \in {found, [found EXCEPT !.deleting = TRUE]}
    BY <1>1, <1>7 DEF SetDeleting, Fail, TypeOK
  <2>2. QED
    BY <1>1, <1>7, <2>1 DEF Records
<1>8. CASE i = m.inst /\ DeleteRecord(r)
  BY <1>4, <1>8 DEF DeleteRecord, NoRecord
<1>9. QED
  BY <1>2, <1>3, <1>5, <1>6, <1>7, <1>8, RecordSteps

LEMMA UnclaimedStep ==
    ASSUME ~BadReads, TypeOK, Inductive, NoneStolen, NEW r \in Runs, Step(r) \/ Fault(r)
    PROVE  Unclaimed(r)'
<1> DEFINE m == run[r]
<1>1. m \in RunState /\ m.inst \in Instances
  BY DEF TypeOK, RunState
<1> SUFFICES ASSUME run'[r].pc \in ApplyStages \ {"get"},
                    run'[r].bundle = NoBundle, ~run'[r].overwrite
             PROVE  \/ ~record'[run'[r].inst].exists
                    \/ record'[run'[r].inst].bundle = NoBundle
  BY DEF Unclaimed
<1>2. run'[r].pc \notin Outcomes
  BY DEF ApplyStages, Outcomes
<1>3. /\ run'[r].inst = m.inst /\ m.bundle = NoBundle /\ ~m.overwrite
      /\ m.pc \in ApplyStages
  BY <1>2, IdentityKept
<1>4. CASE m.pc = "get"
  <2>1. ASSUME Fail(r)
        PROVE  FALSE
    BY <1>2, <2>1 DEF Fail, Becomes, TypeOK, Ended, Outcomes
  <2>2. GetInstance(r) \/ MisreadInstance(r)
    BY <1>4, <2>1 DEF Step, Fault, At, GetInstance, RefuseOwnership, GetStaleObjects,
       GetPending, Install, Reapply, ReadForPending, SavePending, CheckObject, Recreate,
       Recreated, ApplyObject, SetReady, LookAtStale, LookAt, PruneObject, RequestDelete,
       Pruned, PruneTerminated, UpdateInventory, ListStored, ListPending, SetDeleting,
       LookAtListed, DeleteListed, Deleted, DeleteTerminated, DeleteRecord,
       Abort, MisreadInstance, RecreateTimeout, SetNotReady, PruneObjectFails,
       DeleteRequestFails, PruneTimeout, TerminationTimeout, DeleteListedFails, DeleteTimeout
  <2>3. /\ record' = record
        /\ record[m.inst].exists => ~OwnershipConflict(m, record[m.inst])
    BY <2>2 DEF GetInstance, MisreadInstance
  <2>4. QED
    BY <1>3, <2>3 DEF OwnershipConflict
<1>5. CASE m.pc # "get"
  <2>1. ~record[m.inst].exists \/ record[m.inst].bundle = NoBundle
    BY <1>3, <1>5 DEF NoneStolen, Unclaimed
  <2>2. QED
    BY <1>1, <1>3, <2>1, OwnerWrites
<1>6. QED
  BY <1>4, <1>5

LEMMA NoneStolenNext ==
    ASSUME ~BadReads, TypeOK, Inductive, NoneStolen, [Next]_vars
    PROVE  NoneStolen'
<1>1. ASSUME NEW r \in Runs, Step(r) \/ Fault(r), NEW q \in Runs \ {r}
      PROVE  Unclaimed(q)'
  <2>1. CASE Active(q)
    BY <1>1, <2>1, OtherFrame DEF NoneStolen, Unclaimed
  <2>2. CASE ~Active(q)
    <3>1. run'[q] = run[q]
      BY <1>1, RunFrame
    <3>2. QED
      BY <2>2, <3>1 DEF Active, Outcomes, ApplyStages, Unclaimed
  <2>3. QED
    BY <2>1, <2>2
<1>2. ASSUME NEW r \in Runs, Step(r) \/ Fault(r)
      PROVE  NoneStolen'
  BY <1>1, <1>2, UnclaimedStep DEF NoneStolen
<1>3. ASSUME NEW r \in Runs, Start(r)
      PROVE  NoneStolen'
  BY <1>3, StartFrame DEF NoneStolen, Unclaimed, ApplyStages
<1>4. ASSUME run' = run, record' = record
      PROVE  NoneStolen'
  BY <1>4 DEF NoneStolen, Unclaimed
<1>5. QED
  BY <1>2, <1>3, <1>4 DEF Next, ClearFinalizer, Quiet, vars

(* While the operators run one command per instance at a time and records    *)
(* are not misread, the owner of an instance changes only with an apply that *)
(* names the new one, and a standalone apply takes an instance from a bundle *)
(* only when it was asked to.                                                *)
THEOREM OwnershipKeptHolds ==
    ASSUME Serial, ~BadReads
    PROVE  Spec => OwnershipKept
<1> DEFINE Kept(i) ==
        /\ record[i].exists /\ record'[i].exists
        /\ record'[i].bundle # record[i].bundle
        => \E r \in Runs :
               /\ run[r].inst = i
               /\ At(r, "record") \/ At(r, "update")
               /\ record'[i].bundle = run[r].bundle
               /\ run[r].bundle = NoBundle => run[r].overwrite
<1>1. ASSUME TypeOK, Inductive, NoneStolen, [Next]_vars, NEW i \in Instances
      PROVE  Kept(i)
  <2>1. CASE record' = record
    BY <2>1
  <2>2. ASSUME NEW r \in Runs, Step(r) \/ Fault(r)
        PROVE  Kept(i)
    <3>1. ASSUME record[i].exists, record'[i].exists, record'[i].bundle # record[i].bundle
          PROVE  /\ run[r].inst = i /\ (At(r, "record") \/ At(r, "update"))
                 /\ record'[i].bundle = run[r].bundle
                 /\ run[r].bundle = NoBundle => run[r].overwrite
      <4>1. /\ i = run[r].inst /\ (Install(r) \/ UpdateInventory(r))
            /\ record'[i].bundle = run[r].bundle
        BY <1>1, <2>2, <3>1, OwnerWrites
      <4>2. At(r, "record") \/ At(r, "update")
        BY <4>1 DEF Install, UpdateInventory
      <4>3. Unclaimed(r)
        BY <1>1 DEF NoneStolen
      <4>4. run[r].bundle = NoBundle => run[r].overwrite
        BY <3>1, <4>1, <4>2, <4>3 DEF Unclaimed, At, ApplyStages
      <4>5. QED
        BY <4>1, <4>2, <4>4
    <3>2. QED
      BY <3>1
  <2>3. ASSUME NEW r \in Runs, Start(r)
        PROVE  Kept(i)
    BY <1>1, <2>1, <2>3, StartFrame
  <2>4. QED
    BY <1>1, <2>1, <2>2, <2>3 DEF Next, ClearFinalizer, Quiet, vars
<1>2. TypeOK /\ Inductive /\ NoneStolen /\ [Next]_vars => [\A i \in Instances : Kept(i)]_vars
  BY <1>1
<1>3. Init => NoneStolen
  BY DEF Init, NoneStolen, Unclaimed, Ended, ApplyStages
<1>4. TypeOK /\ Inductive /\ NoneStolen /\ [Next]_vars => NoneStolen'
  BY NoneStolenNext
<1>5. QED
  BY <1>2, <1>3, <1>4, TypeCorrect, InductiveHolds, PTL DEF Spec, OwnershipKept

--------------------------------------------------------------------------------
(***************************************************************************)
(* Sets are applied in their order.                                        *)
(***************************************************************************)

Applying == {"apply", "prune", "pruneWait", "update"}

Created(c, o) == c[o].phase # "absent" \/ o \in Finalized

(* InPlace on the cluster c. *)
Settled(c, m, o) ==
    IF m.wait /\ o \notin NoWait THEN c[o].phase = "live" ELSE Created(c, o)

SettledBefore(c, m, k) ==
    \A j \in 1..(k - 1) : \A o \in ListMeta(m.render[j]) :
        Settled(c, m, o) \/ RecreatedSince(m, j, o)

(* A run with the memory m, on the cluster c, has created what it has        *)
(* applied of its set, and the sets before are in place.                     *)
Placed(c, m) ==
    m.pc \in Applying =>
        /\ 1..(m.set - 1) \subseteq DOMAIN m.render
        /\ m.pc = "apply" =>
               /\ m.set \in DOMAIN m.render
               /\ m.todo \subseteq ListMeta(m.render[m.set])
               /\ \A o \in ListMeta(m.render[m.set]) \ m.todo : Created(c, o)
        /\ ~m.unready => SettledBefore(c, m, m.set)

(* Only a finalizer keeps an object that was deleted. *)
FinalizersHold == \A o \in Objects : cluster[o].phase = "terminating" => o \in Finalized

AllPlaced == \A r \in Runs : Placed(cluster, run[r])

(* What a run wants stays as far as it has come. *)
LEMMA PlacedMore ==
    ASSUME NEW c, NEW d, NEW m \in RunState, Placed(c, m),
           \A o \in ListMeta(Desired(m)) :
               /\ c[o].phase = "live" => d[o].phase = "live"
               /\ Created(c, o) => Created(d, o)
    PROVE  Placed(d, m)
<1>1. \A k \in DOMAIN m.render : ListMeta(m.render[k]) \subseteq ListMeta(Desired(m))
  BY DesiredType
<1>2. \A o \in ListMeta(Desired(m)) : Settled(c, m, o) => Settled(d, m, o)
  BY DEF Settled
<1>3. m.pc \in Applying /\ ~m.unready => SettledBefore(d, m, m.set)
  BY <1>1, <1>2 DEF Placed, SettledBefore
<1>4. QED
  BY <1>1, <1>3 DEF Placed

LEMMA PlacedEnter ==
    ASSUME NEW c, NEW m \in RunState, NEW k \in Nat \ {0},
           1..(k - 1) \subseteq DOMAIN m.render, k = 1 \/ m.set < k,
           ~m.unready => SettledBefore(c, m, k)
    PROVE  Placed(c, EnterSet(m, k))
<1> DEFINE n == EnterSet(m, k)
<1>1. /\ n.set = k /\ n.render = m.render /\ n.unready = m.unready /\ n.wait = m.wait
      /\ n.recreate = m.recreate
      /\ n.pc = "apply" => k \in DOMAIN m.render /\ n.todo = ListMeta(m.render[k])
  <2>1. CASE k \in DOMAIN m.render
    BY <2>1 DEF EnterSet, RunState
  <2>2. CASE k \notin DOMAIN m.render
    BY <2>2 DEF EnterSet, RunState
  <2>3. QED
    BY <2>1, <2>2
<1> HIDE DEF n
<1>2. ~n.unready => SettledBefore(c, n, n.set)
  <2>1. ASSUME m.set < k, NEW j, NEW o, RecreatedSince(m, j, o)
        PROVE  RecreatedSince(n, j, o)
    <3>1. m.set \in Nat
      BY DEF RunState
    <3>2. PICK l \in (j + 1)..m.set : l \in DOMAIN m.render /\ o \in ListMeta(m.render[l])
      BY <2>1 DEF RecreatedSince
    <3>3. l \in (j + 1)..n.set
      BY <1>1, <2>1, <3>1, <3>2
    <3>4. QED
      BY <1>1, <2>1, <3>2, <3>3 DEF RecreatedSince
  <2>2. \A o : Settled(c, m, o) => Settled(c, n, o)
    BY <1>1 DEF Settled
  <2>3. QED
    BY <1>1, <2>1, <2>2 DEF SettledBefore
<1>3. Placed(c, n)
  BY <1>1, <1>2 DEF Placed
<1>4. QED
  BY <1>3 DEF n

(* The memory m turns into n, which has come as far, or further in its loop. *)
LEMMA PlacedOn ==
    ASSUME NEW c, NEW m, NEW n, Placed(c, m), n.pc = m.pc,
           n.set = m.set, n.render = m.render, n.wait = m.wait,
           n.unready = m.unready, n.recreate = m.recreate,
           m.pc = "apply" => /\ n.todo \subseteq m.todo
                             /\ \A o \in m.todo \ n.todo : Created(c, o)
    PROVE  Placed(c, n)
<1>1. SettledBefore(c, m, m.set) => SettledBefore(c, n, n.set)
  BY DEF SettledBefore, Settled, RecreatedSince
<1>2. QED
  BY <1>1 DEF Placed

LEMMA PlacedStep ==
    ASSUME TypeOK, Inductive, FinalizersHold, NEW r \in Runs,
           Placed(cluster, run[r]), Step(r) \/ Fault(r)
    PROVE  Placed(cluster', run'[r])
<1> DEFINE m == run[r]
<1>1. m \in RunState /\ m.inst \in Instances
  BY DEF TypeOK, RunState
<1>2. ASSUME NEW n, Becomes(r, n)
      PROVE  run'[r] = n
  BY <1>2 DEF Becomes, TypeOK
<1>3. ASSUME run'[r].pc \notin Applying
      PROVE  Placed(cluster', run'[r])
  BY <1>3 DEF Placed
<1>4. ASSUME Fail(r)
      PROVE  Placed(cluster', run'[r])
  BY <1>2, <1>3, <1>4 DEF Fail, Ended, Applying
<1>5. ASSUME NEW n \in RunState, cluster' = cluster, Becomes(r, EnterSet(n, 1))
      PROVE  Placed(cluster', run'[r])
  <2>1. Placed(cluster, EnterSet(n, 1))
    BY PlacedEnter DEF SettledBefore
  <2>2. QED
    BY <1>2, <1>5, <2>1
<1>6. CASE Install(r) \/ Reapply(r) \/ SavePending(r)
  <2>1. [m EXCEPT !.seen = NoRecord(NoBundle)] \in RunState
    BY <1>1 DEF RunState, NoRecord, Records, Owners, Inventories
  <2>2. QED
    BY <1>1, <1>5, <1>6, <2>1 DEF Install, Reapply, SavePending
<1>7. CASE SetReady(r)
  <2>1. m.pc = "apply" /\ m.todo = {} /\ m.set \in DOMAIN m.render
    BY <1>7 DEF SetReady, At, Placed, Applying
  <2>2. m.set \in Nat /\ m.set + 1 \in Nat \ {0}
    BY <1>1 DEF RunState
  <2>3. 1..((m.set + 1) - 1) \subseteq DOMAIN m.render
    <3>1. 1..((m.set + 1) - 1) \subseteq 1..(m.set - 1) \cup {m.set}
      BY <2>2
    <3>2. QED
      BY <2>1, <3>1 DEF Placed, Applying
  <2>4. \A o \in ListMeta(m.render[m.set]) : Settled(cluster, m, o)
    BY <1>7, <2>1 DEF SetReady, Awaited, Ready, Settled, Placed, Applying
  <2>5. ASSUME ~m.unready
        PROVE  SettledBefore(cluster, m, m.set + 1)
    <3>1. SettledBefore(cluster, m, m.set)
      BY <2>1, <2>5 DEF Placed, Applying
    <3>2. \A j \in 1..((m.set + 1) - 1) : j = m.set \/ j \in 1..(m.set - 1)
      BY <2>2
    <3>3. QED
      BY <2>4, <3>1, <3>2 DEF SettledBefore
  <2>6. m.set < m.set + 1
    BY <2>2
  <2>7. Placed(cluster, EnterSet(m, m.set + 1))
    BY <1>1, <2>2, <2>3, <2>5, <2>6, PlacedEnter
  <2>8. QED
    BY <1>2, <1>7, <2>7 DEF SetReady
<1>8. CASE SetNotReady(r)
  <2> DEFINE n == [m EXCEPT !.pc = "prune", !.todo = m.doomed, !.unready = TRUE]
  <2>1. n.pc = "prune" /\ n.unready /\ n.set = m.set /\ n.render = m.render
    BY <1>1 DEF RunState
  <2>2. run'[r] = n /\ cluster' = cluster /\ m.pc = "apply"
    BY <1>2, <1>8 DEF SetNotReady, At
  <2> HIDE DEF n
  <2>3. QED
    BY <2>1, <2>2 DEF Placed, Applying
<1>9. CASE ApplyObject(r)
  <2>1. PICK o \in m.looked :
            /\ cluster' = Applied(cluster, o, m.inst)
            /\ Becomes(r, [m EXCEPT !.todo = @ \ {o}, !.looked = @ \ {o}])
    BY <1>9 DEF ApplyObject
  <2> DEFINE n == [m EXCEPT !.todo = @ \ {o}, !.looked = @ \ {o}]
  <2>2. o \in Objects
    BY <1>1, <2>1 DEF RunState
  <2>3. /\ n.pc = m.pc /\ n.set = m.set /\ n.render = m.render /\ n.wait = m.wait
        /\ n.unready = m.unready /\ n.recreate = m.recreate /\ n.todo = m.todo \ {o}
    BY <1>1 DEF RunState
  <2>4. run'[r] = n
    BY <1>2, <2>1
  <2>5. \A p \in Objects : /\ cluster[p].phase = "live" => cluster'[p].phase = "live"
                           /\ Created(cluster, p) => Created(cluster', p)
    BY <2>1, <2>2 DEF Applied, TypeOK, ClusterObject, Created
  <2>6. Placed(cluster', m)
    BY <1>1, <2>5, PlacedMore, DesiredType
  <2>7. Created(cluster', o)
    BY <2>1, <2>2 DEF Applied, TypeOK, ClusterObject, Created
  <2> HIDE DEF n
  <2>8. Placed(cluster', n)
    BY <2>3, <2>6, <2>7, PlacedOn
  <2>9. QED
    BY <2>4, <2>8
<1>18. CASE CheckObject(r)
  <2> DEFINE Skip(o) == [m EXCEPT !.todo = @ \ {o}]
             Look(o) == [m EXCEPT !.looked = @ \cup {o}]
  <2>1. PICK o \in m.todo : \/ Becomes(r, Skip(o)) /\ cluster[o].phase # "absent"
                            \/ Becomes(r, Look(o))
    BY <1>18 DEF CheckObject
  <2>2. /\ \A n \in {Skip(o), Look(o)} :
               /\ n.pc = m.pc /\ n.set = m.set /\ n.render = m.render /\ n.wait = m.wait
               /\ n.unready = m.unready /\ n.recreate = m.recreate
        /\ Skip(o).todo = m.todo \ {o} /\ Look(o).todo = m.todo
    BY <1>1 DEF RunState
  <2> HIDE DEF Skip, Look
  <2>3. cluster' = cluster
    BY <1>18 DEF CheckObject
  <2>4. cluster[o].phase # "absent" => Placed(cluster, Skip(o))
    BY <2>2, PlacedOn DEF Created
  <2>5. Placed(cluster, Look(o))
    BY <2>2, PlacedOn
  <2>6. QED
    BY <1>2, <2>1, <2>3, <2>4, <2>5
<1>19. CASE Recreate(r)
  <2>1. PICK o \in m.todo \cap m.recreate :
            /\ cluster' = Removed(cluster, o)
            /\ Becomes(r, [m EXCEPT !.gone = @ \cup {o}])
    BY <1>19 DEF Recreate
  <2> DEFINE n == [m EXCEPT !.gone = @ \cup {o}]
  <2>2. /\ n.pc = m.pc /\ n.set = m.set /\ n.render = m.render /\ n.wait = m.wait
        /\ n.unready = m.unready /\ n.recreate = m.recreate /\ n.todo = m.todo
    BY <1>1 DEF RunState
  <2>3. run'[r] = n /\ m.pc = "apply" /\ m.set \in Nat
    BY <1>1, <1>2, <1>19, <2>1 DEF Recreate, At, RunState
  <2> HIDE DEF n
  <2>4. /\ m.set \in DOMAIN m.render /\ o \in ListMeta(m.render[m.set])
        /\ 1..(m.set - 1) \subseteq DOMAIN m.render
        /\ m.todo \subseteq ListMeta(m.render[m.set])
        /\ \A p \in ListMeta(m.render[m.set]) \ m.todo : Created(cluster, p)
        /\ ~m.unready => SettledBefore(cluster, m, m.set)
    BY <2>1, <2>3 DEF Placed, Applying
  <2>5. \A p : p # o => cluster'[p] = cluster[p]
    BY <2>1 DEF Removed
  <2>6. \A p : /\ p # o /\ Settled(cluster, m, p) => Settled(cluster', m, p)
               /\ p # o /\ Created(cluster, p) => Created(cluster', p)
    BY <2>5 DEF Settled, Created
  <2>7. \A j \in 1..(m.set - 1) : RecreatedSince(m, j, o)
    <3>1. \A j \in 1..(m.set - 1) : m.set \in (j + 1)..m.set
      BY <2>3
    <3>2. QED
      BY <2>1, <2>4, <3>1 DEF RecreatedSince
  <2>8. ASSUME ~m.unready
        PROVE  SettledBefore(cluster', m, m.set)
    <3>1. SUFFICES ASSUME NEW j \in 1..(m.set - 1), NEW p \in ListMeta(m.render[j])
                   PROVE  Settled(cluster', m, p) \/ RecreatedSince(m, j, p)
      BY DEF SettledBefore
    <3>2. Settled(cluster, m, p) \/ RecreatedSince(m, j, p)
      BY <2>4, <2>8 DEF SettledBefore
    <3>3. QED
      BY <2>6, <2>7, <3>2
  <2>9. ASSUME NEW p \in ListMeta(m.render[m.set]) \ m.todo
        PROVE  Created(cluster', p)
    <3>1. p # o /\ Created(cluster, p)
      BY <2>1, <2>4
    <3>2. QED
      BY <2>6, <3>1
  <2>10. Placed(cluster', m)
    BY <2>3, <2>4, <2>8, <2>9 DEF Placed
  <2>11. QED
    BY <2>2, <2>3, <2>10, PlacedOn
<1>20. CASE Recreated(r)
  <2>1. PICK o : Becomes(r, [m EXCEPT !.gone = @ \ {o}, !.looked = @ \cup {o}])
    BY <1>20 DEF Recreated
  <2> DEFINE n == [m EXCEPT !.gone = @ \ {o}, !.looked = @ \cup {o}]
  <2>2. /\ n.pc = m.pc /\ n.set = m.set /\ n.render = m.render /\ n.wait = m.wait
        /\ n.unready = m.unready /\ n.recreate = m.recreate /\ n.todo = m.todo
    BY <1>1 DEF RunState
  <2>3. run'[r] = n /\ cluster' = cluster
    BY <1>2, <1>20, <2>1 DEF Recreated
  <2> HIDE DEF n
  <2>4. QED
    BY <2>2, <2>3, PlacedOn
<1>10. CASE PruneObject(r)
  <2>1. PICK o \in m.looked :
            /\ cluster' = Removed(cluster, o)
            /\ Becomes(r, [m EXCEPT !.todo = @ \ {o}, !.looked = {}, !.gone = @ \cup {o}])
    BY <1>10 DEF PruneObject, RequestDelete
  <2> DEFINE n == [m EXCEPT !.todo = @ \ {o}, !.looked = {}, !.gone = @ \cup {o}]
  <2>2. m.pc = "prune"
    BY <1>10 DEF PruneObject, RequestDelete, At
  <2>3. o \notin ListMeta(Desired(m))
    BY <2>1, <2>2 DEF Inductive, Facts, LookedAhead, DoomedUnwanted, Wanted, ApplyStages
  <2>4. \A p \in ListMeta(Desired(m)) : cluster'[p] = cluster[p]
    BY <2>1, <2>3 DEF Removed
  <2>5. Placed(cluster', m)
    BY <1>1, <2>4, PlacedMore DEF Created
  <2>6. /\ n.pc = m.pc /\ n.set = m.set /\ n.render = m.render
        /\ n.wait = m.wait /\ n.unready = m.unready /\ n.recreate = m.recreate
    BY <1>1 DEF RunState
  <2>7. run'[r] = n
    BY <1>2, <2>1
  <2> HIDE DEF n
  <2>8. QED
    BY <2>2, <2>5, <2>6, <2>7, PlacedOn
<1>21. CASE LookAtStale(r)
  <2>1. m.pc = "prune" /\ cluster' = cluster
    BY <1>21 DEF LookAtStale, LookAt, At
  <2>2. PICK o \in m.todo : \E g \in {m.gone, m.gone \cup {o}} :
            \/ Becomes(r, [m EXCEPT !.looked = {o}])
            \/ Becomes(r, [m EXCEPT !.todo = @ \ {o}, !.gone = g])
    BY <1>21, LookBecomes DEF LookAtStale
  <2>3. ASSUME NEW n, Becomes(r, n), n.pc = m.pc, n.set = m.set, n.render = m.render,
               n.wait = m.wait, n.unready = m.unready, n.recreate = m.recreate
        PROVE  Placed(cluster', run'[r])
    BY <1>2, <2>1, <2>3, PlacedOn
  <2>4. CASE Becomes(r, [m EXCEPT !.looked = {o}])
    <3> DEFINE n == [m EXCEPT !.looked = {o}]
    <3>1. /\ n.pc = m.pc /\ n.set = m.set /\ n.render = m.render
          /\ n.wait = m.wait /\ n.unready = m.unready /\ n.recreate = m.recreate
      BY <1>1 DEF RunState
    <3>2. Becomes(r, n)
      BY <2>4
    <3> HIDE DEF n
    <3>3. QED
      BY <2>3, <3>1, <3>2
  <2>5. ASSUME NEW g, Becomes(r, [m EXCEPT !.todo = @ \ {o}, !.gone = g])
        PROVE  Placed(cluster', run'[r])
    <3> DEFINE n == [m EXCEPT !.todo = @ \ {o}, !.gone = g]
    <3>1. /\ n.pc = m.pc /\ n.set = m.set /\ n.render = m.render
          /\ n.wait = m.wait /\ n.unready = m.unready /\ n.recreate = m.recreate
      BY <1>1 DEF RunState
    <3>2. Becomes(r, n)
      BY <2>5
    <3> HIDE DEF n
    <3>3. QED
      BY <2>3, <3>1, <3>2
  <2>6. QED
    BY <2>2, <2>4, <2>5
<1>11. CASE PruneObjectFails(r) \/ Pruned(r) \/ PruneTerminated(r)
  <2>1. SUFFICES ASSUME ~Fail(r)
                 PROVE  Placed(cluster', run'[r])
    BY <1>4
  <2>2. /\ cluster' = cluster /\ m.pc \in {"prune", "pruneWait"}
        /\ \/ \E stage \in {"pruneWait", "update"} : Becomes(r, Goto(m, stage))
           \/ \E o : Becomes(r, [m EXCEPT !.todo = @ \ {o}, !.looked = {}, !.erred = TRUE])
    BY <1>11, <2>1 DEF PruneObjectFails, DeleteRequestFails, Pruned, PruneTerminated,
       AfterPrune, At
  <2>3. /\ run'[r].set = m.set /\ run'[r].render = m.render /\ run'[r].wait = m.wait
        /\ run'[r].unready = m.unready /\ run'[r].recreate = m.recreate
        /\ run'[r].pc \in Applying \ {"apply"}
    <3>1. ASSUME NEW stage \in {"pruneWait", "update"}, Becomes(r, Goto(m, stage))
          PROVE  <2>3
      BY <1>1, <1>2, <3>1 DEF RunState, Goto, Applying
    <3>2. ASSUME NEW o, Becomes(r, [m EXCEPT !.todo = @ \ {o}, !.looked = {}, !.erred = TRUE])
          PROVE  <2>3
      <4> DEFINE n == [m EXCEPT !.todo = @ \ {o}, !.looked = {}, !.erred = TRUE]
      <4>1. /\ n.set = m.set /\ n.render = m.render /\ n.wait = m.wait
            /\ n.unready = m.unready /\ n.recreate = m.recreate /\ n.pc = m.pc
        BY <1>1 DEF RunState
      <4>2. run'[r] = n
        BY <1>2, <3>2
      <4> HIDE DEF n
      <4>3. QED
        BY <2>2, <4>1, <4>2 DEF Applying
    <3>3. QED
      BY <2>2, <3>1, <3>2
  <2>4. QED
    BY <2>2, <2>3 DEF Placed, Applying, SettledBefore, Settled, RecreatedSince
<1>12. CASE \/ GetInstance(r) \/ RefuseOwnership(r) \/ GetStaleObjects(r) \/ GetPending(r)
            \/ ReadForPending(r) \/ MisreadInstance(r)
  <2>1. ASSUME NEW stage \in {"stale", "pending", "record", "savePending"},
               NEW n, n.pc = stage, Becomes(r, n)
        PROVE  Placed(cluster', run'[r])
    BY <1>2, <1>3, <2>1 DEF Applying
  <2>2. CASE GetInstance(r)
    BY <1>1, <2>1, <2>2 DEF GetInstance, Goto, RunState
  <2>3. CASE RefuseOwnership(r)
    BY <1>4, <2>3 DEF RefuseOwnership
  <2>4. CASE GetStaleObjects(r)
    BY <1>1, <2>1, <2>4 DEF GetStaleObjects, Goto, RunState
  <2>5. CASE GetPending(r)
    BY <1>1, <2>1, <2>5 DEF GetPending, Goto, RunState
  <2>6. CASE ReadForPending(r)
    BY <1>1, <1>4, <2>1, <2>6 DEF ReadForPending, Goto, RunState
  <2>7. CASE MisreadInstance(r)
    BY <1>1, <2>1, <2>7 DEF MisreadInstance, Goto, RunState
  <2>8. QED
    BY <1>12, <2>2, <2>3, <2>4, <2>5, <2>6, <2>7
<1>13. CASE UpdateInventory(r) \/ DeleteRecord(r)
  BY <1>2, <1>3, <1>13 DEF UpdateInventory, DeleteRecord, Ended, Applying
<1>14. CASE \/ ListStored(r) \/ ListPending(r) \/ SetDeleting(r) \/ Deleted(r)
            \/ DeleteTerminated(r)
  <2>1. ASSUME NEW stage \in DeleteStages, NEW n, n.pc = stage, Becomes(r, n)
        PROVE  Placed(cluster', run'[r])
    BY <1>2, <1>3, <2>1 DEF Applying, DeleteStages
  <2>2. CASE ListStored(r)
    BY <1>1, <1>4, <2>1, <2>2 DEF ListStored, Goto, RunState, DeleteStages
  <2>3. CASE ListPending(r)
    BY <1>1, <2>1, <2>3 DEF ListPending, RunState, DeleteStages
  <2>4. CASE SetDeleting(r)
    BY <1>1, <1>4, <2>1, <2>4 DEF SetDeleting, Goto, RunState, DeleteStages
  <2>5. CASE Deleted(r)
    BY <1>1, <1>4, <2>1, <2>5 DEF Deleted, Goto, RunState, DeleteStages
  <2>6. CASE DeleteTerminated(r)
    BY <1>1, <2>1, <2>6 DEF DeleteTerminated, Goto, RunState, DeleteStages
  <2>7. QED
    BY <1>14, <2>2, <2>3, <2>4, <2>5, <2>6
<1>15. CASE LookAtListed(r) \/ DeleteListed(r) \/ DeleteListedFails(r)
  <2>1. m.pc = "delete"
    BY <1>15 DEF LookAtListed, LookAt, DeleteListed, RequestDelete, DeleteListedFails,
                 DeleteRequestFails, At
  <2>2. run'[r].pc \in Outcomes \/ run'[r].pc \notin ApplyStages
    BY <2>1, IdentityKept DEF Step, Fault, ApplyStages
  <2>3. QED
    BY <1>3, <2>2 DEF Outcomes, ApplyStages, Applying
<1>16. CASE Abort(r) \/ RecreateTimeout(r) \/ PruneTimeout(r) \/ DeleteTimeout(r)
  BY <1>4, <1>16 DEF Abort, RecreateTimeout, PruneTimeout, DeleteTimeout, TerminationTimeout
<1>17. QED
  BY <1>6, <1>7, <1>8, <1>9, <1>10, <1>11, <1>12, <1>13, <1>14, <1>15, <1>16, <1>18,
     <1>19, <1>20, <1>21
     DEF Step, Fault

LEMMA FinalizersHoldNext ==
    ASSUME TypeOK, FinalizersHold, [Next]_vars
    PROVE  FinalizersHold'
<1>1. ASSUME cluster' = cluster
      PROVE  FinalizersHold'
  BY <1>1 DEF FinalizersHold
<1>2. ASSUME NEW r \in Runs, ApplyObject(r)
      PROVE  FinalizersHold'
  BY <1>2 DEF ApplyObject, Applied, FinalizersHold, TypeOK, ClusterObject
<1>3. ASSUME NEW r \in Runs, NEW stage, Recreate(r) \/ RequestDelete(r, stage)
      PROVE  FinalizersHold'
  <2>1. PICK o : cluster' = Removed(cluster, o)
    BY <1>3 DEF Recreate, RequestDelete
  <2>2. QED
    BY <2>1 DEF Removed, TypeOK, Absent, FinalizersHold
<1>4. ASSUME NEW o \in Objects, ClearFinalizer(o)
      PROVE  FinalizersHold'
  BY <1>4 DEF ClearFinalizer, FinalizersHold, TypeOK, Absent
<1>5. QED
  BY <1>1, <1>2, <1>3, <1>4, StartFrame, ClusterSteps DEF Next, Quiet, vars

(* When one command runs at a time, the objects of a set are applied, and    *)
(* stale ones pruned, only once the sets before are in place.                *)
THEOREM SetsInOrderHolds ==
    ASSUME \A q, r \in Runs : q = r
    PROVE  Spec => []SetsInOrder
<1> DEFINE Inv == FinalizersHold /\ AllPlaced
<1>1. Init => Inv
  BY DEF Init, FinalizersHold, AllPlaced, Placed, Applying, Ended, Absent
<1>2. TypeOK /\ Inductive /\ Inv /\ [Next]_vars => Inv'
  <2> SUFFICES ASSUME TypeOK, Inductive, Inv, [Next]_vars
               PROVE  AllPlaced'
    BY FinalizersHoldNext
  <2>1. ASSUME NEW r \in Runs, Step(r) \/ Fault(r)
        PROVE  AllPlaced'
    BY <2>1, PlacedStep DEF AllPlaced
  <2>2. ASSUME NEW r \in Runs, Start(r)
        PROVE  AllPlaced'
    BY <2>2, StartFrame DEF AllPlaced, Placed, Applying
  <2>3. ASSUME NEW o \in Objects, ClearFinalizer(o)
        PROVE  AllPlaced'
    <3>1. run' = run /\ o \in Finalized
      BY <2>3 DEF ClearFinalizer, FinalizersHold
    <3>2. \A p \in Objects : /\ cluster[p].phase = "live" => cluster'[p].phase = "live"
                             /\ Created(cluster, p) => Created(cluster', p)
      BY <2>3, <3>1 DEF ClearFinalizer, TypeOK, Created
    <3>3. ASSUME NEW r \in Runs
          PROVE  Placed(cluster', run[r])
      <4>1. run[r] \in RunState /\ Placed(cluster, run[r])
        BY DEF TypeOK, AllPlaced
      <4>2. QED
        BY <3>2, <4>1, PlacedMore, DesiredType
    <3>4. QED
      BY <3>1, <3>3 DEF AllPlaced
  <2>4. CASE run' = run /\ cluster' = cluster
    BY <2>4 DEF AllPlaced
  <2>5. QED
    BY <2>1, <2>2, <2>3, <2>4 DEF Next, Quiet, vars
<1>3. AllPlaced => SetsInOrder
  BY DEF AllPlaced, Placed, Applying, SettledBefore, Settled, Created, SetsInOrder, InPlace,
     Ready
<1>4. QED
  <2>1. Spec => []Inductive
    BY InductiveAlways DEF OneAtATime
  <2>2. QED
    BY <1>1, <1>2, <1>3, <2>1, TypeCorrect, PTL DEF Spec

--------------------------------------------------------------------------------
(***************************************************************************)
(* The records are ledgers: Reconciler implements Ledger.                  *)
(***************************************************************************)

(* A run that has found no record knows that there is none. *)
NoneFound(r) ==
    run[r].pc \in {"stale", "pending", "record"} /\ ~run[r].exists =>
        ~record[run[r].inst].exists

AbsenceFresh == \A r \in Runs : NoneFound(r)

(* A step of r leaves what it knows of an absent record right. *)
LEMMA NoneFoundStep ==
    ASSUME TypeOK, AbsenceFresh, ~BadReads, NEW r \in Runs, Step(r) \/ Fault(r)
    PROVE  NoneFound(r)'
<1> DEFINE m == run[r]
           Early == {"stale", "pending", "record"}
<1>1. m \in RunState /\ NoneFound(r)
  BY DEF TypeOK, AbsenceFresh
<1>2. ASSUME NEW n, Becomes(r, n), n.pc \notin Early
      PROVE  NoneFound(r)'
  BY <1>2 DEF Becomes, TypeOK, NoneFound
<1>3. ASSUME NEW n \in RunState, NEW k, Becomes(r, EnterSet(n, k))
      PROVE  NoneFound(r)'
  <2>1. EnterSet(n, k).pc \notin Early
    BY DEF EnterSet, RunState
  <2>2. QED
    BY <1>2, <1>3, <2>1
<1>4. ASSUME Fail(r)
      PROVE  NoneFound(r)'
  BY <1>2, <1>4 DEF Fail, Ended
<1>5. ASSUME NEW n, Becomes(r, n), record' = record, m.pc \in Early,
             n.inst = m.inst, n.exists = m.exists
      PROVE  NoneFound(r)'
  BY <1>1, <1>5 DEF Becomes, TypeOK, NoneFound
<1>6. ASSUME NEW stage \in ApplyStages \cup DeleteStages, stage \notin Early,
             Becomes(r, Goto(m, stage))
      PROVE  NoneFound(r)'
  BY <1>1, <1>2, <1>6 DEF Goto, RunState
<1>7. CASE GetInstance(r)
  <2> DEFINE n == [Goto(m, "stale") EXCEPT !.exists = record[m.inst].exists,
                                           !.predecessor = record[m.inst].inv]
  <2>1. n.inst = m.inst /\ n.exists = record[m.inst].exists
    BY <1>1 DEF Goto, RunState
  <2>2. run'[r] = n /\ record' = record
    BY <1>7 DEF GetInstance, Becomes, TypeOK
  <2> HIDE DEF n
  <2>3. QED
    BY <2>1, <2>2 DEF NoneFound
<1>8. CASE GetStaleObjects(r)
  <2> DEFINE d == IF record[m.inst].exists THEN Diff(record[m.inst].inv, Desired(m)) ELSE {}
             n == [Goto(m, "pending") EXCEPT !.doomed = d]
  <2>1. n.inst = m.inst /\ n.exists = m.exists
    BY <1>1 DEF Goto, RunState
  <2>2. Becomes(r, n) /\ record' = record /\ m.pc = "stale"
    BY <1>8 DEF GetStaleObjects, At
  <2> HIDE DEF n, d
  <2>3. QED
    BY <1>5, <2>1, <2>2
<1>9. CASE GetPending(r)
  <2> DEFINE d == m.doomed \cup (PendingObjects(record[m.inst]) \ ListMeta(Desired(m)))
             n == [Goto(m, "record") EXCEPT !.doomed = d]
  <2>1. n.inst = m.inst /\ n.exists = m.exists
    BY <1>1 DEF Goto, RunState
  <2>2. Becomes(r, n) /\ record' = record /\ m.pc = "pending"
    BY <1>9 DEF GetPending, At
  <2> HIDE DEF n, d
  <2>3. QED
    BY <1>5, <2>1, <2>2
<1>10. CASE Install(r) \/ Reapply(r) \/ SetReady(r)
  BY <1>1, <1>3, <1>10 DEF Install, Reapply, SetReady
<1>11. CASE SavePending(r)
  <2> DEFINE n == [m EXCEPT !.seen = NoRecord(NoBundle)]
  <2>1. NoRecord(NoBundle) \in Records(Owners)
    BY DEF NoRecord, Records, Owners, Inventories
  <2>2. n \in RunState
    BY <1>1, <2>1 DEF RunState
  <2>3. Becomes(r, EnterSet(n, 1))
    BY <1>11 DEF SavePending
  <2> HIDE DEF n
  <2>4. QED
    BY <1>3, <2>2, <2>3
<1>12. CASE ReadForPending(r)
  <2> DEFINE n == [Goto(m, "savePending") EXCEPT !.seen = record[m.inst]]
  <2>1. n.pc = "savePending"
    BY <1>1 DEF Goto, RunState
  <2>2. Becomes(r, n) \/ Fail(r)
    BY <1>12 DEF ReadForPending
  <2> HIDE DEF n
  <2>3. QED
    BY <1>2, <1>4, <2>1, <2>2
<1>13. ASSUME NEW n, Becomes(r, n), n.pc = m.pc, m.pc \notin Early
       PROVE  NoneFound(r)'
  BY <1>2, <1>13
<1>25. \A d, l, g :
           /\ [m EXCEPT !.todo = d].pc = m.pc
           /\ [m EXCEPT !.looked = l].pc = m.pc
           /\ [m EXCEPT !.gone = g].pc = m.pc
           /\ [m EXCEPT !.todo = d, !.looked = l].pc = m.pc
           /\ [m EXCEPT !.todo = d, !.gone = g].pc = m.pc
           /\ [m EXCEPT !.gone = g, !.looked = l].pc = m.pc
  BY <1>1 DEF RunState
<1>14. CASE CheckObject(r) \/ Recreate(r) \/ Recreated(r) \/ ApplyObject(r)
  <2>1. m.pc \notin Early
    BY <1>14 DEF CheckObject, Recreate, Recreated, ApplyObject, At
  <2> HIDE DEF Early
  <2>2. CASE CheckObject(r)
    BY <1>13, <1>25, <2>1, <2>2 DEF CheckObject
  <2>3. CASE Recreate(r)
    BY <1>13, <1>25, <2>1, <2>3 DEF Recreate
  <2>4. CASE Recreated(r)
    BY <1>13, <1>25, <2>1, <2>4 DEF Recreated
  <2>5. CASE ApplyObject(r)
    BY <1>13, <1>25, <2>1, <2>5 DEF ApplyObject
  <2>6. QED
    BY <1>14, <2>2, <2>3, <2>4, <2>5
<1>15. CASE SetNotReady(r)
  <2> DEFINE n == [m EXCEPT !.pc = "prune", !.todo = m.doomed, !.unready = TRUE]
  <2>1. n.pc = "prune" /\ Becomes(r, n)
    BY <1>1, <1>15 DEF RunState, SetNotReady
  <2> HIDE DEF n
  <2>2. QED
    BY <1>2, <2>1
<1>16. ASSUME NEW stage \in {"prune", "delete"},
              LookAt(r, stage) \/ RequestDelete(r, stage) \/ DeleteRequestFails(r, stage)
       PROVE  NoneFound(r)'
  <2>1. m.pc \notin Early
    BY <1>16 DEF LookAt, RequestDelete, DeleteRequestFails, At
  <2> HIDE DEF Early
  <2>2. CASE LookAt(r, stage)
    <3>1. PICK o \in m.todo : \E g \in {m.gone, m.gone \cup {o}} :
              \/ Becomes(r, [m EXCEPT !.looked = {o}])
              \/ Becomes(r, [m EXCEPT !.todo = @ \ {o}, !.gone = g])
      BY <2>2, LookBecomes
    <3>2. PICK g \in {m.gone, m.gone \cup {o}} :
              \/ Becomes(r, [m EXCEPT !.looked = {o}])
              \/ Becomes(r, [m EXCEPT !.todo = @ \ {o}, !.gone = g])
      BY <3>1
    <3>3. CASE Becomes(r, [m EXCEPT !.looked = {o}])
      BY <1>13, <1>25, <2>1, <3>3
    <3>4. CASE Becomes(r, [m EXCEPT !.todo = @ \ {o}, !.gone = g])
      BY <1>13, <1>25, <2>1, <3>4
    <3>5. QED
      BY <3>2, <3>3, <3>4
  <2>3. CASE RequestDelete(r, stage)
    <3>1. PICK o : Becomes(r, [m EXCEPT !.todo = @ \ {o}, !.looked = {}, !.gone = @ \cup {o}])
      BY <2>3 DEF RequestDelete
    <3> DEFINE n == [m EXCEPT !.todo = @ \ {o}, !.looked = {}, !.gone = @ \cup {o}]
    <3>2. n.pc = m.pc /\ Becomes(r, n)
      BY <1>1, <3>1 DEF RunState
    <3> HIDE DEF n
    <3>3. QED
      BY <1>13, <2>1, <3>2
  <2>4. CASE DeleteRequestFails(r, stage)
    <3>1. PICK o : Becomes(r, [m EXCEPT !.todo = @ \ {o}, !.looked = {}, !.erred = TRUE])
      BY <2>4 DEF DeleteRequestFails
    <3> DEFINE n == [m EXCEPT !.todo = @ \ {o}, !.looked = {}, !.erred = TRUE]
    <3>2. n.pc = m.pc /\ Becomes(r, n)
      BY <1>1, <3>1 DEF RunState
    <3> HIDE DEF n
    <3>3. QED
      BY <1>13, <2>1, <3>2
  <2>5. QED
    BY <1>16, <2>2, <2>3, <2>4
<1>17. CASE \/ LookAtStale(r) \/ LookAtListed(r) \/ PruneObject(r) \/ DeleteListed(r)
            \/ PruneObjectFails(r) \/ DeleteListedFails(r)
  BY <1>16, <1>17 DEF LookAtStale, LookAtListed, PruneObject, DeleteListed,
     PruneObjectFails, DeleteListedFails
<1>18. CASE Pruned(r) \/ PruneTerminated(r) \/ Deleted(r) \/ DeleteTerminated(r) \/ SetDeleting(r)
  <2>1. \/ Fail(r)
        \/ \E stage \in {"pruneWait", "update", "deleteWait", "forget", "delete"} :
               Becomes(r, Goto(m, stage))
    BY <1>18 DEF Pruned, AfterPrune, PruneTerminated, Deleted, DeleteTerminated, SetDeleting
  <2>2. QED
    BY <1>4, <1>6, <2>1 DEF ApplyStages, DeleteStages
<1>19. CASE ListStored(r)
  <2> DEFINE n == [Goto(m, "listPending") EXCEPT !.doomed = ListMeta(record[m.inst].inv)]
  <2>1. n.pc = "listPending"
    BY <1>1 DEF Goto, RunState
  <2>2. Becomes(r, n) \/ Fail(r)
    BY <1>19 DEF ListStored
  <2> HIDE DEF n
  <2>3. QED
    BY <1>2, <1>4, <2>1, <2>2
<1>20. CASE ListPending(r)
  <2> DEFINE listed == m.doomed \cup PendingObjects(record[m.inst])
             stage == IF m.wait THEN "mark" ELSE "delete"
             n == [m EXCEPT !.pc = stage, !.doomed = listed, !.todo = listed]
  <2>1. n.pc = stage /\ Becomes(r, n)
    BY <1>1, <1>20 DEF RunState, ListPending
  <2>2. stage \notin Early
    OBVIOUS
  <2> HIDE DEF n, stage
  <2>3. QED
    BY <1>2, <2>1, <2>2
<1>21. CASE \/ UpdateInventory(r) \/ DeleteRecord(r)
  BY <1>2, <1>21 DEF UpdateInventory, DeleteRecord, Ended
<1>22. CASE \/ RefuseOwnership(r) \/ Abort(r) \/ RecreateTimeout(r) \/ PruneTimeout(r)
            \/ DeleteTimeout(r)
  BY <1>4, <1>22 DEF RefuseOwnership, Abort, RecreateTimeout, PruneTimeout, DeleteTimeout,
     TerminationTimeout
<1>23. CASE MisreadInstance(r)
  <2> DEFINE n == [Goto(m, "stale") EXCEPT !.exists = FALSE]
  <2>1. n.inst = m.inst
    BY <1>1 DEF Goto, RunState
  <2>2. run'[r] = n /\ record' = record /\ ~record[m.inst].exists
    BY <1>23 DEF MisreadInstance, Becomes, TypeOK
  <2> HIDE DEF n
  <2>3. QED
    BY <2>1, <2>2 DEF NoneFound
<1>24. QED
  BY <1>7, <1>8, <1>9, <1>10, <1>11, <1>12, <1>14, <1>15, <1>17, <1>18, <1>19,
     <1>20, <1>21, <1>22, <1>23 DEF Step, Fault

LEMMA AbsenceFreshNext ==
    ASSUME ~BadReads, TypeOK, Inductive, AbsenceFresh, [Next]_vars
    PROVE  AbsenceFresh'
<1>1. ASSUME NEW r \in Runs, Step(r) \/ Fault(r)
      PROVE  AbsenceFresh'
  <2>1. ASSUME NEW q \in Runs \ {r}
        PROVE  NoneFound(q)'
    <3>1. run'[q] = run[q] /\ NoneFound(q)
      BY <1>1, <2>1, RunFrame DEF AbsenceFresh
    <3>2. CASE Active(q) /\ Active(r)
      <4>1. run[q].inst \in Instances \ {run[r].inst}
        BY <2>1, <3>2 DEF Inductive, Solo, TypeOK, RunState
      <4>2. record'[run[q].inst] = record[run[q].inst]
        BY <1>1, <4>1, RunFrame
      <4>3. QED
        BY <3>1, <4>2 DEF NoneFound
    <3>3. CASE ~Active(q)
      BY <3>1, <3>3 DEF NoneFound, Active, Outcomes
    <3>4. Active(r)
      BY <1>1, StepActive
    <3>5. QED
      BY <3>2, <3>3, <3>4
  <2>2. QED
    BY <1>1, <2>1, NoneFoundStep DEF AbsenceFresh
<1>2. ASSUME NEW r \in Runs, Start(r)
      PROVE  AbsenceFresh'
  <2>1. record' = record /\ run'[r].pc \in {"get", "list"}
        /\ \A q \in Runs \ {r} : run'[q] = run[q]
    BY <1>2, StartFrame
  <2>2. QED
    BY <2>1 DEF AbsenceFresh, NoneFound
<1>3. CASE run' = run /\ record' = record
  BY <1>3 DEF AbsenceFresh, NoneFound
<1>4. QED
  BY <1>1, <1>2, <1>3 DEF Next, ClearFinalizer, Quiet, vars

LEMMA AbsenceFreshHolds ==
    ASSUME Serial, ~BadReads
    PROVE  Spec => []AbsenceFresh
<1>1. Init => AbsenceFresh
  BY DEF Init, Ended, AbsenceFresh, NoneFound
<1>2. TypeOK /\ Inductive /\ AbsenceFresh /\ [Next]_vars => AbsenceFresh'
  BY AbsenceFreshNext
<1>3. QED
  BY <1>1, <1>2, TypeCorrect, InductiveHolds, PTL DEF Spec

--------------------------------------------------------------------------------
(***************************************************************************)
(* The steps of Reconciler are steps of Ledger.                            *)
(***************************************************************************)

StoredOf(rec)  == IF rec.exists THEN ListMeta(rec.inv) ELSE {}
PendingOf(rec) == IF rec.exists THEN PendingObjects(rec) ELSE {}
HeldBy(i)      == {o \in Objects : Held(o, i)}

Known   == {i \in Instances : record[i].exists}
Stored  == [i \in Instances |-> StoredOf(record[i])]
Pending == [i \in Instances |-> PendingOf(record[i])]
Holding == [i \in Instances |-> HeldBy(i)]

LEMMA RecordObjects ==
    ASSUME NEW rec \in Records(Owners)
    PROVE  /\ StoredOf(rec) \in SUBSET Objects
           /\ PendingOf(rec) \in SUBSET Objects
           /\ StoredOf(rec) \cup PendingOf(rec) = ListAllObjects(rec)
BY ListMetaType, PendingObjectsType
   DEF StoredOf, PendingOf, ListAllObjects, Records, PendingObjects

(* A write of one record, told by what the ledger reads off it.              *)
LEMMA LedgerWrite ==
    ASSUME TypeOK, NEW i \in Instances, NEW rec \in Records(Owners),
           record' = [record EXCEPT ![i] = rec], cluster' = cluster
    PROVE  /\ Known' = IF rec.exists THEN Known \cup {i} ELSE Known \ {i}
           /\ Stored' = [Stored EXCEPT ![i] = StoredOf(rec)]
           /\ Pending' = [Pending EXCEPT ![i] = PendingOf(rec)]
           /\ Holding' = Holding
<1>1. record'[i] = rec /\ \A j \in Instances \ {i} : record'[j] = record[j]
  BY DEF TypeOK
<1>2. Known' = IF rec.exists THEN Known \cup {i} ELSE Known \ {i}
  BY <1>1 DEF Known
<1>3. Stored' = [Stored EXCEPT ![i] = StoredOf(rec)]
  <2>1. \A j \in Instances :
            StoredOf(record'[j]) = IF j = i THEN StoredOf(rec) ELSE StoredOf(record[j])
    BY <1>1
  <2>2. QED
    BY <2>1 DEF Stored
<1>4. Pending' = [Pending EXCEPT ![i] = PendingOf(rec)]
  <2>1. \A j \in Instances :
            PendingOf(record'[j]) = IF j = i THEN PendingOf(rec) ELSE PendingOf(record[j])
    BY <1>1
  <2>2. QED
    BY <2>1 DEF Pending
<1>5. Holding' = Holding
  BY DEF Holding, HeldBy, Held
<1>6. QED
  BY <1>2, <1>3, <1>4, <1>5

(* What the ledger reads is what it holds of the record. *)
LEMMA LedgerReads ==
    ASSUME TypeOK, NEW i \in Instances
    PROVE  /\ i \in Known <=> record[i].exists
           /\ Stored[i] = StoredOf(record[i])
           /\ Pending[i] = PendingOf(record[i])
           /\ Stored[i] \cup Pending[i] = ListAllObjects(record[i])
           /\ Holding[i] = HeldBy(i)
BY RecordObjects DEF Known, Stored, Pending, Holding, TypeOK

LEMMA LedgerStutters ==
    ASSUME record' = record, cluster' = cluster
    PROVE  UNCHANGED L!vars
BY DEF L!vars, L!ledger, Held

(* The actions of Ledger, in the terms above. *)
Create(i, objects) ==
    /\ i \notin Known
    /\ Known' = Known \cup {i}
    /\ Stored' = [Stored EXCEPT ![i] = objects]
    /\ Pending' = Pending /\ Holding' = Holding

Plan(i, objects) ==
    /\ i \in Known
    /\ Pending' = [Pending EXCEPT ![i] = objects]
    /\ Known' = Known /\ Stored' = Stored /\ Holding' = Holding

Promote(i, objects) ==
    /\ i \in Known
    /\ Holding[i] \cap (Stored[i] \cup Pending[i]) \subseteq objects
    /\ Stored' = [Stored EXCEPT ![i] = objects]
    /\ Pending' = [Pending EXCEPT ![i] = {}]
    /\ Known' = Known /\ Holding' = Holding

Remove(i) ==
    /\ i \in Known
    /\ Holding[i] \cap (Stored[i] \cup Pending[i]) = {}
    /\ Known' = Known \ {i}
    /\ Stored' = [Stored EXCEPT ![i] = {}]
    /\ Pending' = [Pending EXCEPT ![i] = {}]
    /\ Holding' = Holding

Gain(i, o) ==
    /\ o \in Stored[i] \cup Pending[i]
    /\ Holding' = [j \in Instances |-> IF j = i THEN Holding[j] \cup {o}
                                                ELSE Holding[j] \ {o}]
    /\ Known' = Known /\ Stored' = Stored /\ Pending' = Pending

Lose(o) ==
    /\ Holding' = [j \in Instances |-> Holding[j] \ {o}]
    /\ Known' = Known /\ Stored' = Stored /\ Pending' = Pending

LEMMA LedgerActions ==
    /\ \A i \in Instances, objects \in SUBSET Objects :
           /\ Create(i, objects) <=> L!Create(i, objects)
           /\ Plan(i, objects) <=> L!Plan(i, objects)
           /\ Promote(i, objects) <=> L!Promote(i, objects)
    /\ \A i \in Instances : Remove(i) <=> L!Remove(i)
    /\ \A i \in Instances, o \in Objects : Gain(i, o) <=> L!Gain(i, o)
    /\ \A o \in Objects : Lose(o) <=> L!Lose(o)
<1> USE DEF Known, Stored, Pending, Holding, StoredOf, PendingOf, HeldBy,
            L!Listed, L!ledger
<1>1. \A i \in Instances, objects \in SUBSET Objects : Create(i, objects) <=> L!Create(i, objects)
  BY Zenon DEF Create, L!Create
<1>2. \A i \in Instances, objects \in SUBSET Objects : Plan(i, objects) <=> L!Plan(i, objects)
  BY Zenon DEF Plan, L!Plan
<1>3. \A i \in Instances, objects \in SUBSET Objects :
          Promote(i, objects) <=> L!Promote(i, objects)
  BY Zenon DEF Promote, L!Promote
<1>4. \A i \in Instances : Remove(i) <=> L!Remove(i)
  BY Zenon DEF Remove, L!Remove
<1>5. \A i \in Instances, o \in Objects : Gain(i, o) <=> L!Gain(i, o)
  BY Zenon DEF Gain, L!Gain
<1>6. \A o \in Objects : Lose(o) <=> L!Lose(o)
  BY Zenon DEF Lose, L!Lose
<1>7. QED
  BY <1>1, <1>2, <1>3, <1>4, <1>5, <1>6

(* A step of Ledger, in the terms above. *)
LedgerStep ==
    \/ \E i \in Instances, objects \in SUBSET Objects :
           Create(i, objects) \/ Plan(i, objects) \/ Promote(i, objects)
    \/ \E i \in Instances : Remove(i)
    \/ \E i \in Instances, o \in Objects : Gain(i, o)
    \/ \E o \in Objects : Lose(o)

LEMMA LedgerSteps == LedgerStep <=> L!Next
BY LedgerActions, Zenon DEF LedgerStep, L!Next

(* A revision that is stored as the one in place: the first one, or one that *)
(* takes the place of all that the ledger had.                               *)
LEMMA StoreLedger ==
    ASSUME TypeOK, NEW r \in Runs, WriteRecord(run[r]), cluster' = cluster,
           record[run[r].inst].exists =>
               \A o \in Listed(r) \ Wanted(r) : ~Held(o, run[r].inst)
    PROVE  L!Next
<1> DEFINE m == run[r]
           i == m.inst
           found == record[i]
           rec == StoredRecord(found, Desired(m), m.bundle)
<1>1. /\ m \in RunState /\ i \in Instances /\ found \in Records(Owners)
      /\ Wanted(r) \in SUBSET Objects
  BY DesiredType, ListMetaType DEF TypeOK, RunState, Wanted
<1>2. rec \in Records(Owners) /\ rec.exists
      /\ StoredOf(rec) = Wanted(r) /\ PendingOf(rec) = {}
  <2>1. rec \in Records(Owners)
    BY <1>1, StoredType, DesiredType DEF RunState
  <2>2. QED
    BY <2>1 DEF StoredRecord, StoredOf, PendingOf, PendingObjects, Wanted
<1>3. record' = [record EXCEPT ![i] = rec]
  BY DEF WriteRecord
<1> HIDE DEF rec
<1>4. /\ Known' = Known \cup {i}
      /\ Stored' = [Stored EXCEPT ![i] = Wanted(r)]
      /\ Pending' = [Pending EXCEPT ![i] = {}]
      /\ Holding' = Holding
  BY <1>1, <1>2, <1>3, LedgerWrite
<1>5. /\ i \in Known <=> found.exists
      /\ Stored[i] \cup Pending[i] = Listed(r)
      /\ Holding[i] = HeldBy(i)
      /\ ~found.exists => Pending[i] = {}
  BY <1>1, LedgerReads DEF Listed, PendingOf
<1> HIDE DEF i, found, m
<1>6. CASE found.exists
  <2>1. \A o \in Listed(r) \ Wanted(r) : ~Held(o, i)
    BY <1>6 DEF found, i, m
  <2>2. Holding[i] \cap (Stored[i] \cup Pending[i]) \subseteq Wanted(r)
    BY <1>5, <2>1 DEF HeldBy
  <2>3. Known' = Known
    BY <1>4, <1>5, <1>6
  <2>4. Promote(i, Wanted(r))
    BY <1>4, <1>5, <1>6, <2>2, <2>3 DEF Promote
  <2>5. QED
    BY <1>1, <2>4, LedgerSteps DEF LedgerStep
<1>8. CASE ~found.exists
  <2>1. Pending' = Pending
    BY <1>4, <1>5, <1>8 DEF Pending
  <2>2. Create(i, Wanted(r))
    BY <1>4, <1>5, <1>8, <2>1 DEF Create
  <2>3. QED
    BY <1>1, <2>2, LedgerSteps DEF LedgerStep
<1>9. QED
  BY <1>6, <1>8

(* A pending revision, an instance that is forgotten, a deletion marker.     *)
LEMMA RecordLedger ==
    ASSUME TypeOK, Inductive, NEW r \in Runs,
           SavePending(r) \/ DeleteRecord(r) \/ SetDeleting(r)
    PROVE  L!Next \/ UNCHANGED L!vars
<1> DEFINE m == run[r]
           i == m.inst
           found == record[i]
<1>1. m \in RunState /\ i \in Instances /\ found \in Records(Owners)
  BY DEF TypeOK, RunState
<1>2. /\ i \in Known <=> found.exists
      /\ Stored[i] = StoredOf(found) /\ Pending[i] = PendingOf(found)
      /\ Stored[i] \cup Pending[i] = Listed(r)
      /\ Holding[i] = HeldBy(i)
  BY <1>1, LedgerReads DEF Listed
<1>3. CASE SavePending(r)
  <2> DEFINE rec == PendingRecord(found, m.seen, Desired(m))
  <2>1. found.exists /\ m.seen = found
    BY <1>3 DEF SavePending, At, Inductive, Facts, ReadsAreFresh
  <2>2. Wanted(r) \in SUBSET Objects
    BY <1>1, DesiredType, ListMetaType DEF Wanted
  <2>3. rec \in Records(Owners)
    BY <1>1, <2>1, DesiredType DEF PendingRecord, Records, Inventories
  <2>4. rec.exists /\ StoredOf(rec) = StoredOf(found) /\ PendingOf(rec) = Wanted(r)
    BY <2>1 DEF PendingRecord, StoredOf, PendingOf, PendingObjects, Wanted
  <2>5. record' = [record EXCEPT ![i] = rec] /\ cluster' = cluster
    BY <1>3 DEF SavePending
  <2> HIDE DEF rec
  <2>6. /\ Known' = Known \cup {i}
        /\ Stored' = [Stored EXCEPT ![i] = StoredOf(found)]
        /\ Pending' = [Pending EXCEPT ![i] = Wanted(r)]
        /\ Holding' = Holding
    BY <1>1, <2>3, <2>4, <2>5, LedgerWrite
  <2> HIDE DEF i, found, m
  <2>7. Known' = Known /\ Stored' = Stored
    BY <1>2, <2>1, <2>6 DEF Stored
  <2>8. Plan(i, Wanted(r))
    BY <1>2, <2>1, <2>6, <2>7 DEF Plan
  <2>9. QED
    BY <1>1, <2>2, <2>8, LedgerSteps DEF LedgerStep
<1>4. CASE DeleteRecord(r)
  <2> DEFINE rec == NoRecord(NoBundle)
  <2>1. \A o \in Listed(r) : ~Held(o, i)
    BY <1>4 DEF DeleteRecord, At, Inductive, Facts, NothingForgotten, DoomedUnwanted,
                DeleteStages
  <2>2. rec \in Records(Owners) /\ ~rec.exists /\ StoredOf(rec) = {} /\ PendingOf(rec) = {}
    BY DEF NoRecord, Records, Owners, Inventories, StoredOf, PendingOf
  <2>3. record' = [record EXCEPT ![i] = rec] /\ cluster' = cluster
    BY <1>4 DEF DeleteRecord
  <2> HIDE DEF rec
  <2>4. /\ Known' = Known \ {i}
        /\ Stored' = [Stored EXCEPT ![i] = {}]
        /\ Pending' = [Pending EXCEPT ![i] = {}]
        /\ Holding' = Holding
    BY <1>1, <2>2, <2>3, LedgerWrite
  <2>5. CASE found.exists
    <3> HIDE DEF i, found, m
    <3>1. Remove(i)
      BY <1>2, <2>1, <2>4, <2>5 DEF Remove, HeldBy
    <3>2. QED
      BY <1>1, <3>1, LedgerSteps DEF LedgerStep
  <2>6. CASE ~found.exists
    <3>1. Stored[i] = {} /\ Pending[i] = {} /\ i \notin Known
      BY <1>2, <2>6 DEF StoredOf, PendingOf
    <3>2. Known' = Known /\ Stored' = Stored /\ Pending' = Pending
      BY <2>4, <3>1 DEF Stored, Pending
    <3>3. QED
      BY Zenon, <2>4, <3>2 DEF L!vars, L!ledger, Known, Stored, Pending, Holding,
         StoredOf, PendingOf, HeldBy
  <2>7. QED
    BY <2>5, <2>6
<1>5. CASE SetDeleting(r)
  <2>1. CASE UNCHANGED <<record, cluster>>
    BY <2>1, LedgerStutters
  <2>2. CASE found.exists /\ record' = [record EXCEPT ![i].deleting = TRUE]
    <3> DEFINE rec == [found EXCEPT !.deleting = TRUE]
    <3>1. rec \in Records(Owners) /\ rec.exists
          /\ StoredOf(rec) = StoredOf(found) /\ PendingOf(rec) = PendingOf(found)
      BY <1>1, <2>2 DEF Records, StoredOf, PendingOf, PendingObjects
    <3>2. record' = [record EXCEPT ![i] = rec] /\ cluster' = cluster
      BY <1>5, <2>2 DEF SetDeleting, Fail
    <3> HIDE DEF rec
    <3>3. /\ Known' = Known \cup {i}
          /\ Stored' = [Stored EXCEPT ![i] = StoredOf(found)]
          /\ Pending' = [Pending EXCEPT ![i] = PendingOf(found)]
          /\ Holding' = Holding
      BY <1>1, <3>1, <3>2, LedgerWrite
    <3>4. Known' = Known /\ Stored' = Stored /\ Pending' = Pending
      BY <1>2, <2>2, <3>3 DEF Stored, Pending
    <3>5. QED
      BY Zenon, <3>3, <3>4 DEF L!vars, L!ledger, Known, Stored, Pending, Holding,
         StoredOf, PendingOf, HeldBy
  <2>3. QED
    BY <1>5, <2>1, <2>2 DEF SetDeleting, Fail
<1>6. QED
  BY <1>3, <1>4, <1>5

(* An applied object is listed by the instance it comes to belong to. *)
LEMMA ApplyLedger ==
    ASSUME TypeOK, Inductive, NEW r \in Runs, ApplyObject(r)
    PROVE  L!Next \/ UNCHANGED L!vars
<1> DEFINE i == run[r].inst
<1>1. PICK o \in run[r].looked : cluster' = Applied(cluster, o, i)
  BY DEF ApplyObject
<1>2. /\ i \in Instances /\ o \in Objects /\ record' = record
      /\ o \in Listed(r)
      /\ cluster \in [Objects -> ClusterObject]
  BY <1>1 DEF TypeOK, RunState, ApplyObject, At, Inductive, Facts, WriteAhead, LookedAhead
<1>3. Known' = Known /\ Stored' = Stored /\ Pending' = Pending
  BY <1>2 DEF Known, Stored, Pending
<1>4. CASE cluster' = cluster
  BY <1>2, <1>4, LedgerStutters
<1>5. CASE cluster' # cluster
  <2> DEFINE n == [phase |-> IF cluster[o].phase = "absent" THEN "live"
                                                          ELSE cluster[o].phase,
                   owner |-> i]
  <2>1. cluster' = [cluster EXCEPT ![o] = n]
    BY <1>1, <1>5 DEF Applied
  <2>2. cluster'[o] = n /\ \A p \in Objects \ {o} : cluster'[p] = cluster[p]
    BY <1>2, <2>1
  <2>3. CASE o \notin Keep /\ n.phase = "live"
    <3>1. \A j \in Instances : HeldBy(j)' = IF j = i THEN HeldBy(j) \cup {o}
                                                   ELSE HeldBy(j) \ {o}
      BY <1>2, <2>2, <2>3 DEF HeldBy, Held
    <3>2. Holding' = [j \in Instances |-> IF j = i THEN Holding[j] \cup {o}
                                                   ELSE Holding[j] \ {o}]
      BY <3>1 DEF Holding
    <3>3. o \in Stored[i] \cup Pending[i]
      BY <1>2, LedgerReads DEF Listed
    <3>4. Gain(i, o)
      BY <1>3, <3>2, <3>3 DEF Gain
    <3>5. QED
      BY <1>2, <3>4, LedgerSteps DEF LedgerStep
  <2>4. CASE ~(o \notin Keep /\ n.phase = "live")
    <3>1. \A j \in Instances : HeldBy(j)' = HeldBy(j)
      BY <1>2, <2>2, <2>4 DEF HeldBy, Held, ClusterObject
    <3>2. Holding' = Holding
      BY <3>1 DEF Holding
    <3>3. QED
      BY Zenon, <1>3, <3>2 DEF L!vars, L!ledger, Known, Stored, Pending, Holding,
         StoredOf, PendingOf, HeldBy
  <2>5. QED
    BY <2>3, <2>4
<1>6. QED
  BY <1>4, <1>5

(* An object that is deleted, or let go by its finalizer, is held by nobody. *)
LEMMA LossLedger ==
    ASSUME TypeOK, NEW o \in Objects, NEW n \in ClusterObject, n.phase # "live",
           cluster' = [cluster EXCEPT ![o] = n], record' = record
    PROVE  L!Next
<1>1. cluster'[o] = n /\ \A p \in Objects \ {o} : cluster'[p] = cluster[p]
  BY DEF TypeOK
<1>2. \A j \in Instances : HeldBy(j)' = HeldBy(j) \ {o}
  BY <1>1 DEF HeldBy, Held
<1>3. Lose(o)
  BY <1>2 DEF Lose, Holding, Known, Stored, Pending
<1>4. QED
  BY <1>3, LedgerSteps DEF LedgerStep

LEMMA DeleteLedger ==
    ASSUME TypeOK, NEW r \in Runs,
           Recreate(r) \/ RequestDelete(r, "prune") \/ RequestDelete(r, "delete")
    PROVE  L!Next
<1>1. PICK o \in Objects : cluster' = Removed(cluster, o)
  BY DEF RequestDelete, Recreate, TypeOK, RunState
<1>2. record' = record
  BY DEF RequestDelete, Recreate
<1>3. DEFINE n == Removed(cluster, o)[o]
<1>4. /\ cluster' = [cluster EXCEPT ![o] = n]
      /\ n \in ClusterObject /\ n.phase # "live"
  BY <1>1, RemovedType, RemovedObjects DEF TypeOK, Removed
<1> HIDE DEF n
<1>5. QED
  BY <1>2, <1>4, LossLedger

LEMMA LedgerNext ==
    ASSUME TypeOK, Inductive, AbsenceFresh, ~BadReads, [Next]_vars
    PROVE  L!Next \/ UNCHANGED L!vars
<1>1. ASSUME UNCHANGED <<record, cluster>>
      PROVE  UNCHANGED L!vars
  BY <1>1, LedgerStutters
<1>2. ASSUME NEW r \in Runs, Start(r)
      PROVE  UNCHANGED L!vars
  BY <1>1, <1>2 DEF Start, StartApply, StartDelete
<1>3. ASSUME NEW r \in Runs, Step(r) \/ Fault(r)
      PROVE  L!Next \/ UNCHANGED L!vars
  <2>1. CASE Install(r)
    <3>1. ~record[run[r].inst].exists
      BY <2>1 DEF Install, At, AbsenceFresh, NoneFound
    <3>2. QED
      BY <2>1, <3>1, StoreLedger DEF Install
  <2>2. CASE UpdateInventory(r)
    <3>1. \A o \in Listed(r) \ Wanted(r) : ~Held(o, run[r].inst)
      BY <2>2 DEF UpdateInventory, At, Inductive, Facts, NothingForgotten
    <3>2. QED
      BY <2>2, <3>1, StoreLedger DEF UpdateInventory
  <2>3. CASE SavePending(r) \/ DeleteRecord(r) \/ SetDeleting(r)
    BY <2>3, RecordLedger
  <2>4. CASE ApplyObject(r)
    BY <2>4, ApplyLedger
  <2>5. CASE Recreate(r) \/ RequestDelete(r, "prune") \/ RequestDelete(r, "delete")
    BY <2>5, DeleteLedger
  <2>6. CASE UNCHANGED <<record, cluster>>
    BY <1>1, <2>6
  <2>7. Step(r) \/ Fault(r)
    BY <1>3
  <2>8. \/ record' = record
        \/ Install(r) \/ UpdateInventory(r) \/ SavePending(r) \/ DeleteRecord(r)
        \/ SetDeleting(r)
    BY <2>7, RecordSteps
  <2>9. \/ cluster' = cluster
        \/ ApplyObject(r) \/ Recreate(r)
        \/ RequestDelete(r, "prune") \/ RequestDelete(r, "delete")
    BY <2>7, ClusterSteps
  <2>10. QED
    BY <2>1, <2>2, <2>3, <2>4, <2>5, <2>6, <2>8, <2>9
<1>5. ASSUME NEW o \in Objects, ClearFinalizer(o)
      PROVE  L!Next
  <2>1. Absent \in ClusterObject /\ Absent.phase # "live"
    BY DEF Absent, ClusterObject
  <2>2. QED
    BY <1>5, <2>1, LossLedger DEF ClearFinalizer
<1>6. CASE Quiet \/ UNCHANGED vars
  BY <1>1, <1>6 DEF Quiet, vars
<1>7. QED
  BY <1>2, <1>3, <1>5, <1>6 DEF Next

(* The runs keep a ledger: for every set of objects, instances and renders,  *)
(* any number of overlapping runs on different instances, and a kill or an   *)
(* API error at any call, what they do to the records and to the cluster is  *)
(* what Ledger allows.                                                       *)
THEOREM LedgerKept ==
    ASSUME Serial, ~BadReads
    PROVE  Spec => KeepsLedger
<1>1. Init => L!Init
  <2>1. ASSUME Init
        PROVE  \A i \in Instances : ~record[i].exists /\ HeldBy(i) = {}
    BY <2>1, AbsentAssumption DEF Init, NoRecord, HeldBy, Held, Absent
  <2>2. QED
    BY <2>1 DEF L!Init, HeldBy
<1>2. TypeOK /\ Inductive /\ AbsenceFresh /\ [Next]_vars => [L!Next]_(L!vars)
  BY LedgerNext
<1>3. QED
  BY <1>1, <1>2, TypeCorrect, InductiveHolds, AbsenceFreshHolds, PTL
     DEF Spec, KeepsLedger, L!Spec

(* Held and not in the ledger. *)
Lost(i) == Holding[i] \ (Stored[i] \cup Pending[i])

LEMMA LedgerLoses ==
    ASSUME TypeOK, LedgerStep, NEW i \in Instances
    PROVE  \/ Lost(i)' \subseteq Lost(i)
           \/ /\ \E objects \in SUBSET Objects : Plan(i, objects)
              /\ Lost(i)' \subseteq Lost(i) \cup Pending[i]
<1>1. /\ Stored \in [Instances -> SUBSET Objects] /\ Pending \in [Instances -> SUBSET Objects]
      /\ Holding \in [Instances -> SUBSET Objects]
      /\ \A j \in Instances \ Known : Stored[j] = {} /\ Pending[j] = {}
  BY RecordObjects DEF TypeOK, Stored, Pending, Holding, HeldBy, Known, StoredOf, PendingOf
<1>2. ASSUME NEW j \in Instances, NEW objects \in SUBSET Objects,
             Create(j, objects) \/ Promote(j, objects)
      PROVE  Lost(i)' \subseteq Lost(i)
  BY <1>1, <1>2 DEF Create, Promote, Lost
<1>3. ASSUME NEW j \in Instances, NEW objects \in SUBSET Objects, Plan(j, objects)
      PROVE  \/ Lost(i)' \subseteq Lost(i)
             \/ i = j /\ Lost(i)' \subseteq Lost(i) \cup Pending[i]
  BY <1>1, <1>3 DEF Plan, Lost
<1>4. ASSUME NEW j \in Instances, Remove(j)
      PROVE  Lost(i)' \subseteq Lost(i)
  BY <1>1, <1>4 DEF Remove, Lost
<1>5. ASSUME NEW j \in Instances, NEW o \in Objects, Gain(j, o)
      PROVE  Lost(i)' \subseteq Lost(i)
  BY <1>1, <1>5 DEF Gain, Lost
<1>6. ASSUME NEW o \in Objects, Lose(o)
      PROVE  Lost(i)' \subseteq Lost(i)
  BY <1>1, <1>6 DEF Lose, Lost
<1>7. QED
  BY <1>2, <1>3, <1>4, <1>5, <1>6 DEF LedgerStep

(* What Ledger promises holds of the records: whatever fails and whatever    *)
(* other instances do, an object that an instance holds leaves its records   *)
(* only when a pending revision is saved over one that was never put in      *)
(* place, and it is then an object of that one.                              *)
THEOREM OnlyPlansLoseHolds ==
    ASSUME Serial, ~BadReads
    PROVE  Spec => L!OnlyPlansLose
<1>1. \A i \in Instances : Lost(i) = L!Lost(i) /\ Lost(i)' = L!Lost(i)'
  BY DEF Lost, L!Lost, L!Listed, Holding, Stored, Pending, StoredOf, PendingOf, HeldBy
<1>2. ASSUME TypeOK, Inductive, AbsenceFresh, [Next]_vars, NEW i \in Instances,
             ~UNCHANGED L!vars
      PROVE  \/ L!Lost(i)' \subseteq L!Lost(i)
             \/ /\ \E objects \in SUBSET Objects : L!Plan(i, objects)
                /\ L!Lost(i)' \subseteq L!Lost(i) \cup Pending[i]
  <2>1. LedgerStep
    BY <1>2, LedgerNext, LedgerSteps
  <2>2. \/ Lost(i)' \subseteq Lost(i)
        \/ /\ \E objects \in SUBSET Objects : Plan(i, objects)
           /\ Lost(i)' \subseteq Lost(i) \cup Pending[i]
    BY <1>2, <2>1, LedgerLoses
  <2>3. QED
    BY <1>1, <2>2, LedgerActions
<1>3. TypeOK /\ Inductive /\ AbsenceFresh /\ [Next]_vars =>
          [\A i \in Instances :
               \/ L!Lost(i)' \subseteq L!Lost(i)
               \/ /\ \E objects \in SUBSET Objects : L!Plan(i, objects)
                  /\ L!Lost(i)' \subseteq L!Lost(i) \cup Pending[i]]_(L!vars)
  BY <1>2
<1>4. QED
  BY <1>3, TypeCorrect, InductiveHolds, AbsenceFreshHolds, PTL
     DEF Spec, L!OnlyPlansLose, Pending, PendingOf

================================================================================
