------------------------------ MODULE Reconciler ------------------------------
(***************************************************************************)
(* The life of Timoni instances on one cluster: `timoni apply` (and the    *)
(* apply of one instance of a bundle) and `timoni delete`, as the code of  *)
(* internal/reconciler, internal/runtime/storage.go and                    *)
(* cmd/timoni/delete.go performs them, call by call, with what the cluster *)
(* and the people around them may do in between: a run is killed, an API   *)
(* call fails, an object never becomes ready, a finalizer holds an object, *)
(* another instance takes an object over.                                  *)
(*                                                                         *)
(* A run is one invocation of the CLI.  Its memory (run) is lost when it   *)
(* ends; the records of the instances (record) and the objects (cluster)   *)
(* are in the Kubernetes API and survive it.                               *)
(***************************************************************************)
EXTENDS Inventory, Integers, Sequences

CONSTANTS
    Instances,     \* the instances, by name and namespace
    Bundles,       \* names of bundles that can own an instance
    NoBundle,      \* "no bundle": the owner label is not set
    Nobody,        \* "no instance": the object carries no timoni owner label
    Runs,          \* slots of concurrent invocations
    Renders,       \* Renders[i]: what the modules of i may be built to
    Keep,          \* objects annotated action.timoni.sh/prune: disabled
    NoWait,        \* objects annotated action.timoni.sh/wait: disabled
    IfNotPresent,  \* objects annotated action.timoni.sh/one-off
    Finalized,     \* objects with a finalizer: a delete leaves them terminating
    Immutable,     \* objects with fields that cannot be changed, such as Jobs
    Forced,        \* objects annotated action.timoni.sh/force
    Serial,        \* the operators never run two commands on one instance at once
    BadReads,      \* the first read of a record may fail although it exists
    MaxStarts,     \* bound: invocations in a behaviour
    MaxFaults      \* bound: failures injected in a behaviour

(* A render is a sequence of apply sets, each a set of inventory entries. *)
AllRenders == Seq(Inventories)

ASSUME RendersAssumption  == Renders \in [Instances -> SUBSET AllRenders]
ASSUME InstanceAssumption == Instances # {}
ASSUME AbsentAssumption   == NoBundle \notin Bundles /\ Nobody \notin Instances
ASSUME SelectorAssumption == /\ Keep \subseteq Objects
                             /\ NoWait \subseteq Objects
                             /\ IfNotPresent \subseteq Objects
                             /\ Finalized \subseteq Objects
                             /\ Immutable \subseteq Objects
                             /\ Forced \subseteq Objects
ASSUME SwitchAssumption   == Serial \in BOOLEAN /\ BadReads \in BOOLEAN
ASSUME BoundAssumption    == MaxStarts \in Nat /\ MaxFaults \in Nat

VARIABLES
    record,     \* record[i]: the storage Secret of instance i
    cluster,    \* cluster[o]: the object on the cluster
    run,        \* run[r]: the memory of the invocation in slot r
    starts,     \* invocations started so far
    faults      \* failures injected so far

vars == <<record, cluster, run, starts, faults>>

Owners == Bundles \cup {NoBundle}

ClusterObject == [phase : {"absent", "live", "terminating"},
                  owner : Instances \cup {Nobody}]

Absent == [phase |-> "absent", owner |-> Nobody]

(* Where an invocation stands: the call it is about to make. *)
ApplyStages  == {"get", "stale", "pending", "record", "savePending",
                 "apply", "prune", "pruneWait", "update"}
DeleteStages == {"list", "listPending", "mark", "delete", "deleteWait", "forget"}
Outcomes     == {"idle", "done", "failed"}

(* The memory of an invocation.  recreate are the objects it may delete and  *)
(* create again, doomed those it is going to prune (the stale ones) or       *)
(* delete (the listed ones), todo those of the current loop still ahead,     *)
(* looked those of them it has read and found fit to be applied or deleted,  *)
(* gone those whose delete request was accepted, seen the record a           *)
(* SavePending read, erred that a delete request failed, unready that a set  *)
(* failed its readiness check.                                               *)
RunState ==
    [pc : ApplyStages \cup DeleteStages \cup Outcomes,
     inst : Instances, render : AllRenders, bundle : Owners,
     overwrite : BOOLEAN, wait : BOOLEAN, recreate : SUBSET Objects,
     exists : BOOLEAN, predecessor : Inventories, seen : Records(Owners),
     doomed : SUBSET Objects, set : Nat, todo : SUBSET Objects,
     looked : SUBSET Objects, gone : SUBSET Objects, erred : BOOLEAN, unready : BOOLEAN]

(* A slot without an invocation remembers how the last one ended and nothing *)
(* else.                                                                     *)
AnyInstance == CHOOSE i \in Instances : TRUE

Ended(outcome) ==
    [pc |-> outcome, inst |-> AnyInstance, render |-> << >>,
     bundle |-> NoBundle, overwrite |-> FALSE, wait |-> FALSE, recreate |-> {},
     exists |-> FALSE, predecessor |-> {}, seen |-> NoRecord(NoBundle),
     doomed |-> {}, set |-> 0, todo |-> {}, looked |-> {}, gone |-> {},
     erred |-> FALSE, unready |-> FALSE]

Started(stage, i, wait) == [Ended(stage) EXCEPT !.inst = i, !.wait = wait]

Active(r) == run[r].pc \notin Outcomes

(* The inventory of the render: AddObjects over the objects of every set. *)
Desired(m) == UNION {m.render[k] : k \in DOMAIN m.render}

TypeOK ==
    /\ record \in [Instances -> Records(Owners)]
    /\ cluster \in [Objects -> ClusterObject]
    /\ run \in [Runs -> RunState]
    /\ starts \in 0..MaxStarts
    /\ faults \in 0..MaxFaults

(* No instance exists; some objects may, created with other tools. *)
Init ==
    /\ record = [i \in Instances |-> NoRecord(NoBundle)]
    /\ cluster \in [Objects -> {Absent, [Absent EXCEPT !.phase = "live"]}]
    /\ run = [r \in Runs |-> Ended("idle")]
    /\ starts = 0
    /\ faults = 0

--------------------------------------------------------------------------------
(* What the operators start. *)

MayStart(r, i) ==
    /\ ~Active(r)
    /\ starts < MaxStarts
    /\ Serial => \A q \in Runs : Active(q) => run[q].inst # i
    /\ starts' = starts + 1

(* With --force every object may be recreated, without it the annotated ones. *)
StartApply(r) ==
    \E i \in Instances : \E render \in Renders[i] :
    \E owner \in Owners, overwrite, wait \in BOOLEAN :
    \E recreate \in {Immutable, Immutable \cap Forced} :
        /\ MayStart(r, i)
        /\ owner # NoBundle => ~overwrite   \* only a standalone apply reads it
        /\ run' = [run EXCEPT ![r] =
                       [Started("get", i, wait) EXCEPT
                           !.render = render, !.bundle = owner,
                           !.overwrite = overwrite, !.recreate = recreate]]
        /\ UNCHANGED <<record, cluster, faults>>

StartDelete(r) ==
    \E i \in Instances, wait \in BOOLEAN :
        /\ MayStart(r, i)
        /\ run' = [run EXCEPT ![r] =
                       Started("list", i, wait)]
        /\ UNCHANGED <<record, cluster, faults>>

--------------------------------------------------------------------------------
(* Steps of an invocation.  Each reads or writes the API once; m is the      *)
(* memory of the invocation and Becomes(r, m) what it remembers afterwards.  *)

At(r, stage) == run[r].pc = stage

Becomes(r, m) == run' = [run EXCEPT ![r] = m]

Goto(m, stage) == [m EXCEPT !.pc = stage]

Inject == faults < MaxFaults /\ faults' = faults + 1

(* The invocation ends without reaching its last call. *)
Fail(r) ==
    /\ Becomes(r, Ended("failed"))
    /\ UNCHANGED <<record, cluster>>

(* Any error of an API call that the code returns at once, the refusal to    *)
(* change an immutable field of an object that is not recreated included,    *)
(* and a kill.                                                               *)
Abort(r) == Active(r) /\ Inject /\ Fail(r) /\ UNCHANGED starts

(***************************************************************************)
(* Reconciler.Init.                                                        *)
(***************************************************************************)

(* Mutant: nobody asks who owns the instance. *)
NoConflict(m, found) == FALSE

(* A standalone apply refuses an instance that a bundle owns. *)
OwnershipConflict(m, found) ==
    /\ ~m.overwrite
    /\ found.exists
    /\ m.bundle = NoBundle
    /\ found.bundle # NoBundle

(* The record is read, and no conflict is found. *)
GetInstance(r) ==
    LET m == run[r]
        found == record[m.inst]
    IN  /\ At(r, "get")
        /\ ~OwnershipConflict(m, found)
        /\ Becomes(r, [Goto(m, "stale") EXCEPT !.exists = found.exists,
                                               !.predecessor = found.inv])
        /\ UNCHANGED <<record, cluster, starts, faults>>

RefuseOwnership(r) ==
    /\ At(r, "get")
    /\ OwnershipConflict(run[r], record[run[r].inst])
    /\ Fail(r)
    /\ UNCHANGED <<starts, faults>>

(* Any error of this read is taken for "the instance does not exist". *)
MisreadInstance(r) ==
    LET m == run[r]
    IN  /\ At(r, "get")
        /\ record[m.inst].exists => BadReads
        /\ Inject
        /\ Becomes(r, [Goto(m, "stale") EXCEPT !.exists = FALSE])
        /\ UNCHANGED <<record, cluster, starts>>

(* GetStaleObjects reads the record again. *)
GetStaleObjects(r) ==
    LET m == run[r]
        found == record[m.inst]
    IN  /\ At(r, "stale")
        /\ Becomes(r, [Goto(m, "pending") EXCEPT
                          !.doomed = IF found.exists
                                     THEN Diff(found.inv, Desired(m))
                                     ELSE {}])
        /\ UNCHANGED <<record, cluster, starts, faults>>

(* The objects of an unfinished upgrade join the stale ones. *)
GetPending(r) ==
    LET m == run[r]
        found == record[m.inst]
    IN  /\ At(r, "pending")
        /\ Becomes(r, [Goto(m, "record") EXCEPT
                          !.doomed = m.doomed \cup
                                     (PendingObjects(found) \ ListMeta(Desired(m)))])
        /\ UNCHANGED <<record, cluster, starts, faults>>

(***************************************************************************)
(* ApplyInstance: the write-ahead record.                                  *)
(***************************************************************************)

(* The run turns to set number k, or to the prune after the last one. *)
EnterSet(m, k) ==
    IF k \in DOMAIN m.render
    THEN [m EXCEPT !.pc = "apply", !.set = k, !.todo = ListMeta(m.render[k])]
    ELSE [m EXCEPT !.pc = "prune", !.set = k, !.todo = m.doomed]

WriteRecord(m) ==
    record' = [record EXCEPT ![m.inst] =
                   StoredRecord(record[m.inst], Desired(m), m.bundle)]

(* Mutant: an install applies first and records at the end. *)
InstallUnrecorded(r) ==
    LET m == run[r]
    IN  /\ At(r, "record")
        /\ ~m.exists
        /\ Becomes(r, EnterSet(m, 1))
        /\ UNCHANGED <<record, cluster, starts, faults>>

(* Install: the intended inventory is stored up front. *)
Install(r) ==
    LET m == run[r]
    IN  /\ At(r, "record")
        /\ ~m.exists
        /\ WriteRecord(m)
        /\ Becomes(r, EnterSet(m, 1))
        /\ UNCHANGED <<cluster, starts, faults>>

(* Upgrade to the same inventory: nothing to record. *)
Reapply(r) ==
    LET m == run[r]
    IN  /\ At(r, "record")
        /\ m.exists
        /\ SameInventory(Desired(m), m.predecessor)
        /\ Becomes(r, EnterSet(m, 1))
        /\ UNCHANGED <<record, cluster, starts, faults>>

(* Upgrade: SavePending first reads the record it is going to extend ... *)
ReadForPending(r) ==
    LET m == run[r]
        found == record[m.inst]
    IN  /\ At(r, "record")
        /\ m.exists
        /\ ~SameInventory(Desired(m), m.predecessor)
        /\ IF found.exists
           THEN /\ Becomes(r, [Goto(m, "savePending") EXCEPT !.seen = found])
                /\ UNCHANGED <<record, cluster>>
           ELSE Fail(r)
        /\ UNCHANGED <<starts, faults>>

(* ... and then writes it with the pending revision, replacing any other. *)
SavePending(r) ==
    LET m == run[r]
    IN  /\ At(r, "savePending")
        /\ record' = [record EXCEPT ![m.inst] =
                          PendingRecord(record[m.inst], m.seen, Desired(m))]
        /\ Becomes(r, EnterSet([m EXCEPT !.seen = NoRecord(NoBundle)], 1))
        /\ UNCHANGED <<cluster, starts, faults>>

(***************************************************************************)
(* ApplyAllSets.                                                           *)
(***************************************************************************)

(* ssa.ResourceManager.ApplyAllStaged reads every object and tries its apply *)
(* before it applies any.  A one-off object that exists is skipped.          *)
CheckObject(r) ==
    LET m == run[r]
    IN  /\ At(r, "apply")
        /\ \E o \in m.todo \ (m.looked \cup m.gone) :
               Becomes(r, IF o \in IfNotPresent /\ cluster[o].phase # "absent"
                          THEN [m EXCEPT !.todo = @ \ {o}]
                          ELSE [m EXCEPT !.looked = @ \cup {o}])
        /\ UNCHANGED <<record, cluster, starts, faults>>

(* A delete request: a finalizer leaves the object terminating. *)
Removed(c, o) ==
    [c EXCEPT ![o] = IF @.phase # "absent" /\ o \in Finalized
                     THEN [@ EXCEPT !.phase = "terminating"]
                     ELSE Absent]

(* Force: the object is there and the cluster refuses the change of an       *)
(* immutable field, so that it is deleted, whatever labels it carries ...    *)
Recreate(r) ==
    LET m == run[r]
    IN  /\ At(r, "apply")
        /\ \E o \in (m.todo \cap m.recreate) \ (m.looked \cup m.gone \cup IfNotPresent) :
               /\ cluster[o].phase # "absent"
               /\ cluster' = Removed(cluster, o)
               /\ Becomes(r, [m EXCEPT !.gone = @ \cup {o}])
        /\ UNCHANGED <<record, starts, faults>>

(* ... and applied like the others once it is gone. *)
Recreated(r) ==
    LET m == run[r]
    IN  /\ At(r, "apply")
        /\ \E o \in m.gone :
               /\ cluster[o].phase = "absent"
               /\ Becomes(r, [m EXCEPT !.gone = @ \ {o}, !.looked = @ \cup {o}])
        /\ UNCHANGED <<record, cluster, starts, faults>>

(* Server-side apply of an object labels it with the instance; an object     *)
(* that is being finalized keeps terminating.                                *)
Applied(c, o, i) ==
    [c EXCEPT ![o] = [phase |-> IF @.phase = "absent" THEN "live" ELSE @.phase,
                      owner |-> i]]

ApplyObject(r) ==
    LET m == run[r]
    IN  /\ At(r, "apply")
        /\ \E o \in m.looked :
               /\ cluster' = Applied(cluster, o, m.inst)
               /\ Becomes(r, [m EXCEPT !.todo = @ \ {o}, !.looked = @ \ {o}])
        /\ UNCHANGED <<record, starts, faults>>

(* The objects whose readiness the set waits for. *)
Awaited(m, k) == ListMeta(m.render[k]) \ NoWait

Ready(o) == cluster[o].phase = "live"

(* Mutant: the next set does not wait for this one. *)
SetApplied(r) ==
    LET m == run[r]
    IN  /\ At(r, "apply")
        /\ m.todo = {}
        /\ Becomes(r, EnterSet(m, m.set + 1))
        /\ UNCHANGED <<record, cluster, starts, faults>>

SetReady(r) ==
    LET m == run[r]
    IN  /\ At(r, "apply")
        /\ m.todo = {}
        /\ m.wait => \A o \in Awaited(m, m.set) : Ready(o)
        /\ Becomes(r, EnterSet(m, m.set + 1))
        /\ UNCHANGED <<record, cluster, starts, faults>>

(* A readiness error skips the sets that are left but not the prune.  An     *)
(* object that is absent or terminating runs the wait into its timeout; any  *)
(* other may too.                                                            *)
SetNotReady(r) ==
    LET m == run[r]
    IN  /\ At(r, "apply")
        /\ m.todo = {}
        /\ m.wait
        /\ Awaited(m, m.set) # {}
        /\ IF \A o \in Awaited(m, m.set) : Ready(o) THEN Inject
                                                    ELSE UNCHANGED faults
        /\ Becomes(r, [m EXCEPT !.pc = "prune", !.todo = m.doomed,
                                !.unready = TRUE])
        /\ UNCHANGED <<record, cluster, starts>>

(***************************************************************************)
(* Deleting objects: ssa.ResourceManager.Delete with DeleteOptions.        *)
(***************************************************************************)

(* Mutant: the labels of the object are not looked at. *)
DeletableByAnyone(o, i) == cluster[o].phase # "absent" /\ o \notin Keep

(* Only an object that carries the labels of the instance, and is not       *)
(* annotated against pruning, is deleted.                                   *)
Deletable(o, i) ==
    /\ cluster[o].phase # "absent"
    /\ cluster[o].owner = i
    /\ o \notin Keep

(* One object after another: it is read, and skipped or found deletable.  An *)
(* object that is not there counts as deleted.                               *)
LookAt(r, stage) ==
    LET m == run[r]
    IN  /\ At(r, stage)
        /\ m.looked = {}
        /\ \E o \in m.todo :
               Becomes(r, IF Deletable(o, m.inst) THEN [m EXCEPT !.looked = {o}]
                          ELSE [m EXCEPT !.todo = @ \ {o},
                                         !.gone = IF cluster[o].phase = "absent"
                                                  THEN @ \cup {o} ELSE @])
        /\ UNCHANGED <<record, cluster, starts, faults>>

(* The request names the object and has no precondition: it removes whatever *)
(* goes by that name now.                                                    *)
RequestDelete(r, stage) ==
    LET m == run[r]
    IN  /\ At(r, stage)
        /\ \E o \in m.looked :
               /\ cluster' = Removed(cluster, o)
               /\ Becomes(r, [m EXCEPT !.todo = @ \ {o}, !.looked = {},
                                       !.gone = @ \cup {o}])
        /\ UNCHANGED <<record, starts, faults>>

(* A failed read or request is noted and the loop goes on. *)
DeleteRequestFails(r, stage) ==
    LET m == run[r]
    IN  /\ At(r, stage)
        /\ Inject
        /\ \E o \in IF m.looked = {} THEN m.todo ELSE m.looked :
               Becomes(r, [m EXCEPT !.todo = @ \ {o}, !.looked = {}, !.erred = TRUE])
        /\ UNCHANGED <<record, cluster, starts>>

(* Mutant: the wait includes the objects that were skipped. *)
TerminatedAll(m) == \A o \in m.doomed : cluster[o].phase = "absent"

Terminated(m) == \A o \in m.gone : cluster[o].phase = "absent"

(* The wait for termination runs into its timeout: it must when another run  *)
(* has created an object again, and may while a finalizer is pending.        *)
TerminationTimeout(r, stage) ==
    /\ At(r, stage)
    /\ ~Terminated(run[r])
    /\ IF \E o \in run[r].gone : Ready(o) THEN UNCHANGED faults ELSE Inject
    /\ Fail(r)
    /\ UNCHANGED starts

(* The same while an object is to be recreated. *)
RecreateTimeout(r) == TerminationTimeout(r, "apply")

(***************************************************************************)
(* PostApplyPruneStaleObjects and PostApplyUpdateInventory.                *)
(***************************************************************************)

LookAtStale(r) == LookAt(r, "prune")

PruneObject(r) == RequestDelete(r, "prune")

PruneObjectFails(r) == DeleteRequestFails(r, "prune")

(* After the prune a readiness error still ends the run. *)
AfterPrune(r) ==
    IF run[r].unready THEN Fail(r)
    ELSE Becomes(r, Goto(run[r], "update")) /\ UNCHANGED <<record, cluster>>

(* Mutant: errors of the prune are logged and forgotten. *)
PrunedDespiteErrors(r) ==
    LET m == run[r]
    IN  /\ At(r, "prune")
        /\ m.todo = {}
        /\ AfterPrune(r)
        /\ UNCHANGED <<starts, faults>>

Pruned(r) ==
    LET m == run[r]
    IN  /\ At(r, "prune")
        /\ m.todo = {}
        /\ IF m.erred THEN Fail(r)
           ELSE IF m.wait /\ m.gone # {}
           THEN Becomes(r, Goto(m, "pruneWait")) /\ UNCHANGED <<record, cluster>>
           ELSE AfterPrune(r)
        /\ UNCHANGED <<starts, faults>>

PruneTerminated(r) ==
    /\ At(r, "pruneWait")
    /\ Terminated(run[r])
    /\ AfterPrune(r)
    /\ UNCHANGED <<starts, faults>>

PruneTimeout(r) == TerminationTimeout(r, "pruneWait")

(* The applied revision becomes the stored one and the pending one goes. *)
UpdateInventory(r) ==
    /\ At(r, "update")
    /\ WriteRecord(run[r])
    /\ Becomes(r, Ended("done"))
    /\ UNCHANGED <<cluster, starts, faults>>

--------------------------------------------------------------------------------
(***************************************************************************)
(* timoni delete.                                                          *)
(***************************************************************************)

(* The record is read; without one there is nothing to delete. *)
ListStored(r) ==
    LET m == run[r]
        found == record[m.inst]
    IN  /\ At(r, "list")
        /\ IF found.exists
           THEN /\ Becomes(r, [Goto(m, "listPending") EXCEPT
                                  !.doomed = ListMeta(found.inv)])
                /\ UNCHANGED <<record, cluster>>
           ELSE Fail(r)
        /\ UNCHANGED <<starts, faults>>

(* The pending revision is read, and the objects of both are listed.  The    *)
(* deletion marker is set only by a delete that waits.                       *)
ListPending(r) ==
    LET m == run[r]
        listed == m.doomed \cup PendingObjects(record[m.inst])
    IN  /\ At(r, "listPending")
        /\ Becomes(r, [m EXCEPT !.pc = IF m.wait THEN "mark" ELSE "delete",
                                !.doomed = listed, !.todo = listed])
        /\ UNCHANGED <<record, cluster, starts, faults>>

SetDeleting(r) ==
    LET m == run[r]
    IN  /\ At(r, "mark")
        /\ IF record[m.inst].exists
           THEN /\ record' = [record EXCEPT ![m.inst].deleting = TRUE]
                /\ Becomes(r, Goto(m, "delete"))
                /\ UNCHANGED cluster
           ELSE Fail(r)
        /\ UNCHANGED <<starts, faults>>

LookAtListed(r) == LookAt(r, "delete")

DeleteListed(r) == RequestDelete(r, "delete")

DeleteListedFails(r) == DeleteRequestFails(r, "delete")

(* Mutant: the record goes away without waiting for the finalizers. *)
DeletedUnconfirmed(r) ==
    LET m == run[r]
    IN  /\ At(r, "delete")
        /\ m.todo = {}
        /\ IF m.erred THEN Fail(r)
           ELSE Becomes(r, Goto(m, "forget")) /\ UNCHANGED <<record, cluster>>
        /\ UNCHANGED <<starts, faults>>

(* Mutant: a skipped object counts as a failed one. *)
DeletedUnlessSkipped(r) ==
    LET m == run[r]
    IN  /\ At(r, "delete")
        /\ m.todo = {}
        /\ IF m.erred \/ m.gone # m.doomed THEN Fail(r)
           ELSE /\ Becomes(r, Goto(m, IF m.wait THEN "deleteWait" ELSE "forget"))
                /\ UNCHANGED <<record, cluster>>
        /\ UNCHANGED <<starts, faults>>

(* Failed requests end the run with the record kept. *)
Deleted(r) ==
    LET m == run[r]
    IN  /\ At(r, "delete")
        /\ m.todo = {}
        /\ IF m.erred THEN Fail(r)
           ELSE /\ Becomes(r, Goto(m, IF m.wait /\ m.gone # {} THEN "deleteWait"
                                                               ELSE "forget"))
                /\ UNCHANGED <<record, cluster>>
        /\ UNCHANGED <<starts, faults>>

DeleteTerminated(r) ==
    /\ At(r, "deleteWait")
    /\ Terminated(run[r])
    /\ Becomes(r, Goto(run[r], "forget"))
    /\ UNCHANGED <<record, cluster, starts, faults>>

DeleteTimeout(r) == TerminationTimeout(r, "deleteWait")

DeleteRecord(r) ==
    /\ At(r, "forget")
    /\ record' = [record EXCEPT ![run[r].inst] = NoRecord(NoBundle)]
    /\ Becomes(r, Ended("done"))
    /\ UNCHANGED <<cluster, starts, faults>>

--------------------------------------------------------------------------------
(* The cluster: the controller behind a finalizer lets the object go. *)
ClearFinalizer(o) ==
    /\ cluster[o].phase = "terminating"
    /\ cluster' = [cluster EXCEPT ![o] = Absent]
    /\ UNCHANGED <<record, run, starts, faults>>

Start(r) == StartApply(r) \/ StartDelete(r)

(* What the code of an invocation does when nothing goes wrong ... *)
Step(r) ==
    \/ GetInstance(r) \/ RefuseOwnership(r)
    \/ GetStaleObjects(r) \/ GetPending(r)
    \/ Install(r) \/ Reapply(r) \/ ReadForPending(r) \/ SavePending(r)
    \/ CheckObject(r) \/ Recreate(r) \/ Recreated(r) \/ ApplyObject(r) \/ SetReady(r)
    \/ LookAtStale(r) \/ PruneObject(r) \/ Pruned(r) \/ PruneTerminated(r) \/ UpdateInventory(r)
    \/ ListStored(r) \/ ListPending(r) \/ SetDeleting(r)
    \/ LookAtListed(r) \/ DeleteListed(r) \/ Deleted(r) \/ DeleteTerminated(r) \/ DeleteRecord(r)

(* ... and what may go wrong around it. *)
Fault(r) ==
    \/ Abort(r) \/ MisreadInstance(r) \/ RecreateTimeout(r) \/ SetNotReady(r)
    \/ PruneObjectFails(r) \/ PruneTimeout(r)
    \/ DeleteListedFails(r) \/ DeleteTimeout(r)

(* Everything has been started that the bounds allow, and has ended. *)
Quiet ==
    /\ starts = MaxStarts
    /\ \A r \in Runs : ~Active(r)
    /\ \A o \in Objects : cluster[o].phase # "terminating"
    /\ UNCHANGED vars

Next ==
    \/ \E r \in Runs : Start(r) \/ Step(r) \/ Fault(r)
    \/ \E o \in Objects : ClearFinalizer(o)
    \/ Quiet

Spec == Init /\ [][Next]_vars

(* The process of an invocation runs on, its waits have timeouts and         *)
(* controllers clear their finalizers.  Nothing makes an operator start      *)
(* anything, and no failure has to happen.                                   *)
FairSpec ==
    /\ Spec
    /\ \A r \in Runs : WF_vars(Step(r) \/ RecreateTimeout(r) \/ SetNotReady(r)
                               \/ PruneTimeout(r) \/ DeleteTimeout(r))
    /\ \A o \in Objects : WF_vars(ClearFinalizer(o))

--------------------------------------------------------------------------------
(***************************************************************************)
(* What the code promises.                                                 *)
(***************************************************************************)

(* A live object the instance of its labels has no record of: no prune and   *)
(* no delete of that instance will ever reach it.                            *)
Orphan(o) ==
    /\ cluster[o].phase = "live"
    /\ cluster[o].owner # Nobody
    /\ o \notin Keep
    /\ o \notin ListAllObjects(record[cluster[o].owner])

(* The two writes that replace a record by one that names less: a pending    *)
(* revision saved over that of an earlier unfinished upgrade, and an install *)
(* over a record that the run failed to read.                                *)
ReplacesPending(r) == SavePending(r) /\ record[run[r].inst].hasPending
InstallsOverRecord(r) == Install(r) /\ record[run[r].inst].exists

(* No object escapes the records: whatever run is killed or fails, at        *)
(* whatever call, a live object stays listed by the stored or the pending    *)
(* inventory of its instance, so that a later apply prunes it or a delete    *)
(* removes it.  Only the two writes above can lose one.                      *)
OrphanOnlyByOverwrite ==
    [][\A o \in Objects : Orphan(o)' =>
           \/ Orphan(o)
           \/ \E r \in Runs : ReplacesPending(r) \/ InstallsOverRecord(r)]_vars

(* An apply that succeeds leaves no object of its instance behind that is    *)
(* not part of its render, those of unfinished upgrades included.            *)
SuccessLeavesNoStale ==
    [][\A r \in Runs : UpdateInventory(r) =>
           \A o \in Objects :
               /\ cluster[o].phase = "live"
               /\ cluster[o].owner = run[r].inst
               => o \in ListMeta(Desired(run[r])) \cup Keep]_vars

(* What a run is about to delete is another instance's by now. *)
Overtaken(r, o) ==
    /\ At(r, "prune") \/ At(r, "delete")
    /\ o \in run[r].looked
    /\ cluster[o].phase = "live"
    /\ cluster[o].owner # run[r].inst

(* An object goes away only by a prune or a delete of the instance whose     *)
(* labels it carries, never against its annotation nor when the same apply   *)
(* renders it at whatever API version, or by an apply that recreates it.     *)
(* The labels are read before the request, and the one thing that can        *)
(* happen in between is a take-over: by the apply of an instance that has    *)
(* the object in its record, so that its next apply brings it back.          *)
DeletesOnlyOwn ==
    [][\A o \in Objects :
           /\ cluster[o].phase = "live" /\ cluster'[o].phase # "live" =>
                  \E r \in Runs :
                      \/ /\ At(r, "prune") \/ At(r, "delete")
                         /\ cluster[o].owner = run[r].inst \/ Overtaken(r, o)
                         /\ o \notin Keep \cup ListMeta(Desired(run[r]))
                      \/ /\ At(r, "apply")
                         /\ o \in ListMeta(Desired(run[r])) \cap run[r].recreate
           /\ \A r \in Runs : Overtaken(r, o)' /\ ~Overtaken(r, o) =>
                  \E q \in Runs :
                      /\ At(q, "apply")
                      /\ cluster'[o].owner = run[q].inst
                      /\ o \in ListAllObjects(record[run[q].inst])]_vars

InPlace(m, o) ==
    IF m.wait /\ o \notin NoWait THEN Ready(o)
    ELSE cluster[o].phase # "absent" \/ o \in Finalized

(* A set after set k lists the object too, and may have recreated it. *)
RecreatedSince(m, k, o) ==
    /\ o \in m.recreate
    /\ \E j \in (k + 1)..m.set : j \in DOMAIN m.render /\ o \in ListMeta(m.render[j])

(* With one invocation at a time: the objects of a set are applied, and      *)
(* stale objects pruned, only once every object of the sets before is in     *)
(* place: ready when the run waits, and at least created when it does not.   *)
(* Only an object that two sets list can be out of place again: the later    *)
(* one may recreate it.                                                      *)
SetsInOrder ==
    \A r \in Runs :
        run[r].pc \in {"apply", "prune", "pruneWait", "update"} /\ ~run[r].unready =>
            \A k \in 1..(run[r].set - 1) :
                \A o \in ListMeta(run[r].render[k]) :
                    InPlace(run[r], o) \/ RecreatedSince(run[r], k, o)

(* A delete forgets an instance only when every object of its records is out *)
(* of its hands: gone, taken over, kept by annotation, or, if the operator   *)
(* asked not to wait, being finalized.                                       *)
DeleteConfirmed ==
    [][\A r \in Runs : DeleteRecord(r) =>
           \A o \in ListAllObjects(record[run[r].inst]) \ Keep :
               cluster[o].owner = run[r].inst =>
                   ~run[r].wait /\ cluster[o].phase = "terminating"]_vars

(* The owner of an instance changes only with an apply that names the new    *)
(* owner, and a bundle loses an instance to a standalone apply only when the *)
(* operator asked for it.                                                    *)
OwnershipKept ==
    [][\A i \in Instances :
           /\ record[i].exists /\ record'[i].exists
           /\ record'[i].bundle # record[i].bundle
           => \E r \in Runs :
                  /\ run[r].inst = i
                  /\ At(r, "record") \/ At(r, "update")
                  /\ record'[i].bundle = run[r].bundle
                  /\ run[r].bundle = NoBundle => run[r].overwrite]_vars

(* A successful apply of an instance whose delete was given up takes the     *)
(* deletion marker off its record.                                           *)
ApplyDropsMarker ==
    [][\A r \in Runs : UpdateInventory(r) => ~record'[run[r].inst].deleting]_vars

(* Every invocation ends, whatever fails. *)
RunsEnd == \A r \in Runs : Active(r) ~> ~Active(r)

(* A delete that meets no failure any more removes the record, finalizers    *)
(* and objects of others notwithstanding.                                    *)
DeleteCompletes ==
    \A r \in Runs, i \in Instances :
        /\ At(r, "delete") /\ run[r].inst = i
        /\ ~run[r].erred /\ faults = MaxFaults
        ~> ~record[i].exists

(* With one invocation at a time, an apply that meets no failure any more,   *)
(* nor an object that is going away, promotes its render, whatever earlier   *)
(* runs left unfinished.                                                     *)
ApplyCompletes ==
    \A r \in Runs, i \in Instances : \A render \in Renders[i] :
        /\ At(r, "record") /\ run[r].inst = i /\ run[r].render = render
        /\ faults = MaxFaults
        /\ \A o \in Objects : cluster[o].phase # "terminating"
        ~> /\ record[i].exists /\ ~record[i].hasPending
           /\ record[i].inv = UNION {render[k] : k \in DOMAIN render}

--------------------------------------------------------------------------------
(***************************************************************************)
(* The records of the instances are their ledgers.                         *)
(***************************************************************************)

(* o is the instance's to prune or delete. *)
Held(o, i) == cluster[o].phase = "live" /\ cluster[o].owner = i /\ o \notin Keep

L == INSTANCE Ledger WITH
         known   <- {i \in Instances : record[i].exists},
         stored  <- [i \in Instances |-> IF record[i].exists THEN ListMeta(record[i].inv)
                                                            ELSE {}],
         pending <- [i \in Instances |-> IF record[i].exists THEN PendingObjects(record[i])
                                                            ELSE {}],
         held    <- [i \in Instances |-> {o \in Objects : Held(o, i)}]

(* Runs that install, upgrade, prune, fail, are killed and start over do to  *)
(* the records and to the cluster what Ledger allows: nothing is applied     *)
(* before it is listed, nothing leaves a record while the instance holds it, *)
(* and only a pending revision saved over another one can lose objects.      *)
KeepsLedger == L!Spec

--------------------------------------------------------------------------------
(***************************************************************************)
(* Why no object is lost: the invariant that the proofs show inductive,    *)
(* when the operators are Serial.                                          *)
(***************************************************************************)

(* One invocation at a time per instance. *)
Solo ==
    \A q, r \in Runs :
        q # r /\ Active(q) /\ Active(r) => run[q].inst # run[r].inst

Listed(r) == ListAllObjects(record[run[r].inst])

Wanted(r) == ListMeta(Desired(run[r]))

(* What a run has read of its record is still what the record says. *)
ReadsAreFresh(r) ==
    LET m == run[r]
        rec == record[m.inst]
    IN  /\ m.pc \in {"stale", "pending", "record"} /\ m.exists =>
               rec.exists /\ rec.inv = m.predecessor
        /\ m.pc \in {"pending", "listPending"} /\ rec.exists =>
               ListMeta(rec.inv) \ Wanted(r) \subseteq m.doomed
        /\ m.pc = "savePending" => rec.exists /\ m.seen = rec

(* Nothing that is recorded and not wanted is forgotten on the way to the    *)
(* loop that removes it, nor after.                                          *)
NothingForgotten(r) ==
    LET m == run[r]
    IN  /\ m.pc \in {"record", "savePending", "apply", "mark"} =>
               Listed(r) \ Wanted(r) \subseteq m.doomed
        /\ m.pc \in {"prune", "delete"} /\ ~m.erred =>
               \A o \in Listed(r) \ Wanted(r) : Held(o, m.inst) => o \in m.todo
        /\ m.pc \in {"pruneWait", "update", "deleteWait", "forget"} =>
               \A o \in Listed(r) \ Wanted(r) : ~Held(o, m.inst)

(* What a run applies is recorded before. *)
WriteAhead(r) ==
    run[r].pc = "apply" => Wanted(r) \subseteq Listed(r) /\ run[r].todo \subseteq Wanted(r)

(* What a run has read to delete it, and read or deleted to apply it, is     *)
(* still ahead, and nothing of one loop is left when the next begins.        *)
LookedAhead(r) ==
    LET m == run[r]
    IN  /\ m.pc \in {"prune", "delete"} => m.looked \subseteq m.todo \ Keep
        /\ m.pc = "apply" =>
               m.looked \cup m.gone \subseteq m.todo /\ m.looked \cap m.gone = {}
        /\ m.pc \in {"get", "stale", "pending", "record", "savePending",
                     "list", "listPending", "mark"} => m.looked \cup m.gone = {}

(* What a run deletes is not what it wants. *)
DoomedUnwanted(r) ==
    LET m == run[r]
    IN  /\ m.pc \in DeleteStages => Wanted(r) = {}
        /\ m.pc \in ApplyStages => m.doomed \cap Wanted(r) = {}
        /\ m.pc = "mark" => m.todo = m.doomed
        /\ m.pc = "prune" => m.todo \subseteq m.doomed

Facts(r) ==
    /\ ReadsAreFresh(r) /\ NothingForgotten(r) /\ WriteAhead(r)
    /\ LookedAhead(r) /\ DoomedUnwanted(r)

Inductive == Solo /\ \A r \in Runs : Facts(r)

================================================================================
