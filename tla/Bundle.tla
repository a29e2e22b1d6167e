-------------------------------- MODULE Bundle --------------------------------
(***************************************************************************)
(* The commands that work on several instances: `timoni bundle apply` and  *)
(* `timoni bundle delete` over the clusters of a runtime, next to the      *)
(* `timoni apply` and `timoni delete` of one instance (cmd/timoni).        *)
(*                                                                         *)
(* Of an instance only its storage record is kept: whether it exists, the  *)
(* bundle in its label and the second of its creation.  What one           *)
(* reconciliation does to the objects is the subject of Reconciler; here   *)
(* it is the few outcomes a command tells apart.                           *)
(*                                                                         *)
(* A command makes all its API calls under one context, whose deadline is  *)
(* set when the command starts and lasts --timeout; the readiness and the  *)
(* termination waits do not use that context and get --timeout each, from  *)
(* their own start.                                                        *)
(***************************************************************************)
EXTENDS Integers, Sequences, FiniteSets

CONSTANTS
    Clusters,     \* clusters of the runtime
    Instances,    \* instances, by name and namespace
    Bundles,      \* names of bundles
    NoBundle,     \* "no bundle": the owner label is not set
    Plans,        \* Plans[b]: the instance lists bundle b may have
    Selections,   \* the sequences of clusters a command may select
    Commands,     \* slots of concurrent commands
    Serial,       \* the operators run one command at a time
    Misread,      \* reads of a record may fail although it exists
    SameSecond,   \* two records may be created in the same second
    MaxStarts,    \* bound: commands in a behaviour
    MaxFaults     \* bound: failures in a behaviour

ASSUME AbsentAssumption == NoBundle \notin Bundles
ASSUME PlansAssumption  == Plans \in [Bundles -> SUBSET Seq(Instances)]
ASSUME SelectAssumption == Selections \subseteq Seq(Clusters) \ {<< >>}
ASSUME FiniteAssumption == IsFiniteSet(Instances)
ASSUME SwitchAssumption == {Serial, Misread, SameSecond} \subseteq BOOLEAN
ASSUME BoundAssumption  == MaxStarts \in Nat /\ MaxFaults \in Nat

VARIABLES
    record,      \* record[c][i]: the storage Secret of instance i on cluster c
    earlier,     \* earlier[c]: history, the pairs of existing instances of
                 \* which the first was installed before the second
    clock,       \* the clusters' clock, in seconds
    cmd,         \* cmd[r]: the memory of the command in slot r
    starts,      \* commands started so far
    faults       \* failures so far

vars == <<record, earlier, clock, cmd, starts, faults>>

Owners == Bundles \cup {NoBundle}

Record == [exists : BOOLEAN, bundle : Owners, created : Nat]

NoRecord == [exists |-> FALSE, bundle |-> NoBundle, created |-> 0]

ApplyStages  == {"check", "fetch", "init", "record", "apply", "prune",
                 "pruneWait", "update"}
DeleteStages == {"list", "get", "remove"}
Outcomes     == {"idle", "done", "failed", "refused"}

(* The memory of a command.  targets are the clusters still to do, the       *)
(* current one first; plan[c] the instances the bundle has on cluster c;     *)
(* queue the instances of the current cluster still to do, the current one   *)
(* first; unread those whose owner is still to be checked.                   *)
Memory ==
    [pc : ApplyStages \cup DeleteStages \cup Outcomes,
     owner : Owners, alone : BOOLEAN, deletes : BOOLEAN, overwrite : BOOLEAN,
     wait : BOOLEAN, selected : Seq(Clusters), targets : Seq(Clusters),
     plan : [Clusters -> Seq(Instances)], queue : Seq(Instances), unread : Seq(Instances),
     conflict : BOOLEAN, found : BOOLEAN, stale : BOOLEAN,
     unready : BOOLEAN, pruned : BOOLEAN, expired : BOOLEAN]

Ended(outcome) ==
    [pc |-> outcome, owner |-> NoBundle, alone |-> FALSE, deletes |-> FALSE,
     overwrite |-> FALSE, wait |-> FALSE, selected |-> << >>, targets |-> << >>,
     plan |-> [c \in Clusters |-> << >>], queue |-> << >>, unread |-> << >>,
     conflict |-> FALSE, found |-> FALSE, stale |-> FALSE, unready |-> FALSE,
     pruned |-> FALSE, expired |-> FALSE]

Active(r) == cmd[r].pc \notin Outcomes

(* A command at work has a cluster at hand and, in the loops over instances, *)
(* an instance.                                                              *)
InInstance(m) == m.pc \in {"init", "record", "apply", "prune", "pruneWait", "update",
                           "get", "remove"}

TypeOK ==
    /\ record \in [Clusters -> [Instances -> Record]]
    /\ earlier \in [Clusters -> SUBSET (Instances \X Instances)]
    /\ clock \in Nat
    /\ cmd \in [Commands -> Memory]
    /\ \A r \in Commands :
           /\ Active(r) => cmd[r].targets # << >>
           /\ InInstance(cmd[r]) => cmd[r].queue # << >>
    /\ starts \in 0..MaxStarts
    /\ faults \in 0..MaxFaults

Init ==
    /\ record = [c \in Clusters |-> [i \in Instances |-> NoRecord]]
    /\ earlier = [c \in Clusters |-> {}]
    /\ clock = 0
    /\ cmd = [r \in Commands |-> Ended("idle")]
    /\ starts = 0
    /\ faults = 0

At(r, stage) == cmd[r].pc = stage
Becomes(r, m) == cmd' = [cmd EXCEPT ![r] = m]
Goto(m, stage) == [m EXCEPT !.pc = stage]
Inject == faults < MaxFaults /\ faults' = faults + 1

Here(m) == Head(m.targets)
Current(m) == Head(m.queue)
Known(m) == record[Here(m)][Current(m)]

--------------------------------------------------------------------------------
(* The loops over clusters and instances. *)

(* The plan of a bundle is built again for every cluster. *)
EnterCluster(m) ==
    IF m.targets = << >> THEN Ended("done")
    ELSE IF m.deletes THEN Goto(m, "list")
    ELSE [m EXCEPT !.pc = IF m.overwrite THEN "fetch" ELSE "check",
                   !.queue = m.plan[Here(m)], !.unread = m.plan[Here(m)]]

NextCluster(m) == EnterCluster([m EXCEPT !.targets = Tail(@), !.queue = << >>])

(* Mutant: the end of the list is seen one instance too late. *)
NextInstanceTooLate(m, stage) ==
    IF m.queue = << >> THEN NextCluster(m)
    ELSE [m EXCEPT !.pc = stage, !.queue = Tail(@), !.found = FALSE,
                   !.stale = FALSE, !.pruned = FALSE]

(* After the current instance: the next one, or the next cluster. *)
NextInstance(m, stage) ==
    LET rest == [m EXCEPT !.queue = Tail(@), !.found = FALSE,
                          !.stale = FALSE, !.pruned = FALSE]
    IN  IF rest.queue = << >> THEN NextCluster(rest) ELSE Goto(rest, stage)

Begin(r, m) ==
    /\ ~Active(r)
    /\ starts < MaxStarts
    /\ Serial => \A q \in Commands : ~Active(q)
    /\ starts' = starts + 1
    /\ Becomes(r, m)
    /\ UNCHANGED <<record, earlier, clock, faults>>

StartBundleApply(r) ==
    \E b \in Bundles, targets \in Selections, overwrite, wait \in BOOLEAN :
    \E plan \in [Clusters -> Plans[b]] :
        Begin(r, EnterCluster([Ended("check") EXCEPT
                     !.owner = b, !.overwrite = overwrite, !.wait = wait,
                     !.selected = targets, !.targets = targets, !.plan = plan]))

StartBundleDelete(r) ==
    \E b \in Bundles, targets \in Selections, wait \in BOOLEAN :
        Begin(r, [Ended("list") EXCEPT
                     !.owner = b, !.deletes = TRUE, !.wait = wait,
                     !.selected = targets, !.targets = targets])

(* timoni apply and timoni delete: one instance on one cluster. *)
StartApply(r) ==
    \E i \in Instances, c \in Clusters, overwrite, wait \in BOOLEAN :
        Begin(r, [Ended("init") EXCEPT
                     !.alone = TRUE, !.overwrite = overwrite, !.wait = wait,
                     !.targets = <<c>>, !.queue = <<i>>])

StartDelete(r) ==
    \E i \in Instances, c \in Clusters, wait \in BOOLEAN :
        Begin(r, [Ended("get") EXCEPT
                     !.alone = TRUE, !.deletes = TRUE, !.wait = wait,
                     !.targets = <<c>>, !.queue = <<i>>])

End(r, outcome) ==
    Becomes(r, Ended(outcome)) /\ UNCHANGED <<record, earlier, clock>>

(* A failing call, a failing build, and a kill. *)
Abort(r) == Active(r) /\ Inject /\ End(r, "failed") /\ UNCHANGED starts

(* The deadline of the command's context passes. *)
Expire(r) ==
    /\ Active(r)
    /\ ~cmd[r].expired
    /\ Inject
    /\ Becomes(r, [cmd[r] EXCEPT !.expired = TRUE])
    /\ UNCHANGED <<record, earlier, clock, starts>>

(* After it every call that takes the context fails.  The ownership check    *)
(* has a context of its own.                                                 *)
NeedsContext(m) ==
    \/ m.pc \in {"fetch", "init", "record", "apply", "update", "list", "get", "remove"}
    \/ m.pc = "prune" /\ m.stale

DeadlineExceeded(r) ==
    /\ NeedsContext(cmd[r])
    /\ cmd[r].expired
    /\ End(r, "failed")
    /\ UNCHANGED <<starts, faults>>

--------------------------------------------------------------------------------
(* bundleInstancesOwnershipConflicts: one read per instance; an instance     *)
(* that cannot be read does not conflict.                                    *)

(* Mutant: only another bundle is a conflict. *)
ConflictsWithBundleOnly(found, owner) ==
    found.exists /\ found.bundle \notin {owner, NoBundle}

ConflictsWith(found, owner) == found.exists /\ found.bundle # owner

(* What the check has for a record: any error of the read is "not installed".*)
Reads(r, i) ==
    LET kept == record[Here(cmd[r])][i]
    IN  {kept} \cup (IF Misread /\ kept.exists /\ faults < MaxFaults THEN {NoRecord} ELSE {})

CheckOwner(r) ==
    LET m == cmd[r]
        i == Head(m.unread)
    IN  /\ At(r, "check")
        /\ m.unread # << >>
        /\ \E found \in Reads(r, i) :
               /\ Becomes(r, [m EXCEPT
                      !.unread = Tail(@),
                      !.conflict = @ \/ ConflictsWith(found, m.owner)])
               /\ faults' = IF found = record[Here(m)][i] THEN faults ELSE faults + 1
        /\ UNCHANGED <<record, earlier, clock, starts>>

AcceptBundle(r) ==
    /\ At(r, "check")
    /\ cmd[r].unread = << >>
    /\ ~cmd[r].conflict
    /\ Becomes(r, Goto(cmd[r], "fetch"))
    /\ UNCHANGED <<record, earlier, clock, starts, faults>>

RefuseBundle(r) ==
    /\ At(r, "check")
    /\ cmd[r].unread = << >>
    /\ cmd[r].conflict
    /\ End(r, "refused")
    /\ UNCHANGED <<starts, faults>>

(* Every module is pulled before the first instance is applied; a bundle     *)
(* may have none.                                                            *)
FetchModules(r) ==
    /\ At(r, "fetch")
    /\ ~cmd[r].expired
    /\ Becomes(r, IF cmd[r].queue = << >> THEN NextCluster(cmd[r])
                                          ELSE Goto(cmd[r], "init"))
    /\ UNCHANGED <<record, earlier, clock, starts, faults>>

--------------------------------------------------------------------------------
(* One instance: Reconciler.Init and ApplyInstance. *)

(* Only a standalone apply looks at the owner again. *)
RefusedAlone(m) ==
    m.alone /\ ~m.overwrite /\ Known(m).exists /\ Known(m).bundle # NoBundle

(* stale: whether objects of earlier revisions are to be pruned. *)
ReadInstance(r) ==
    LET m == cmd[r]
    IN  /\ At(r, "init")
        /\ ~m.expired
        /\ ~RefusedAlone(m)
        /\ \E stale \in BOOLEAN :
               /\ stale => Known(m).exists
               /\ Becomes(r, [m EXCEPT !.pc = "record", !.stale = stale,
                                       !.found = Known(m).exists])
        /\ UNCHANGED <<record, earlier, clock, starts, faults>>

RefuseInstance(r) ==
    /\ At(r, "init")
    /\ ~cmd[r].expired
    /\ RefusedAlone(cmd[r])
    /\ End(r, "refused")
    /\ UNCHANGED <<starts, faults>>

(* Storing the record creates the Secret when there is none: the API server  *)
(* stamps it with the second.                                                *)
Store(m) ==
    LET c == Here(m)
        i == Current(m)
    IN  IF record[c][i].exists
        THEN /\ record' = [record EXCEPT ![c][i].bundle = m.owner]
             /\ UNCHANGED <<earlier, clock>>
        ELSE /\ \E later \in (IF SameSecond THEN {0, 1} ELSE {1}) :
                    clock' = clock + later
             /\ record' = [record EXCEPT ![c][i] =
                    [exists |-> TRUE, bundle |-> m.owner, created |-> clock']]
             /\ earlier' = [earlier EXCEPT
                    ![c] = @ \cup ({j \in Instances : record[c][j].exists} \X {i})]

Install(r) ==
    LET m == cmd[r]
    IN  /\ At(r, "record")
        /\ ~m.expired
        /\ ~m.found
        /\ Store(m)
        /\ Becomes(r, Goto(m, "apply"))
        /\ UNCHANGED <<starts, faults>>

(* An upgrade records a pending revision, under the owner the record has,    *)
(* when the inventory changes; the record must still be there for that.      *)
Upgrade(r) ==
    LET m == cmd[r]
    IN  /\ At(r, "record")
        /\ ~m.expired
        /\ m.found
        /\ \/ Becomes(r, Goto(m, "apply"))
           \/ ~Known(m).exists /\ Becomes(r, Ended("failed"))
        /\ UNCHANGED <<record, earlier, clock, starts, faults>>

(* The objects are applied and ready, or nobody asked. *)
Applied(r) ==
    /\ At(r, "apply")
    /\ ~cmd[r].expired
    /\ Becomes(r, Goto(cmd[r], "prune"))
    /\ UNCHANGED <<record, earlier, clock, starts, faults>>

(* An object is found to have failed for good: the wait ends at once. *)
NotReady(r) ==
    /\ At(r, "apply")
    /\ ~cmd[r].expired
    /\ cmd[r].wait
    /\ Inject
    /\ Becomes(r, [cmd[r] EXCEPT !.pc = "prune", !.unready = TRUE])
    /\ UNCHANGED <<record, earlier, clock, starts>>

(* The wait lasts --timeout: the deadline of the command, set before it, has *)
(* passed by then.                                                           *)
ReadinessTimeout(r) ==
    /\ At(r, "apply")
    /\ ~cmd[r].expired
    /\ cmd[r].wait
    /\ Inject
    /\ Becomes(r, [cmd[r] EXCEPT !.pc = "prune", !.unready = TRUE, !.expired = TRUE])
    /\ UNCHANGED <<record, earlier, clock, starts>>

(* A readiness error ends the command after the prune. *)
AfterPrune(m) == IF m.unready THEN Ended("failed") ELSE Goto(m, "update")

Prune(r) ==
    LET m == cmd[r]
    IN  /\ At(r, "prune")
        /\ m.stale => ~m.expired
        /\ Becomes(r, IF m.stale THEN [m EXCEPT !.pc = "pruneWait", !.pruned = TRUE]
                                 ELSE AfterPrune(m))
        /\ UNCHANGED <<record, earlier, clock, starts, faults>>

PruneDone(r) ==
    /\ At(r, "pruneWait")
    /\ Becomes(r, AfterPrune(cmd[r]))
    /\ UNCHANGED <<record, earlier, clock, starts, faults>>

(* The record is stored under the owner of the command. *)
Update(r) ==
    LET m == cmd[r]
    IN  /\ At(r, "update")
        /\ ~m.expired
        /\ Store(m)
        /\ Becomes(r, NextInstance(m, "init"))
        /\ UNCHANGED <<starts, faults>>

--------------------------------------------------------------------------------
(* Bundle delete: the instances of a bundle, last installed first. *)

Labelled(c, b) == {i \in Instances : record[c][i].exists /\ record[c][i].bundle = b}

(* Mutant: the order of creation is not asked for. *)
ListingsUnsorted(c, b) ==
    {s \in [1..Cardinality(Labelled(c, b)) -> Labelled(c, b)] :
        \A j, k \in DOMAIN s : j # k => s[j] # s[k]}

(* StorageManager.List sorts by creation time, and no more: sort.Slice gives *)
(* records of the same second in any order.                                  *)
Listings(c, b) ==
    {s \in [1..Cardinality(Labelled(c, b)) -> Labelled(c, b)] :
        \A j, k \in DOMAIN s :
            /\ j # k => s[j] # s[k]
            /\ j < k => record[c][s[j]].created <= record[c][s[k]].created}

Backward(s) == [k \in DOMAIN s |-> s[Len(s) + 1 - k]]

(* Mutant: a cluster without instances of the bundle ends the command. *)
ListBundleOrStop(r) ==
    LET m == cmd[r]
    IN  /\ At(r, "list")
        /\ ~m.expired
        /\ \E s \in Listings(Here(m), m.owner) :
               Becomes(r, IF s = << >> THEN Ended("done")
                          ELSE [m EXCEPT !.pc = "get", !.queue = Backward(s)])
        /\ UNCHANGED <<record, earlier, clock, starts, faults>>

ListBundle(r) ==
    LET m == cmd[r]
    IN  /\ At(r, "list")
        /\ ~m.expired
        /\ \E s \in Listings(Here(m), m.owner) :
               Becomes(r, IF s = << >> THEN NextCluster(m)
                          ELSE [m EXCEPT !.pc = "get", !.queue = Backward(s)])
        /\ UNCHANGED <<record, earlier, clock, starts, faults>>

(* Mutant: the record is waited for. *)
GetForDeleteWaits(r) ==
    LET m == cmd[r]
    IN  /\ At(r, "get")
        /\ ~m.expired
        /\ Known(m).exists
        /\ Becomes(r, Goto(m, "remove"))
        /\ UNCHANGED <<record, earlier, clock, starts, faults>>

(* The record is read again, but not its owner. *)
GetForDelete(r) ==
    LET m == cmd[r]
    IN  /\ At(r, "get")
        /\ ~m.expired
        /\ Becomes(r, IF Known(m).exists THEN Goto(m, "remove") ELSE Ended("failed"))
        /\ UNCHANGED <<record, earlier, clock, starts, faults>>

(* The objects are deleted, and their end confirmed when asked to wait. *)
Remove(r) ==
    LET m == cmd[r]
        c == Here(m)
        i == Current(m)
    IN  /\ At(r, "remove")
        /\ ~m.expired
        /\ record' = [record EXCEPT ![c][i] = NoRecord]
        /\ earlier' = [earlier EXCEPT ![c] = {p \in @ : i \notin {p[1], p[2]}}]
        /\ Becomes(r, NextInstance(m, "get"))
        /\ UNCHANGED <<clock, starts, faults>>

--------------------------------------------------------------------------------
Start(r) ==
    StartBundleApply(r) \/ StartBundleDelete(r) \/ StartApply(r) \/ StartDelete(r)

Step(r) ==
    \/ CheckOwner(r) \/ AcceptBundle(r) \/ RefuseBundle(r) \/ FetchModules(r)
    \/ ReadInstance(r) \/ RefuseInstance(r) \/ Install(r) \/ Upgrade(r)
    \/ Applied(r) \/ Prune(r) \/ PruneDone(r) \/ Update(r)
    \/ ListBundle(r) \/ GetForDelete(r) \/ Remove(r)
    \/ DeadlineExceeded(r)

Fault(r) ==
    Abort(r) \/ Expire(r) \/ NotReady(r) \/ ReadinessTimeout(r)

Quiet ==
    /\ starts = MaxStarts
    /\ \A r \in Commands : ~Active(r)
    /\ UNCHANGED vars

Next == (\E r \in Commands : Start(r) \/ Step(r) \/ Fault(r)) \/ Quiet

Spec == Init /\ [][Next]_vars

(* A command runs on; nobody has to start one and nothing has to fail.       *)
FairSpec == Spec /\ \A r \in Commands : WF_vars(Step(r))

--------------------------------------------------------------------------------
(* What the code promises.                                                   *)

(* An instance goes from one owner to another only at the hand of a command  *)
(* that was told to overwrite the ownership.                                 *)
TakenOverAsAsked(c, i) ==
    /\ record[c][i].exists /\ record'[c][i].exists
    /\ record'[c][i].bundle # record[c][i].bundle
    => \E r \in Commands : cmd[r].overwrite /\ (Install(r) \/ Update(r))

TakeoverOnlyWhenAsked ==
    [][\A c \in Clusters, i \in Instances : TakenOverAsAsked(c, i)]_vars

(* A bundle apply that ends well has installed every instance of the bundle  *)
(* on every cluster selected, under the label of the bundle; a bundle delete *)
(* that ends well leaves no instance with that label on any of them.         *)
InstalledOn(r, c) ==
    \A i \in {cmd[r].plan[c][k] : k \in DOMAIN cmd[r].plan[c]} :
        record'[c][i].exists /\ record'[c][i].bundle = cmd[r].owner

RemovedFrom(r, c) ==
    \A i \in Instances : record'[c][i].exists => record'[c][i].bundle # cmd[r].owner

DoneAsAsked(r) ==
    Active(r) /\ cmd'[r].pc = "done" =>
        \A c \in {cmd[r].selected[k] : k \in DOMAIN cmd[r].selected} :
            /\ InstalledOn(r, c)
            /\ cmd[r].deletes /\ ~cmd[r].alone => RemovedFrom(r, c)

DoneIsComplete == [][\A r \in Commands : DoneAsAsked(r)]_vars

(* The instances of a bundle are uninstalled in the reverse order of their   *)
(* installation: no instance of the bundle that is still there was installed *)
(* later than the one that goes.                                             *)
RemovesLast(r, c, i) ==
    Remove(r) /\ ~cmd[r].alone /\ record[c][i].exists /\ ~record'[c][i].exists =>
        \A j \in Instances : <<i, j>> \in earlier[c] => record[c][j].bundle # cmd[r].owner

LastInstalledFirst ==
    [][\A r \in Commands, c \in Clusters, i \in Instances : RemovesLast(r, c, i)]_vars

(* A readiness error still lets the prune run.                               *)
ReadinessErrorStillPrunes ==
    [][\A r \in Commands :
           cmd[r].unready /\ cmd[r].stale /\ ~Active(r)' => cmd[r].pruned]_vars

(* Every command ends.                                                       *)
CommandsEnd == \A r \in Commands : Active(r) ~> ~Active(r)

================================================================================
