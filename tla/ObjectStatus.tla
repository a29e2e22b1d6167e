------------------------------ MODULE ObjectStatus ------------------------------
(***************************************************************************)
(* What timoni tells of the objects on a cluster: waiting for them to be   *)
(* ready (doWait of internal/reconciler/reconciler.go with the status      *)
(* readers of internal/runtime/job_wait.go and resource_wait.go and the    *)
(* health checks of internal/engine/healthcheck.go), `timoni status` and   *)
(* `timoni bundle status`.                                                 *)
(*                                                                         *)
(* The objects change while they are read.  The poller of the ssa library  *)
(* is external: it reads the awaited objects again and again, ends when    *)
(* all of them are Current or, as FailFast is set, when one has Failed,    *)
(* and is stopped by the timeout.                                          *)
(***************************************************************************)
EXTENDS Integers, Sequences, Functions

CONSTANTS
    Objects,        \* the objects, each an entry of one inventory
    GroupKind,      \* GroupKind[o]: its group and kind
    JobKind,        \* batch/Job
    Jobs,           \* the states a Job starts in
    Others,         \* the states any other object may be in
    Declarations,   \* the health checks of modules, as sequences
    Scopes,         \* what `bundle status` finds: the lists of the clusters
    MaxFailedPods   \* bound: pods of a Job that fail

VARIABLES
    command,    \* the command: "wait", "status" or "bundle status"
    declared,   \* the health checks of the module
    wait,       \* --wait
    awaited,    \* the objects that are not annotated wait: disabled
    expires,    \* whether the timeout passes in this behaviour
    live,       \* live[o]: object o on the cluster
    read,       \* read[o]: what was last read of it
    scope,      \* the clusters a status command lists
    at,         \* the next of them
    queue,      \* the listed instances with their objects still to be read
    failed,     \* the status command has met an error
    told        \* how the command has ended

vars == <<command, declared, wait, awaited, expires, live, read, scope, at, queue, failed, told>>

--------------------------------------------------------------------------------
Kind  == [group : STRING, kind : STRING]
Check == [group : STRING, kind : STRING, complete : BOOLEAN]
Lists == Seq([parses : BOOLEAN, objects : Seq(Objects)])

(* An object: what the Job controller writes, what each check says of it,    *)
(* and what kstatus makes of any other kind.                                 *)
Phases     == {"live", "deleting", "absent", "unreadable"}
Conditions == Seq([type : {"Suspended", "Complete", "Failed"}, status : BOOLEAN])
Result     == {"true", "false", "incomplete", "error"}
Says       == [matches : BOOLEAN, inProgress : Result, failed : Result, current : Result]
State      == [phase : Phases, suspend : BOOLEAN, failedPods : Nat, conditions : Conditions,
               says : Seq(Says), generic : STRING]

Ends(o) == {i \in DOMAIN o.conditions :
                o.conditions[i].type \in {"Complete", "Failed"} /\ o.conditions[i].status}

Has(o, type) == \E i \in Ends(o) : o.conditions[i].type = type

(* The objects of a list of instances, and that none is in it twice.         *)
Listed(list) == UNION {Range(list[i].objects) : i \in DOMAIN list}

Distinct(list) ==
    /\ \A i \in DOMAIN list : IsInjective(list[i].objects)
    /\ \A i, j \in DOMAIN list : i # j => Range(list[i].objects) \cap Range(list[j].objects) = {}

(* A Job ends once; what Kubernetes keeps to.  An inventory has an entry for *)
(* an object once, and the entries of two inventories are two Objects here.  *)
ASSUME StatusAssumption ==
    /\ GroupKind \in [Objects -> Kind] /\ JobKind \in Kind
    /\ Jobs \cup Others \subseteq State
    /\ \A s \in Jobs : \A i, j \in Ends(s) : i = j
    /\ Declarations \subseteq Seq(Check)
    /\ \A d \in Declarations, s \in Jobs \cup Others : DOMAIN d \subseteq DOMAIN s.says
    /\ Scopes \subseteq Seq([lists : BOOLEAN, instances : Lists])
    /\ \A s \in Scopes : \A c, d \in DOMAIN s :
          /\ Distinct(s[c].instances)
          /\ c # d => Listed(s[c].instances) \cap Listed(s[d].instances) = {}
    /\ MaxFailedPods \in Nat

--------------------------------------------------------------------------------
(* GetHealthChecks: each check is complete, for a group that is not the core *)
(* one, and no two are for the same GroupKind.                               *)
Refused(checks) ==
    \/ \E i \in DOMAIN checks : ~checks[i].complete \/ checks[i].group \in {"", "a/b"}
    \/ \E i, j \in DOMAIN checks : i # j /\ checks[i].group = checks[j].group
                                        /\ checks[i].kind = checks[j].kind

Index(gk) == {i \in DOMAIN declared : declared[i].group = gk.group /\ declared[i].kind = gk.kind}

(* lookup: a check of the kind before one of the group, whose kind is "".    *)
Lookup(gk) == IF Index(gk) # {} THEN Index(gk) ELSE Index([gk EXCEPT !.kind = ""])

(* Evaluate: the first that is true; what is incomplete counts as false.     *)
Evaluate(says) ==
    LET Rule(result, status, next) ==
            IF result = "error" THEN "error" ELSE IF result = "true" THEN status ELSE next
    IN  IF ~says.matches THEN "error"
        ELSE Rule(says.inProgress, "InProgress",
                  Rule(says.failed, "Failed", Rule(says.current, "Current", "InProgress")))

(* Mutant: an object the check cannot be evaluated on is polled again.       *)
HealthCheckRetried(o, says) ==
    IF o.phase = "deleting" THEN "Terminating"
    ELSE IF Evaluate(says) = "error" THEN "InProgress" ELSE Evaluate(says)

HealthCheckResult(o, says) ==
    IF o.phase = "deleting" THEN "Terminating"
    ELSE IF Evaluate(says) = "error" THEN "Failed" ELSE Evaluate(says)

(* Mutant: a pod that has failed fails the Job.                              *)
JobByPods(o) ==
    IF o.failedPods > 0 THEN "Failed"
    ELSE IF o.suspend \/ Has(o, "Complete") THEN "Current" ELSE "InProgress"

(* jobConditions: a suspended Job is not waited for, and only a condition    *)
(* ends one, the first of them, whatever its counters say.                   *)
JobConditions(o) ==
    LET first == CHOOSE i \in Ends(o) : \A j \in Ends(o) : i <= j
    IN  IF o.suspend THEN "Current"
        ELSE IF Ends(o) = {} THEN "InProgress"
        ELSE IF o.conditions[first].type = "Complete" THEN "Current" ELSE "Failed"

(* The readers of NewResourceManager, in their order; the last is kstatus.   *)
ReadStatus(gk, o) ==
    CASE o.phase = "absent"     -> "NotFound"
      [] o.phase = "unreadable" -> "Unknown"
      [] OTHER ->
         IF Lookup(gk) # {} THEN HealthCheckResult(o, o.says[CHOOSE i \in Lookup(gk) : TRUE])
         ELSE IF gk = JobKind THEN JobConditions(o)
         ELSE IF o.phase = "deleting" THEN "Terminating" ELSE o.generic

--------------------------------------------------------------------------------
Unread == [phase |-> "unread"]

Init ==
    /\ command \in {"wait", "status", "bundle status"}
    /\ declared \in IF command = "wait" THEN Declarations ELSE {<< >>}
    /\ wait \in IF command = "wait" THEN BOOLEAN ELSE {FALSE}
    /\ awaited \in IF command = "wait" THEN SUBSET Objects ELSE {{}}
    /\ expires \in IF command = "wait" THEN BOOLEAN ELSE {FALSE}
    /\ live \in {l \in [Objects -> Jobs \cup Others] :
                     \A o \in Objects : (l[o] \in Jobs) = (GroupKind[o] = JobKind)}
    /\ read = [o \in Objects |-> Unread]
    /\ scope \in CASE command = "wait" -> {<< >>}
                   [] command = "status" -> {s \in Scopes : Len(s) = 1}
                   [] OTHER -> Scopes
    /\ at = 1 /\ queue = << >> /\ failed = FALSE /\ told = "begins"

Tells(outcome) == told' = outcome

(* The wait begins, when there is anything to wait for.                      *)
Begin ==
    /\ command = "wait" /\ told = "begins"
    /\ Tells(IF Refused(declared) THEN "refused"
            ELSE IF ~wait \/ awaited = {} THEN "skipped" ELSE "waiting")
    /\ UNCHANGED <<command, declared, wait, awaited, expires, live, read, scope, at, queue, failed>>

Observed(p, it) == IF it = Unread THEN "Unknown" ELSE ReadStatus(GroupKind[p], it)

(* An event of the poller, and what its observer makes of it.                *)
Poll(o) ==
    /\ told = "waiting" /\ o \in awaited
    /\ read' = [read EXCEPT ![o] = live[o]]
    /\ LET Polled(status) == {p \in awaited : Observed(p, read'[p]) = status}
       IN  Tells(IF Polled("Failed") # {} THEN "failed"
                 ELSE IF Polled("Current") = awaited THEN "ready" ELSE "waiting")
    /\ UNCHANGED <<command, declared, wait, awaited, expires, live, scope, at, queue, failed>>

(* The timeout: a ReadinessError, as for a failure.                          *)
Timeout ==
    /\ expires /\ told = "waiting" /\ Tells("timeout")
    /\ UNCHANGED <<command, declared, wait, awaited, expires, live, read, scope, at, queue, failed>>

--------------------------------------------------------------------------------
(* A status command without a cluster.                                       *)
StatusCommand == command # "wait" /\ told = "begins"

NoClusterFound ==
    /\ StatusCommand /\ scope = << >>
    /\ Tells("error")
    /\ UNCHANGED <<command, declared, wait, awaited, expires, live, read, scope, at, queue, failed>>

(* The instances of the next cluster, with the error there may be: no        *)
(* client, no answer, a record that does not decode.  `timoni status` looks  *)
(* up its one instance.                                                      *)
AtCluster == StatusCommand /\ queue = << >> /\ at <= Len(scope)

ListFails ==
    /\ AtCluster
    /\ \/ ~scope[at].lists
       \/ command = "status" /\ scope[at].instances = << >>
    /\ Tells("error")
    /\ UNCHANGED <<command, declared, wait, awaited, expires, live, read, scope, at, queue, failed>>

List ==
    /\ AtCluster /\ scope[at].lists
    /\ command = "status" => scope[at].instances # << >>
    /\ failed' = (failed \/ scope[at].instances = << >>)
    /\ queue' = scope[at].instances
    /\ at' = at + 1
    /\ UNCHANGED <<command, declared, wait, awaited, expires, live, read, scope, told>>

(* ListObjects of the next instance: an entry may not parse.                 *)
ListObjectsFails ==
    /\ StatusCommand /\ queue # << >> /\ ~Head(queue).parses
    /\ Tells("error")
    /\ UNCHANGED <<command, declared, wait, awaited, expires, live, read, scope, at, queue, failed>>

(* The next object: one that cannot be read, or whose status cannot be       *)
(* computed, is logged, and `bundle status` remembers it.                    *)
GetObject ==
    /\ StatusCommand /\ queue # << >> /\ Head(queue).parses
    /\ IF Head(queue).objects = << >> THEN queue' = Tail(queue) /\ UNCHANGED <<read, failed>>
       ELSE LET o == Head(Head(queue).objects)
            IN  /\ read' = [read EXCEPT ![o] = [phase |-> live[o].phase]]
                /\ failed' = (failed \/ live[o].phase \in {"absent", "unreadable"})
                /\ queue' = [queue EXCEPT ![1].objects = Tail(@)]
    /\ UNCHANGED <<command, declared, wait, awaited, expires, live, scope, at, told>>

StatusEnds ==
    /\ StatusCommand /\ queue = << >> /\ scope # << >> /\ at > Len(scope)
    /\ Tells(IF command = "bundle status" /\ failed THEN "errors" ELSE "ok")
    /\ UNCHANGED <<command, declared, wait, awaited, expires, live, read, scope, at, queue, failed>>

--------------------------------------------------------------------------------
(* The cluster.  A Job that has ended does not change any more, and is only  *)
(* deleted; any other object may change in any way.  Changes that nothing    *)
(* reads are left out.                                                       *)
JobChanges(o) ==
    LET was == live[o]
        Becomes(next) == live' = [live EXCEPT ![o] = next]
        Condition(type, status) == [type |-> type, status |-> status]
    IN  /\ GroupKind[o] = JobKind
        /\ \/ was.phase = "live"     /\ Becomes([was EXCEPT !.phase = "deleting"])
           \/ was.phase = "deleting" /\ Becomes([was EXCEPT !.phase = "absent"])
           \/ /\ was.phase = "live" /\ ~Has(was, "Complete") /\ ~Has(was, "Failed")
              /\ \/ /\ was.suspend
                    /\ Becomes([was EXCEPT !.suspend = FALSE,
                                           !.conditions = << Condition("Suspended", FALSE) >>])
                 \/ /\ ~was.suspend /\ was.failedPods < MaxFailedPods
                    /\ Becomes([was EXCEPT !.failedPods = @ + 1])
                 \/ /\ ~was.suspend
                    /\ \E type \in {"Complete", "Failed"} :
                          Becomes([was EXCEPT !.conditions = Append(@, Condition(type, TRUE))])

OtherChanges(o) ==
    /\ GroupKind[o] # JobKind
    /\ \E next \in Others \ {live[o]} : live' = [live EXCEPT ![o] = next]

Changes ==
    /\ StatusCommand \/ told \in {"waiting", "failed"}
    /\ \E o \in Objects : JobChanges(o) \/ (told # "failed" /\ OtherChanges(o))
    /\ UNCHANGED <<command, declared, wait, awaited, expires, read, scope, at, queue, failed, told>>

Next ==
    \/ Begin \/ (\E o \in Objects : Poll(o)) \/ Timeout
    \/ NoClusterFound \/ ListFails \/ List \/ ListObjectsFails \/ GetObject \/ StatusEnds
    \/ Changes
    \/ told \notin {"begins", "waiting"} /\ UNCHANGED vars

(* The poller does not stop before its context ends, and each command goes   *)
(* on; nothing is asked of the cluster.                                      *)
Fairness ==
    /\ WF_vars(Begin) /\ WF_vars(Timeout)
    /\ \A o \in Objects : WF_vars(Poll(o))
    /\ WF_vars(NoClusterFound \/ ListFails \/ List \/ ListObjectsFails \/ GetObject \/ StatusEnds)

Spec == Init /\ [][Next]_vars /\ Fairness

--------------------------------------------------------------------------------
(* The check for an object, said without a lookup: one of its group, for its *)
(* kind or, where none is, for all kinds.                                    *)
Applies(i, gk) ==
    /\ declared[i].group = gk.group
    /\ \/ declared[i].kind = gk.kind
       \/ declared[i].kind = "" /\ \A j \in DOMAIN declared : declared[j] # [declared[i] EXCEPT !.kind = gk.kind]

IsTrue(v)  == v = "true"
IsFalse(v) == v \in {"false", "incomplete"}

Passes(s) == s.matches /\ IsFalse(s.inProgress) /\ IsFalse(s.failed) /\ IsTrue(s.current)
Fails(s)  == \/ ~s.matches \/ s.inProgress = "error"
             \/ IsFalse(s.inProgress) /\ s.failed \in {"true", "error"}
             \/ IsFalse(s.inProgress) /\ IsFalse(s.failed) /\ s.current = "error"

Readable(o) == o.phase \notin {"unread", "absent", "unreadable"}

(* Object o, being as it is, has the verdict of its check, or of its kind.   *)
Judged(o, it, verdict, ofJob, kstatus) ==
    LET checks == {i \in DOMAIN declared : Applies(i, GroupKind[o])}
    IN  CASE checks # {} -> it.phase # "deleting" /\ \A i \in checks : verdict[i]
          [] checks = {} /\ GroupKind[o] = JobKind -> ofJob
          [] OTHER -> it.phase # "deleting" /\ it.generic = kstatus

IsReady(o, it) ==
    Readable(it) /\ Judged(o, it, [i \in DOMAIN declared |-> Passes(it.says[i])],
                           it.suspend \/ Has(it, "Complete"), "Current")
HasFailed(o, it) ==
    Readable(it) /\ Judged(o, it, [i \in DOMAIN declared |-> Fails(it.says[i])],
                           ~it.suspend /\ Has(it, "Failed"), "Failed")

(* ObjectStatusSound: doWait returns nil only when each awaited object was ready   *)
(* when last read (for a Job: suspended, or complete), reports a failure     *)
(* only for an object that has failed for good (a Job that has lost pods may *)
(* still complete), and runs into its timeout for no other reason than an    *)
(* object that was neither; `bundle status` succeeds only when it has read   *)
(* every object of every instance of every cluster, each of which has the    *)
(* bundle, and otherwise not.                                                *)
ObjectStatusSound ==
    LET BuiltinJob(o) == GroupKind[o] = JobKind /\ \A i \in DOMAIN declared : ~Applies(i, JobKind)
    IN  /\ told = "ready"   => \A o \in awaited : IsReady(o, read[o])
        /\ told = "failed"  => \E o \in awaited :
               HasFailed(o, read[o]) /\ (BuiltinJob(o) => ~Has(live[o], "Complete"))
        /\ told = "timeout" => /\ \E o \in awaited : ~IsReady(o, read[o])
                               /\ \A o \in awaited : ~HasFailed(o, read[o])
        /\ command = "bundle status" /\ told \in {"ok", "errors"} =>
               (told = "ok") = \A c \in DOMAIN scope :
                   /\ scope[c].instances # << >>
                   /\ \A o \in Listed(scope[c].instances) : Readable(read[o])

(* WaitEnds: a wait ends by its timeout at the latest, and before it when    *)
(* all objects stay ready or one of them stays failed: a check that cannot   *)
(* be evaluated on the object is not polled until the timeout.               *)
WaitEnds ==
    /\ <>(told = "waiting")
    /\ \/ expires
       \/ <>[](\A o \in awaited : IsReady(o, live[o]))
       \/ \E o \in Objects : <>[](o \in awaited /\ HasFailed(o, live[o]))
    => <>(told \notin {"begins", "waiting"})

================================================================================
