----------------------------- MODULE RuntimeValues -----------------------------
(***************************************************************************)
(* The values a bundle is built with: `timoni bundle apply`, `bundle vet`, *)
(* `bundle build` and `timoni runtime build` (cmd/timoni) select clusters  *)
(* of a runtime, read values from the objects of each (runtime/reader.go)  *)
(* and inject them in the fields of the bundle files that carry an         *)
(* attribute @timoni(runtime:TYPE:NAME) (engine/runtime_injector.go).      *)
(*                                                                         *)
(* A value is a string; which strings are a number or a bool is given, and *)
(* what a string is when decoded from base64.  Names compare without their *)
(* case.  CUE evaluation is abstracted to this: a file cannot be parsed, a *)
(* field has no value, the bundle has no instances.                        *)
(***************************************************************************)
EXTENDS Integers, Sequences, SequencesExt, FiniteSetsExt

CONSTANTS
    Values,       \* strings
    AcceptedBy,   \* AcceptedBy[t]: the values an attribute of type t takes
    Decoded,      \* Decoded[v]: v decoded, or v when it is not base64
    NoValue,      \* a field that is not concrete
    ClusterName,  \* TIMONI_CLUSTER_NAME and TIMONI_CLUSTER_GROUP
    ClusterGroup,
    Default,      \* the unnamed cluster of a command without runtime clusters
    Plans         \* the command lines of each kind, "apply", "vet", "build" (of a
                  \* bundle) and "runtime" (timoni runtime build), with the files
                  \* and objects they meet

VARIABLES
    plan,      \* the command line
    pc,        \* what the command does next
    targets,   \* the clusters still to do, by their place in the runtime
    values,    \* the runtime values of the current cluster
    ref,       \* the reference that is read next
    sources,   \* the bundle files of the workspace, fields replaced so far
    at,        \* the file and the field that the injector is at
    err,       \* the error variable of the injector
    built      \* what the command has built or printed, cluster by cluster

valueVars == <<plan, pc, targets, values, ref, sources, at, err, built>>

NoValues == [k \in {} |-> NoValue]

(* The one cluster of the default runtime stands in for a runtime without    *)
(* clusters.                                                                 *)
Clusters(p) == IF p.clusters = << >> THEN <<Default>> ELSE p.clusters

SelectClusters(p) ==
    {n \in DOMAIN Clusters(p) : Clusters(p)[n].name \in p.names /\ Clusters(p)[n].group \in p.groups}

(* At least one cluster, and for a bundle build no more than one. *)
SelectsClusters(p) ==
    /\ SelectClusters(p) # {}
    /\ p.kind = "build" => \A m, n \in SelectClusters(p) : m = n

(* ToResourceRef: the API version, kind, namespace and name of a query.  One *)
(* of any other length than five has no namespace.                           *)
ToResourceRef(query) == IF Len(query) = 5 THEN Tail(query) ELSE SubSeq(query, 2, 4)

(* The runtime definitions load and build, and each query can be parsed.     *)
GetRuntime(p) ==
    /\ p.valid
    /\ \A r \in ToSet(p.refs) : r.query[1] = "k8s" /\ Len(r.query) >= 4

(* NameGroupValues: nothing for the default cluster. *)
Info(c) ==
    [k \in IF c = Default THEN {} ELSE {ClusterName, ClusterGroup} |->
        IF k = ClusterName THEN c.name ELSE c.group]

Environment(p) == IF p.fromEnv \/ p.offline THEN p.env ELSE NoValues

(* Later values replace earlier ones. *)
Over(new, old) ==
    [k \in DOMAIN new \cup DOMAIN old |-> IF k \in DOMAIN new THEN new[k] ELSE old[k]]

(* A command that is offline reads no objects; runtime build has no files.   *)
Refs(p)  == IF p.kind = "vet" /\ p.offline THEN << >> ELSE p.refs
SourceFiles(p) == IF p.kind = "runtime" THEN << >> ELSE p.files

(* Runtimes, objects and bundle files are numbered, and what a file and an   *)
(* attribute are made of.                                                    *)
ValuesAssumption ==
    LET Numbered(s) == Len(s) \in Nat /\ DOMAIN s = 1..Len(s)
        Attribute(f) == {"name", "type", "value"} \subseteq DOMAIN f
        CUE(file) ==
            /\ {"parses", "fields"} \subseteq DOMAIN file
            /\ Numbered(file.fields)
            /\ \A j \in DOMAIN file.fields : Attribute(file.fields[j])
    IN  \A p \in Plans :
            /\ Numbered(p.clusters) /\ Numbered(p.refs) /\ Numbered(p.files)
            /\ \A i \in DOMAIN p.files : CUE(p.files[i])

ASSUME ValuesAssumption

ValuesInit ==
    /\ plan \in Plans
    /\ pc = "runtime"
    /\ targets = {}
    /\ values = NoValues
    /\ ref = 1
    /\ sources = << >>
    /\ at = <<1, 1>>
    /\ err = FALSE
    /\ built = << >>

Fail ==
    /\ pc' = "failed"
    /\ UNCHANGED <<plan, targets, values, ref, sources, at, err, built>>

(* buildRuntime, and the selection of the clusters. *)
BuildRuntime ==
    /\ pc = "runtime"
    /\ \/ ~(GetRuntime(plan) /\ SelectsClusters(plan)) /\ Fail
       \/ /\ GetRuntime(plan) /\ SelectsClusters(plan)
          /\ pc' = "cluster"
          /\ targets' = SelectClusters(plan)
          /\ UNCHANGED <<plan, values, ref, sources, at, err, built>>

(* Mutant: the values of one cluster are the start of the next one's.        *)
EnterClusterWithValues ==
    /\ pc = "cluster"
    /\ values' = Over(values, Environment(plan))
    /\ ref' = 1
    /\ pc' = "read"
    /\ UNCHANGED <<plan, targets, sources, at, err, built>>

(* Every cluster starts with the environment alone. *)
EnterCluster ==
    /\ pc = "cluster"
    /\ values' = IF plan.kind = "runtime" THEN NoValues ELSE Environment(plan)
    /\ ref' = 1
    /\ pc' = "read"
    /\ UNCHANGED <<plan, targets, sources, at, err, built>>

--------------------------------------------------------------------------------
(* ResourceReader.Read: one object after the other.                          *)

Current == Clusters(plan)[Min(targets)]

Object(c, r) == plan.objects[<<c.name, ToResourceRef(r.query)>>]

Missing(c, r) == <<c.name, ToResourceRef(r.query)>> \notin DOMAIN plan.objects

(* A selector yields a string or a literal, not a struct, a list or nothing; *)
(* whatever it selects of a Secret is decoded if it can be.                  *)
Extracts(c, r) ==
    \A k \in DOMAIN r.fields :
        /\ r.fields[k] \in DOMAIN Object(c, r)
        /\ Object(c, r)[r.fields[k]] \in Values

Extracted(c, r) ==
    [k \in DOMAIN r.fields |->
        LET v == Object(c, r)[r.fields[k]]
        IN  IF r.secret THEN Decoded[v] ELSE v]

ReadRef ==
    /\ pc = "read"
    /\ ref <= Len(Refs(plan))
    /\ LET r == Refs(plan)[ref]
       IN  \/ /\ Missing(Current, r) /\ r.optional
              /\ ref' = ref + 1
              /\ UNCHANGED <<plan, pc, targets, values, sources, at, err, built>>
           \/ /\ ~Missing(Current, r) /\ Extracts(Current, r)
              /\ values' = Over(Extracted(Current, r), values)
              /\ ref' = ref + 1
              /\ UNCHANGED <<plan, pc, targets, sources, at, err, built>>
           \/ /\ IF Missing(Current, r) THEN ~r.optional ELSE ~Extracts(Current, r)
              /\ Fail

(* Any other error of a read, the deadline of the command included, ends the *)
(* command, also when the object is optional.  Before the first read so does *)
(* a client that cannot be made: bundle vet makes none without queries, and  *)
(* neither does a bundle build without a runtime.                            *)
ReadFails ==
    /\ pc = "read"
    /\ ref <= Len(Refs(plan)) \/ (ref = 1 /\ plan.kind # "vet")
    /\ Fail

(* The cluster's name and group come last; the files are read again for      *)
(* every cluster.                                                            *)
ReadDone ==
    /\ pc = "read"
    /\ ref > Len(Refs(plan))
    /\ values' = IF plan.kind = "runtime" THEN values ELSE Over(Info(Current), values)
    /\ sources' = SourceFiles(plan)
    /\ at' = <<1, 1>>
    /\ err' = FALSE
    /\ pc' = "inject"
    /\ UNCHANGED <<plan, targets, ref, built>>

--------------------------------------------------------------------------------
(* BundleBuilder.InitWorkspace: file by file, and in a file field by field.  *)

CurrentFile  == sources[at[1]]
CurrentField == CurrentFile.fields[at[2]]

AtFile == pc = "inject" /\ at[1] <= Len(sources)

Matches(f) == f.name \in DOMAIN values

(* valueExpr: a number or a bool must read as one; a type unknown takes none. *)
Fits(f) == values[f.name] \in AcceptedBy[f.type]

(* A file that is missing, of another format or not well formed.             *)
ParseFails ==
    /\ AtFile
    /\ ~CurrentFile.parses
    /\ Fail

(* A field whose value does not convert keeps its own, and the error is in   *)
(* err; the next field that converts sets err to nil again.                  *)
InjectField ==
    /\ AtFile
    /\ CurrentFile.parses
    /\ at[2] <= Len(CurrentFile.fields)
    /\ at' = <<at[1], at[2] + 1>>
    /\ \/ ~Matches(CurrentField) /\ UNCHANGED <<sources, err>>
       \/ /\ Matches(CurrentField) /\ Fits(CurrentField)
          /\ sources' = [sources EXCEPT ![at[1]].fields[at[2]].value = values[CurrentField.name]]
          /\ err' = FALSE
       \/ /\ Matches(CurrentField) /\ ~Fits(CurrentField)
          /\ err' = TRUE
          /\ UNCHANGED sources
    /\ UNCHANGED <<plan, pc, targets, values, ref, built>>

Injected ==
    /\ AtFile
    /\ CurrentFile.parses
    /\ at[2] > Len(CurrentFile.fields)
    /\ \/ err /\ Fail
       \/ /\ ~err
          /\ at' = <<at[1] + 1, 1>>
          /\ UNCHANGED <<plan, pc, targets, values, ref, sources, err, built>>

(* Build and GetBundle: the value must be concrete and have instances, for   *)
(* bundle vet at least one; the command then applies, reports or prints it   *)
(* and turns to the next cluster.                                            *)
Concrete == \A i \in DOMAIN sources : \A j \in DOMAIN sources[i].fields :
                sources[i].fields[j].value # NoValue

Complete ==
    \/ plan.kind = "runtime"
    \/ /\ Concrete
       /\ plan.instances # "missing"
       /\ plan.instances = "empty" => plan.kind # "vet"

Build ==
    /\ pc = "inject"
    /\ at[1] > Len(sources)
    /\ \/ ~Complete /\ Fail
       \/ /\ Complete
          /\ built' = Append(built, [cluster |-> Min(targets), values |-> values,
                                     files |-> sources])
          /\ targets' = targets \ {Min(targets)}
          /\ pc' = IF targets' = {} THEN "done" ELSE "cluster"
          /\ UNCHANGED <<plan, values, ref, sources, at, err>>

ValuesStopped == pc \in {"done", "failed"} /\ UNCHANGED valueVars

ValuesNext ==
    \/ BuildRuntime \/ EnterCluster \/ ReadRef \/ ReadFails \/ ReadDone
    \/ ParseFails \/ InjectField \/ Injected \/ Build \/ ValuesStopped

ValuesSpec == ValuesInit /\ [][ValuesNext]_valueVars

--------------------------------------------------------------------------------
(***************************************************************************)
(* What the code promises.                                                 *)
(***************************************************************************)

(* The value a name has on cluster c, told without the order of the calls:   *)
(* the cluster's own name and group, then the last object that has it, then  *)
(* the environment.                                                          *)
Sources(c, k) == {n \in DOMAIN Refs(plan) : ~Missing(c, Refs(plan)[n])
                                             /\ k \in DOMAIN Refs(plan)[n].fields}
Bundled == plan.kind # "runtime"

Named(c, k) ==
    \/ Bundled /\ k \in DOMAIN Info(c)
    \/ Sources(c, k) # {}
    \/ Bundled /\ k \in DOMAIN Environment(plan)

ValueOf(c, k) ==
    IF Bundled /\ k \in DOMAIN Info(c) THEN Info(c)[k]
    ELSE IF Sources(c, k) # {} THEN Extracted(c, Refs(plan)[Max(Sources(c, k))])[k]
    ELSE plan.env[k]

(* A bundle is built for every selected cluster in turn, with the values of  *)
(* that cluster and of no other, whatever was read before.                   *)
BuiltAsRead ==
    /\ \A n \in DOMAIN built :
           LET b == built[n]
               c == Clusters(plan)[b.cluster]
           IN  /\ b.cluster \in SelectClusters(plan)
               /\ \A m \in DOMAIN built : m < n => built[m].cluster < b.cluster
               /\ \A k \in DOMAIN b.values : Named(c, k) /\ b.values[k] = ValueOf(c, k)
               /\ \A i \in DOMAIN SourceFiles(plan) : \A j \in DOMAIN SourceFiles(plan)[i].fields :
                      LET f == SourceFiles(plan)[i].fields[j]
                          v == ValueOf(c, f.name)
                      IN  b.files[i].fields[j].value =
                              IF Named(c, f.name) /\ v \in AcceptedBy[f.type] THEN v ELSE f.value
    /\ pc = "done" => \A i \in SelectClusters(plan) : \E n \in DOMAIN built : built[n].cluster = i

(* A value that is not of the type of its attribute fails the command: no    *)
(* bundle is built with such a value for any of its fields.                  *)
InvalidRefused ==
    \A n \in DOMAIN built : \A i \in DOMAIN SourceFiles(plan) :
        LET c == Clusters(plan)[built[n].cluster]
            fields == SourceFiles(plan)[i].fields
        IN  \A j \in DOMAIN fields :
                Named(c, fields[j].name) =>
                    ValueOf(c, fields[j].name) \in AcceptedBy[fields[j].type]

================================================================================
