------------------------------- MODULE BundleBuild -------------------------------
(***************************************************************************)
(* From modules to manifests (cmd/timoni/bundle_build.go, bundle_apply.go, *)
(* build.go, mod_vet.go and engine): `bundle build` compiles the instances *)
(* of a bundle at the same time, with a cache of the CRDs that the modules *)
(* vendor; `bundle apply`, `build` and `mod vet` compile one instance      *)
(* after the other.  Each validates the custom resources with the schemas  *)
(* of the CRDs that the modules render or vendor.                          *)
(*                                                                         *)
(* Instance i is the i-th of the bundle.  CUE evaluation is abstracted to  *)
(* its outcome: a module compiles or not, and then holds resource lists    *)
(* and imports packages.  A schema is what accepts an object or does not.  *)
(***************************************************************************)
EXTENDS Integers, SequencesExt, FiniteSets

CONSTANTS
    Bundles,         \* the command lines with the modules they meet
    Manifests,       \* the objects of their modules and packages
    Order,           \* Order[m]: the place of an object among all, by kind, namespace and name
    Undecodable,     \* what cannot be decoded, as an object or as a CRD
    Subdomains,      \* the names that are a DNS subdomain
    Segments,        \* the names that can be a segment of a path
    RBACKinds,       \* Role, ClusterRole and their bindings
    MaxFailedWrites  \* bound: 0 when every file can be written

(* A bundle has instances, each of a module in some directory; imports[d]    *)
(* are the packages that the module in d imports, packages[p].imports those  *)
(* of a package.                                                             *)
BuildAssumption ==
    /\ Order \in [Manifests -> Nat]
    /\ \A b \in Bundles :
           LET Items == [is : {"null", "kustomization", "object", "list"}, objects : Seq(Manifests)]
           IN  /\ b.dir \in Seq(DOMAIN b.imports) /\ b.dir # << >>
               /\ b.sets \in [DOMAIN b.dir -> Seq(Seq(Items))]
               /\ \A d \in DOMAIN b.imports : b.imports[d] \in Seq(DOMAIN b.packages)
               /\ IsFiniteSet(DOMAIN b.packages)
               /\ \A p \in DOMAIN b.packages :
                      /\ b.packages[p].imports \in Seq(DOMAIN b.packages)
                      /\ b.packages[p].hidden.objects \in Seq(Manifests)

ASSUME BuildAssumption

VARIABLES
    bundle,   \* the command line
    phase,    \* what the main goroutine does
    next,     \* the instance that it starts next
    worker,   \* worker[i]: what the goroutine of instance i does
    crds,     \* the cache: crds[d], the vendored CRDs of module directory d
    objects,  \* objects[i]: what was built for instance i
    failed,   \* the error group has an error
    schemas,  \* the validator: the schema of a kind
    files,    \* files[i]: the files of instance i in the output directory
    out       \* what was printed or applied, instance by instance

buildVars == <<bundle, phase, next, worker, crds, objects, failed, schemas, files, out>>

Concurrent == bundle.command = "bundle build"

Instances == DOMAIN bundle.dir

Validating == bundle.validate \/ bundle.command = "mod vet"

--------------------------------------------------------------------------------
(* Build: an instance, with its values over those of the module, loads,      *)
(* evaluates and is concrete.                                                *)
Builds(i) == bundle.compiles[i]

(* decodeObjects: a list of objects is expanded, null and Kustomize objects  *)
(* are passed over.                                                          *)
ItemObjects(item) == IF item.is \in {"object", "list"} THEN item.objects ELSE << >>

(* GetApplySets: the objects of a module.                                    *)
GetApplySets(i) ==
    LET items == FlattenSeq(bundle.sets[i])
    IN  FlattenSeq([n \in DOMAIN items |-> ItemObjects(items[n])])

(* sort.Sort: an object goes behind those that do not come after it.         *)
Behind(sorted, obj) == Cardinality({m \in DOMAIN sorted : Order[sorted[m]] <= Order[obj]})

Sort(list) ==
    LET after[n \in 0..Len(list)] ==
            IF n = 0 THEN << >>
            ELSE InsertAt(after[n - 1], Behind(after[n - 1], list[n]) + 1, list[n])
    IN  after[Len(list)]

(* The objects of an instance as the command has them: a bundle build sorts  *)
(* them, by kind first.                                                      *)
InstanceObjects(i) == IF Concurrent THEN Sort(GetApplySets(i)) ELSE GetApplySets(i)

(* validateObjectMeta: meta says whether the API version is there, and the   *)
(* namespace, labels and annotations are well formed.                        *)
ValidObjectMeta(obj) ==
    /\ "" \notin {obj.kind, obj.name}
    /\ obj.name \in IF obj.kind \in RBACKinds THEN Segments ELSE Subdomains
    /\ obj.meta

ApplySetsFail(i) ==
    \E obj \in ToSet(GetApplySets(i)) : obj = Undecodable \/ ~ValidObjectMeta(obj)

Compiles(i) == Builds(i) /\ ~ApplySetsFail(i)

(* GetImports: the packages that a module imports, depth first and each      *)
(* once, without those that do not evaluate alone; it fails when one of them *)
(* cannot be loaded.  A turn of the walk takes the first package to visit.   *)
Visit(walk) ==
    LET p == Head(walk.todo)
        package == bundle.packages[p]
    IN  IF walk.failed \/ walk.todo = << >> THEN walk
        ELSE IF p \in walk.seen THEN [walk EXCEPT !.todo = Tail(@)]
        ELSE IF package.err THEN [walk EXCEPT !.failed = TRUE]
        ELSE [todo   |-> package.imports \o Tail(walk.todo),
              seen   |-> walk.seen \cup {p},
              values |-> IF package.evaluates THEN Append(walk.values, p) ELSE walk.values,
              failed |-> FALSE]

(* Every import is taken once: those of the module, and those of a package   *)
(* when it is seen first.                                                    *)
Turns(d) ==
    LET ImportsOf(p) == {p} \X DOMAIN bundle.packages[p].imports
    IN  Len(bundle.imports[d]) + Cardinality(UNION {ImportsOf(p) : p \in DOMAIN bundle.packages})

Walk(d) ==
    LET after[n \in 0..Turns(d)] ==
            IF n = 0 THEN [todo |-> bundle.imports[d], seen |-> {}, values |-> << >>, failed |-> FALSE]
            ELSE Visit(after[n - 1])
    IN  after[Turns(d)]

GetImports(d) == Walk(d).values

(* embeddedCRD: what a package holds in its hidden field, when that claims   *)
(* to be a CRD; it must then decode to exactly one.                          *)
EmbeddedCRD(p) ==
    LET hidden == bundle.packages[p].hidden
    IN  IF hidden.isCRD THEN hidden.objects ELSE << >>

EmbeddedCRDFails(p) ==
    LET hidden == bundle.packages[p].hidden
    IN  hidden.isCRD /\ Len(hidden.objects) # 1

GetVendoredCRDs(d) ==
    LET imports == GetImports(d)
    IN  FlattenSeq([n \in DOMAIN imports |-> EmbeddedCRD(imports[n])])

VendoredCRDsFail(d) == Walk(d).failed \/ \E p \in ToSet(GetImports(d)) : EmbeddedCRDFails(p)

--------------------------------------------------------------------------------
(* CRDValidator: the schemas by kind and version.  An object defines kinds   *)
(* when it is a CRD; a command that meets one that it cannot decode ends.    *)

AllDecode(list) == \A m \in DOMAIN list : list[m].defines # Undecodable

WithDefaults(f, g) ==
    [k \in DOMAIN f \cup DOMAIN g |-> IF k \in DOMAIN f THEN f[k] ELSE g[k]]

(* crdVersions: a version without a schema leaves its kind as it is. *)
VersionSchemas(crd) ==
    LET kinds == {k \in DOMAIN crd.defines : crd.defines[k] # "none"}
    IN  [k \in kinds |-> crd.defines[k]]

AddCRD(known, crd, keepExisting) ==
    IF keepExisting THEN WithDefaults(known, VersionSchemas(crd))
                    ELSE WithDefaults(VersionSchemas(crd), known)

AddEach(known, list, keepExisting) ==
    LET after[n \in 0..Len(list)] ==
            IF n = 0 THEN known ELSE AddCRD(after[n - 1], list[n], keepExisting)
    IN  after[Len(list)]

(* Mutant: the last CRD of a kind wins, also when it is a vendored one. *)
AddVendoredCRDsLast(known, vendored) == AddEach(known, vendored, FALSE)

AddVendoredCRDs(known, vendored) == AddEach(known, vendored, TRUE)

AddCRDs(known, objs) == AddEach(known, objs, FALSE)

HasSchema(known, kind) == kind \in DOMAIN known

(* newStructuralSchema: a schema that cannot be compiled is registered, and  *)
(* accepts no object.                                                        *)
Structural(schema) == schema # "bad"

Validate(known, obj) == Structural(known[obj.kind]) /\ known[obj.kind] \in obj.conforms

ValidateObjects(known, objs) ==
    \A n \in DOMAIN objs : HasSchema(known, objs[n].kind) => Validate(known, objs[n])

--------------------------------------------------------------------------------
BuildInit ==
    /\ bundle \in Bundles
    /\ phase = IF Concurrent THEN "build" ELSE "instance"
    /\ next = 1
    /\ worker = [i \in Instances |-> "idle"]
    /\ crds = << >>
    /\ objects = [i \in Instances |-> << >>]
    /\ failed = FALSE
    /\ schemas = << >>
    /\ files = [i \in Instances |-> << >>]
    /\ out = << >>

Running == {i \in Instances : worker[i] \notin {"idle", "ended"}}

(* eg.Go: waits for one of the goroutines at the limit; an error does not    *)
(* keep the later ones from starting.                                        *)
Go ==
    /\ phase \in {"build", "write"}
    /\ next <= Len(bundle.dir)
    /\ Cardinality(Running) < bundle.limit
    /\ next' = next + 1
    /\ worker' = [worker EXCEPT ![next] = phase]
    /\ UNCHANGED <<bundle, phase, crds, objects, failed, schemas, files, out>>

(* A goroutine returns, with its objects or with an error. *)
Return(i) ==
    /\ worker' = [worker EXCEPT ![i] = "ended"]
    /\ objects' = [objects EXCEPT ![i] = InstanceObjects(i)]
    /\ UNCHANGED <<bundle, phase, next, failed, schemas, files, out>>

ReturnError(i) ==
    /\ worker' = [worker EXCEPT ![i] = "ended"]
    /\ failed' = TRUE
    /\ UNCHANGED <<bundle, phase, next, crds, objects, schemas, files, out>>

(* buildBundleInstanceObjects up to the sorted objects. *)
BuildObjects(i) ==
    /\ worker[i] = "build"
    /\ \/ ~Compiles(i) /\ ReturnError(i)
       \/ /\ Compiles(i)
          /\ \/ ~bundle.validate /\ Return(i) /\ UNCHANGED crds
             \/ /\ bundle.validate
                /\ worker' = [worker EXCEPT ![i] = "look up"]
                /\ UNCHANGED <<bundle, phase, next, crds, objects, failed, schemas, files, out>>

(* cache.get *)
LookUp(i) ==
    /\ worker[i] = "look up"
    /\ \/ bundle.dir[i] \in DOMAIN crds /\ Return(i) /\ UNCHANGED crds
       \/ /\ bundle.dir[i] \notin DOMAIN crds
          /\ worker' = [worker EXCEPT ![i] = "extract"]
          /\ UNCHANGED <<bundle, phase, next, crds, objects, failed, schemas, files, out>>

Extract(i) ==
    /\ worker[i] = "extract"
    /\ \/ VendoredCRDsFail(bundle.dir[i]) /\ ReturnError(i)
       \/ /\ ~VendoredCRDsFail(bundle.dir[i])
          /\ worker' = [worker EXCEPT ![i] = "put"]
          /\ UNCHANGED <<bundle, phase, next, crds, objects, failed, schemas, files, out>>

(* cache.put *)
CachePut(i) ==
    /\ worker[i] = "put"
    /\ crds' = [d \in DOMAIN crds \cup {bundle.dir[i]} |->
                  IF d = bundle.dir[i] THEN GetVendoredCRDs(d) ELSE crds[d]]
    /\ Return(i)

(* eg.Wait *)
Wait ==
    /\ phase \in {"build", "write"}
    /\ next > Len(bundle.dir)
    /\ Running = {}
    /\ phase' = IF failed THEN "failed"
                ELSE IF phase = "write" THEN "done"
                ELSE IF bundle.validate THEN "validate" ELSE "output"
    /\ UNCHANGED <<bundle, next, worker, crds, objects, failed, schemas, files, out>>

(* The vendored CRDs of the modules, in the order of the instances and each  *)
(* module once, and then the CRDs that the instances render.                 *)
Registered ==
    LET Seen(n) == \E j \in 1..(n - 1) : bundle.dir[j] = bundle.dir[n]
        vendored[n \in 0..Len(bundle.dir)] ==
            IF n = 0 THEN schemas
            ELSE IF Seen(n) THEN vendored[n - 1]
            ELSE AddVendoredCRDs(vendored[n - 1], crds[bundle.dir[n]])
        rendered[n \in 0..Len(bundle.dir)] ==
            IF n = 0 THEN vendored[Len(bundle.dir)] ELSE AddCRDs(rendered[n - 1], objects[n])
    IN  rendered[Len(bundle.dir)]

(* validateBundleInstanceObjects *)
BundleValid ==
    /\ \A i \in Instances : AllDecode(crds[bundle.dir[i]]) /\ AllDecode(objects[i])
    /\ \A i \in Instances : ValidateObjects(Registered, objects[i])

ValidateBundle ==
    /\ phase = "validate"
    /\ \/ BundleValid  /\ phase' = "output" /\ schemas' = Registered
       \/ ~BundleValid /\ phase' = "failed" /\ UNCHANGED schemas
    /\ UNCHANGED <<bundle, next, worker, crds, objects, failed, files, out>>

(* printBundleInstances: one write, when all instances are marshalled. *)
PrintBundle ==
    /\ phase = "output"
    /\ ~bundle.toDir
    /\ phase' = "done"
    /\ out' = objects
    /\ UNCHANGED <<bundle, next, worker, crds, objects, failed, schemas, files>>

(* writeBundleInstancesToDir *)
StartWriting ==
    /\ phase = "output"
    /\ bundle.toDir
    /\ phase' = "write"
    /\ next' = 1
    /\ worker' = [i \in Instances |-> "idle"]
    /\ UNCHANGED <<bundle, crds, objects, failed, schemas, files, out>>

(* Mutant: no file name has a namespace. *)
FileNameOnly(i, obj) == <<"", obj.kind, obj.lower>>

Namespaces(i) == {obj.namespace : obj \in ToSet(objects[i])} \ {""}

(* resourceFileName: in lower case, and with the namespace when there are    *)
(* more than one.                                                            *)
FileName(i, obj) ==
    <<IF Cardinality(Namespaces(i)) > 1 THEN obj.namespace ELSE "", obj.kind, obj.lower>>

(* The files of an instance when its first n objects are written: of those   *)
(* with the same name the last one is there.                                 *)
FilesOf(i, n) ==
    LET Named(name) == {m \in 1..n : FileName(i, objects[i][m]) = name}
    IN  [name \in {FileName(i, objects[i][m]) : m \in 1..n} |-> objects[i][Max(Named(name))]]

(* The goroutine of an instance writes one file per object, from the first   *)
(* on, and ends at the first that it cannot write.                           *)
WriteFiles(i) ==
    /\ worker[i] = "write"
    /\ \E n \in 0..Len(objects[i]) :
           /\ files' = [files EXCEPT ![i] = FilesOf(i, n)]
           /\ n < Len(objects[i]) => MaxFailedWrites > 0
           /\ failed' = (failed \/ n < Len(objects[i]))
    /\ worker' = [worker EXCEPT ![i] = "ended"]
    /\ UNCHANGED <<bundle, phase, next, crds, objects, schemas, out>>

(* The commands that take the instances in turn: an instance is compiled,    *)
(* validated with the schemas known so far, and then applied or printed.     *)
Known ==
    IF Validating
    THEN AddCRDs(AddVendoredCRDs(schemas, GetVendoredCRDs(bundle.dir[next])), GetApplySets(next))
    ELSE schemas

Accepted ==
    /\ Compiles(next)
    /\ bundle.command = "mod vet" => GetApplySets(next) # << >>
    /\ Validating =>
        /\ ~VendoredCRDsFail(bundle.dir[next])
        /\ AllDecode(GetVendoredCRDs(bundle.dir[next])) /\ AllDecode(GetApplySets(next))
        /\ ValidateObjects(Known, GetApplySets(next))

ApplyInstance ==
    /\ phase = "instance"
    /\ \/ /\ Accepted
          /\ schemas' = Known
          /\ objects' = [objects EXCEPT ![next] = GetApplySets(next)]
          /\ out' = Append(out, GetApplySets(next))
          /\ next' = next + 1
          /\ phase' = IF next = Len(bundle.dir) THEN "done" ELSE "instance"
       \/ /\ ~Accepted
          /\ phase' = "failed"
          /\ UNCHANGED <<next, objects, schemas, out>>
    /\ UNCHANGED <<bundle, worker, crds, failed, files>>

BuildStopped == phase \in {"done", "failed"} /\ UNCHANGED buildVars

BuildNext ==
    \/ Go \/ Wait \/ ValidateBundle \/ PrintBundle \/ StartWriting \/ ApplyInstance \/ BuildStopped
    \/ \E i \in Instances :
           BuildObjects(i) \/ LookUp(i) \/ Extract(i) \/ CachePut(i) \/ WriteFiles(i)

BuildSpec == BuildInit /\ [][BuildNext]_buildVars

--------------------------------------------------------------------------------
(***************************************************************************)
(* What the code promises.                                                 *)
(***************************************************************************)

(* Which schema a kind has when the first n instances are known, told        *)
(* without the order of the calls: that of the last CRD that one of them     *)
(* renders, and else that of the first one that a module vendors.            *)
RenderedCRDs(n) == FlattenSeq([i \in 1..n |-> InstanceObjects(i)])
VendoredCRDs(n) == FlattenSeq([i \in 1..n |-> GetVendoredCRDs(bundle.dir[i])])

Defining(list, kind) ==
    {m \in DOMAIN list : kind \in DOMAIN list[m].defines /\ list[m].defines[kind] # "none"}

Valid(n, obj) ==
    LET rendered == Defining(RenderedCRDs(n), obj.kind)
        vendored == Defining(VendoredCRDs(n), obj.kind)
        Allows(schema) == schema \in obj.conforms \ {"bad"}
    IN  /\ rendered # {} => Allows(RenderedCRDs(n)[Max(rendered)].defines[obj.kind])
        /\ rendered = {} /\ vendored # {} => Allows(VendoredCRDs(n)[Min(vendored)].defines[obj.kind])

(* The objects of instance i pass with the schemas of the first n instances. *)
Sound(n, i) ==
    /\ \A j \in 1..n : Compiles(j)
    /\ Validating =>
        /\ \A j \in 1..n : ~VendoredCRDsFail(bundle.dir[j])
        /\ AllDecode(RenderedCRDs(n)) /\ AllDecode(VendoredCRDs(n))
        /\ \A m \in DOMAIN InstanceObjects(i) : Valid(n, InstanceObjects(i)[m])

(* In whatever order the goroutines run, and whichever of them extracts the  *)
(* CRDs of a module for the others, a bundle build prints or writes all      *)
(* objects of all instances when every object is valid for every CRD of the  *)
(* bundle, and nothing when one is not.                                      *)
BuildOutcome ==
    Concurrent =>
        LET n == Len(bundle.dir)
            sound == \A i \in Instances : Sound(n, i)
            rendered == [i \in Instances |-> InstanceObjects(i)]
        IN  /\ phase \in {"output", "write", "done"} => sound /\ objects = rendered
            /\ phase = "failed" => ~sound \/ \E i \in Instances :
                                      bundle.toDir /\ Len(objects[i]) > Cardinality(DOMAIN files[i])
            /\ out # << >> \/ (\E i \in Instances : files[i] # << >>) => sound
            /\ phase = "done" /\ ~bundle.toDir => out = rendered

(* What is applied or printed by the other commands is valid for the CRDs of *)
(* the instances up to it, whatever the order they were registered in, and   *)
(* an instance is refused only when it is not.                               *)
ApplyValidates ==
    ~Concurrent =>
        /\ \A n \in DOMAIN out : Sound(n, n) /\ out[n] = GetApplySets(n)
        /\ phase = "failed" => ~Sound(next, next)
                               \/ (bundle.command = "mod vet" /\ GetApplySets(next) = << >>)
        /\ phase = "done" => Len(out) = Len(bundle.dir)

(* BuildOutcome and ApplyValidates: what a build prints, or fails with, is   *)
(* what its modules say, in the order of the bundle, whatever order its      *)
(* goroutines ran in; a bundle apply validates with the CRDs seen so far.    *)
ManifestsValid == BuildOutcome /\ ApplyValidates

(* An object that is written is in a file of its own unless the instance has *)
(* another one of the same kind and, in lower case, the same name: in the    *)
(* same namespace, or without one when the instance has but one.             *)
ManifestFilesWritten ==
    phase = "done" /\ Concurrent /\ bundle.toDir =>
        \A i \in Instances : \A m \in DOMAIN objects[i] :
            LET obj == objects[i][m]
                Same(other) ==
                    /\ other.kind = obj.kind /\ other.lower = obj.lower
                    /\ \/ other.namespace = obj.namespace
                       \/ "" \in {other.namespace, obj.namespace} /\ Cardinality(Namespaces(i)) = 1
            IN  \/ \E name \in DOMAIN files[i] : files[i][name] = obj
                \/ \E k \in DOMAIN objects[i] : k # m /\ Same(objects[i][k])

================================================================================
