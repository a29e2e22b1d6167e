# A TLA+ model of Timoni

Timoni is a package manager for Kubernetes: a CLI that builds CUE modules into
Kubernetes objects and applies, upgrades, prunes and deletes them, alone or in
bundles, and that pushes and pulls modules as OCI artifacts. This directory
holds TLA+ specifications of the parts of it that keep state, the TLC
configurations that check them on small instances, and proofs that TLAPS checks.
Every definition is read off the Go code; `PROJECT.json` maps each one to its
lines.

## The system

| Part | Code | State it keeps | Operations | Why it is hard |
|---|---|---|---|---|
| Reconciler | `internal/reconciler` | memory of one run: record read, stale objects, sets | `Init`, `ApplyInstance`, apply sets, wait, prune, update | a run can stop at any call; what it created must stay recorded |
| Instance storage | `internal/runtime/storage.go`, `instances.go` | one Secret per instance: inventory, pending inventory, owner label, deletion marker | `Apply`, `Get`, `List`, `SavePending`, `GetPending`, `GetStaleObjects`, `ListAllObjects`, `SetDeleting`, `Delete` | read-modify-write without a lock; server-side apply drops and keeps keys |
| Cluster objects | `internal/runtime/resources.go`, `reader.go`, the `ssa` library | objects, owner labels, finalizers | staged apply, delete by owner, waits | shared by instances; finalizers; annotations that exempt objects |
| Status and health | `internal/runtime/job_wait.go`, `resource_wait.go`, `internal/engine/healthcheck.go`, `cmd/timoni/status.go`, `bundle_status.go` | what was last read of each object | status of Jobs and custom resources, wait, `status`, `bundle status` | objects change while they are read; failed against in progress; fail fast against fail at the end |
| Single-instance commands | `cmd/timoni/apply.go`, `delete.go`, `status.go`, ... | one run | apply, delete, dry run, diff, status | one deadline for a sequence of waits |
| Bundle commands | `cmd/timoni/bundle_*.go` | position in the loops over clusters and instances, module cache | apply, delete, status, build, vet | order, ownership checked before and not at the write, partial runs |
| Module fetch and cache | `internal/oci/pull_module.go`, `internal/engine/fetcher` | cache directory shared by processes, in-memory module cache | pull, verify, publish, extract | concurrent writers, kills, tags that move |
| Publishing | `internal/oci/push_*.go`, `write_image.go`, `build_*.go`, `sign_cosign.go`, `cmd/timoni/mod_push.go`, `artifact_push.go` | temporary files, registry tags, a cosign child process | build, push, tag, sign, verify | clean-up on errors, pipes of a child process |
| Listing | `internal/oci/list_*.go`, `digest_artifact.go` | none | list tags and digests | pagination |
| Bundle update | `internal/engine/bundle_updater.go`, `cmd/timoni/bundle_update.go` | edits of bundle files | load, group, select a version, rewrite | never downgrade, one group one version, several files |
| Runtime values | `api/v1alpha1/runtime.go`, `internal/runtime/reader.go`, `internal/engine/runtime_injector.go`, `bundle_builder.go` | values of the current cluster, bundle files rewritten so far | select clusters, read, inject, build | one cluster's values in the next one's bundle; errors found field by field |
| Build and validation | `cmd/timoni/bundle_build.go`, `build.go`, `mod_vet.go`, `internal/engine` builders, `resourceset.go`, `objectmeta.go`, `crd_validator.go` | a cache of vendored CRDs, the schemas known so far, output files | compile, decode, validate, print, write | goroutines share the cache; order in which schemas are registered; colliding file names |
| CRD vendoring | `cmd/timoni/mod_vendor_crd.go`, `internal/engine/importer.go` | generated files in `cue.mod/gen` | select, convert, write, prune | runs repeat on a directory users edit; what may be removed; paths with wildcards |
| File copy | `internal/fscopy` | destination tree, set of directories being visited | `CopyDir`, `CopyFile` | symbolic links, cycles, entry budget |
| Rendering | `internal/dyff`, `internal/logger`, `internal/mask`, `internal/flags`, completion, docgen, fmt, init, show | none | output | formatting only |

A run reads the record, computes what is stale, writes the intended inventory
ahead (the record itself on an install, a pending revision on an upgrade),
applies the sets one after the other and waits for each, prunes what is stale
and promotes the inventory. A delete lists the objects of the stored and of the
pending inventory, marks the record, deletes the objects, waits, and removes the
record. A bundle command reads the values of each cluster, injects them, builds the
modules it has fetched and runs one reconciler after the other. Runs share nothing but the cluster and the cache directory, and nothing
locks an instance: two runs interleave at every call.

## Modules

| Module | What it models |
|---|---|
| `Inventory` | inventories as sets of references and the storage record: `Diff`, `SameInventory`, what a server-side apply of each kind leaves of a record |
| `Reconciler` | runs of `timoni apply` (or of one instance of a bundle) and `timoni delete` on the objects of a cluster, one action per API call, with kills, failures, timeouts, finalizers and objects shared by instances |
| `ReconcilerProofs` | TLAPS proofs about `Reconciler` |
| `Ledger` | abstract specification: what the records of instances promise about the objects on the cluster. `Reconciler` implements it |
| `ReconcilerPromises` | TLAPS proofs of what a delete, the owner of an instance and the order of the sets promise, that `Reconciler` implements `Ledger`, and of what its records can lose |
| `MCReconciler` | renders of one instance and constants for TLC |
| `Bundle` | commands over several instances and clusters: loops, ownership, creation order, the deadline of a command. An instance is its record; its reconciliation is reduced to the outcomes a command tells apart |
| `BundleProofs` | TLAPS proofs about `Bundle` |
| `MCBundle` | plans and constants for TLC |
| `ModuleFetch` | `fetchBundleInstanceModule`, `PullModule`, the layer cache that processes share, tags that move |
| `MCModuleFetch` | references, pins and layers for TLC |
| `BundleUpdate` | `timoni bundle update`: targets, groups, policies, version selection, the check and rewrite of the files |
| `BundleUpdateProofs` | TLAPS proofs about `BundleUpdate` |
| `MCBundleUpdate` | bundles, versions and registries for TLC |
| `Publish` | `timoni mod push` of a directory or of an archive, `timoni mod build`, `timoni artifact push`: files, tags, signatures and temporary directories |
| `PublishProofs` | TLAPS proofs about `Publish` |
| `MCSharing` | `Publish`, and `Reconciler` with two instances that render a common object, one of them in a behaviour, with their constants for TLC |
| `CosignIO` | `processCosignIO`: the cosign child process, its two pipes, the goroutines that read and close them |
| `FileCopy` | `fscopy.CopyDir`: directories copied with their symbolic links resolved or left out |
| `RuntimeValues` | the values a bundle is built with: clusters, reads, injection, for `bundle apply`, `bundle vet`, `bundle build` and `runtime build` |
| `BundleBuild` | from modules to manifests: the concurrent `bundle build`, and `bundle apply`, `build` and `mod vet`, with the validation of custom resources |
| `VendorCRD` | `timoni mod vendor crd`, run again and again on one directory |
| `ObjectStatus` | the readiness wait with its status readers and health checks, `timoni status`, `timoni bundle status` |
| `PartsProofs` | TLAPS proofs about `ObjectStatus` and `CosignIO` |
| `BuildsProofs` | TLAPS proofs about `VendorCRD`, `RuntimeValues`, `FileCopy` and `ModuleFetch` |
| `BundleBuildProofs` | TLAPS proofs about `BundleBuild` |
| `MCBuilds` | `ModuleFetch`, `FileCopy`, `RuntimeValues`, `VendorCRD` and `BundleBuild`, one of them in a behaviour, with their constants for TLC |
| `MCParts` | `CosignIO`, `ObjectStatus` and an instance of `Bundle` with rival commands, one of them in a behaviour, with their constants for TLC |

### Inventory and Reconciler

An object is an identity (`Objects`: group, kind, namespace and name); an
inventory entry adds the API version. `record[i]` is the Secret of an instance;
`cluster[o]` the phase of an object (absent, live, terminating) and the instance
its labels name; `run[r]` the memory of an invocation, with `pc` the call it is
about to make. The actions follow the code in order:

* `GetInstance`, `RefuseOwnership`, `MisreadInstance` are the first read in
  `Reconciler.Init`; `MisreadInstance` is the code path in which any error is
  taken for "not installed" (`BadReads`: also for a record that is there).
  `GetStaleObjects` and `GetPending` are the two
  further reads of `computeStaleObjects`.
* `Install`, `Reapply`, `ReadForPending` and `SavePending` are the write-ahead
  part of `ApplyInstance`; `SavePending` is two calls in the code, a read and a
  write, so it is two actions here.
* `CheckObject`, `Recreate`, `Recreated`, `ApplyObject`, `SetReady`, `SetNotReady`
  are `ApplyAllSets` with the readiness wait of each set. `Applied` is what
  server-side apply does to an object: it takes it over, except a one-off object that
  is there.
* `LookAtStale`, `PruneObject`, `PruneObjectFails`, `Pruned`, `PruneTerminated`,
  `PruneTimeout` and `UpdateInventory` are the stages after.
* `ListStored` to `DeleteRecord` are `timoni delete`.
* A delete of an object is two requests. `LookAt` reads it and finds it deletable,
  skips it (the labels of another instance, the annotation that keeps it) or counts it
  as deleted when it is not there; `RequestDelete` then names the object and has no
  precondition, so that it deletes whatever goes by that name by then, also what
  another instance has taken over since. `Overtaken` is that window.
* With `--force`, or with the `action.timoni.sh/force` annotation (`Forced`), an apply
  deletes an object whose immutable fields would change (`Immutable`), whatever labels
  it carries, waits until it is gone and creates it again. `recreate` are the objects
  a run may treat so; whether a field did change is data, so `Recreate` and
  `CheckObject` are both possible. An object that is neither forced nor unchanged
  makes the run fail, which `Abort` covers.
* `Abort` ends a run at any call: an error the code returns, or a kill.
* `ClearFinalizer` is the environment.

Left out: object contents (a drift of fields), dry run and diff, which write
nothing, the staging of CRDs and namespaces inside one set, which is in the
`ssa` library, the take-over of fields from kubectl and Helm, and the migration of
records of type Opaque: `StorageManager.Apply` deletes such a record and writes it again
(`storage.go:86`), so that a run that fails between the two leaves no record; no version
that writes them is modelled.

The `ssa` library is not part of the repository: `LookAt`, `RequestDelete`, `Recreate`
and what waits see are modelled from what its callers rely on (`resources.go:129` and
`:246`, `reconciler.go:300` and `:343`, `delete.go:137`), its documented order of calls
(all objects of a set are read and tried before the first is applied) among them.

### Ledger

`Ledger` says what the records are for, without runs, calls or failures: each
instance has a ledger of two revisions, the one in place and the one that is to
replace it, and an object is `Gain`ed only when it is listed; a revision is put in
place (`Promote`), and an instance forgotten (`Remove`), only when nothing else of
the ledger is held. The one action by which objects can be lost is `Plan`, an
announcement that replaces an earlier one. `OnlyPlansLose` says so; it is proved of
the records of `Reconciler` through the refinement, and the run `third_revision`
shows the code doing it.

`KeepsLedger` is `L!Spec` under the mapping in `Reconciler`: `known` are the
instances with a record, `stored` and `pending` the objects of the two inventories
of the record, `held` the live objects with the labels of the instance that are
not exempt from deletion (`Held`). A write of the record is `Create`, `Plan`,
`Promote` or `Remove`; a successful apply of an object `Gain`, a deletion `Lose`;
reads, waits and failures stutter. It needs the two assumptions the code does not
enforce: one command per instance at a time (`Serial`), and no record misread as
absent (`~BadReads`).

### Bundle

`cmd[r]` is the memory of a command: `targets` the clusters it has still to do,
`plan[c]` the instances its bundle has on a cluster, `queue` those of the current
cluster still to do, `unread` those whose owner is still to be checked, and whether
the deadline of its context has passed (`expired`). The code sets that deadline
at the start of the command, for all clusters and instances; a wait gets the same
duration from its own start and does not use the context. A wait that times out
has therefore outlived the deadline: `ReadinessTimeout` sets `expired`, and
`DeadlineExceeded` is what every later call with the context meets. A bundle may
have no instances on a cluster; the loops then go on with the next. `clock` and
`created` are seconds, because `StorageManager.List` sorts by
`creationTimestamp`; `earlier` is a history variable with the real order: the pairs
of existing instances of which the first was installed before the second. The clock
moves with the installs alone, so `MaxStarts` bounds it.

### ModuleFetch

A process works through the references of a bundle. `Key` is the key of the
in-memory cache, `fetched` that cache; `dir[p][k]` the layers extracted for a
key. `cache` is the directory all processes share, `temp[p]` the temporary file
of a process. Content is whole or torn; the digest check is the comparison with
"whole". Files of the cache may be torn at the start, and a process may be killed
between any two steps, which leaves its temporary file.

### BundleUpdate

A bundle is a function from string literals to versions or digests (`text`, on
disk) and the references of its instances, which say which literal defines the
version and the digest of each; finding the literal in the CUE syntax is left out,
and so are the reasons to skip an instance that depend on how it is written
(`skip`). `upd` is the memory of the command: the literals as loaded and as
rewritten, the group in hand, the listings, the files left. `Load` computes the
targets and checks the groups (`groupTargets`); `NextGroup`, `ListVersions`,
`SelectVersion` and `ResolveDigest` are one turn of the loop in `Plan`;
`CheckFile`, `WriteFile`, `WriteFails`, `RestoreFile` are `writeBundleFiles`. The
code takes groups and files in an order; the model takes them in any, and lets any
target of a group be the first. A version is its numbers with one pre-release
number (`SemVer`); a constraint is a range, which is what the levels build
(`LevelConstraint`). `torn` are files whose last write failed, since
`os.WriteFile` truncates before it writes and may fail after. Listing tags and
asking for `latest` are two requests; the model reads the registry once, and
`LatestUnread` is the failure of the second, which the code takes for absence.
Targets that have no version literal and share a digest literal form one group
even when their versions differ, and the digest is then the one of the first:
`PinsFollow` leaves that case out, as the comment on it says. Skipped instances
are dropped before groups are made (`bundle_updater.go:758`): when one shares its
version literal with an instance that is updated, its version changes although it
is reported as skipped. No property speaks of skipped instances.

### Publish

An image is what was packaged with the version annotated, which stands for its
digest. `tags` and `stored` are the repository, `signed` the images with a
signature, `file[p]` the archive or layout at a path (absent, partial or an
image), `temps[r]` the temporary directories of an invocation. `StartCommand` puts a
command line, which `CommandAssumption` restricts to what the flags accept, on
its way: `Stage` (symbolic links resolved), `Build`, then `Create` and `Fill`
(`WriteImage`) or `Push`, `TagArtifact` once per further tag,
`ConfigureCredentials` and `SignCosign`. An archive is opened by `ModuleVersion`
when no version is given and again by `OpenArchive`, then `Validate`d; other
commands or somebody else may have replaced it between the two. A request that
fails may have had its effect (`RequestFails`). `End` is all that is deferred;
`Kill` skips it, and a killed process is not used again. The upload of an image
and the removal of its layers after it are one step, which does not fail: an error of
the removal (`ImageBuild.CloseWithError`) would be returned although the image is
pushed, with the temporary directory left. `tagged` and `asked` are
history. Left out: what is packaged (ignore rules, annotations other than the
version); the child process behind `SignCosign` is `CosignIO`. `mod push` drops
the clean-up of an archive it cannot read
(`push_module.go:67` and `:97` return before it is deferred), so its directory
stays; `TempsRemoved`, which is part of `PublishTypeOK`, leaves that directory out.

### CosignIO

`pipe[s]` holds the lines a stream has not been read of, at most `Capacity`;
`reader[s]` is `scanCosignOutput`, which logs lines (`Scan`) until one is longer
than its buffer and then discards the rest (`Drain`). The third goroutine is
`closer`: it closes both read ends when the context is done (`ClosePipes`) or
ends when it is told to (`StopClosing`, `Stopped`). `Start`, `StopClosing` and
`Wait` are the steps of the call itself. cosign may write, fail, hang, and leave
a process behind that holds its pipes (`helper`); `Kill`, which
`exec.CommandContext` does, reaches the child only. A child that has ended but
has not been waited for can still be reported as killed, so `Wait` has two
outcomes after the deadline. `NobodyWaits`, `OutcomeOfCosign` and `NothingLeft`
are the three reasons for the shape of the code: two readers that go on after an
error, `Wait` after the readers, and the closer before the return; `CosignSound` is
the three together.

### FileCopy

A file system is a function from paths to files, directories, links and pipes
(the last stands for everything that is not copied). `stack` holds the calls of
`copyTree` that have not returned; one entry of a directory is one step of
`Copy`, and a directory is read in any order. `Enter` is `copyDirEntry`, `Write`
`copyFile`, `Leave` what `copyDirEntry` does after the recursion, the mode of the
directory among it. `dst` is the destination as given; `Start` resolves the links of
its existing part (`Resolved`, which leaves a link that leads nowhere as it is, as
`resolveExistingPrefix` does), makes the directories that are missing on the way
(`Makeable`, `MadeOnTheWay`: `MkdirAll` stops at a file, at a link that leads
nowhere and at a directory that takes nothing) and opens the result: `root`, which
later steps go through as `os.Root` does. `Place` is the path behind it: a link in
the destination is followed within it and refused when it leads out. `skip` is what
the ignore rules match, asked for the place in the copy as a file and as a
directory. A link leads to a path without links, so a chain of links is one link.
A directory of the copy is not made where a link that leads nowhere has its name, as
`Root.Mkdir` refuses it, while a file is written through such a link if it stays in the
root.

`Unfolded` is the reference: the tree the source stands for when its links are
replaced by what they lead to, read off the file system before the copy and with
no step of the code in it. Its entries are what the budget counts (`Counted`), also a
link to a directory that is ignored under the name of the directory; those that are
copied are `Kept`, and nothing is below an entry that loops or is ignored (`Opened`).
`DoneIsWhole` and `FailsForReason`, together `CopyOutcome`, compare the end of a copy
with it, with two exceptions. The first is a source that leads to the destination or
the other way round (`Overlap`), which `CopyDir` rules out for the source root only
(`fscopy.go:113`): there the copy finds its own output, and `CopyTypeOK` says that
the budget ends it, since no more entries appear than were counted and than are on
the way to the root. The second, for the contents only, is a destination that was there
with a link in it that leads to another path in it (`Redirected`): two entries may have
one place then. `WritesConfined` says that nothing changes but below the root,
except the directories made on the way to it, and knows no exception; `CopyConfined` is
the two together.

`CopyAssumption` says what a file system is: finite, every entry in a directory, links
that lead to no link, the source a directory (`CopyDir` returns before it starts
otherwise), and no path with the name that stands for a place outside the root
(`Nowhere`). Left out: `CopyFile`, permissions other than being writable, errors of the
disk, and destinations above the source.

### RuntimeValues

One behaviour is one command: `BuildRuntime` selects the clusters
(`SelectsClusters`; a bundle build takes one), known by their place in the runtime
because names need not differ, and for each of them `EnterCluster` starts from the
environment, `ReadRef` reads one object after the other (`ReadFails` is any error
but a missing object, or a client that cannot be made), `ReadDone` adds the cluster's name and group, `InjectField`
walks the files field by field, and `Build` evaluates. `err` is the error variable
of the injector, which a later success resets (`runtime_injector.go:106`):
`InvalidRefused`, that no bundle is built with a value that is not of the type of its
attribute, is what the documentation promises (`docs/bundle-runtime.mdx:370`) and what
the run `invalid` refutes. A value of the wrong type never gets into a bundle
(`BuiltAsRead`), but the bundle is built without it when a later field of the file
takes its value. Fields are flat: that the walk skips what is inside of a field whose
value it refuses is left out.
`BuiltAsRead` compares what was built with `ValueOf`, which says what a name is
worth on a cluster without the order of the calls. CUE evaluation is its outcome:
files parse or do not, a field is concrete or not, there are instances or not. A
query that is not of five parts has its namespace left out, one of six parts with
its last one too (`ToResourceRef`, `runtime.go:183`): the model does the same.
`ValuesAssumption` says what a command line, a runtime and a file are.

### BundleBuild

`worker[i]` is the goroutine of an instance; `Go` starts them below the limit,
`LookUp`, `Extract` and `CachePut` are the accesses to the cache of vendored CRDs, which
is locked for each of them and not over all three. `Wait` comes before
`ValidateBundle`, which registers the vendored CRDs of every module, then the
rendered ones, and validates all objects; then `PrintBundle` or, again with
goroutines, `WriteFiles`. `ApplyInstance` is one turn of the commands that take
instances one after the other with the schemas known so far. `ItemObjects`,
`ValidObjectMeta`, `GetImports`, `EmbeddedCRD`, `VersionSchemas` and `Structural` are
the rules of the engine on what a module may hold; what can go wrong on the way is
said apart from the result (`ApplySetsFail`, `VendoredCRDsFail`, `AllDecode`).
`compiles` stands for both ways a module can fail before its objects are known, the
schema overlay and the evaluation, which end in the same error of the instance.
`GetImports` is the depth-first walk over the packages a module imports, one package
a turn (`Visit`), with `Turns` enough for every import to be taken once. A bundle
build sorts the objects of an instance (`Sort`), the other commands keep them in the
order of the module: `Order` is the place an object has by its kind, namespace and
name, which is a rule of the `ssa` library, and objects in the same place, which only
another version of one API can share, keep their order: `sort.Sort` is not stable, but
leaves lists of up to twelve objects so. When objects share the name of a file the
last one is in it (`FilesOf`). `Sound` is the reference: an object is valid when it conforms to the last rendered CRD of its kind, and else to
the first vendored one. `ManifestFilesWritten` leaves two cases out in which the code does
lose a file: objects of one kind whose names differ only in case, which RBAC kinds
may have, and an object without a namespace next to one with the only namespace of
the instance.

### VendorCRD

`line` is the command line with its manifest, `tree` the directory `cue.mod/gen`,
which runs share, `generated` what this run has generated. `Select` is everything
before the first write; `WriteDefinitions`, `PruneVersion` and `PruneDir` change one
file or directory each, and `PruneFails` and a write that is `Cut` are what a failure
leaves. A schema is a set of field paths, so that
`ConvertCRD` can say what the importer's walks do with it: the status is dropped,
an ellipsis stays where the schema preserves unknown fields (matched with wildcards
against list indices, `PreservePathMatches`), and whatever is called `status` or
`info` on the way to a spec or to metadata is dropped too (`importer.go:322`),
also outside of the top level. `VendorOutcome` states the result
of a run for its own manifest and selection, however earlier runs ended, without the
operators of the code: `Asked` reads the selection off the command line and
`Expected` the fields of a file off the schema. `VendorPruneConfined` says what no
step may do to a file (`PruneStep`): only a run that prunes removes anything, files
that timoni generated for a group of the manifest and the directories they leave
empty. Two versions of a manifest may have one file (`CrdKey` folds case); the later
one is written (`LastOf`). A file that is cut half way does not count as generated; one
that is cut after its marker would, and a later prune could remove it. `VendorAssumption` says of a manifest what YAML and the
schema of a CRD give. Fields below another `spec` than the resource's own are left
out of the schemas.

### ObjectStatus

`live` are the objects as they are, `read` as last read. `Poll` is one event of the
poller, which is in the `ssa` library, with the observer's decision: fail fast on a
Failed object, done when all are Current. `ReadStatus` asks the readers in the order
they are installed in: a health check by kind or group (`Lookup`, `Evaluate`,
`HealthCheckResult`), the Job reader (`JobConditions`), kstatus. A CEL expression is
the result it has on an object: true, false, a field that is not there yet, or an
error. `List`, `GetObject` and `StatusEnds` are the two status commands. The cluster
may change an object between any two reads (`Changes`); a Job that has ended only
goes away, since Kubernetes gives it one of the conditions that end it and no more
(`StatusAssumption`). `ObjectStatusSound` relates the outcome of a wait to what was
read and, for Jobs, to what is so for good; and says that `bundle status` fails
exactly when a cluster had no instance or an object could not be read.

## What TLC checks

| Run | Instance | Shows |
|---|---|---|
| `core` | one instance, three renders (two sets; a version bump with a replacement; an earlier one), one object that `--force` recreates, 3 commands, 2 failures, fairness | records and cluster implement `Ledger` (`KeepsLedger`, and the inductive invariant behind it), a delete forgets only what is gone, owners are kept, sets and prune are in order; runs end, and without further failures a delete removes the record and an apply promotes its render |
| `sharing` | one of two in a behaviour. Two processes, one repository, one path, seven command lines (two modules of one version, an artifact with three tags, an archive that is built in two versions and pushed with and without one), 4 commands, 1 failure or kill, 1 removal of the archive. Two instances that render a common object, which has a finalizer and may be recreated, two concurrent runs, 3 commands, 1 failure or failed read, objects that were there before | a version names modules annotated with it and latest is no module without its version (`TagsAsPushed`: `TagMatchesVersion`, `LatestWasPushed`); only what was asked is signed, and a command that ends well has set all its tags and signed (`PublishedAsAsked`: `SignedAsAsked`, `DonePublished`); a complete archive is kept and an incomplete one goes (`OutputsKept`); temporary directories go. Objects are deleted by the instance whose labels they carry and that does not want them, except those taken over between the read of the labels and the request and those an apply recreates (`DeletesOnlyOwn`), and none escapes the records but by the overwrites named in `OrphanOnlyByOverwrite` |
| `bundles` | two overlapping bundles over two clusters, and standalone commands, 4 commands, 1 failure | owners change only when asked; last installed, first uninstalled; a command that ends well is complete; a command in a loop has an element at hand (`TypeOK`) |
| `parts` | one of three in a behaviour: two concurrent bundle commands with misread records and fairness; a cosign process with pipes of one line, three lines, a helper and a deadline; a Job and a custom resource, three sets of health checks, six states a controller may put the resource in, waits with and without timeout, seven lists of clusters | commands end whatever the other does; cosign never waits for a pipe nobody reads, its outcome is returned, no goroutine is left and the call returns (`CosignSound`, `CosignReturns`); what a wait and `bundle status` say is so, and a wait ends when it can (`ObjectStatusSound`, `StatusWaitEnds`) |
| `fetch` | one of five in a behaviour: two processes and one cache, three references, two pinned, two manifests that share a layer, a move of a tag, 2 failures or kills; copies of some 840 file systems, ten of them with a file, a link or a missing directory on the way to the destination, each with three ignore lists, with and without links, and a budget of four entries; values of two clusters read from two objects and injected in two files; bundles of two instances with and without a common module, built by one or two goroutines, and the commands that build one by one; two runs of `mod vendor crd` with one failure on directories with links, edited and empty ones | what is built is what is pinned, the cache is never spoiled, temporary files go; a copy writes nowhere but to its destination, ends, is whole or fails for a reason (`CopyConfined`, `CopyOutcome`); a bundle is built with the values of its own cluster, and those of the wrong type are not in it; what is printed does not depend on the order of goroutines and was validated; no manifest replaces another; vendored files are those selected, and only generated ones are removed |
| `update` | ten bundles of two instances over two files, six versions, all levels, one change of a tag, one save by an editor, two failures | references only move forward and stay within their level; a digest belongs to the version next to it; a failure leaves the files as they were and an edit is not overwritten (`FilesKept`: `FailureRestores`, `EditsKept`) |

Six runs end in a counterexample, each against a sentence of the repository:

| Run | What the code does |
|---|---|
| `third_revision` | an upgrade that starts over an unfinished one replaces its pending revision: if it fails too, objects only the first one created are in no record, and the next successful apply leaves them (`reconciler.go:153`) |
| `marker` | the deletion marker is written with a merge patch, which a later server-side apply does not own: a marker left by a delete that timed out is never dropped (`storage.go:176`) |
| `takeover` | any error of the read in the ownership check of a bundle counts as "not installed" (`bundle_apply.go:483`; `reconciler.go:106` does the same for one instance) |
| `invalid` | a value that is no number or no bool does not fail the command when a later field of the same file takes its value: the injector's error is set to nil (`runtime_injector.go:106`) |
| `same_second` | instances installed in one second have no order in the list that bundle delete reverses (`storage.go:144`) |
| `readiness_timeout` | after a readiness wait that timed out the deadline of the command has passed and the prune fails before its first request (`reconciler.go:359`) |

### Bounds

`MaxStarts` bounds commands, `MaxFaults` failures, `MaxMoves` changes of a tag, `MaxEdits` saves of a file,
`MaxRemovals` archives removed by hand, `MaxRuns` runs on one `cue.mod/gen`,
`MaxFailedWrites` manifests that cannot be written, `MaxFailedPods` failed pods of a
Job; all other state is finite. Three commands are an install, an upgrade and what
comes after a failure of it; `third_revision` needs four. Two failures are enough
to fail an upgrade and the run that repairs it. Two instances and two processes
are enough for every pair to interleave; objects are three so that a render can
drop one, keep one and add one, with two API versions; in `sharing` they are two, of
which one is common. Only `fetch` and `sharing` use symmetry, of their processes;
elsewhere the renders and plans tell the values apart. In `update` two failures are a
write that fails and a restore that fails;
the versions hold a patch, a minor and a major step and pre-releases of the last
two. `MaxEntries` is the budget of the code, there about a million: four entries
let a copy end below it, at it and beyond it. A pipe of one line (`Capacity`) and
three lines (`MaxLines`) are enough for cosign to wait on one pipe while the
other one is full, empty or has stopped being logged. `parts`, `fetch` and `sharing` hold
components that are small: their constants and variables are side by side in
`MCParts`, `MCBuilds` and `MCSharing`, a behaviour moves those of one and keeps the others, at
values that enable none of their steps, so that fairness asks for nothing of them.
`fetch` has bundles of two instances because goroutines share nothing but the cache
of one module, two clusters because values leak from one to the next if at all,
files of two fields because an error is reset by the next field, and two runs of
`mod vendor crd` because one run sees of the earlier ones only the directory, which
also starts in any of the listed states. `parts` and the runs of `Bundle` that
expect no tie keep creation times apart (`SameSecond`).

### Fairness

Weak fairness on the steps of an invocation says that a process that runs goes
on: its calls return, and its waits, which have timeouts, end
(`RecreateTimeout`, `SetNotReady`, `PruneTimeout` and `DeleteTimeout` are among the fair steps
because a wait on an object that never changes ends by its timeout). Weak
fairness on `ClearFinalizer` says that controllers do their work; without it a
delete that waits ends in its timeout, and `RunsEnd` still holds by the timeouts.
Nothing is assumed about operators, failures or other processes. In `CosignIO`
goroutines are scheduled, the deadline comes (`mod_push.go:175` sets one) and a
child that is killed ends; cosign itself owes nothing.
In `ObjectStatus` the poller reads every awaited object again and again (the library
watches them until its context ends), the timeout comes in the behaviours in which
it is shorter than everything else (`expires`), and nothing is asked of the cluster:
`WaitEnds` concludes only from objects that stay ready or stay failed.

## What is proved

`ReconcilerProofs`, for all values of the constants:

* `TypeCorrect`: `Spec => []TypeOK`.
* `InductiveHolds`: with `Serial` (the operators do not run two commands on one
  instance at once; the code has no lock, so it is an assumption on its users),
  `Spec => []Inductive`. `OrphanOnlyByOverwrite` is an action property that no
  step shows by itself: a prune may only leave an object behind when the record
  still lists it, which depends on what was read three calls before. `Inductive`
  says, stage by stage, that reads are still fresh (`ReadsAreFresh`), that what is
  recorded and not wanted is among the objects to remove until it is removed
  (`NothingForgotten`), that what is applied was recorded (`WriteAhead`), that what
  was read to be applied or deleted is still ahead (`LookedAhead`) and that
  what is removed is not wanted (`DoomedUnwanted`). It is preserved by the runs of
  an instance because one runs at a time, and by runs of others because they take
  objects over but never touch its record.
* `DeletesOnlyOwnHolds`: `DeletesOnlyOwn`, with `Serial`. That a run deletes nothing it
  wants is in its own memory (`DoomedUnwanted`, `LookedAhead`). Whose labels the object
  carries it knows from an earlier request, and a take-over in between goes unseen; the
  second half of the property says who can do that, an apply that has the object in
  its record (`WriteAhead`), so that the object is lost to nobody for good. Without
  `Serial` that apply could be of the same instance, with a record another run has
  overwritten.
* `OnlyOverwritesOrphan`: from `Inductive`, `OrphanOnlyByOverwrite`. An object becomes an
  orphan only when its labels change, when it is created or when its record
  changes; each write of a record is shown to list what the old one did, or the
  objects concerned to be gone, except for the two overwrites the property names.

`ReconcilerPromises`, for all values of the constants, with `Serial`, or the stronger
assumption it names:

* `LedgerKept`: with `~BadReads`, `Spec => KeepsLedger`. Each step of a run, and each
  failure, is a step of `Ledger` or leaves its variables alone (`LedgerNext`). The
  writes of a record need `Inductive` (what is promoted or removed is a superset of
  what is held) and one more invariant, `AbsenceFresh`: a run that found no record
  knows that there still is none when it installs, which is what makes the write a
  `Create`.
* `OnlyPlansLoseHolds`: with `~BadReads`, `Ledger`'s `OnlyPlansLose` of the records
  `Reconciler` keeps. With `LedgerKept` it says what can be lost and when, without a
  word about calls.
* `DeleteConfirmedHolds`: `DeleteConfirmed`. `Inductive` says that no recorded object
  is live under the instance's labels when the record goes; that a delete that waits
  has not left one terminating either needs `Confirming`: from the first request to
  the last call, each recorded object with the instance's labels is still ahead, or
  its removal was accepted and is waited for (`AwaitsAll`), and an absent object
  carries no labels (`AbsentUnowned`), so that what the wait saw go does not count.
* `OwnershipKeptHolds`: `OwnershipKept`, with `~BadReads` besides. The check is made
  once, by the first read; `Unclaimed` says that its outcome stands until the last
  write, which replaces the owner. It does not when the first read fails on a record
  that exists: `Init` takes any error for "no such instance", and an install follows
  that asks nobody.
* `SetsInOrderHolds`: `SetsInOrder`, when one command runs at a time on the whole
  cluster (another could remove what an earlier set put there). `Placed` says it of
  every call of a run, the waits between two sets included, and what is terminating
  has a finalizer (`FinalizersHold`), so an object that is in place stays there until
  a prune, which `DoomedUnwanted` keeps away from it, unless a later set lists it
  again and recreates it (`RecreatedSince`).

`BundleProofs`, for any clusters, instances, bundles, plans and selections:

* `BundleTypeCorrect`: `TypeOK`, for any commands side by side. Part of it is that a
  command in a loop has a current cluster and instance (`Here`, `Current`).
* The others assume `Serial`: one command at a time. They rest on `SerialInv`, which
  says of a command at work which of its clusters (`ClustersDone`) and which instances
  of the current one (`InstancesDone`) are behind it and done, and that what a delete
  has still to remove is its own and in the order of creation (`Ordered`). Each step
  is first shown to be one of a few moves that say what becomes of the queue, of the
  targets and of one record (`Works`), so that the invariant is proved of seven moves
  and not of every action.
* `DoneIsCompleteHolds` follows from it.
* `TakeoverHolds` assumes `~Misread` too and needs `OwnersInv`: after the check no
  instance still to come has another owner. `LastInstalledFirstHolds` assumes
  `~SameSecond` and needs `EarlierInv`: the seconds tell the order. Neither holds
  without its assumption: the runs `takeover` and `same_second` are the
  counterexamples.

`BuildsProofs`:

* of `VendorCRD`, for any manifests, command lines, directories and number of runs and
  failures: `VendorOutcomeHolds` and `VendorPruneConfinedHolds`, from `VendorInv`.
  While a run writes, what is not `unwritten` is in its file (`InPlace`); it ends when
  nothing stale is left (`Pruning`); nothing changes before a manifest was accepted
  (`Untouched`). The operators are most of the work: `ConvertedAsExpected` (the walks
  of the importer lose and keep the fields that `Expected` says, with `PathMatches`
  for the wildcards), `AskedIsSelected`, and `GenerateGives`, which needs that of the
  versions that share a file there is a last one (`LastExists`).
* of `RuntimeValues`, for any runtime, objects and files: `BuiltAsReadHolds` and
  `RefusedThenTakenHolds`, from `ValuesInv`. The values read are at every moment those
  of the last object read so far that has them (`ReadInv`), all are read before the
  first is injected (`InjectInv`), a field behind the walk has the value of the current
  cluster and one ahead of it its own (`SourcesInv`), and what was built stays built
  from its own cluster (`BuiltInv`). Since a success resets the error, `SourcesInv`
  carries that each refused value is followed by one that is taken
  (`CoveredBefore`) unless the error stands: `RefusedThenTaken` is what is left of
  `InvalidRefused`, and says that nothing else undoes an error.
* of `FileCopy`, for any finite file system, destination and budget:
  `CopyConfinedHolds`, from `CopyInv`. `PlaceIs` says that a place is below the root or
  `Nowhere`, whatever links the destination holds, and `EntriesInv` counts what
  appears against the entries counted. `Place` and `Resolved` are recursive functions:
  that there are such functions is shown by a least counterexample (`PlacedExists`,
  `ReachedExists`).
* of `FileCopy` too, `CopyOutcomeHolds`, from `OutcomeInv`. An entry of the tree is
  ahead of a copy while the name it has in a directory on the recursion path is not
  taken yet; the others are `Met`. `MetInv` says that these are as many as were counted
  and that none that is kept loops or leads nowhere; `FramesInv` that every call that has
  not returned copies a directory of the tree and that the calls above it are the way to
  it, so that `visiting` tells the loops; `FilesInv` that what was there keeps its kind
  and no link is new; `DstInv` that the destination holds what is met, the directories on
  the path still writable if the root was not there. Each step meets one entry or none
  (`SkipMeets`, `LeafMeets`, `EnterMeets`, `LeaveMeets`). `Unfolded` is a union of levels:
  it is closed and nothing else is in it (`UnfoldedHas`, `UnfoldedOnly`), no two entries
  have one place (`TreeUnique`), and the way to an entry is in it (`TreePrefix`). That
  the levels end is counted: the directories above an entry differ, so there are no more
  than directories.

`BuildsProofs` of `ModuleFetch`, for any number of processes, references, tags and
layers:

* `FetchTypeCorrect` and `FetchInvariantHolds`: the directory of a key holds
  exactly the layers already extracted, whole (`PartlyExtracted`); a file about to
  be published or extracted is whole (`VerifiedAhead`); the in-memory cache knows
  the complete directories (`MemoCorrect`); accepted references match their pins
  (`AcceptedOnly`). The one fact that concerns several processes is that a whole
  cached file stays whole, which `CacheStep` shows from `VerifiedAhead`.
* `BuiltFromPinnedHolds`, `CacheKeptHolds` and `TempsRemovedHolds` follow.

`BundleBuildProofs`, for any bundles, modules, import graphs, packages and objects, any
limit of goroutines and any failures: `ManifestsValidHolds` and
`ManifestFilesWrittenHolds`, from `BuildInv`. `ManifestsValid` speaks of the end;
what makes it true of every order of the goroutines is said step by step:

* `CacheInv`: whoever put the CRDs of a directory in the cache, they are those the
  module there vendors, so a goroutine that finds them need not care.
* `WorkerInv` and `PhaseInv`: which goroutines have started follows from `next`; one
  that has ended has left the objects of its instance and their CRDs in the cache
  (`Built`), or the error group has an error, and that error has an instance to blame.
  What one may print waits for all of this (`Wait`).
* `TurnInv`, of the commands that take instances in turn: what is behind compiled,
  decoded and is valid, and `schemas` is what `Knows` says. `Knows` describes the
  validator without the order of the calls, by the last rendered and the first
  vendored definition of each kind; `AddVendoredKnows` and `AddRenderedKnows` show
  that registration keeps it, from whichever side a list is registered.
* The operators are recursive functions over lists: that there are such functions and
  what they give is shown by least counterexamples, since induction over an operator
  is out of reach. `SortIs` says of `Sort` that it permutes and orders;
  `FlattenSeq`, a fold, is described by which elements it has in which order.

`PartsProofs` of `ObjectStatus`, for any objects, health checks, states, clusters and
lists of instances: `ObjectStatusHolds` is `ObjectStatusSound`, from `StatusInv`:

* `WaitInv`: a wait goes on only while some awaited object is not ready and none has
  failed, as last read; and a wait that failed on a Job saw a condition the Job still
  has, although it is read once and the cluster goes on (`JobGoesOn`).
* `ListInv`: `failed` is set exactly when a cluster before the current one had no
  instance, or an object of it that is no longer in the queue could not be read. It
  needs that an object is listed once (`Distinct`, an assumption on inventories).
* `LookupFinds`, `EvaluateSays`, `JobSays` and `ObservedSays` show that the readers, in
  their order and with their early returns, compute what `IsReady` and `HasFailed` say
  of an object without an order.

`PartsProofs` of `CosignIO`, for pipes of any capacity and any number of lines:

* `CosignTypeCorrect` and `CosignInvariant`: goroutines exist once the child does
  (`Started`); a reader ends at the end of its pipe or when it is closed
  (`ReadersEnd`); only the timeout and the return close a pipe (`ClosedWhen`); what
  was written to open pipes was read or is in them (`Counted`); the call waits for
  the readers, the closer and the child in this order (`Order`, `Outcome`).
* `CosignNeverWaits`, `CosignOutcomeReturned` and `CosignLeavesNothing` are
  `NobodyWaits`, `OutcomeOfCosign` and `NothingLeft`, and `CosignSoundHolds` is
  `CosignSound`. The second needs the most:
  a child that ended before the deadline has its output counted, which follows
  from why each reader ended and from who may have closed its pipe.

`BundleUpdateProofs`, for any bundle, registry, level and number of failures, pushes
and edits:

* `MovesForwardHolds`: `Moves` says of every target that its version in memory is the
  loaded one or `Allowed`, at each step and not only at the end. `SelectionBounds` and
  `LevelBounds` are what `selectVersion` and a level guarantee of one version;
  `InHand` carries it over the request for the digest, between which and the selection
  the tag may move.
* `PinsFollowHolds`: a digest literal belongs to one group (`GroupsRefused` is false
  once something is planned: `Sound`), so the plan of another group does not change
  it, and the digest read is one the tag pointed to (`TagsKnown`).
* Both need that no literal defines a version of one instance and a digest of another
  (`Kinds`). Neither the code nor the schema of a bundle checks it, both being
  strings; but no registry has a tag of the form of a digest, so such a bundle could
  never have been applied. `BundleAssumption` leaves it out.
* `FilesKeptHolds`: `FilesInv`. `EditsFound` says that an edit made before its file was
  checked is there to be found, and that a file to be written has passed the check;
  `Undisturbed` that a file that is neither broken nor edited is as loaded unless it is
  written and not yet restored.

`PublishProofs`, for any number of invocations, paths, tags and command lines:

* `PublishInvHolds`: what a command remembers is true. `Fits` says, stage by stage,
  which command lines get there and that the image in hand is the one to deliver
  (`Packaged`); `Delivers` that every tag behind a command names the image it has
  pushed, and that this image was to be signed and, at the end, is. Tags move under a
  running command, so both speak of `tagged`, what a tag ever named, and of the
  digest in the memory of the command, never of the tag as it stands. `TagsHold` and
  `PublishedHolds` follow. They use of a command line (`CommandAssumption`) that
  `mod push` adds no tag but `latest` to the version (`mod_push.go:232`).
* `PublishTypeCorrect` adds the temporary directories (`TempsRemoved`).
* `OutputsKeptHolds`: `OutputsOwned` says that one command at most writes to a path,
  that the file is incomplete while it does, and that an incomplete file has such a
  writer or was left by a killed one. An archive may be removed by hand in the
  meantime, but not the incomplete one of a running command: `Remove` is not enabled
  then.

Assumptions on constants are in the modules that declare them and TLC evaluates
them with every run.

Only model-checked is liveness (`RunsEnd`, `DeleteCompletes`, `ApplyCompletes`,
`CommandsEnd`, `CosignReturns`, `StatusWaitEnds`), which needs fairness and `ENABLED`
and is out of the prover's reach.

## Not modelled

* Dry run and diff (`internal/dyff`, the diff modes of the commands): they render and
  write nothing to the cluster.
* Flags, output, formatting, completion, `mod init`, `mod show config`,
  `config_doc.go`, `internal/logger`, `internal/mask`: no state of their own.
* Pulling, listing and tagging artifacts: single requests to a registry with nothing
  kept between them; where a listing or a tag decides something it is in
  `BundleUpdate`, `ModuleFetch` or `Publish`.
* `mod vendor k8s`: pulls one artifact and copies its files; the copy is like that of
  `ModuleFetch`, into a directory of the module.
* CUE evaluation, the merge of values among it (`values_builder.go`, `utils.go`), CEL,
  schema validation of fields, the `ssa` library beyond what its callers rely on.
  `mergeList` truncates a list to the shorter of the two (`utils.go:206`), which
  is data and no property speaks of it.
* What packaging ignores and annotates.

Met on the way, outside of what the properties say: the commands that read a bundle
from standard input declare the name of its temporary file a second time in an inner
scope (`stdinFile, err :=` in `bundle_apply.go:118`, `bundle_build.go:104`,
`bundle_vet.go:109`, `runtime_build.go:75`), so the clean-up that follows never
removes the file.

## Plan

Done: every module of the table above; proofs of every safety and action property that
a passing run checks.

Left, in this order:

1. An abstract specification of a bundle over its instances, on top of `Ledger`, that
   `Bundle` implements, with the proof.
2. The dry runs of apply and bundle apply, as commands that change no record.
