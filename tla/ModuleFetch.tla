----------------------------- MODULE ModuleFetch -----------------------------
(***************************************************************************)
(* Fetching modules: PullModule and the layer cache on disk                *)
(* (internal/oci/pull_module.go), and the modules of one bundle run        *)
(* (fetchBundleInstanceModule of cmd/timoni/bundle_apply.go, of which      *)
(* `timoni apply` is the case of one instance).                            *)
(*                                                                         *)
(* Several processes share the cache directory.  The registry is not       *)
(* theirs: a tag may point to another manifest at any moment, a download   *)
(* may break off or deliver wrong bytes, and a process may be killed.      *)
(* Manifests and layers are content-addressed: a digest is its content,    *)
(* and of the bytes in a file only matters whether they are all there.     *)
(***************************************************************************)
EXTENDS Integers

CONSTANTS
    Procs,       \* the timoni processes
    Modules,     \* the module references of a bundle's instances
    Tags,        \* tags of the repository
    Latest,      \* the tag "latest"
    Digests,     \* digests of the manifests in the registry
    NoDigest,    \* "no digest": the reference is not pinned
    Version,     \* Version[m]: the tag reference m names
    Pin,         \* Pin[m]: the digest it is pinned to
    Layers,      \* digests of compressed layers
    Content,     \* Content[d]: the layers of manifest d
    MaxMoves,    \* bound: moves of a tag
    MaxFaults    \* bound: failures

ASSUME LatestAssumption  == Latest \in Tags
ASSUME DigestAssumption  == NoDigest \notin Digests /\ Tags \cap Digests = {}
                            /\ NoDigest \notin Tags
ASSUME ModuleAssumption  == /\ Modules # {} /\ Layers # {}
                            /\ Version \in [Modules -> Tags]
                            /\ Pin \in [Modules -> Digests \cup {NoDigest}]
ASSUME ContentAssumption == Content \in [Digests -> (SUBSET Layers) \ {{}}]
ASSUME BoundAssumption   == MaxMoves \in Nat /\ MaxFaults \in Nat

VARIABLES
    tag,        \* tag[t]: the manifest tag t points to
    cache,      \* cache[l]: the file of layer l in the cache directory
    temp,       \* temp[p]: the temporary file of process p next to it
    proc,       \* proc[p]: the memory of process p
    dir,        \* dir[p][k]: what was extracted to the directory of key k
    moves,      \* moves of a tag so far
    faults      \* failures so far

vars == <<tag, cache, temp, proc, dir, moves, faults>>

(* A module is fetched once per key, the version it is pulled by. *)
Keys == Tags \cup Digests

(* A pinned "latest" is pulled by its digest. *)
Key(m) == IF Version[m] = Latest /\ Pin[m] # NoDigest THEN Pin[m] ELSE Version[m]

(* The manifest the registry returns for a key. *)
Resolve(k) == IF k \in Digests THEN k ELSE tag[k]

Files == {"absent", "torn", "whole"}

Outcomes == {"done", "failed", "killed"}

(* todo: references still to fetch; module: the current one; digest: of the  *)
(* manifest read for it; left: layers still to extract; layer: the current   *)
(* one; fetched: the in-memory module cache; built: references accepted.     *)
Memory ==
    [pc : {"next", "manifest", "layer", "pull", "download", "publish",
           "extract", "accept"} \cup Outcomes,
     todo : SUBSET Modules, module : Modules, digest : Digests \cup {NoDigest},
     left : SUBSET Layers, layer : Layers,
     fetched : [Keys -> Digests \cup {NoDigest}], built : SUBSET Modules]

Started ==
    [pc |-> "next", todo |-> Modules, module |-> CHOOSE m \in Modules : TRUE,
     digest |-> NoDigest, left |-> {}, layer |-> CHOOSE l \in Layers : TRUE,
     fetched |-> [k \in Keys |-> NoDigest], built |-> {}]

TypeOK ==
    /\ tag \in [Tags -> Digests]
    /\ cache \in [Layers -> Files]
    /\ temp \in [Procs -> Files]
    /\ proc \in [Procs -> Memory]
    /\ dir \in [Procs -> [Keys -> SUBSET (Layers \X Files)]]
    /\ moves \in 0..MaxMoves
    /\ faults \in 0..MaxFaults

(* Files of the cache may be torn: older versions of Timoni, and disks, can  *)
(* leave them so.                                                            *)
Init ==
    /\ tag \in [Tags -> Digests]
    /\ cache \in [Layers -> Files]
    /\ temp = [p \in Procs |-> "absent"]
    /\ proc = [p \in Procs |-> Started]
    /\ dir = [p \in Procs |-> [k \in Keys |-> {}]]
    /\ moves = 0
    /\ faults = 0

At(p, stage) == proc[p].pc = stage
Becomes(p, m) == proc' = [proc EXCEPT ![p] = m]
Goto(m, stage) == [m EXCEPT !.pc = stage]
Inject == faults < MaxFaults /\ faults' = faults + 1
Active(p) == proc[p].pc \notin Outcomes

SetTemp(p, file) == temp' = [temp EXCEPT ![p] = file]

--------------------------------------------------------------------------------
(* fetchBundleInstanceModule. *)

NextModule(p) ==
    /\ At(p, "next")
    /\ \E m \in proc[p].todo :
           Becomes(p, [proc[p] EXCEPT
               !.module = m, !.todo = @ \ {m},
               !.pc = IF proc[p].fetched[Key(m)] # NoDigest THEN "accept" ELSE "manifest"])
    /\ UNCHANGED <<tag, cache, temp, dir, moves, faults>>

(* The pin is verified also when the module comes from the in-memory cache. *)
Accepts(m, digest) == Pin[m] \in {digest, NoDigest}

Accept(p) ==
    LET s == proc[p]
    IN  /\ At(p, "accept")
        /\ IF Accepts(s.module, s.fetched[Key(s.module)])
           THEN Becomes(p, [s EXCEPT !.built = @ \cup {s.module},
                                     !.pc = IF s.todo = {} THEN "done" ELSE "next"])
           ELSE Becomes(p, Goto(s, "failed"))
        /\ UNCHANGED <<tag, cache, temp, dir, moves, faults>>

--------------------------------------------------------------------------------
(* PullModule. *)

(* One request gets the manifest, and the digest is computed from it. *)
GetManifest(p) ==
    LET s == proc[p]
        d == Resolve(Key(s.module))
    IN  /\ At(p, "manifest")
        /\ Becomes(p, [s EXCEPT !.pc = "layer", !.digest = d, !.left = Content[d]])
        /\ UNCHANGED <<tag, cache, temp, dir, moves, faults>>

(* Mutant: a file in the cache is taken for the layer. *)
IsCachedByName(l) == cache[l] # "absent"

IsCached(l) == cache[l] = "whole"

VerifyLayer(p) ==
    LET s == proc[p]
    IN  /\ At(p, "layer")
        /\ \E l \in s.left :
               Becomes(p, [s EXCEPT !.layer = l,
                                    !.pc = IF IsCached(l) THEN "extract" ELSE "pull"])
        /\ UNCHANGED <<tag, cache, temp, dir, moves, faults>>

(* Mutant: the layer is written in place. *)
CreateInPlace(p) ==
    /\ At(p, "pull")
    /\ SetTemp(p, "torn")
    /\ cache' = [cache EXCEPT ![proc[p].layer] = "torn"]
    /\ Becomes(p, Goto(proc[p], "download"))
    /\ UNCHANGED <<tag, dir, moves, faults>>

(* A temporary file is created and the bytes start to arrive. *)
CreateTemp(p) ==
    /\ At(p, "pull")
    /\ SetTemp(p, "torn")
    /\ Becomes(p, Goto(proc[p], "download"))
    /\ UNCHANGED <<tag, cache, dir, moves, faults>>

Downloaded(p) ==
    /\ At(p, "download")
    /\ SetTemp(p, "whole")
    /\ Becomes(p, Goto(proc[p], "publish"))
    /\ UNCHANGED <<tag, cache, dir, moves, faults>>

(* Mutant: the deferred removal of the temporary file is missing. *)
DownloadFailsDirty(p) ==
    /\ At(p, "download")
    /\ Inject
    /\ Becomes(p, Goto(proc[p], "failed"))
    /\ UNCHANGED <<tag, cache, temp, dir, moves>>

(* The connection breaks, or the digest of the bytes is wrong: the temporary *)
(* file is removed.                                                          *)
DownloadFails(p) ==
    /\ At(p, "download")
    /\ Inject
    /\ SetTemp(p, "absent")
    /\ Becomes(p, Goto(proc[p], "failed"))
    /\ UNCHANGED <<tag, cache, dir, moves>>

Publish(p) ==
    /\ At(p, "publish")
    /\ cache' = [cache EXCEPT ![proc[p].layer] = temp[p]]
    /\ SetTemp(p, "absent")
    /\ Becomes(p, Goto(proc[p], "extract"))
    /\ UNCHANGED <<tag, dir, moves, faults>>

(* The rename fails, as where another process has the file open: a valid     *)
(* copy that is there by now will do.                                        *)
PublishFails(p) ==
    /\ At(p, "publish")
    /\ Inject
    /\ SetTemp(p, "absent")
    /\ Becomes(p, Goto(proc[p], IF IsCached(proc[p].layer) THEN "extract" ELSE "failed"))
    /\ UNCHANGED <<tag, cache, dir, moves>>

(* Mutant: the digest is asked for again when the module is complete. *)
ExtractLayerAskAgain(p) ==
    LET s == proc[p]
        k == Key(s.module)
        left == s.left \ {s.layer}
    IN  /\ At(p, "extract")
        /\ dir' = [dir EXCEPT ![p][k] = @ \cup {<<s.layer, cache[s.layer]>>}]
        /\ Becomes(p, IF left # {} THEN [s EXCEPT !.pc = "layer", !.left = left]
                      ELSE [s EXCEPT !.pc = "accept", !.left = {},
                                     !.fetched = [@ EXCEPT ![k] = Resolve(k)]])
        /\ UNCHANGED <<tag, cache, temp, moves, faults>>

(* The layer is extracted from the cache; the module is remembered after its *)
(* last layer.                                                               *)
ExtractLayer(p) ==
    LET s == proc[p]
        k == Key(s.module)
        left == s.left \ {s.layer}
    IN  /\ At(p, "extract")
        /\ dir' = [dir EXCEPT ![p][k] = @ \cup {<<s.layer, cache[s.layer]>>}]
        /\ Becomes(p, IF left # {} THEN [s EXCEPT !.pc = "layer", !.left = left]
                      ELSE [s EXCEPT !.pc = "accept", !.left = {},
                                     !.fetched = [@ EXCEPT ![k] = s.digest]])
        /\ UNCHANGED <<tag, cache, temp, moves, faults>>

--------------------------------------------------------------------------------
(* A failing request, an unreadable or unwritable file: where nothing is     *)
(* downloading, only the process ends.                                       *)
Fails(p) ==
    /\ proc[p].pc \in {"manifest", "layer", "pull", "extract"}
    /\ Inject
    /\ Becomes(p, Goto(proc[p], "failed"))
    /\ UNCHANGED <<tag, cache, temp, dir, moves>>

(* A killed process removes nothing. *)
Kill(p) ==
    /\ Active(p)
    /\ Inject
    /\ Becomes(p, Goto(proc[p], "killed"))
    /\ UNCHANGED <<tag, cache, temp, dir, moves>>

(* Somebody pushes: a tag points to another manifest. *)
MoveTag ==
    /\ moves < MaxMoves
    /\ moves' = moves + 1
    /\ \E t \in Tags, d \in Digests : tag' = [tag EXCEPT ![t] = d]
    /\ UNCHANGED <<cache, temp, proc, dir, faults>>

Quiet == (\A p \in Procs : ~Active(p)) /\ UNCHANGED vars

Step(p) ==
    \/ NextModule(p) \/ GetManifest(p) \/ VerifyLayer(p) \/ CreateTemp(p)
    \/ Downloaded(p) \/ Publish(p) \/ ExtractLayer(p) \/ Accept(p)

Fault(p) == DownloadFails(p) \/ PublishFails(p) \/ Fails(p) \/ Kill(p)

Next == (\E p \in Procs : Step(p) \/ Fault(p)) \/ MoveTag \/ Quiet

Spec == Init /\ [][Next]_vars

--------------------------------------------------------------------------------
(* What the code promises. *)

(* The files of a module that is complete. *)
Whole(d) == Content[d] \X {"whole"}

(* Every reference that was accepted is built from all the layers, whole, of *)
(* one manifest, whose digest is the one reported, and the one the reference *)
(* is pinned to: whatever other processes do to the cache and others to the  *)
(* tags.                                                                     *)
BuiltFromPinned ==
    \A p \in Procs : \A m \in proc[p].built :
        LET d == proc[p].fetched[Key(m)]
        IN  d # NoDigest /\ dir[p][Key(m)] = Whole(d) /\ Pin[m] \in {d, NoDigest}

(* A valid file of the cache is never spoiled, not even by a process that is *)
(* killed while it downloads the same layer.                                 *)
CacheKept == [][\A l \in Layers : cache[l] = "whole" => cache'[l] = "whole"]_vars

(* A temporary file outlives only a process that was killed. *)
TempsRemoved ==
    \A p \in Procs : temp[p] # "absent" => proc[p].pc \in {"download", "publish", "killed"}

--------------------------------------------------------------------------------
(* Why modules are whole: the invariant that the proofs show inductive.      *)

Pulling == {"layer", "pull", "download", "publish", "extract"}

(* Between two layers the directory holds those that have been extracted.    *)
PartlyExtracted(p) ==
    LET s == proc[p]
    IN  s.pc \in Pulling =>
            /\ s.digest \in Digests
            /\ s.left \subseteq Content[s.digest]
            /\ s.pc # "layer" => s.layer \in s.left
            /\ dir[p][Key(s.module)] = (Content[s.digest] \ s.left) \X {"whole"}
            /\ s.fetched[Key(s.module)] = NoDigest

(* What is about to be published, or extracted, is whole. *)
VerifiedAhead(p) ==
    LET s == proc[p]
    IN  /\ s.pc = "publish" => temp[p] = "whole"
        /\ s.pc = "extract" => cache[s.layer] = "whole"

(* The in-memory cache knows the complete directories, and where no pull is  *)
(* under way the others are empty.                                           *)
MemoCorrect(p) ==
    LET s == proc[p]
    IN  /\ \A k \in Keys :
               IF s.fetched[k] # NoDigest THEN dir[p][k] = Whole(s.fetched[k])
               ELSE s.pc \in {"next", "accept", "manifest"} => dir[p][k] = {}
        /\ \A k \in Keys \ {Key(s.module)} :
               s.fetched[k] = NoDigest /\ s.pc \in Pulling => dir[p][k] = {}
        /\ s.pc = "manifest" => s.fetched[Key(s.module)] = NoDigest
        /\ s.pc = "accept" => s.fetched[Key(s.module)] # NoDigest

AcceptedOnly(p) ==
    \A m \in proc[p].built :
        /\ proc[p].fetched[Key(m)] # NoDigest
        /\ Pin[m] \in {proc[p].fetched[Key(m)], NoDigest}

FetchInvariant ==
    \A p \in Procs :
        PartlyExtracted(p) /\ VerifiedAhead(p) /\ MemoCorrect(p) /\ AcceptedOnly(p)

================================================================================
