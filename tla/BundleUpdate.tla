----------------------------- MODULE BundleUpdate -----------------------------
(***************************************************************************)
(* `timoni bundle update` (internal/engine/bundle_updater.go,              *)
(* cmd/timoni/bundle_update.go): the module references of a bundle are     *)
(* resolved to the string literals that define them, grouped by literal,   *)
(* moved to published versions according to their policies, and written    *)
(* back to the files of the bundle.                                        *)
(*                                                                         *)
(* While it runs, modules are published, tags move or go, an editor may    *)
(* save a file, requests and writes fail and the process may be killed.    *)
(***************************************************************************)
EXTENDS Integers

CONSTANTS
    Instances,     \* instances of the bundle
    Repositories,  \* module repositories
    Versions,      \* published versions, in semver
    Latest,        \* the tag "latest", which is no semantic version
    Digests,       \* digests of published modules
    NoDigest,      \* a tag that is not there
    Literals,      \* string literals in the CUE files of the bundle
    NoLiteral,     \* the value is not defined by such a literal
    Files,         \* CUE files of the bundle
    FileOf,        \* FileOf[l]: the file of literal l
    Bundles,       \* bundles that may be loaded: their references and literals
    Registries,    \* what may be published at the start
    Levels,        \* values of the --level flag
    MaxMoves,      \* bound: changes of a tag while the command runs
    MaxEdits,      \* bound: saves by an editor
    MaxFaults      \* bound: failures

(* A version is major.minor.patch, and pre # 0 numbers a pre-release.        *)
SemVer == [major : Nat, minor : Nat, patch : Nat, pre : Nat]

Names == Versions \cup {Latest}

(* A constraint is a range: at least `from`, and older than `below` or       *)
(* unlimited.                                                                *)
Constraints == [from : SemVer, below : SemVer, open : BOOLEAN]
Policies == [policy : {"semver"}, constraint : Constraints]
            \cup [policy : {"digest", "none"}]

(* What the bundle says of an instance: skip stands for the reasons that     *)
(* depend on how the reference is written (a runtime value, two places, a    *)
(* digest in YAML ...).  A version without literal is `version`, the schema  *)
(* default when it is unset.                                                 *)
References ==
    [repository : Repositories, versionLit : Literals \cup {NoLiteral},
     version : Names, versionUnset : BOOLEAN,
     digestLit : Literals \cup {NoLiteral}, policies : SUBSET Policies,
     skip : BOOLEAN]

Values == Names \cup Digests

ASSUME VersionAssumption  == Versions \subseteq SemVer /\ Latest \notin SemVer
ASSUME LiteralAssumption  == NoLiteral \notin Literals /\ FileOf \in [Literals -> Files]
ASSUME DigestAssumption   == NoDigest \notin Digests /\ Digests \cap Names = {}
ASSUME BundleAssumption   ==
    /\ Instances # {} /\ Literals # {}
    /\ \A b \in Bundles :
           /\ b.text \in [Literals -> Values]
           /\ b.refs \in [Instances -> References]
           /\ \A i \in Instances :
                  /\ b.refs[i].versionLit # NoLiteral => b.text[b.refs[i].versionLit] \in Names
                  /\ b.refs[i].digestLit # NoLiteral => b.text[b.refs[i].digestLit] \in Digests
ASSUME RegistryAssumption == Registries \subseteq
                                 [Repositories -> [Names -> Digests \cup {NoDigest}]]
ASSUME LevelAssumption    == Levels \subseteq {"none", "patch", "minor", "major"}
ASSUME BoundAssumption    == MaxMoves \in Nat /\ MaxEdits \in Nat /\ MaxFaults \in Nat

VARIABLES
    refs,      \* the references of the bundle, which nobody edits
    text,      \* text[l]: literal l as it is on disk
    torn,      \* files whose last write failed: they hold anything
    tags,      \* tags[r][v]: the digest version v of repository r points to
    tagged,    \* every <<r, v, d>> so since the start (history)
    upd,       \* the memory of the command
    stale,     \* files an editor changed between load and check (history)
    late,      \* files an editor changed after the check (history)
    moves, edits, faults

vars == <<refs, text, torn, tags, tagged, upd, stale, late, moves, edits, faults>>

Outcomes == {"done", "failed", "killed"}

Unlisted == {NoDigest}

(* loaded and new: the literals as read and as rewritten in memory; todo:    *)
(* keys of the groups to plan; key, first: the current group and its first   *)
(* target; next: the version selected for it; list: listings by repository;  *)
(* erred: an error was collected; changed: literals of planned changes;      *)
(* skipped: instances reported as skipped; left: files of the current loop;  *)
(* written: files written; unrestored: files whose restoring failed.         *)
Memory ==
    [pc : {"load", "plan", "list", "select", "resolve", "check", "write",
           "restore"} \cup Outcomes,
     level : Levels,
     loaded : [Literals -> Values], new : [Literals -> Values],
     todo : SUBSET Literals, key : Literals, first : Instances, next : Names,
     list : [Repositories -> (SUBSET Names) \cup {Unlisted}],
     erred : BOOLEAN, changed : SUBSET Literals, skipped : SUBSET Instances,
     left : SUBSET Files,
     written : SUBSET Files, unrestored : SUBSET Files]

TypeOK ==
    /\ refs \in [Instances -> References]
    /\ text \in [Literals -> Values]
    /\ torn \subseteq Files
    /\ tags \in [Repositories -> [Names -> Digests \cup {NoDigest}]]
    /\ tagged \subseteq Repositories \X Names \X Digests
    /\ upd \in Memory
    /\ stale \subseteq Files /\ late \subseteq Files
    /\ moves \in 0..MaxMoves /\ edits \in 0..MaxEdits /\ faults \in 0..MaxFaults

Published(reg) ==
    {x \in Repositories \X Names \X Digests : reg[x[1]][x[2]] = x[3]}

Init ==
    /\ \E b \in Bundles : refs = b.refs /\ text = b.text
    /\ torn = {}
    /\ tags \in Registries
    /\ tagged = Published(tags)
    /\ \E level \in Levels :
           upd = [pc |-> "load", level |-> level,
                  loaded |-> text, new |-> text, todo |-> {},
                  key |-> CHOOSE l \in Literals : TRUE,
                  first |-> CHOOSE i \in Instances : TRUE, next |-> Latest,
                  list |-> [r \in Repositories |-> Unlisted],
                  erred |-> FALSE, changed |-> {}, skipped |-> {},
                  left |-> {},
                  written |-> {}, unrestored |-> {}]
    /\ stale = {} /\ late = {}
    /\ moves = 0 /\ edits = 0 /\ faults = 0

At(stage) == upd.pc = stage
Becomes(m) == upd' = m
Goto(m, stage) == [m EXCEPT !.pc = stage]
Inject == faults < MaxFaults /\ faults' = faults + 1

world == <<refs, text, torn, tags, tagged, stale, late, moves, edits>>

--------------------------------------------------------------------------------
(* Semantic versions. *)

Core(v) == [v EXCEPT !.pre = 0]

Older(v, w) ==
    \/ v.major < w.major
    \/ v.major = w.major /\ v.minor < w.minor
    \/ v.major = w.major /\ v.minor = w.minor /\ v.patch < w.patch
    \/ /\ Core(v) = Core(w)
       /\ v.pre # 0
       /\ w.pre = 0 \/ v.pre < w.pre

Check(c, v) == ~Older(v, c.from) /\ (c.open \/ Older(v, c.below))

Release(major, minor) == [major |-> major, minor |-> minor, patch |-> 0, pre |-> 0]

Any == [from |-> Release(0, 0), below |-> Release(0, 0), open |-> TRUE]

(* policyForLevel: the constraint a level puts on a current version. *)
LevelConstraint(level, v) ==
    CASE level = "patch" -> [from |-> v, below |-> Release(v.major, v.minor + 1), open |-> FALSE]
      [] level = "minor" -> [from |-> v, below |-> Release(v.major + 1, 0), open |-> FALSE]
      [] OTHER           -> [from |-> v, below |-> Release(0, 0), open |-> TRUE]

--------------------------------------------------------------------------------
(* Targets and groups. *)

(* The version of an instance, as the literals say. *)
VersionIn(lits, i) ==
    IF refs[i].versionLit = NoLiteral THEN refs[i].version ELSE lits[refs[i].versionLit]

(* Without any literal there is nothing to rewrite. *)
Skipped(i) ==
    refs[i].skip \/ (refs[i].versionLit = NoLiteral /\ refs[i].digestLit = NoLiteral)

Targets == {i \in Instances : ~Skipped(i)}

KeyOf(i) == IF refs[i].versionLit # NoLiteral THEN refs[i].versionLit ELSE refs[i].digestLit

Group(k) == {i \in Targets : KeyOf(i) = k}

DigestLits(k) == {refs[i].digestLit : i \in Group(k)} \ {NoLiteral}

GroupPolicies(k) == UNION {refs[i].policies : i \in Group(k)}

(* Targets that share a version must share the repository, and targets that  *)
(* share a digest must share the version.                                    *)
GroupsRefused ==
    \E i, j \in Targets :
        \/ KeyOf(i) = KeyOf(j) /\ refs[i].repository # refs[j].repository
        \/ /\ refs[i].digestLit = refs[j].digestLit
           /\ refs[i].digestLit # NoLiteral
           /\ KeyOf(i) # KeyOf(j)

(* The policies a group can have: one declared, or that of the level; "none" *)
(* also stands for a level that does not apply.                              *)
LevelPolicy(k, first) ==
    LET v == VersionIn(upd.loaded, first)
    IN  IF upd.level = "none" THEN [policy |-> "none"]
        ELSE IF refs[first].versionLit = NoLiteral
        THEN [policy |-> IF refs[first].versionUnset THEN "digest" ELSE "none"]
        ELSE IF v # Latest
        THEN [policy |-> "semver", constraint |-> LevelConstraint(upd.level, v)]
        ELSE IF upd.level = "major" THEN [policy |-> "semver", constraint |-> Any]
        ELSE [policy |-> "none"]

Policy(k, first) ==
    IF GroupPolicies(k) = {} THEN LevelPolicy(k, first)
    ELSE CHOOSE p \in GroupPolicies(k) : TRUE

PolicyRefused(k, first) ==
    \/ \E p, q \in GroupPolicies(k) : p # q
    \/ refs[first].versionLit = NoLiteral
       /\ \E p \in GroupPolicies(k) : p.policy = "semver"

--------------------------------------------------------------------------------
(* selectVersion. *)

(* Mutant: the constraint is checked with the pre-release suffix. *)
CandidatesWithSuffix(constraint, v, listing) ==
    {w \in listing \ {Latest} :
        /\ w.pre # 0 => v # Latest /\ v.pre # 0
        /\ Check(constraint, w)}

(* A pre-release is a candidate only for a pre-release, and is matched       *)
(* without its suffix.                                                       *)
Candidates(constraint, v, listing) ==
    {w \in listing \ {Latest} :
        /\ w.pre # 0 => v # Latest /\ v.pre # 0
        /\ Check(constraint, Core(w))}

Newest(S) == {w \in S : \A x \in S : ~Older(w, x)}

(* The version to move to, or none: an error.  The current version is kept,  *)
(* if it is still published, unless a candidate is newer.                    *)
Selection(policy, v, listing) ==
    IF policy.policy = "digest" THEN {v} \cap listing
    ELSE LET newest == Newest(Candidates(policy.constraint, v, listing))
         IN  IF v # Latest /\ \E w \in newest : ~Older(v, w) THEN {v} \cap listing
             ELSE newest

--------------------------------------------------------------------------------
(* Plan. *)

Load ==
    /\ At("load")
    /\ Becomes(IF GroupsRefused THEN Goto(upd, "failed")
               ELSE [upd EXCEPT !.pc = "plan", !.loaded = text, !.new = text,
                                !.todo = {KeyOf(i) : i \in Targets},
                                !.skipped = {i \in Instances : Skipped(i)}])
    /\ UNCHANGED <<world, faults>>

Repository == refs[upd.first].repository
Current == VersionIn(upd.loaded, upd.first)

(* The next group, whose first target may be any of it. *)
NextGroup ==
    /\ At("plan")
    /\ \E k \in upd.todo : \E first \in Group(k) :
           LET p == Policy(k, first).policy
               m == [upd EXCEPT !.todo = @ \ {k}, !.key = k, !.first = first]
           IN  Becomes(
                   IF PolicyRefused(k, first) THEN Goto(m, "failed")
                   ELSE IF p = "none" \/ (p = "digest" /\ DigestLits(k) = {})
                   THEN [m EXCEPT !.skipped = @ \cup Group(k)]
                   ELSE IF m.list[refs[first].repository] = Unlisted
                   THEN Goto(m, "list") ELSE Goto(m, "select"))
    /\ UNCHANGED <<world, faults>>

(* A repository is listed once; a failed listing is tried again for the next *)
(* group.                                                                    *)
Listed == {v \in Names : tags[Repository][v] # NoDigest}

ListVersions ==
    /\ At("list")
    /\ Becomes([upd EXCEPT !.pc = "select", !.list = [@ EXCEPT ![Repository] = Listed]])
    /\ UNCHANGED <<world, faults>>

(* The request for "latest" is another one, and any error means it is absent. *)
LatestUnread ==
    /\ At("list")
    /\ Inject
    /\ Becomes([upd EXCEPT !.pc = "select",
                   !.list = [@ EXCEPT ![Repository] = Listed \ {Latest}]])
    /\ UNCHANGED world

(* The change of the current group to version v, its digests to d: nothing   *)
(* when it is up to date.                                                    *)
Plan(v, d) ==
    LET k == upd.key
        versionLits == {refs[i].versionLit : i \in Group(k)} \ {NoLiteral}
        new == [l \in Literals |-> IF l \in versionLits THEN v
                                   ELSE IF l \in DigestLits(k) THEN d
                                   ELSE upd.new[l]]
    IN  IF new = upd.new
        THEN [upd EXCEPT !.pc = "plan", !.skipped = @ \cup Group(k)]
        ELSE [upd EXCEPT !.pc = "plan", !.new = new,
                         !.changed = @ \cup versionLits \cup DigestLits(k)]

SelectVersion ==
    LET k == upd.key
        chosen == Selection(Policy(k, upd.first), Current, upd.list[Repository])
    IN  /\ At("select")
        /\ IF chosen = {} THEN Becomes([upd EXCEPT !.pc = "plan", !.erred = TRUE])
           ELSE \E v \in chosen :
                    Becomes(IF DigestLits(k) = {} THEN Plan(v, NoDigest)
                            ELSE [upd EXCEPT !.pc = "resolve", !.next = v])
        /\ UNCHANGED <<world, faults>>

(* Mutant: the digest of the version that is being left. *)
ResolveDigestOfCurrent ==
    /\ At("resolve")
    /\ LET d == tags[Repository][Current]
       IN  Becomes(IF d = NoDigest THEN [upd EXCEPT !.pc = "plan", !.erred = TRUE]
                   ELSE Plan(upd.next, d))
    /\ UNCHANGED <<world, faults>>

(* Mutant: a tag that is gone has an empty digest. *)
ResolveDigestEmpty ==
    /\ At("resolve")
    /\ Becomes(Plan(upd.next, tags[Repository][upd.next]))
    /\ UNCHANGED <<world, faults>>

(* A request of its own: the tag may have moved since the listing. *)
ResolveDigest ==
    /\ At("resolve")
    /\ LET d == tags[Repository][upd.next]
       IN  Becomes(IF d = NoDigest THEN [upd EXCEPT !.pc = "plan", !.erred = TRUE]
                   ELSE Plan(upd.next, d))
    /\ UNCHANGED <<world, faults>>

(* Errors are collected over the groups. *)
RequestFails ==
    /\ upd.pc \in {"list", "resolve"}
    /\ Inject
    /\ Becomes([upd EXCEPT !.pc = "plan", !.erred = TRUE])
    /\ UNCHANGED world

Changed == {FileOf[l] : l \in {l \in upd.changed : upd.new[l] # upd.loaded[l]}}

(* With any error nothing is written.  The flag --dry-run is read here only. *)
Planned ==
    /\ At("plan") /\ upd.todo = {}
    /\ \E dryrun \in BOOLEAN :
           Becomes(IF upd.erred THEN Goto(upd, "failed")
                   ELSE IF Changed = {} \/ dryrun THEN Goto(upd, "done")
                   ELSE [upd EXCEPT !.pc = "check", !.left = Changed])
    /\ UNCHANGED <<world, faults>>

--------------------------------------------------------------------------------
(* writeBundleFiles. *)

LitsOf(f) == {l \in Literals : FileOf[l] = f}

AsLoaded(f) == f \notin torn /\ \A l \in LitsOf(f) : text[l] = upd.loaded[l]

Write(f, lits) ==
    /\ text' = [l \in Literals |-> IF FileOf[l] = f THEN lits[l] ELSE text[l]]
    /\ torn' = torn \ {f}

(* Every file is read again before the first is written. *)
CheckFile ==
    /\ At("check")
    /\ \E f \in upd.left :
           Becomes(IF ~AsLoaded(f) THEN Goto(upd, "failed")
                   ELSE IF upd.left # {f} THEN [upd EXCEPT !.left = @ \ {f}]
                   ELSE [upd EXCEPT !.pc = "write", !.left = Changed])
    /\ UNCHANGED <<world, faults>>

WriteFile ==
    /\ At("write")
    /\ \E f \in upd.left :
           /\ Write(f, upd.new)
           /\ Becomes([upd EXCEPT !.left = @ \ {f}, !.written = @ \cup {f},
                                  !.pc = IF upd.left = {f} THEN "done" ELSE @])
    /\ UNCHANGED <<refs, tags, tagged, stale, late, moves, edits, faults>>

(* A write that fails leaves its file as it was, or with anything in it. *)
Break(f) ==
    /\ torn' \in {torn, torn \cup {f}}
    /\ UNCHANGED <<refs, text, tags, tagged, stale, late, moves, edits>>

(* Mutant: the error is returned at once. *)
WriteFailsForGood ==
    /\ At("write")
    /\ Inject
    /\ \E f \in upd.left : Break(f)
    /\ Becomes(Goto(upd, "failed"))

(* The files written so far are restored. *)
WriteFails ==
    /\ At("write")
    /\ Inject
    /\ \E f \in upd.left : Break(f)
    /\ Becomes(IF upd.written = {} THEN Goto(upd, "failed")
               ELSE [upd EXCEPT !.pc = "restore", !.left = upd.written])

RestoreFile ==
    /\ At("restore")
    /\ \E f \in upd.left :
           /\ Write(f, upd.loaded)
           /\ Becomes([upd EXCEPT !.left = @ \ {f},
                                  !.pc = IF upd.left = {f} THEN "failed" ELSE @])
    /\ UNCHANGED <<refs, tags, tagged, stale, late, moves, edits, faults>>

RestoreFails ==
    /\ At("restore")
    /\ Inject
    /\ \E f \in upd.left :
           /\ Break(f)
           /\ Becomes([upd EXCEPT !.left = @ \ {f}, !.unrestored = @ \cup {f},
                                  !.pc = IF upd.left = {f} THEN "failed" ELSE @])

--------------------------------------------------------------------------------
(* An unreadable file, a bundle that does not build after the change. *)
Fails ==
    /\ upd.pc \in {"load", "plan", "check"}
    /\ Inject
    /\ Becomes(Goto(upd, "failed"))
    /\ UNCHANGED world

Kill ==
    /\ upd.pc \notin Outcomes
    /\ Inject
    /\ Becomes(Goto(upd, "killed"))
    /\ IF upd.pc \in {"write", "restore"} THEN \E f \in upd.left : Break(f)
       ELSE UNCHANGED world

(* A module is published, or its tag moves or is deleted. *)
Push ==
    /\ upd.pc \notin Outcomes /\ moves < MaxMoves
    /\ moves' = moves + 1
    /\ \E r \in Repositories, v \in Names, d \in Digests \cup {NoDigest} :
           tags[r][v] # d /\ tags' = [tags EXCEPT ![r][v] = d]
    /\ tagged' = tagged \cup Published(tags')
    /\ UNCHANGED <<refs, text, torn, upd, stale, late, edits, faults>>

(* Somebody saves a file with another version or digest; before the load it  *)
(* is but another bundle.                                                    *)
Edit ==
    /\ upd.pc \notin Outcomes \cup {"load"} /\ edits < MaxEdits
    /\ edits' = edits + 1
    /\ \E l \in Literals :
           LET f == FileOf[l]
               unchecked == \/ upd.pc \in {"plan", "list", "select", "resolve"}
                            \/ At("check") /\ f \in upd.left
           IN  /\ f \notin torn
               /\ \E x \in IF text[l] \in Names THEN Names ELSE Digests :
                      x # text[l] /\ text' = [text EXCEPT ![l] = x]
               /\ stale' = IF ~unchecked THEN stale
                           ELSE IF \A k \in LitsOf(f) : text'[k] = upd.loaded[k]
                           THEN stale \ {f} ELSE stale \cup {f}
               /\ late' = IF unchecked THEN late ELSE late \cup {f}
    /\ UNCHANGED <<refs, torn, tags, tagged, upd, moves, faults>>

Quiet == upd.pc \in Outcomes /\ UNCHANGED vars

Next ==
    \/ Load \/ NextGroup \/ ListVersions \/ SelectVersion \/ ResolveDigest
    \/ Planned \/ CheckFile \/ WriteFile \/ RestoreFile
    \/ LatestUnread \/ RequestFails \/ WriteFails \/ RestoreFails \/ Fails \/ Kill
    \/ Push \/ Edit \/ Quiet

Spec == Init /\ [][Next]_vars

--------------------------------------------------------------------------------
(* What the code promises. *)

Of(i) == VersionIn(upd.new, i)
Was(i) == VersionIn(upd.loaded, i)

(* No reference is downgraded, a release never becomes a pre-release, and a  *)
(* level keeps what it says it keeps: the major, or the major and the minor  *)
(* version, pre-releases of the next one included.                           *)
MovesForward ==
    \A i \in Targets :
        Of(i) # Was(i) /\ Was(i) # Latest =>
            /\ Older(Was(i), Of(i))
            /\ Was(i).pre = 0 => Of(i).pre = 0
            /\ GroupPolicies(KeyOf(i)) = {} =>
                   /\ upd.level \in {"patch", "minor"} => Of(i).major = Was(i).major
                   /\ upd.level = "patch" => Of(i).minor = Was(i).minor

(* A digest that was refreshed is one that the version written next to it    *)
(* pointed to while the command ran, for every instance that shares it.      *)
(* Instances without a version literal that share a digest are one group     *)
(* whatever their versions, and it follows the first of them.                *)
PinsFollow ==
    \A i \in Targets :
        /\ refs[i].digestLit \in upd.changed
        /\ \A j \in Group(KeyOf(i)) : Was(j) = Was(i)
        =>
            <<refs[i].repository, Of(i), upd.new[refs[i].digestLit]>> \in tagged

(* A command that fails leaves every file as it was, except the one whose    *)
(* write broke off, those it says it could not restore, and what an editor   *)
(* changed.                                                                  *)
FailureRestores ==
    At("failed") =>
        \A f \in Files \ (torn \cup upd.unrestored \cup stale \cup late) : AsLoaded(f)

(* What an editor saved between the load and the check is not overwritten.   *)
EditsKept == stale \cap upd.written = {}

(* Neither a failure nor an edit beside the command loses text of a file.    *)
FilesKept == FailureRestores /\ EditsKept

================================================================================
