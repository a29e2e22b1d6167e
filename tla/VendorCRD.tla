-------------------------------- MODULE VendorCRD --------------------------------
(***************************************************************************)
(* `timoni mod vendor crd` (cmd/timoni/mod_vendor_crd.go): it reads CRDs   *)
(* from a manifest, keeps those that are selected, generates CUE from the  *)
(* schema of each version (engine/importer.go), writes it to cue.mod/gen   *)
(* and, with --prune, removes what it generated before and not this time.  *)
(* The command is run again and again on the same directory, and each step *)
(* on a file may fail.                                                     *)
(*                                                                         *)
(* Names compare without their case where the code folds them.  A schema   *)
(* is the set of the paths of its fields, none of them a spec that is not  *)
(* the resource's own, with the paths of those that take unknown fields:   *)
(* [_] in a path is an item of a list, [string] an additional property.    *)
(* Directories are read in any order.                                      *)
(***************************************************************************)
EXTENDS Integers, Sequences, SequencesExt

CONSTANTS
    Lines,      \* the command lines with the manifests they meet
    Trees,      \* contents of cue.mod/gen before the first run
    Fold,       \* Fold[n]: name n in lower case
    Unsafe,     \* names that are no directory name: "", ".", "..", with a slash
    Limit,      \* maxRemoteCRDManifestSize
    Broken,     \* no YAML
    MaxRuns,    \* bound: runs of the command
    MaxBreaks   \* bound: failing steps

VARIABLES
    line,       \* the command line
    stage,      \* what the command does next
    generated,  \* generated[k]: the definitions of key k of this run
    unwritten,  \* the keys that are not written yet
    tree,       \* tree[p]: what is at path p of cue.mod/gen
    kept,       \* tree when this run started
    runs, breaks

vendorVars == <<line, stage, generated, unwritten, tree, kept, runs, breaks>>

Names == DOMAIN Fold

(* What a file holds: definitions after the marker, other text, or, when a   *)
(* write has failed, a part of it; a link holds what it leads to.            *)
Definitions(def) == [is |-> "generated", def |-> def]
Cut == [is |-> "cut", def |-> {}]
Directory == [is |-> "dir", def |-> {}]

(* extractCRDs: the places of the CRDs in the manifest. *)
ExtractCRDs(m) == {n \in DOMAIN m.objects : m.objects[n].crd}

(* Where the manifest's objects and selectors are, what its names are, and   *)
(* that no field is named as the marks of a path; a file is below a key.     *)
VendorAssumption ==
    LET Numbered(s) == Len(s) \in Nat /\ DOMAIN s = 1..Len(s)
        Path(p) == p \in Seq(STRING) /\ \A n \in DOMAIN p : p[n] \notin {"#", "[0]"}
        Schema(version) ==
            /\ version.name \in Names
            /\ \A p \in version.fields : Path(p) /\ p # << >>
            /\ version.marked \subseteq version.fields \cup {<< >>}
        Crd(crd) ==
            /\ crd.kind \in Names /\ crd.group \in Names /\ crd.singular \in Names
            /\ Numbered(crd.versions)
            /\ \A i \in DOMAIN crd.versions : Schema(crd.versions[i])
    IN  /\ \A n \in Names : Fold[n] \in Names
        /\ Names \subseteq STRING
        /\ \A t \in Trees : DOMAIN t \subseteq Seq(STRING)
        /\ \A l \in Lines :
            /\ Numbered(l.kinds)
            /\ l.manifest.objects # Broken =>
                /\ Numbered(l.manifest.objects)
                /\ \A n \in ExtractCRDs(l.manifest) : Crd(l.manifest.objects[n])

ASSUME VendorAssumption

--------------------------------------------------------------------------------
(* readCRDManifest: a file, or a download: no redirect leaves HTTPS, fewer   *)
(* than ten of them, and a size within the limit, announced or not.          *)
Readable(m) ==
    /\ m.objects # Broken
    /\ m.remote => /\ \A n \in DOMAIN m.redirects : n < 10 /\ m.redirects[n] = "https"
                   /\ m.status = 200
                   /\ m.size <= Limit

(* What each CRD has to say of itself. *)
Singular(crd) == IF crd.singular = "" THEN Fold[crd.kind] ELSE crd.singular

NamedVersions(crd) == {i \in DOMAIN crd.versions : crd.versions[i].name # ""}

WellNamed(crd) ==
    /\ crd.kind # ""
    /\ crd.group \notin Unsafe
    /\ Singular(crd) \notin Unsafe
    /\ \A i \in NamedVersions(crd) : crd.versions[i].name \notin Unsafe
    /\ NamedVersions(crd) # {}

WellFormed(m) ==
    /\ ExtractCRDs(m) # {}
    /\ \A n \in ExtractCRDs(m) : WellNamed(m.objects[n])

(* selectCRDs: a selector is Kind or Kind.group; without one all CRDs are    *)
(* selected.  filterCRDVersions: and without a version all their versions.   *)
MatchesKind(selector, crd) ==
    /\ selector.kind = Fold[crd.kind]
    /\ selector.group \in {"", Fold[crd.group]}

Selectors(l, crd) == {s \in DOMAIN l.kinds : MatchesKind(l.kinds[s], crd)}

SelectKinds(l) ==
    {n \in ExtractCRDs(l.manifest) : l.kinds = << >> \/ Selectors(l, l.manifest.objects[n]) # {}}

FilterVersions(l, crd) ==
    {i \in DOMAIN crd.versions : l.versions = {} \/ Fold[crd.versions[i].name] \in l.versions}

(* The selected versions: the places of the CRD and of the version in it.    *)
SelectCRDs(l) ==
    UNION {{n} \X FilterVersions(l, l.manifest.objects[n]) : n \in SelectKinds(l)}

CrdVersions(l) ==
    UNION {{Fold[crd.versions[i].name] : i \in NamedVersions(crd)} :
               crd \in {l.manifest.objects[n] : n \in SelectKinds(l)}}

(* Each selector finds something, and each CRD keeps a version. *)
Selects(l) ==
    /\ \A s \in DOMAIN l.kinds :
           /\ l.kinds[s].kind # ""
           /\ \E n \in ExtractCRDs(l.manifest) : MatchesKind(l.kinds[s], l.manifest.objects[n])
    /\ l.versions \subseteq CrdVersions(l)
    /\ \A n \in SelectKinds(l) : FilterVersions(l, l.manifest.objects[n]) # {}

(* convertCRD: a version has a name and a schema that can be converted.      *)
Converts(version) == version.name # "" /\ version.schema # "none"

(* versionCRD: and one that an API server takes. *)
Embeds(version) == version.schema = "structural"

(* removeSchemaProperty, of the status of the resource. *)
WithoutStatus(fields) == {p \in fields : p[1] # "status"}

(* preserveUnknownFieldsPaths: what the schema marks, below its definition.  *)
PreserveUnknownFieldsPaths(fields, marked) ==
    {<<"#">> \o p : p \in marked \cap (fields \cup {<< >>})}

(* structPath: where a struct is in CUE, the item of a list at an index.     *)
StructPath(p) == <<"#">> \o [n \in DOMAIN p |-> IF p[n] = "[_]" THEN "[0]" ELSE p[n]]

PreservePathMatches(preserved, current) ==
    /\ Len(current) <= Len(preserved)
    /\ \A n \in DOMAIN current :
           LET want == preserved[Len(preserved) - Len(current) + n]
           IN  want = current[n] \/ (want = "[_]" /\ current[n] = "[0]")

(* The first walk: the ellipsis that every struct has from the conversion    *)
(* stays where the schema marks it.                                          *)
WithEllipses(fields, marked) ==
    fields \cup {Append(p, "...") : p \in
        {q \in fields \cup {<< >>} : \E r \in PreserveUnknownFieldsPaths(fields, marked) :
                                       PreservePathMatches(r, StructPath(q))}}

(* The walk that moves the spec to a definition of its own stops at a spec   *)
(* or at metadata, and drops what is named status or info before it.         *)
Walked(p) == {n \in DOMAIN p : \A m \in 1..(n - 1) : p[m] \notin {"spec", "metadata"}}

(* The definitions: fields and ellipses, given by their paths.               *)
ConvertCRD(version) ==
    {p \in WithEllipses(WithoutStatus(version.fields), version.marked) :
        \A n \in Walked(p) : p[n] \notin {"status", "info"}}

VersionOf(l, d) == l.manifest.objects[d[1]].versions[d[2]]

Generates(l) == \A d \in SelectCRDs(l) : Converts(VersionOf(l, d)) /\ Embeds(VersionOf(l, d))

(* Importer.Generate: by group, singular name and version.                   *)
CrdKey(l, d) ==
    LET crd == l.manifest.objects[d[1]]
    IN  <<crd.group, Singular(crd), crd.versions[d[2]].name>>

(* The order of the definitions: CRDs in that of the first selector that     *)
(* picks them, and then in that of the manifest.                             *)
First(l, n) ==
    IF l.kinds = << >> THEN 0
    ELSE CHOOSE s \in Selectors(l, l.manifest.objects[n]) :
            \A t \in Selectors(l, l.manifest.objects[n]) : s <= t

Before(l, d, e) ==
    \/ First(l, d[1]) < First(l, e[1])
    \/ First(l, d[1]) = First(l, e[1]) /\ d[1] < e[1]
    \/ d[1] = e[1] /\ d[2] < e[2]

(* A later version with the same key takes the place of an earlier one.      *)
LastOf(l, k) ==
    CHOOSE d \in SelectCRDs(l) :
        CrdKey(l, d) = k /\ \A e \in SelectCRDs(l) : CrdKey(l, e) = k => ~Before(l, d, e)

Generate(l) == [k \in {CrdKey(l, d) : d \in SelectCRDs(l)} |-> ConvertCRD(VersionOf(l, LastOf(l, k)))]

--------------------------------------------------------------------------------
VendorInit ==
    /\ line \in Lines
    /\ stage = "select"
    /\ generated = << >>
    /\ unwritten = {}
    /\ tree \in Trees
    /\ kept = tree
    /\ runs = 1
    /\ breaks = 0

(* The next run of the command. *)
Run ==
    /\ stage \in {"done", "failed", "listed"}
    /\ runs < MaxRuns
    /\ runs' = runs + 1
    /\ line' \in Lines
    /\ stage' = "select"
    /\ generated' = << >>
    /\ kept' = tree
    /\ UNCHANGED <<unwritten, tree, breaks>>

(* Everything up to the first write: no error changes a file. *)
Prepares(l) ==
    /\ ~(l.list /\ l.prune)
    /\ l.module \/ l.list
    /\ Readable(l.manifest)
    /\ WellFormed(l.manifest)
    /\ Selects(l)

Select ==
    /\ stage = "select"
    /\ \/ /\ Prepares(line) /\ ~line.list /\ Generates(line)
          /\ generated' = Generate(line)
          /\ unwritten' = DOMAIN generated'
          /\ stage' = "write"
       \/ /\ Prepares(line) /\ line.list
          /\ stage' = "listed"
          /\ UNCHANGED <<generated, unwritten>>
       \/ /\ Prepares(line) => ~line.list /\ ~Generates(line)
          /\ stage' = "failed"
          /\ UNCHANGED <<generated, unwritten>>
    /\ UNCHANGED <<line, tree, kept, runs, breaks>>

GenFile(key) == Append(key, "types_gen.cue")

Parents(key) == {SubSeq(key, 1, n) : n \in 1..3}

(* MkdirAll makes what is missing, and follows the links that it meets. *)
MkdirAll(t, key) ==
    [p \in DOMAIN t \cup Parents(key) |-> IF p \in DOMAIN t THEN t[p] ELSE Directory]

(* WriteFile writes to what a link leads to. *)
Linked(content) == [is |-> "link", def |-> content.def]

WriteFile(t, p, content) ==
    [q \in DOMAIN t \cup {p} |->
        IF q # p THEN t[q]
        ELSE IF p \in DOMAIN t /\ t[p].is = "link" THEN Linked(content) ELSE content]

(* One file, or an error that leaves directories or a part of the file; the  *)
(* order of the files is left open.                                          *)
WriteDefinitions ==
    /\ stage = "write"
    /\ \E k \in unwritten :
        \/ /\ tree' = WriteFile(MkdirAll(tree, k), GenFile(k), Definitions(generated[k]))
           /\ unwritten' = unwritten \ {k}
           /\ UNCHANGED <<stage, breaks>>
        \/ /\ breaks < MaxBreaks /\ breaks' = breaks + 1
           /\ tree' \in {tree, MkdirAll(tree, k), WriteFile(MkdirAll(tree, k), GenFile(k), Cut)}
           /\ unwritten' = {}
           /\ stage' = "failed"
    /\ UNCHANGED <<line, generated, kept, runs>>

Written ==
    /\ stage = "write"
    /\ unwritten = {}
    /\ stage' = IF line.prune THEN "prune" ELSE "done"
    /\ UNCHANGED <<line, generated, unwritten, tree, kept, runs, breaks>>

--------------------------------------------------------------------------------
(* pruneCRDs *)

(* Mutant: the groups of the selected CRDs. *)
GroupsSelected == {line.manifest.objects[n].group : n \in SelectKinds(line)}

(* The groups of the manifest, selected or not. *)
Groups == {line.manifest.objects[n].group : n \in ExtractCRDs(line.manifest)}

IsDir(p) == p \in DOMAIN tree /\ tree[p] = Directory

(* Mutant: the content of the file is not looked at. *)
IsPresent(p) == p \in DOMAIN tree

IsGeneratedByTimoni(p) == p \in DOMAIN tree /\ tree[p].is = "generated"

(* No link is followed. *)
Visited(p) == \A n \in 1..Len(p) : IsDir(SubSeq(p, 1, n))

KeyDirs == {p \in DOMAIN tree : Len(p) = 3 /\ p[1] \in Groups}

Stale == {k \in KeyDirs \ DOMAIN generated : Visited(k) /\ IsGeneratedByTimoni(GenFile(k))}

Empty(p, t) == \A q \in DOMAIN t : ~IsStrictPrefix(p, q)

Without(ps, t) == [p \in DOMAIN t \ ps |-> t[p]]

RemoveEmptyDir(p, t) == IF Empty(p, t) THEN Without({p}, t) ELSE t

PruneVersion ==
    /\ stage = "prune"
    /\ \E k \in Stale : tree' = RemoveEmptyDir(k, Without({GenFile(k)}, tree))
    /\ UNCHANGED <<line, stage, generated, unwritten, kept, runs, breaks>>

(* The directory of a kind goes after its versions, that of a group last.    *)
PruneDir ==
    /\ stage = "prune"
    /\ \E p \in DOMAIN tree :
        /\ Len(p) \in {1, 2} /\ p[1] \in Groups
        /\ Visited(p) /\ Empty(p, tree)
        /\ tree' = Without({p}, tree)
    /\ UNCHANGED <<line, stage, generated, unwritten, kept, runs, breaks>>

(* An error ends it; a file may be gone and its directory not. *)
PruneFails ==
    /\ stage = "prune"
    /\ breaks < MaxBreaks /\ breaks' = breaks + 1
    /\ stage' = "failed"
    /\ \/ UNCHANGED tree
       \/ \E k \in Stale : tree' = Without({GenFile(k)}, tree)
    /\ UNCHANGED <<line, generated, unwritten, kept, runs>>

Pruned ==
    /\ stage = "prune"
    /\ Stale = {}
    /\ \A p \in DOMAIN tree : Len(p) \in {1, 2} /\ p[1] \in Groups /\ Visited(p) => ~Empty(p, tree)
    /\ stage' = "done"
    /\ UNCHANGED <<line, generated, unwritten, tree, kept, runs, breaks>>

VendorStopped == stage \in {"done", "failed", "listed"} /\ UNCHANGED vendorVars

VendorNext ==
    \/ Run \/ Select \/ WriteDefinitions \/ Written
    \/ PruneVersion \/ PruneDir \/ PruneFails \/ Pruned \/ VendorStopped

VendorSpec == VendorInit /\ [][VendorNext]_vendorVars

--------------------------------------------------------------------------------
(***************************************************************************)
(* What the code promises.                                                 *)
(***************************************************************************)

InManifest(p) == \E n \in ExtractCRDs(line.manifest) : line.manifest.objects[n].group = p[1]

(* The versions that the command line asks for.                              *)
Wanted(d) ==
    LET crd == line.manifest.objects[d[1]]
    IN  /\ d[1] \in ExtractCRDs(line.manifest)
        /\ d[2] \in DOMAIN crd.versions
        /\ line.kinds = << >> \/ \E s \in DOMAIN line.kinds : MatchesKind(line.kinds[s], crd)
        /\ line.versions = {} \/ Fold[crd.versions[d[2]].name] \in line.versions

Asked ==
    {d \in UNION {{n} \X DOMAIN line.manifest.objects[n].versions : n \in ExtractCRDs(line.manifest)} :
        Wanted(d)}

(* What its schema says of it: unknown fields where it takes them, and no    *)
(* status or info outside of a spec or of metadata.                          *)
Lost(p) == \E n \in DOMAIN p : p[n] \in {"status", "info"} /\ \A m \in 1..(n - 1) : p[m] \notin {"spec", "metadata"}

Expected(version) ==
    {p \in version.fields \cup {Append(q, "...") : q \in version.marked} : ~Lost(p)}

Has(k) == \E d \in Asked : k = CrdKey(line, d) /\ tree[GenFile(k)].def = Expected(VersionOf(line, d))

(* A run that ends well leaves the definitions of each version that it       *)
(* selected, however earlier runs ended, and with --prune no others of the   *)
(* manifest's groups but behind links; one that is refused or lists changes  *)
(* nothing.  Its definitions take unknown fields where the schema does, and  *)
(* nowhere else.                                                             *)
VendorOutcome ==
    /\ stage = "done" =>
        /\ \A d \in Asked : GenFile(CrdKey(line, d)) \in DOMAIN tree /\ Has(CrdKey(line, d))
        /\ line.prune => \A k \in DOMAIN tree :
               Len(k) = 3 /\ InManifest(k) /\ Visited(k) /\ IsGeneratedByTimoni(GenFile(k)) => Has(k)
    /\ stage \in {"select", "listed"} => tree = kept
    /\ stage = "failed" /\ tree # kept => Prepares(line)

(* A file is removed only when timoni generated it, in a group of the        *)
(* manifest, under --prune and not through a link, and one is overwritten    *)
(* only by definitions of this run, or cut by a write that failed.           *)
PruneStep ==
    \A p \in DOMAIN tree :
        IF p \in DOMAIN tree'
        THEN tree'[p] # tree[p] =>
                 \E k \in DOMAIN generated : p = GenFile(k) /\ tree'[p].def \in {{}, generated[k]}
        ELSE /\ line.prune /\ InManifest(p)
             /\ \A n \in 1..(Len(p) - 1) : tree[SubSeq(p, 1, n)] = Directory
             /\ IF Len(p) = 4 THEN tree[p].is = "generated" /\ SubSeq(p, 1, 3) \notin DOMAIN generated
                ELSE tree[p] = Directory /\ \A q \in DOMAIN tree' : ~IsStrictPrefix(p, q)

(* A run removes nothing but what timoni has generated.                      *)
VendorPruneConfined == [][PruneStep]_vendorVars

================================================================================
