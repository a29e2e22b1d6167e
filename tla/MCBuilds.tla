-------------------------------- MODULE MCBuilds --------------------------------
(***************************************************************************)
(* From a module to manifests, one part in a behaviour: the fetch of       *)
(* modules, the copy of a local one, the values of a runtime, the build of *)
(* a bundle, the vendoring of CRDs.  The variables of a part that is not   *)
(* in it keep their value.                                                 *)
(***************************************************************************)
EXTENDS MCModuleFetch, RuntimeValues, FileCopy, BundleBuild, VendorCRD

--------------------------------------------------------------------------------
(* Values: two clusters of one group; a bundle of two files; two references, *)
(* of which the second reads a value that only one cluster has.              *)

Strings == {"x", "1", "true", "eA=="}

TypesAccept ==
    "string" :> Strings \cup {"a", "b", "g", "default"} @@ "number" :> {"1"}
    @@ "bool" :> {"true"} @@ "other" :> {}

Base64 == [v \in Strings |-> IF v = "eA==" THEN "x" ELSE v]

Cluster(name) == [name |-> name, group |-> "g"]
Unnamed == [name |-> "default", group |-> "default"]

ConfigMap == <<"v1", "ConfigMap", "ns", "cm">>
Secret    == <<"v1", "Secret", "ns", "s">>
Node      == <<"v1", "Node", "n">>

Reads ==
    LET Ref(query, optional, secret, fields) ==
            [query |-> query, optional |-> optional, secret |-> secret, fields |-> fields]
        Of(object) == <<"k8s">> \o object
    IN  {<< >>, <<Ref(Of(ConfigMap), TRUE, FALSE, "V" :> "v" @@ "N" :> "w")>>}
        \cup {<<Ref(Of(ConfigMap), o, FALSE, "V" :> "v" @@ "W" :> "w"),
                Ref(Of(Secret), p, TRUE, "W" :> "s")>> : o \in BOOLEAN, p \in BOOLEAN}
        \cup {<<Ref(q, TRUE, FALSE, "V" :> "v")>> :
                 q \in {Of(Node), Of(ConfigMap) \o <<"x">>, <<"k8s", "v1">>, <<"env">> \o Node}}

(* Cluster b has the config map or not, and neither secret nor node.         *)
OnClusters ==
    LET Laid(v, w, s, b) ==
            (<<"a", ConfigMap>> :> ("v" :> v @@ "w" :> w)) @@ (<<"a", Secret>> :> ("s" :> s))
            @@ (<<"a", Node>> :> ("v" :> v)) @@ (<<"default", ConfigMap>> :> ("v" :> v @@ "w" :> w))
            @@ IF b THEN <<"b", ConfigMap>> :> ("v" :> "1" @@ "w" :> "x") ELSE << >>
    IN  {Laid("1", "true", "eA==", TRUE), Laid("x", "struct", "1", FALSE),
         Laid("x", "true", "true", FALSE)}

BundleFiles ==
    LET Attribute(name, type, value) == [name |-> name, type |-> type, value |-> value]
        CUE(parses, fields) == [parses |-> parses, fields |-> fields]
    IN  {<<CUE(TRUE, <<Attribute("V", t, default), Attribute("W", u, "x")>>),
           CUE(parses, <<Attribute("N", "string", "x"), Attribute("none", "none", "x")>>)>>
            : t \in {"number", "bool", "other"}, u \in {"string", "bool"},
              default \in {"x", NoValue}, parses \in BOOLEAN}

RuntimePlans ==
    {p \in [kind : {"apply", "vet", "build", "runtime"}, valid : BOOLEAN,
            clusters : {<< >>, <<Cluster("a"), Cluster("b")>>},
            names : {{"a", "b", "default"}, {"a"}}, groups : {{"g", "default"}},
            fromEnv : BOOLEAN, env : {"V" :> "1" @@ "N" :> "1"}, offline : BOOLEAN,
            refs : Reads, objects : OnClusters, files : BundleFiles,
            instances : {"some", "empty", "missing"}] :
        /\ p.offline => p.kind = "vet" /\ ~p.fromEnv
        /\ ~p.valid => p.refs = << >> /\ p.instances = "some" /\ ~p.fromEnv
        /\ p.kind = "build" /\ p.clusters = << >> => "default" \in p.names
        /\ p.kind = "runtime" => ~p.fromEnv /\ p.instances = "some"
        /\ p.refs # << >> /\ Len(p.refs[1].query) # 5 => p.instances = "some" /\ p.names # {"a"}
        /\ p.instances # "some" => p.kind \in {"vet", "apply"} /\ p.names = {"a"}}

NoPlan ==
    /\ plan = << >> /\ pc = "none" /\ targets = {} /\ values = << >> /\ ref = 0
    /\ sources = << >> /\ at = << >> /\ err = FALSE /\ built = << >>

--------------------------------------------------------------------------------
(* Builds: two instances of one module or of two, whose CRDs differ.         *)

Manifest(kind, name, ns, conforms) ==
    [kind |-> kind, name |-> name, lower |-> "n", namespace |-> ns,
     meta |-> TRUE, defines |-> << >>, conforms |-> conforms]
Crd(schema) == [Manifest("CRD", "k", "", {}) EXCEPT !.lower = "k", !.defines = "K" :> schema]
Malformed == [Crd("s1") EXCEPT !.defines = Undecodable]

FirstSets ==
    LET One(obj) == <<[is |-> "object", objects |-> <<obj>>]>>
        Many(objs) == <<[is |-> "null", objects |-> << >>], [is |-> "list", objects |-> objs]>>
    IN  {<< << >> >>,
         <<One(Manifest("K", "n", "a", {"s1"})) \o One(Manifest("R", "N", "a", {})),
           One(Manifest("R", "n", "", {}))>>,
         <<One(Manifest("R", "N", "a", {})),
           Many(<<Manifest("R", "n", "b", {}), Manifest("K", "n", "", {"s1", "s2", "bad"})>>)>>,
         <<One(Crd("s2")) \o One(Manifest("K", "n", "a", {"s2"}))>>}

SecondSets ==
    {<< <<[is |-> "object", objects |-> <<obj>>]>> >> :
        obj \in {Manifest("K", "n", "a", {"s2"}), Manifest("K", "N", "a", {"s2"}),
                 Crd("s1"), Crd("bad"), Crd("none"), Malformed, Undecodable}}

PackageSets ==
    LET Pack(err_, evaluates, hidden, imports) ==
            [err |-> err_, evaluates |-> evaluates, hidden |-> hidden, imports |-> imports]
        Hidden(isCRD, objs) == [isCRD |-> isCRD, objects |-> objs]
        Own == Hidden(FALSE, << >>)
    IN  {"q1" :> Pack(FALSE, e, em, <<"q2", "q3">>) @@ "q2" :> Pack(FALSE, TRUE, em2, <<"q1", "q3">>)
         @@ "q3" :> Pack(x, TRUE, Own, << >>) :
            e \in BOOLEAN, em \in {Hidden(TRUE, <<Crd("s1")>>), Hidden(TRUE, << >>), Own},
            em2 \in {Hidden(TRUE, <<Crd("s2")>>), Own}, x \in BOOLEAN}

Rendered ==
    UNION {UNION {ToSet(item.objects) : item \in ToSet(FlattenSeq(sets))} : sets \in FirstSets \cup SecondSets}
    \cup {Crd("s1"), Crd("s2")}

(* Definitions come first; an upper case name comes before a lower case one. *)
Ordered ==
    LET Nth(x, order) == CHOOSE n \in DOMAIN order : order[n] = x
    IN  [m \in Rendered |->
            IF m = Undecodable THEN 0
            ELSE 16 * Nth(m.kind, <<"CRD", "R", "K">>) + 4 * Nth(m.namespace, <<"", "a", "b">>)
                 + Nth(m.name, <<"N", "k", "n">>)]

BundleLines ==
    {b \in [command : {"bundle build", "bundle apply"}, validate : BOOLEAN, toDir : BOOLEAN,
            limit : {1, 2}, dir : {<<"d1", "d2">>, <<"d1", "d1">>},
            compiles : {<<TRUE, TRUE>>, <<TRUE, FALSE>>},
            sets : {<<s, t>> : s \in FirstSets, t \in SecondSets}, packages : PackageSets,
            imports : {"d1" :> <<"q1">> @@ "d2" :> <<"q3", "q2">>}] :
        b.command = "bundle apply" => ~b.toDir /\ b.limit = 1}
    \cup [command : {"build", "mod vet"}, validate : BOOLEAN, toDir : {FALSE}, limit : {1},
          dir : {<<"d1">>}, compiles : {<<TRUE>>}, sets : {<<s>> : s \in FirstSets},
          packages : PackageSets, imports : {"d1" :> <<"q1">>}]

NoBuild ==
    /\ bundle = [command |-> "none"] /\ phase = "none" /\ next = 0 /\ worker = << >> /\ crds = << >>
    /\ objects = << >> /\ failed = FALSE /\ schemas = << >> /\ files = << >> /\ out = << >>

--------------------------------------------------------------------------------
(* Vendoring: manifests whose CRDs share a group, a name in another case, or *)
(* a version; directories with links, edited and empty ones.                 *)

LowerCase ==
    [n \in {"A", "a", "B", "b", "g", "h", "v1", "v2", "", ".."} |->
        CASE n = "A" -> "a" [] n = "B" -> "b" [] OTHER -> n]

CrdManifests ==
    LET Schema(name, schema, def) ==
            [name |-> name, schema |-> schema,
             fields |-> {<<def>>, <<"spec">>, <<"spec", "status">>, <<"spec", def>>,
                         <<"spec", "list">>, <<"spec", "list", "[_]">>,
                         <<"spec", "map">>, <<"spec", "map", "[string]">>,
                         <<"status">>, <<"status", def>>, <<def, "info">>},
             marked |-> IF name = "v1" THEN {<<"spec", "list", "[_]">>, <<"status">>}
                        ELSE {<< >>, <<"spec", "map", "[string]">>, <<def, "info">>}]
        Usable(name, def) == Schema(name, "structural", def)
        Defines(kind, group, singular, versions) ==
            [crd |-> TRUE, kind |-> kind, group |-> group, singular |-> singular, versions |-> versions]
    IN  {<<Defines("A", "g", "", <<Usable("v1", "1"), Usable("v2", "2")>>),
           Defines("B", "h", "b", <<Usable("v1", "3")>>)>>,
         <<Defines("A", "g", "", <<Usable("v1", "4")>>),
           Defines("B", "g", "a", <<Usable("v1", "5"), Schema("v2", "none", "")>>), [crd |-> FALSE]>>,
         <<Defines("A", "g", "", <<Usable("v1", "6"), Usable("", "")>>)>>,
         <<Defines("A", "g", "..", <<Usable("v1", "7")>>)>>,
         << >>, Broken}

VendorLines ==
    LET Local(m) == [objects |-> m, remote |-> FALSE, redirects |-> << >>, status |-> 0, size |-> 0]
        Remote == {[objects |-> CHOOSE m \in CrdManifests \ {Broken} : Len(m) = 1 /\ m[1].singular = "",
                    remote |-> TRUE,
                    redirects |-> <<r>>, status |-> s, size |-> n] :
                       r \in {"https", "http"}, s \in {200, 404}, n \in {2, 3}}
        Kind(kind, group) == [kind |-> kind, group |-> group]
    IN  {l \in [manifest : {Local(m) : m \in CrdManifests},
                kinds : {<< >>, <<Kind("a", "")>>, <<Kind("b", "h"), Kind("a", "")>>, <<Kind("c", "")>>},
                versions : {{}, {"v1"}}, list : {FALSE}, prune : BOOLEAN, module : {TRUE}] :
            ~l.prune => l.versions = {}}
        \cup [manifest : Remote, kinds : {<< >>}, versions : {{}}, list : BOOLEAN,
              prune : BOOLEAN, module : BOOLEAN]

(* "g" may hold a link to a directory elsewhere, "h" what the manifest does  *)
(* not name, beside a file of the user or an empty directory.                *)
Directories ==
    LET Entry(what) == [is |-> what, def |-> {}]
        Old == [is |-> "generated", def |-> {<<"old">>}]
        Laid(a, file, rest) ==
            <<"g">> :> Entry("dir") @@ <<"g", "a">> :> a @@ <<"g", "a", "v1">> :> Entry("dir")
            @@ <<"g", "a", "v1", "types_gen.cue">> :> file
            @@ <<"h">> :> Entry("dir") @@ <<"h", "b">> :> Entry("dir") @@ <<"h", "b", "v2">> :> Entry("dir")
            @@ <<"h", "b", "v2", "types_gen.cue">> :> Old @@ rest
    IN  {<< >>} \cup {Laid(a, file, rest) : a \in {Entry("dir"), Entry("link")},
                         file \in {Entry("text"), Entry("link"), Old},
                         rest \in {<< >>, <<"h", "b", "v2", "mine.cue">> :> Entry("text"),
                                  <<"h", "c">> :> Entry("dir")}}

NoDirectories == {"", ".."}

NoVendor ==
    /\ line = << >> /\ stage = "none" /\ generated = << >> /\ unwritten = {}
    /\ tree = << >> /\ kept = << >> /\ runs = 0 /\ breaks = 0

--------------------------------------------------------------------------------
(* Copies: "src" is copied to "tmp/dst"; "other" is a directory beside them. *)

SourceDir == <<"src">>
Tmp       == <<"tmp">>
Other     == <<"other">>
ToDst     == {<<"tmp", "dst">>}
In(path, name) == Append(path, name)

(* Nothing is ignored, the file "b", the directory "a".                      *)
IgnoreLists == {{}, {<< <<"b">>, FALSE>>}, {<< <<"a">>, TRUE>>}}

(* A file system is given by the entries at a few paths; without an entry a  *)
(* path is not there.                                                        *)
FileSystems ==
    LET None == [kind |-> "none", data |-> "", mode |-> "rw", to |-> << >>]
        Gone == <<"gone">>
        InA   == {None, File("x", "rw"), Dir("ro"), Pipe}
                     \cup {Link(t) : t \in {SourceDir, Other, Tmp, << >>, In(Other, "a"), Gone}}
        InB   == {None, File("y", "ro"), Dir("rw"), Link(In(SourceDir, "a")),
                  Link(Other), Link(<<"tmp", "dst">>)}
        InAA  == {None, File("z", "rw"), Link(SourceDir), Link(Other)}
        InO   == {None, File("u", "rw"), Link(In(SourceDir, "b"))}
        InDst == {None, Dir("rw")}
        InDA  == {None, File("v", "rw"), Link(In(SourceDir, "b")), Link(<<"tmp", "dst", "b">>)}
        Laid(a, b, aa, o, d, da) ==
            << >> :> Dir("rw") @@ SourceDir :> Dir("rw") @@ Other :> Dir("rw") @@ Tmp :> Dir("rw")
            @@ In(SourceDir, "a") :> a @@ In(SourceDir, "b") :> b @@ In(Other, "a") :> o
            @@ <<"src", "a", "a">> :> (IF a.kind = "dir" THEN aa ELSE None)
            @@ <<"tmp", "dst">> :> d @@ <<"tmp", "dst", "a">> :> (IF d.kind = "dir" THEN da ELSE None)
        Present(f) == [q \in {p \in DOMAIN f : f[p] # None} |-> f[q]]
        Alias == << >> :> Dir("rw") @@ SourceDir :> Dir("rw") @@ Tmp :> Link(SourceDir)
        (* The way to the destination: not there, a file, links, read-only. *)
        Way(tmp, d) == << >> :> Dir("rw") @@ SourceDir :> Dir("rw") @@ In(SourceDir, "b") :> File("y", "ro")
                       @@ Other :> Dir("rw") @@ Tmp :> tmp @@ <<"tmp", "dst">> :> d
        Ways == {Present(Way(Dir("rw"), d)) : d \in {File("v", "rw"), Link(Gone), Link(Other), Link(SourceDir)}}
                \cup {Present(Way(tmp, None)) : tmp \in {None, Dir("ro"), File("v", "rw"), Link(Other), Link(Gone)}}
        LinksEnd(f) == \A p \in DOMAIN f :
            f[p].kind = "link" /\ f[p].to \in DOMAIN f => f[f[p].to].kind # "link"
    IN  {Alias} \cup Ways \cup {f \in {Present(Laid(a, b, aa, o, d, da)) : a \in InA, b \in InB, aa \in InAA,
                                 o \in InO, d \in InDst, da \in InDA} : LinksEnd(f)}

NoCopy ==
    /\ fs = << >> /\ before = << >> /\ dst = << >> /\ root = << >> /\ follow = FALSE /\ skip = {}
    /\ stack = << >> /\ visiting = {} /\ entries = 0 /\ copy = "start"

--------------------------------------------------------------------------------
VARIABLE part

NoFetch == tag = [t \in Tags |-> d1] /\ cache = [l \in Layers |-> "absent"]

BuildsInit ==
    /\ Init
    /\ \/ part = "fetch"  /\ NoCopy /\ NoPlan /\ NoBuild /\ NoVendor
       \/ part = "copy"   /\ NoFetch /\ CopyInit /\ NoPlan /\ NoBuild /\ NoVendor
       \/ part = "values" /\ NoFetch /\ NoCopy /\ ValuesInit /\ NoBuild /\ NoVendor
       \/ part = "build"  /\ NoFetch /\ NoCopy /\ NoPlan /\ BuildInit /\ NoVendor
       \/ part = "vendor" /\ NoFetch /\ NoCopy /\ NoPlan /\ NoBuild /\ VendorInit

BuildsNext ==
    /\ UNCHANGED part
    /\ \/ part = "fetch"  /\ Next   /\ UNCHANGED <<copyVars, valueVars, buildVars, vendorVars>>
       \/ part = "copy"   /\ CopyNext /\ UNCHANGED <<vars, valueVars, buildVars, vendorVars>>
       \/ part = "values" /\ ValuesNext /\ UNCHANGED <<vars, copyVars, buildVars, vendorVars>>
       \/ part = "build"  /\ BuildNext /\ UNCHANGED <<vars, copyVars, valueVars, vendorVars>>
       \/ part = "vendor" /\ VendorNext /\ UNCHANGED <<vars, copyVars, valueVars, buildVars>>

BuildsSpec == BuildsInit /\ [][BuildsNext]_<<part, vars, copyVars, valueVars, buildVars, vendorVars>>

================================================================================
