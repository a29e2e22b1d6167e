---------------------------- MODULE MCBundleUpdate ----------------------------
(***************************************************************************)
(* Bundles of two instances over two files: with versions of their own,    *)
(* with a shared version, with a shared version of which one instance is   *)
(* skipped, with an unset version that is pinned, and with groups that     *)
(* must be refused.                                                        *)
(***************************************************************************)
EXTENDS BundleUpdate

CONSTANTS i1, i2, r1, r2, f1, f2, l1, l2, l3, d1, d2

V(major, minor, pre) == [major |-> major, minor |-> minor, patch |-> 0, pre |-> pre]
Patch1 == [V(1, 0, 0) EXCEPT !.patch = 1]

Versions6 == {V(1, 0, 0), Patch1, V(1, 1, 1), V(1, 1, 0), V(2, 0, 1), V(2, 0, 0)}

FileOf3 == [l \in Literals |-> IF l = l2 THEN f1 ELSE f2]

Ref(r, version, digest, policies) ==
    [repository |-> r, versionLit |-> version, version |-> Latest,
     versionUnset |-> version = NoLiteral, digestLit |-> digest,
     policies |-> policies, skip |-> FALSE]

Series1 == [policy |-> "semver",
            constraint |-> [from |-> V(1, 0, 0), below |-> V(2, 0, 0), open |-> FALSE]]
DigestOnly == [policy |-> "digest"]

Two(a, b) == [i \in Instances |-> IF i = i1 THEN a ELSE b]

OwnVersions   == Two(Ref(r1, l1, l2, {}), Ref(r2, l3, NoLiteral, {Series1}))
SharedVersion == Two(Ref(r1, l1, l2, {Series1}), Ref(r1, l1, l3, {}))
SharedDigest  == Two(Ref(r1, l1, l2, {}), Ref(r1, l1, l2, {}))
PinnedLatest  == Two(Ref(r1, NoLiteral, l2, {}), Ref(r2, l1, l3, {DigestOnly}))
PinnedApart   == Two(Ref(r1, NoLiteral, l2, {}),
                     [Ref(r1, NoLiteral, l2, {}) EXCEPT !.version = V(1, 0, 0), !.versionUnset = FALSE])
TwoPolicies   == Two(Ref(r1, l1, NoLiteral, {Series1}), Ref(r1, l1, l2, {DigestOnly}))
TwoModules    == Two(Ref(r1, l1, NoLiteral, {}), Ref(r2, l1, NoLiteral, {}))
OneSkipped    == Two(Ref(r1, l1, NoLiteral, {Series1}), [Ref(r1, l1, l2, {Series1}) EXCEPT !.skip = TRUE])

Text(v, third) == [l \in Literals |-> IF l = l1 THEN v ELSE IF l = l2 THEN d1 ELSE third]

ManyBundles ==
    {[refs |-> OwnVersions,   text |-> Text(v, V(1, 1, 0))] : v \in {V(1, 0, 0), V(1, 1, 1), Latest}}
    \cup {[refs |-> b, text |-> Text(V(1, 0, 0), d2)] :
              b \in {SharedVersion, SharedDigest, PinnedLatest, PinnedApart, TwoPolicies, TwoModules, OneSkipped}}

All  == [v \in Names |-> d1]
Some == [v \in Names |-> IF v \in {V(1, 0, 0), V(1, 1, 1), V(2, 0, 1), Latest} THEN d1 ELSE NoDigest]

Published2 == {[r \in Repositories |-> tag] : tag \in {All, Some}}

================================================================================
