-------------------------- MODULE BundleUpdateProofs --------------------------
(***************************************************************************)
(* Theorems about BundleUpdate, for every bundle, registry, level and      *)
(* number of failures, edits and pushes beside the command.                *)
(***************************************************************************)
EXTENDS BundleUpdate, TLAPS

Planning == {"plan", "list", "select", "resolve"}

(***************************************************************************)
(* References.                                                             *)
(***************************************************************************)

(* A literal that defines a version is none that defines a digest.           *)
Sorted(lits) ==
    \A i \in Instances :
        /\ refs[i].versionLit # NoLiteral => lits[refs[i].versionLit] \in Names
        /\ refs[i].digestLit # NoLiteral => lits[refs[i].digestLit] \in Digests

Kinds == Sorted(text) /\ Sorted(upd.loaded) /\ Sorted(upd.new)

(* Version w may be written for target i.                                    *)
Allowed(i, w) ==
    \/ w = Was(i)
    \/ Was(i) = Latest
    \/ /\ Older(Was(i), w)
       /\ Was(i).pre = 0 => w.pre = 0
       /\ GroupPolicies(KeyOf(i)) = {} =>
              /\ upd.level \in {"patch", "minor"} => w.major = Was(i).major
              /\ upd.level = "patch" => w.minor = Was(i).minor

Moves == \A i \in Targets : Allowed(i, Of(i))

(* The group in hand, what was listed for it and what was selected.          *)
InHand ==
    upd.pc \in {"list", "select", "resolve"} =>
        /\ upd.first \in Group(upd.key)
        /\ Policy(upd.key, upd.first).policy # "none"
        /\ refs[upd.first].versionLit = NoLiteral =>
               Policy(upd.key, upd.first).policy = "digest"
        /\ upd.pc = "select" => upd.list[Repository] \subseteq Names
        /\ upd.pc = "resolve" =>
               /\ Allowed(upd.first, upd.next)
               /\ refs[upd.first].versionLit = NoLiteral => upd.next = Was(upd.first)

(* Until a bundle is loaded nothing is changed, and one whose groups are not *)
(* sound is not changed at all.                                              *)
Sound ==
    /\ upd.pc \in Planning => ~GroupsRefused
    /\ upd.pc = "load" => upd.changed = {}
    /\ upd.changed # {} => ~GroupsRefused

TagsKnown == Published(tags) \subseteq tagged

UpdateInv == TypeOK /\ Kinds /\ Moves /\ InHand /\ Sound /\ TagsKnown /\ PinsFollow

(***************************************************************************)
(* Files.                                                                  *)
(***************************************************************************)

Same(f) == \A l \in LitsOf(f) : text[l] = upd.loaded[l]

(* What is neither broken nor edited is as it was loaded, unless the command *)
(* has written it and not restored it.                                       *)
Undisturbed ==
    \A f \in Files \ (torn \cup upd.unrestored \cup stale \cup late) :
        \/ f \notin upd.written
        \/ At("failed")
        \/ At("restore") /\ f \notin upd.left
        => Same(f)

(* An edit that came before its file was checked is there to be found, and a *)
(* file that is written has passed the check.                                *)
EditsFound ==
    /\ upd.pc \in Planning \cup {"load", "check"} => upd.written = {}
    /\ upd.pc = "load" => stale = {} /\ upd.loaded = text
    /\ upd.pc \in Planning => \A f \in stale : ~Same(f)
    /\ upd.pc = "check" => /\ upd.left \subseteq Changed /\ stale \cap Changed \subseteq upd.left
                           /\ \A f \in stale \cap upd.left : ~Same(f)
    /\ upd.pc = "write" => upd.left \subseteq Changed /\ stale \cap Changed = {}

FilesInv == TypeOK /\ Undisturbed /\ EditsFound /\ EditsKept

--------------------------------------------------------------------------------
(***************************************************************************)
(* Versions and groups.                                                    *)
(***************************************************************************)

(* What selectVersion returns is listed, and is the current version or a     *)
(* newer one that the policy admits.                                         *)
LEMMA SelectionBounds ==
    ASSUME NEW p, NEW v, NEW listing, NEW w \in Selection(p, v, listing)
    PROVE  /\ w \in listing
           /\ \/ w = v
              \/ /\ p.policy # "digest"
                 /\ v # Latest => Older(v, w)
                 /\ w \in Candidates(p.constraint, v, listing)
<1> DEFINE newest == Newest(Candidates(p.constraint, v, listing))
<1>1. \A x \in newest : x \in Candidates(p.constraint, v, listing) /\ x \in listing
  BY DEF Newest, Candidates
<1>2. CASE w \in {v} \cap listing
  BY <1>2
<1>3. CASE w \notin {v} \cap listing
  <2>1. p.policy # "digest"
    BY <1>3 DEF Selection
  <2>2. w \in newest /\ ~(v # Latest /\ \E x \in newest : ~Older(v, x))
    BY <1>3, <2>1 DEF Selection
  <2>3. QED
    BY <1>1, <2>1, <2>2
<1>4. QED
  BY <1>2, <1>3

(* A version within the constraint of a level keeps what the level says.     *)
LEMMA LevelBounds ==
    ASSUME NEW v \in SemVer, NEW w \in SemVer, NEW level \in Levels,
           Check(LevelConstraint(level, v), Core(w))
    PROVE  /\ level \in {"patch", "minor"} => w.major = v.major
           /\ level = "patch" => w.minor = v.minor
<1>1. /\ v.major \in Nat /\ v.minor \in Nat /\ v.patch \in Nat /\ v.pre \in Nat
      /\ w.major \in Nat /\ w.minor \in Nat /\ w.patch \in Nat /\ w.pre \in Nat
  BY DEF SemVer
<1> DEFINE x == Core(w)
<1>2. x.major = w.major /\ x.minor = w.minor /\ x.patch = w.patch /\ x.pre = 0
  BY DEF Core, SemVer
<1> HIDE DEF x
<1>3. ASSUME ~Older(x, v)
      PROVE  /\ w.major >= v.major
             /\ w.major = v.major => w.minor >= v.minor
  BY <1>1, <1>2, <1>3 DEF Older
<1>4. CASE level = "patch"
  <2>1. ~Older(x, v) /\ Older(x, Release(v.major, v.minor + 1))
    BY <1>4 DEF LevelConstraint, Check, x
  <2>2. w.major = v.major /\ w.minor = v.minor
    BY <1>1, <1>2, <1>3, <2>1 DEF Older, Release
  <2>3. QED
    BY <2>2
<1>5. CASE level = "minor"
  <2>1. ~Older(x, v) /\ Older(x, Release(v.major + 1, 0))
    BY <1>5 DEF LevelConstraint, Check, x
  <2>2. w.major = v.major
    BY <1>1, <1>2, <1>3, <2>1 DEF Older, Release
  <2>3. QED
    BY <1>5, <2>2
<1>6. QED
  BY <1>4, <1>5

LEMMA KeyType ==
    ASSUME TypeOK, NEW i \in Targets
    PROVE  i \in Instances /\ KeyOf(i) \in Literals /\ i \in Group(KeyOf(i))
BY DEF TypeOK, Targets, Skipped, KeyOf, Group, References

LEMMA VersionType ==
    ASSUME TypeOK, NEW lits, Sorted(lits), NEW i \in Instances
    PROVE  VersionIn(lits, i) \in Names
BY DEF TypeOK, Sorted, VersionIn, References

(* The members of a group with a version literal share it, and none of their *)
(* group does without.                                                       *)
LEMMA GroupLiterals ==
    ASSUME TypeOK, Kinds, NEW k, NEW i \in Group(k), NEW j \in Group(k)
    PROVE  /\ refs[i].versionLit # NoLiteral => refs[i].versionLit = k
           /\ refs[i].versionLit = refs[j].versionLit
<1>1. \A n \in Group(k) : refs[n].versionLit # NoLiteral => refs[n].versionLit = k
  BY DEF Group, KeyOf
<1>2. \A n \in Group(k) : n \in Instances /\ (refs[n].versionLit = NoLiteral =>
          refs[n].digestLit = k /\ refs[n].digestLit # NoLiteral)
  BY DEF Group, KeyOf, Targets, Skipped
<1>3. \A m, n \in Group(k) : refs[m].versionLit # NoLiteral => refs[n].versionLit # NoLiteral
  <2> SUFFICES ASSUME NEW m \in Group(k), NEW n \in Group(k),
                      refs[m].versionLit # NoLiteral, refs[n].versionLit = NoLiteral
               PROVE  FALSE
    OBVIOUS
  <2>1. text[k] \in Names /\ text[k] \in Digests
    BY <1>1, <1>2 DEF Kinds, Sorted
  <2>2. QED
    BY <2>1, DigestAssumption
<1>4. QED
  BY <1>1, <1>3

(* Literals of versions are none of digests.                                 *)
LEMMA LiteralsApart ==
    ASSUME Kinds, NEW i \in Instances, NEW j \in Instances,
           refs[i].versionLit # NoLiteral
    PROVE  refs[i].versionLit # refs[j].digestLit
<1>1. SUFFICES ASSUME refs[i].versionLit = refs[j].digestLit PROVE FALSE
  OBVIOUS
<1>2. text[refs[i].versionLit] \in Names \cap Digests
  BY <1>1 DEF Kinds, Sorted
<1>3. QED
  BY <1>2, DigestAssumption

(* The references do not change while a command runs.                        *)
LEMMA RefsFrame ==
    ASSUME refs' = refs
    PROVE  /\ Targets' = Targets
           /\ \A i \in Instances : KeyOf(i)' = KeyOf(i)
           /\ \A k : /\ Group(k)' = Group(k) /\ DigestLits(k)' = DigestLits(k)
                     /\ GroupPolicies(k)' = GroupPolicies(k)
           /\ GroupsRefused' <=> GroupsRefused
           /\ \A lits : Sorted(lits)' <=> Sorted(lits)
<1>1. Targets' = Targets
  BY DEF Targets, Skipped
<1>2. \A i : KeyOf(i)' = KeyOf(i)
  BY DEF KeyOf
<1>3. \A k : Group(k)' = Group(k)
  BY <1>1, <1>2 DEF Group
<1>4. \A k : DigestLits(k)' = DigestLits(k) /\ GroupPolicies(k)' = GroupPolicies(k)
  BY <1>3 DEF DigestLits, GroupPolicies
<1>5. GroupsRefused' <=> GroupsRefused
  BY <1>1, <1>2 DEF GroupsRefused
<1>6. QED
  BY <1>1, <1>2, <1>3, <1>4, <1>5 DEF Sorted

LEMMA LoadedFrame ==
    ASSUME refs' = refs, upd'.loaded = upd.loaded, upd'.level = upd.level
    PROVE  /\ \A i \in Instances : Was(i)' = Was(i)
           /\ \A i \in Instances : \A w : Allowed(i, w)' <=> Allowed(i, w)
           /\ \A k, i : Policy(k, i)' = Policy(k, i)
           /\ \A k, i : PolicyRefused(k, i)' <=> PolicyRefused(k, i)
<1>1. \A i : Was(i)' = Was(i)
  BY DEF Was, VersionIn
<1>2. \A i \in Instances : GroupPolicies(KeyOf(i))' = GroupPolicies(KeyOf(i))
  BY RefsFrame
<1>3. \A i \in Instances : \A w : Allowed(i, w)' <=> Allowed(i, w)
  BY <1>1, <1>2 DEF Allowed
<1>4. ASSUME NEW k, NEW i
      PROVE  LevelPolicy(k, i)' = LevelPolicy(k, i)
  <2>1. VersionIn(upd.loaded, i)' = VersionIn(upd.loaded, i)
    BY DEF VersionIn
  <2>2. upd'.level = upd.level /\ refs'[i] = refs[i]
    OBVIOUS
  <2>3. QED
    BY <2>1, <2>2, Zenon DEF LevelPolicy
<1>5. ASSUME NEW k, NEW i
      PROVE  Policy(k, i)' = Policy(k, i) /\ (PolicyRefused(k, i)' <=> PolicyRefused(k, i))
  <2>1. GroupPolicies(k)' = GroupPolicies(k)
    BY RefsFrame
  <2>2. Policy(k, i)' = Policy(k, i)
    <3> DEFINE AnyOf(S) == CHOOSE p \in S : TRUE
    <3>1. Policy(k, i) = IF GroupPolicies(k) = {} THEN LevelPolicy(k, i)
                         ELSE AnyOf(GroupPolicies(k))
      BY DEF Policy
    <3>2. Policy(k, i)' = IF GroupPolicies(k)' = {} THEN LevelPolicy(k, i)'
                          ELSE AnyOf(GroupPolicies(k)')
      BY DEF Policy
    <3> HIDE DEF AnyOf
    <3>3. QED
      BY <1>4, <2>1, <3>1, <3>2
  <2>3. PolicyRefused(k, i)' <=> PolicyRefused(k, i)
    BY <2>1 DEF PolicyRefused
  <2>4. QED
    BY <2>2, <2>3
<1>6. QED
  BY <1>1, <1>3, <1>5

--------------------------------------------------------------------------------
(***************************************************************************)
(* The change of a group.                                                  *)
(***************************************************************************)

LEMMA PlanFacts ==
    ASSUME TypeOK, Kinds, Moves, PinsFollow, ~GroupsRefused,
           upd.first \in Group(upd.key), NEW v \in Names, NEW d,
           Allowed(upd.first, v),
           refs[upd.first].versionLit = NoLiteral => v = Was(upd.first),
           DigestLits(upd.key) = {} \/ (d \in Digests /\ <<Repository, v, d>> \in tagged),
           Becomes(Plan(v, d)), UNCHANGED <<refs, text, tagged>>
    PROVE  upd' \in Memory /\ Kinds' /\ Moves' /\ PinsFollow' /\ upd'.pc = "plan"
<1> DEFINE k == upd.key
           versionLits == {refs[i].versionLit : i \in Group(k)} \ {NoLiteral}
           new == [l \in Literals |-> IF l \in versionLits THEN v
                                      ELSE IF l \in DigestLits(k) THEN d
                                      ELSE upd.new[l]]
<1>1. upd \in Memory /\ k \in Literals /\ Group(k) \subseteq Instances
  BY DEF TypeOK, Memory, Group, Targets
<1>2. versionLits \subseteq Literals /\ DigestLits(k) \subseteq Literals
  BY <1>1 DEF DigestLits, TypeOK, References
<1>3. new \in [Literals -> Values]
  BY <1>1, <1>2 DEF Memory, Values
<1>4. /\ upd'.pc = "plan" /\ upd'.new = new /\ upd'.loaded = upd.loaded
      /\ upd'.level = upd.level /\ upd' \in Memory
      /\ upd'.changed \subseteq upd.changed \cup versionLits \cup DigestLits(k)
  <2>1. CASE new = upd.new
    <3>1. upd' = [upd EXCEPT !.pc = "plan", !.skipped = @ \cup Group(k)]
      BY <2>1 DEF Becomes, Plan
    <3>2. QED
      BY <1>1, <2>1, <3>1 DEF Memory
  <2>2. CASE new # upd.new
    <3>1. upd' = [upd EXCEPT !.pc = "plan", !.new = new,
                             !.changed = @ \cup versionLits \cup DigestLits(k)]
      BY <2>2 DEF Becomes, Plan
    <3> HIDE DEF new, versionLits
    <3>2. QED
      BY <1>1, <1>2, <1>3, <3>1 DEF Memory
  <2>3. QED
    BY <2>1, <2>2
<1>5. \A i \in Instances : refs[i].versionLit \in versionLits =>
          refs[i].versionLit # NoLiteral /\ refs[i].versionLit \notin DigestLits(k)
  BY <1>1, LiteralsApart DEF DigestLits
<1>6. \A i \in Instances : refs[i].digestLit # NoLiteral => refs[i].digestLit \notin versionLits
  BY <1>1, LiteralsApart
<1>7. Sorted(new)
  <2>1. \A i \in Instances : refs[i].versionLit \in Literals \cup {NoLiteral}
                             /\ refs[i].digestLit \in Literals \cup {NoLiteral}
    BY DEF TypeOK, References
  <2>2. \A i \in Instances : refs[i].versionLit # NoLiteral =>
            refs[i].versionLit \notin DigestLits(k)
    BY <1>1, LiteralsApart DEF DigestLits
  <2>3. \A l \in DigestLits(k) : d \in Digests
    OBVIOUS
  <2>4. QED
    BY <1>6, <2>1, <2>2, <2>3 DEF Kinds, Sorted
<1> HIDE DEF new
<1>8. Kinds'
  BY <1>4, <1>7, RefsFrame DEF Kinds, Sorted
(* The group moves to v, and the others stay. *)
<1>9. ASSUME NEW i \in Group(k)
      PROVE  /\ Was(i) = Was(upd.first) \/ refs[i].versionLit = NoLiteral
             /\ refs[i].versionLit # NoLiteral => VersionIn(new, i) = v
             /\ refs[i].versionLit = NoLiteral => refs[upd.first].versionLit = NoLiteral
  BY <1>1, <1>2, GroupLiterals DEF Was, VersionIn, new
<1>10. ASSUME NEW i \in Targets \ Group(k)
       PROVE  VersionIn(new, i) = Of(i)
  <2>1. i \in Instances /\ KeyOf(i) # k
    BY DEF Targets, Group
  <2>2. refs[i].versionLit # NoLiteral => refs[i].versionLit \notin versionLits \cup DigestLits(k)
    <3>1. refs[i].versionLit # NoLiteral => refs[i].versionLit # k
      BY <2>1 DEF KeyOf
    <3>2. versionLits \subseteq {k}
      BY GroupLiterals
    <3>3. QED
      BY <1>1, <2>1, <3>1, <3>2, LiteralsApart DEF DigestLits
  <2>3. refs[i].versionLit # NoLiteral => refs[i].versionLit \in Literals
    BY <2>1 DEF TypeOK, References
  <2>4. QED
    BY <2>2, <2>3 DEF VersionIn, Of, new
<1>11. \A i \in Instances : Of(i)' = VersionIn(new, i) /\ Was(i)' = Was(i)
  BY <1>4, LoadedFrame DEF Of, VersionIn
<1>12. \A i \in Targets : Allowed(i, VersionIn(new, i))
  <2>1. ASSUME NEW i \in Group(k), refs[i].versionLit # NoLiteral
        PROVE  Allowed(i, v)
    <3>1. Was(i) = Was(upd.first) /\ KeyOf(i) = KeyOf(upd.first)
      BY <1>9, <2>1 DEF Group
    <3>2. QED
      BY <3>1 DEF Allowed
  <2>2. ASSUME NEW i \in Group(k), refs[i].versionLit = NoLiteral
        PROVE  Allowed(i, VersionIn(new, i))
    BY <2>2 DEF Allowed, Was, VersionIn
  <2>3. QED
    BY <1>9, <1>10, <2>1, <2>2 DEF Moves
<1>13. Moves'
  <2>1. Targets' = Targets /\ Targets \subseteq Instances
    BY RefsFrame DEF Targets
  <2>2. QED
    BY <1>4, <1>11, <1>12, <2>1, LoadedFrame DEF Moves
<1>14. PinsFollow'
  <2>1. Targets' = Targets /\ Targets \subseteq Instances
        /\ \A i \in Instances : Group(KeyOf(i))' = Group(KeyOf(i))
    BY RefsFrame DEF Targets
  <2>2. ASSUME NEW i \in Targets, refs[i].digestLit \in upd'.changed,
               \A j \in Group(KeyOf(i)) : Was(j) = Was(i)
        PROVE  <<refs[i].repository, VersionIn(new, i), new[refs[i].digestLit]>> \in tagged
    <3>1. i \in Instances /\ upd'.changed \subseteq Literals /\ refs[i].digestLit # NoLiteral
      BY <1>4, <2>2, LiteralAssumption DEF Targets, Memory
    <3>2. refs[i].digestLit \notin versionLits /\ refs[i].digestLit \in Literals
      BY <1>6, <2>2, <3>1
    <3>3. CASE i \in Group(k)
      <4>1. refs[i].digestLit \in DigestLits(k)
        BY <3>1, <3>3 DEF DigestLits
      <4>2. new[refs[i].digestLit] = d /\ <<Repository, v, d>> \in tagged
        BY <3>2, <4>1 DEF new
      <4>3. refs[i].repository = Repository
        BY <3>3 DEF Group, GroupsRefused, Repository
      <4>4. VersionIn(new, i) = v
        <5>1. CASE refs[i].versionLit = NoLiteral
          <6>1. KeyOf(i) = k
            BY <3>3 DEF Group
          <6>2. v = Was(i)
            BY <1>9, <2>2, <3>3, <5>1, <6>1
          <6>3. QED
            BY <5>1, <6>2 DEF Was, VersionIn
        <5>2. QED
          BY <1>9, <3>3, <5>1
      <4>5. QED
        BY <4>2, <4>3, <4>4
    <3>4. CASE i \notin Group(k)
      <4>1. refs[i].digestLit \notin DigestLits(k)
        <5>1. ASSUME NEW j \in Group(k), refs[j].digestLit = refs[i].digestLit
              PROVE  FALSE
          <6>1. j \in Targets /\ KeyOf(j) = k /\ KeyOf(i) # k
            BY <3>4 DEF Group
          <6>2. QED
            BY <3>1, <5>1, <6>1 DEF GroupsRefused
        <5>2. QED
          BY <5>1 DEF DigestLits
      <4>2. new[refs[i].digestLit] = upd.new[refs[i].digestLit]
        BY <3>2, <4>1 DEF new
      <4>3. refs[i].digestLit \in upd.changed
        BY <1>4, <2>2, <3>2, <4>1
      <4>4. VersionIn(new, i) = Of(i)
        BY <1>10, <3>4
      <4>5. QED
        BY <2>2, <4>2, <4>3, <4>4 DEF PinsFollow
    <3>5. QED
      BY <3>3, <3>4
  <2>3. ASSUME NEW i \in Targets
        PROVE  (refs[i].digestLit \in upd.changed /\ \A j \in Group(KeyOf(i)) : Was(j) = Was(i))'
               => (refs[i].digestLit \in upd'.changed /\ \A j \in Group(KeyOf(i)) : Was(j) = Was(i))
    <3>1. i \in Instances /\ Group(KeyOf(i)) \subseteq Instances
      BY DEF Targets, Group
    <3>2. QED
      BY <1>11, <2>1, <3>1
  <2>4. QED
    BY <1>4, <1>11, <2>1, <2>2, <2>3 DEF PinsFollow
<1>15. QED
  BY <1>4, <1>8, <1>13, <1>14

(* What is selected for the group in hand may be written.                    *)
LEMMA SelectedAllowed ==
    ASSUME UpdateInv, At("select"),
           NEW v \in Selection(Policy(upd.key, upd.first), Current, upd.list[Repository])
    PROVE  /\ v \in Names
           /\ Allowed(upd.first, v)
           /\ refs[upd.first].versionLit = NoLiteral => v = Was(upd.first)
<1> DEFINE k == upd.key
           i == upd.first
           p == Policy(k, i)
<1>1. /\ TypeOK /\ Kinds /\ i \in Group(k) /\ i \in Instances /\ KeyOf(i) = k
      /\ upd.list[Repository] \subseteq Names /\ p.policy # "none"
      /\ refs[i].versionLit = NoLiteral => p.policy = "digest"
  BY DEF UpdateInv, InHand, At, Group, Targets
<1>2. Current = Was(i) /\ Was(i) \in Names
  BY <1>1, VersionType DEF Current, Was, Kinds
<1>3. /\ v \in upd.list[Repository]
      /\ \/ v = Was(i)
         \/ /\ p.policy # "digest"
            /\ Was(i) # Latest => Older(Was(i), v)
            /\ v \in Candidates(p.constraint, Was(i), upd.list[Repository])
  BY <1>2, SelectionBounds
<1>4. v \in Names
  BY <1>1, <1>3
<1>5. refs[i].versionLit = NoLiteral => v = Was(i)
  BY <1>1, <1>3
<1>6. ASSUME v # Was(i), Was(i) # Latest
      PROVE  Allowed(i, v)
  <2>1. /\ Older(Was(i), v) /\ v # Latest
        /\ v.pre # 0 => Was(i).pre # 0
        /\ Check(p.constraint, Core(v))
    BY <1>3, <1>6 DEF Candidates
  <2>2. v \in SemVer /\ Was(i) \in SemVer
    BY <1>2, <1>4, <1>6, <2>1, VersionAssumption DEF Names
  <2>3. refs[i].versionLit # NoLiteral
    BY <1>5, <1>6
  <2>4. ASSUME GroupPolicies(k) = {}
        PROVE  /\ upd.level \in {"patch", "minor"} => v.major = Was(i).major
               /\ upd.level = "patch" => v.minor = Was(i).minor
    <3>1. p = LevelPolicy(k, i)
      BY <2>4 DEF Policy
    <3>2. upd.level # "none"
      <4>1. SUFFICES ASSUME upd.level = "none" PROVE FALSE
        OBVIOUS
      <4>2. LevelPolicy(k, i) = [policy |-> "none"]
        BY <4>1 DEF LevelPolicy
      <4>3. QED
        BY <1>1, <3>1, <4>2
    <3>3. LevelPolicy(k, i) =
              [policy |-> "semver", constraint |-> LevelConstraint(upd.level, Was(i))]
      BY <1>6, <2>3, <3>2 DEF LevelPolicy, Was
    <3>4. p.constraint = LevelConstraint(upd.level, Was(i))
      BY <3>1, <3>3
    <3>5. upd.level \in Levels
      BY <1>1 DEF TypeOK, Memory
    <3>6. QED
      BY <2>1, <2>2, <3>4, <3>5, LevelBounds
  <2>5. QED
    BY <1>1, <2>1, <2>4 DEF Allowed
<1>7. QED
  BY <1>4, <1>5, <1>6 DEF Allowed

(* Steps that change no planned version or digest.                           *)
LEMMA NothingPlanned ==
    ASSUME UpdateInv, refs' = refs,
           upd'.loaded = upd.loaded, upd'.new = upd.new, upd'.changed = upd.changed,
           upd'.level = upd.level, Sorted(text'), tagged \subseteq tagged'
    PROVE  Kinds' /\ Moves' /\ PinsFollow'
<1>1. Targets' = Targets /\ Targets \subseteq Instances
      /\ \A i \in Instances : Group(KeyOf(i))' = Group(KeyOf(i))
  BY RefsFrame DEF Targets
<1>2. \A i \in Instances : Was(i)' = Was(i) /\ Of(i)' = Of(i)
  BY LoadedFrame DEF Of, VersionIn
<1>3. Kinds'
  BY RefsFrame DEF Kinds, UpdateInv, Sorted
<1>4. Moves'
  BY <1>1, <1>2, LoadedFrame DEF Moves, UpdateInv
<1>5. ASSUME NEW i \in Targets,
             (refs[i].digestLit \in upd.changed /\ \A j \in Group(KeyOf(i)) : Was(j) = Was(i))'
      PROVE  (<<refs[i].repository, Of(i), upd.new[refs[i].digestLit]>> \in tagged)'
  <2>1. i \in Instances /\ Group(KeyOf(i)) \subseteq Instances
    BY DEF Targets, Group
  <2>2. refs[i].digestLit \in upd.changed /\ \A j \in Group(KeyOf(i)) : Was(j) = Was(i)
    BY <1>1, <1>2, <1>5, <2>1
  <2>3. <<refs[i].repository, Of(i), upd.new[refs[i].digestLit]>> \in tagged
    BY <2>2 DEF PinsFollow, UpdateInv
  <2>4. QED
    BY <1>2, <2>1, <2>3
<1>6. PinsFollow'
  BY <1>1, <1>5 DEF PinsFollow
<1>7. QED
  BY <1>3, <1>4, <1>6

--------------------------------------------------------------------------------
(***************************************************************************)
(* Every step keeps the invariant of the references.                       *)
(***************************************************************************)

Stages == Planning \cup {"load", "check", "write", "restore"} \cup Outcomes

LEMMA GotoType ==
    ASSUME NEW m \in Memory, NEW stage \in Stages
    PROVE  /\ Goto(m, stage) \in Memory /\ Goto(m, stage).pc = stage
           /\ Goto(m, stage).level = m.level /\ Goto(m, stage).loaded = m.loaded
           /\ Goto(m, stage).new = m.new /\ Goto(m, stage).changed = m.changed
           /\ Goto(m, stage).written = m.written /\ Goto(m, stage).left = m.left
           /\ Goto(m, stage).unrestored = m.unrestored
           /\ Goto(m, stage).key = m.key /\ Goto(m, stage).first = m.first
           /\ Goto(m, stage).list = m.list
BY DEF Goto, Memory, Stages, Planning

LEMMA FaultType ==
    ASSUME TypeOK, Inject \/ faults' = faults PROVE faults' \in 0..MaxFaults
BY BoundAssumption DEF TypeOK, Inject

(* Steps that plan nothing and leave the registry alone.                     *)
LEMMA StepKeeps ==
    ASSUME UpdateInv, UNCHANGED <<refs, tags, tagged, moves>>,
           upd' \in Memory, upd'.pc # "load", upd'.pc \in Planning => upd.pc \in Planning,
           upd'.loaded = upd.loaded, upd'.new = upd.new, upd'.changed = upd.changed,
           upd'.level = upd.level, text' \in [Literals -> Values], Sorted(text'),
           torn' \subseteq Files, stale' \subseteq Files, late' \subseteq Files,
           edits' \in 0..MaxEdits, Inject \/ faults' = faults,
           InHand'
    PROVE  UpdateInv'
<1>1. TypeOK'
  BY FaultType DEF UpdateInv, TypeOK
<1>2. Sound'
  BY RefsFrame DEF UpdateInv, Sound
<1>3. TagsKnown'
  BY DEF UpdateInv, TagsKnown, Published
<1>4. Kinds' /\ Moves' /\ PinsFollow'
  BY NothingPlanned
<1>5. QED
  BY <1>1, <1>2, <1>3, <1>4 DEF UpdateInv

(* ... and no file.                                                          *)
LEMMA WorldKept ==
    ASSUME UpdateInv, UNCHANGED world, Inject \/ faults' = faults,
           upd' \in Memory, upd'.pc # "load", upd'.pc \in Planning => upd.pc \in Planning,
           upd'.loaded = upd.loaded, upd'.new = upd.new, upd'.changed = upd.changed,
           upd'.level = upd.level, InHand'
    PROVE  UpdateInv'
BY StepKeeps DEF world, UpdateInv, TypeOK, Kinds

LEMMA LoadKeeps ==
    ASSUME UpdateInv, Load PROVE UpdateInv'
<1>1. upd \in Memory /\ TypeOK /\ upd.pc = "load" /\ Sorted(text)
  BY DEF UpdateInv, TypeOK, Load, At, Kinds
<1>2. UNCHANGED <<refs, text, torn, tags, tagged, stale, late, moves, edits, faults>>
  BY DEF Load, world
<1>3. CASE GroupsRefused
  <2>1. upd' = Goto(upd, "failed")
    BY <1>3 DEF Load, Becomes
  <2>2. InHand'
    BY <1>1, <2>1, GotoType DEF InHand, Stages, Outcomes
  <2>3. QED
    BY <1>1, <1>2, <2>1, <2>2, GotoType, WorldKept DEF world, Stages, Outcomes, Planning
<1>4. CASE ~GroupsRefused
  <2> DEFINE n == [upd EXCEPT !.pc = "plan", !.loaded = text, !.new = text,
                              !.todo = {KeyOf(i) : i \in Targets},
                              !.skipped = {i \in Instances : Skipped(i)}]
  <2>1. upd' = n
    BY <1>4 DEF Load, Becomes
  <2>2. /\ n.pc = "plan" /\ n.loaded = text /\ n.new = text /\ n.changed = upd.changed
        /\ n.level = upd.level
    BY <1>1 DEF Memory
  <2>3. n \in Memory
    <3>1. {KeyOf(i) : i \in Targets} \subseteq Literals
      BY <1>1, KeyType
    <3>2. text \in [Literals -> Values]
      BY <1>1 DEF TypeOK
    <3>3. QED
      BY <1>1, <3>1, <3>2 DEF Memory
  <2> HIDE DEF n
  <2>4. TypeOK'
    BY <1>1, <1>2, <2>1, <2>3 DEF TypeOK
  <2>5. Kinds' /\ InHand' /\ TagsKnown'
    BY <1>1, <1>2, <2>1, <2>2 DEF Kinds, Sorted, InHand, TagsKnown, Published, UpdateInv
  <2>6. Sound'
    BY <1>1, <1>2, <1>4, <2>1, <2>2, RefsFrame DEF Sound, UpdateInv
  <2>7. Moves'
    BY <2>1, <2>2 DEF Moves, Allowed, Of, Was
  <2>8. upd'.changed = {}
    BY <1>1, <2>1, <2>2 DEF UpdateInv, Sound
  <2>9. PinsFollow'
    BY <2>8 DEF PinsFollow
  <2>10. QED
    BY <2>4, <2>5, <2>6, <2>7, <2>9 DEF UpdateInv
<1>5. QED
  BY <1>3, <1>4

LEMMA NextGroupKeeps ==
    ASSUME UpdateInv, NextGroup PROVE UpdateInv'
<1>1. PICK k \in upd.todo : \E first \in Group(k) :
         LET p == Policy(k, first).policy
             m == [upd EXCEPT !.todo = @ \ {k}, !.key = k, !.first = first]
         IN  upd' = IF PolicyRefused(k, first) THEN Goto(m, "failed")
                    ELSE IF p = "none" \/ (p = "digest" /\ DigestLits(k) = {})
                    THEN [m EXCEPT !.skipped = @ \cup Group(k)]
                    ELSE IF m.list[refs[first].repository] = Unlisted
                    THEN Goto(m, "list") ELSE Goto(m, "select")
  BY DEF NextGroup, Becomes
<1>2. PICK first \in Group(k) :
         LET p == Policy(k, first).policy
             m == [upd EXCEPT !.todo = @ \ {k}, !.key = k, !.first = first]
         IN  upd' = IF PolicyRefused(k, first) THEN Goto(m, "failed")
                    ELSE IF p = "none" \/ (p = "digest" /\ DigestLits(k) = {})
                    THEN [m EXCEPT !.skipped = @ \cup Group(k)]
                    ELSE IF m.list[refs[first].repository] = Unlisted
                    THEN Goto(m, "list") ELSE Goto(m, "select")
  BY <1>1
<1> DEFINE p == Policy(k, first).policy
           m == [upd EXCEPT !.todo = @ \ {k}, !.key = k, !.first = first]
<1>3. upd \in Memory /\ TypeOK /\ Kinds /\ upd.pc = "plan" /\ UNCHANGED <<world, faults>>
  BY DEF UpdateInv, TypeOK, NextGroup, At
<1>4. k \in Literals /\ first \in Instances /\ Group(k) \subseteq Instances
  BY <1>3 DEF Memory, Group, Targets
<1>5. /\ m \in Memory /\ m.pc = "plan" /\ m.key = k /\ m.first = first /\ m.list = upd.list
      /\ m.loaded = upd.loaded /\ m.new = upd.new /\ m.changed = upd.changed
      /\ m.level = upd.level
  BY <1>3, <1>4 DEF Memory
<1> HIDE DEF m
<1>6. \/ upd' = Goto(m, "failed")
      \/ upd' = [m EXCEPT !.skipped = @ \cup Group(k)]
      \/ /\ ~PolicyRefused(k, first) /\ p # "none"
         /\ \/ upd' = Goto(m, "list")
            \/ upd' = Goto(m, "select") /\ upd.list[refs[first].repository] # Unlisted
  BY <1>2, <1>5 DEF m
<1>7. /\ upd' \in Memory /\ upd'.pc # "load"
      /\ upd'.loaded = upd.loaded /\ upd'.new = upd.new /\ upd'.changed = upd.changed
      /\ upd'.level = upd.level /\ upd'.first = first /\ upd'.key = k /\ upd'.list = upd.list
      /\ upd'.pc \in {"failed", "plan", "list", "select"}
  <2>1. CASE upd' = [m EXCEPT !.skipped = @ \cup Group(k)]
    BY <1>4, <1>5, <2>1 DEF Memory
  <2>2. ASSUME NEW stage \in {"failed", "list", "select"}, upd' = Goto(m, stage)
        PROVE  <1>7
    BY <1>5, <2>2, GotoType DEF Stages, Planning, Outcomes
  <2>3. QED
    BY <1>6, <2>1, <2>2
<1>8. ASSUME upd'.pc \in {"list", "select"}
      PROVE  ~PolicyRefused(k, first) /\ p # "none"
             /\ (upd'.pc = "select" => upd.list[refs[first].repository] # Unlisted)
  <2>1. CASE upd' = [m EXCEPT !.skipped = @ \cup Group(k)]
    BY <1>5, <1>8, <2>1 DEF Memory
  <2>2. CASE upd' = Goto(m, "failed")
    BY <1>5, <1>8, <2>2, GotoType DEF Stages, Outcomes
  <2>3. CASE upd' = Goto(m, "list")
    BY <1>5, <1>6, <1>8, <2>1, <2>2, <2>3, GotoType DEF Stages, Planning
  <2>4. QED
    BY <1>6, <2>1, <2>2, <2>3
(* What has no version literal is never moved by version. *)
<1>9. ASSUME ~PolicyRefused(k, first), p # "none", refs[first].versionLit = NoLiteral
      PROVE  p = "digest"
  <2>1. CASE GroupPolicies(k) = {}
    <3>1. Policy(k, first) = LevelPolicy(k, first)
      BY <2>1 DEF Policy
    <3>2. LevelPolicy(k, first) \in {[policy |-> "none"], [policy |-> "digest"]}
      BY <1>9 DEF LevelPolicy
    <3>3. QED
      BY <1>9, <3>1, <3>2
  <2>2. CASE GroupPolicies(k) # {}
    <3>1. Policy(k, first) \in GroupPolicies(k)
      BY <2>2 DEF Policy
    <3>2. GroupPolicies(k) \subseteq Policies
      BY <1>3, <1>4 DEF GroupPolicies, TypeOK, References
    <3>3. p \in {"semver", "digest", "none"}
      BY <3>1, <3>2 DEF Policies
    <3>4. p # "semver"
      BY <1>9, <3>1 DEF PolicyRefused
    <3>5. QED
      BY <1>9, <3>3, <3>4
  <2>3. QED
    BY <2>1, <2>2
<1>10. refs' = refs
  BY <1>3 DEF world
<1>11. ASSUME upd'.pc \in {"list", "select"}
       PROVE  (/\ upd.first \in Group(upd.key)
               /\ Policy(upd.key, upd.first).policy # "none"
               /\ refs[upd.first].versionLit = NoLiteral =>
                      Policy(upd.key, upd.first).policy = "digest"
               /\ upd.pc = "select" => upd.list[Repository] \subseteq Names)'
  <2>1. Group(k)' = Group(k) /\ Policy(k, first)' = Policy(k, first)
    BY <1>7, <1>10, RefsFrame, LoadedFrame
  <2>2. upd'.pc = "select" => upd.list[refs[first].repository] \in SUBSET Names
    BY <1>3, <1>4, <1>8, <1>11 DEF Memory, TypeOK, References
  <2>3. QED
    BY <1>7, <1>8, <1>9, <1>10, <1>11, <2>1, <2>2 DEF Repository
<1>12. InHand'
  BY <1>7, <1>11 DEF InHand
<1>13. QED
  BY <1>3, <1>7, <1>12, WorldKept DEF Planning

(* The group in hand stays the one it was.                                   *)
LEMMA HandKept ==
    ASSUME UpdateInv, upd.pc \in {"list", "select", "resolve"}, refs' = refs,
           upd'.loaded = upd.loaded, upd'.level = upd.level,
           upd'.key = upd.key, upd'.first = upd.first
    PROVE  /\ (/\ upd.first \in Group(upd.key)
               /\ Policy(upd.key, upd.first).policy # "none"
               /\ refs[upd.first].versionLit = NoLiteral =>
                      Policy(upd.key, upd.first).policy = "digest")'
           /\ Repository' = Repository
<1>1. /\ upd.first \in Group(upd.key)
      /\ Policy(upd.key, upd.first).policy # "none"
      /\ refs[upd.first].versionLit = NoLiteral =>
             Policy(upd.key, upd.first).policy = "digest"
  BY DEF UpdateInv, InHand
<1>2. \A k, i : Group(k)' = Group(k) /\ Policy(k, i)' = Policy(k, i)
  BY RefsFrame, LoadedFrame
<1>3. QED
  BY <1>1, <1>2 DEF Repository

LEMMA ListKeeps ==
    ASSUME UpdateInv, ListVersions \/ LatestUnread PROVE UpdateInv'
<1>1. PICK L \in SUBSET Names :
          upd' = [upd EXCEPT !.pc = "select", !.list = [@ EXCEPT ![Repository] = L]]
  BY DEF ListVersions, LatestUnread, Becomes, Listed
<1>2. /\ upd \in Memory /\ upd.pc = "list" /\ UNCHANGED world
      /\ Inject \/ faults' = faults
  BY DEF UpdateInv, TypeOK, ListVersions, LatestUnread, At
<1>3. Repository \in Repositories
  BY <1>2 DEF UpdateInv, TypeOK, Memory, Repository, References
<1> DEFINE list == [upd.list EXCEPT ![Repository] = L]
           n == [upd EXCEPT !.pc = "select", !.list = list]
<1>4. list \in [Repositories -> (SUBSET Names) \cup {Unlisted}] /\ list[Repository] = L
  BY <1>2, <1>3 DEF Memory
<1>5. upd' = n
  BY <1>1
<1> HIDE DEF list
<1>6. /\ n \in Memory /\ n.pc = "select" /\ n.list = list /\ n.key = upd.key
      /\ n.first = upd.first /\ n.loaded = upd.loaded /\ n.new = upd.new
      /\ n.changed = upd.changed /\ n.level = upd.level
  BY <1>2, <1>4 DEF Memory
<1> HIDE DEF n
<1>7. refs' = refs
  BY <1>2 DEF world
<1>8. InHand'
  BY <1>2, <1>4, <1>5, <1>6, <1>7, HandKept DEF InHand
<1>9. QED
  BY <1>2, <1>5, <1>6, <1>8, WorldKept DEF Planning

(* The current group is planned.                                             *)
LEMMA PlanKeeps ==
    ASSUME UpdateInv, upd.pc \in Planning, upd.first \in Group(upd.key),
           NEW v \in Names, NEW d, Allowed(upd.first, v),
           refs[upd.first].versionLit = NoLiteral => v = Was(upd.first),
           DigestLits(upd.key) = {} \/ (d \in Digests /\ <<Repository, v, d>> \in tagged),
           Becomes(Plan(v, d)), UNCHANGED <<world, faults>>
    PROVE  UpdateInv'
<1>1. UNCHANGED <<refs, text, torn, tags, tagged, stale, late, moves, edits, faults>>
  BY DEF world
<1>2. ~GroupsRefused /\ TypeOK /\ Kinds /\ Moves /\ PinsFollow
  BY DEF UpdateInv, Sound
<1>3. upd' \in Memory /\ Kinds' /\ Moves' /\ PinsFollow' /\ upd'.pc = "plan"
  BY <1>1, <1>2, PlanFacts
<1>4. TypeOK'
  BY <1>1, <1>2, <1>3 DEF TypeOK
<1>5. Sound' /\ InHand' /\ TagsKnown'
  BY <1>1, <1>2, <1>3, RefsFrame DEF Sound, InHand, TagsKnown, Published, UpdateInv
<1>6. QED
  BY <1>3, <1>4, <1>5 DEF UpdateInv

(* An error is noted and the next group is planned.                          *)
LEMMA ErrorKeeps ==
    ASSUME UpdateInv, upd.pc \in Planning, UNCHANGED world, Inject \/ faults' = faults,
           upd' = [upd EXCEPT !.pc = "plan", !.erred = TRUE]
    PROVE  UpdateInv'
<1>1. upd \in Memory
  BY DEF UpdateInv, TypeOK
<1>2. /\ upd' \in Memory /\ upd'.pc = "plan" /\ upd'.loaded = upd.loaded
      /\ upd'.new = upd.new /\ upd'.changed = upd.changed /\ upd'.level = upd.level
  BY <1>1 DEF Memory
<1>3. InHand'
  BY <1>2 DEF InHand
<1>4. QED
  BY <1>2, <1>3, WorldKept

LEMMA SelectKeeps ==
    ASSUME UpdateInv, SelectVersion PROVE UpdateInv'
<1> DEFINE chosen == Selection(Policy(upd.key, upd.first), Current, upd.list[Repository])
<1>1. upd \in Memory /\ upd.pc = "select" /\ At("select") /\ UNCHANGED <<world, faults>>
      /\ upd.first \in Group(upd.key)
  BY DEF UpdateInv, TypeOK, SelectVersion, At, InHand
<1>2. CASE chosen = {}
  BY <1>1, <1>2, ErrorKeeps DEF SelectVersion, Becomes, Planning
<1>3. CASE chosen # {}
  <2>1. PICK v \in chosen :
            Becomes(IF DigestLits(upd.key) = {} THEN Plan(v, NoDigest)
                    ELSE [upd EXCEPT !.pc = "resolve", !.next = v])
    BY <1>3 DEF SelectVersion
  <2>2. /\ v \in Names /\ Allowed(upd.first, v)
        /\ refs[upd.first].versionLit = NoLiteral => v = Was(upd.first)
    BY <1>1, SelectedAllowed
  <2>3. CASE DigestLits(upd.key) = {}
    BY <1>1, <2>1, <2>2, <2>3, PlanKeeps DEF Planning
  <2>4. CASE DigestLits(upd.key) # {}
    <3>1. upd' = [upd EXCEPT !.pc = "resolve", !.next = v]
      BY <2>1, <2>4 DEF Becomes
    <3>2. /\ upd' \in Memory /\ upd'.pc = "resolve" /\ upd'.next = v /\ upd'.key = upd.key
          /\ upd'.first = upd.first /\ upd'.loaded = upd.loaded /\ upd'.new = upd.new
          /\ upd'.changed = upd.changed /\ upd'.level = upd.level
      BY <1>1, <2>2, <3>1 DEF Memory
    <3>3. refs' = refs /\ upd.first \in Instances
      BY <1>1 DEF world, Memory
    <3>4. Allowed(upd.first, v)' /\ Was(upd.first)' = Was(upd.first)
      BY <2>2, <3>2, <3>3, LoadedFrame
    <3>5. InHand'
      BY <1>1, <2>2, <3>2, <3>3, <3>4, HandKept DEF InHand
    <3>6. QED
      BY <1>1, <3>2, <3>5, WorldKept DEF Planning
  <2>5. QED
    BY <2>3, <2>4
<1>4. QED
  BY <1>2, <1>3

LEMMA ResolveKeeps ==
    ASSUME UpdateInv, ResolveDigest PROVE UpdateInv'
<1> DEFINE d == tags[Repository][upd.next]
<1>1. /\ upd \in Memory /\ upd.pc = "resolve" /\ UNCHANGED <<world, faults>>
      /\ upd.first \in Group(upd.key) /\ Allowed(upd.first, upd.next)
      /\ refs[upd.first].versionLit = NoLiteral => upd.next = Was(upd.first)
  BY DEF UpdateInv, TypeOK, ResolveDigest, At, InHand
<1>2. CASE d = NoDigest
  BY <1>1, <1>2, ErrorKeeps DEF ResolveDigest, Becomes, Planning
<1>3. CASE d # NoDigest
  <2>1. Repository \in Repositories /\ upd.next \in Names /\ upd.first \in Instances
    BY <1>1 DEF UpdateInv, TypeOK, Memory, Repository, References
  <2>2. d \in Digests
    BY <1>3, <2>1 DEF UpdateInv, TypeOK
  <2>3. <<Repository, upd.next, d>> \in tagged
    BY <2>1, <2>2 DEF UpdateInv, TagsKnown, Published
  <2>4. Becomes(Plan(upd.next, d))
    BY <1>3 DEF ResolveDigest
  <2>5. QED
    BY <1>1, <2>1, <2>2, <2>3, <2>4, PlanKeeps DEF Planning
<1>4. QED
  BY <1>2, <1>3

(* A command that has left the planning behind, or ends, has no group in     *)
(* hand.                                                                     *)
LEMMA PastPlanning ==
    ASSUME UpdateInv, UNCHANGED <<refs, tags, tagged, moves>>,
           upd' \in Memory, upd'.pc \in {"check", "write", "restore"} \cup Outcomes,
           upd'.loaded = upd.loaded, upd'.new = upd.new, upd'.changed = upd.changed,
           upd'.level = upd.level, text' \in [Literals -> Values], Sorted(text'),
           torn' \subseteq Files, stale' = stale, late' = late, edits' = edits,
           Inject \/ faults' = faults
    PROVE  UpdateInv'
<1>1. InHand'
  BY DEF InHand, Outcomes
<1>2. QED
  BY <1>1, StepKeeps DEF UpdateInv, TypeOK, Outcomes, Planning

(* The steps that check, write and restore plan nothing.                     *)
Loops ==
    /\ upd' \in Memory /\ upd'.pc \in {"check", "write", "restore"} \cup Outcomes
    /\ upd'.loaded = upd.loaded /\ upd'.new = upd.new
    /\ upd'.changed = upd.changed /\ upd'.level = upd.level

LEMMA LoopMemory ==
    ASSUME TypeOK,
           \/ CheckFile \/ WriteFile \/ RestoreFile \/ WriteFails \/ RestoreFails
           \/ Planned \/ Fails \/ Kill
    PROVE  Loops
<1>1. upd \in Memory /\ Changed \subseteq Files
  BY LiteralAssumption DEF TypeOK, Memory, Changed
<1>2. ASSUME NEW stage \in {"failed", "done", "killed"}, upd' = Goto(upd, stage)
      PROVE  Loops
  BY <1>1, <1>2, GotoType DEF Loops, Stages, Outcomes
<1>3. CASE CheckFile
  <2>1. PICK f \in upd.left :
            upd' = IF ~AsLoaded(f) THEN Goto(upd, "failed")
                   ELSE IF upd.left # {f} THEN [upd EXCEPT !.left = @ \ {f}]
                   ELSE [upd EXCEPT !.pc = "write", !.left = Changed]
    BY <1>3 DEF CheckFile, Becomes
  <2>2. upd.pc = "check"
    BY <1>3 DEF CheckFile, At
  <2>3. QED
    BY <1>1, <1>2, <2>1, <2>2 DEF Memory, Loops
<1>4. CASE WriteFile
  <2>1. PICK f \in upd.left :
            upd' = [upd EXCEPT !.left = @ \ {f}, !.written = @ \cup {f},
                               !.pc = IF upd.left = {f} THEN "done" ELSE @]
    BY <1>4 DEF WriteFile, Becomes
  <2>2. upd.pc = "write"
    BY <1>4 DEF WriteFile, At
  <2>3. QED
    BY <1>1, <2>1, <2>2 DEF Memory, Loops, Outcomes
<1>5. CASE RestoreFile
  <2>1. PICK f \in upd.left :
            upd' = [upd EXCEPT !.left = @ \ {f},
                               !.pc = IF upd.left = {f} THEN "failed" ELSE @]
    BY <1>5 DEF RestoreFile, Becomes
  <2>2. upd.pc = "restore"
    BY <1>5 DEF RestoreFile, At
  <2>3. QED
    BY <1>1, <2>1, <2>2 DEF Memory, Loops, Outcomes
<1>6. CASE WriteFails
  BY <1>1, <1>2, <1>6 DEF WriteFails, Becomes, Memory, Loops
<1>7. CASE RestoreFails
  <2>1. PICK f \in upd.left :
            upd' = [upd EXCEPT !.left = @ \ {f}, !.unrestored = @ \cup {f},
                               !.pc = IF upd.left = {f} THEN "failed" ELSE @]
    BY <1>7 DEF RestoreFails, Becomes
  <2>2. upd.pc = "restore"
    BY <1>7 DEF RestoreFails, At
  <2>3. QED
    BY <1>1, <2>1, <2>2 DEF Memory, Loops, Outcomes
<1>8. CASE Planned
  BY <1>1, <1>2, <1>8 DEF Planned, Becomes, Memory, Loops
<1>9. CASE Fails \/ Kill
  BY <1>2, <1>9 DEF Fails, Kill, Becomes
<1>10. QED
  BY <1>3, <1>4, <1>5, <1>6, <1>7, <1>8, <1>9

LEMMA WriteType ==
    ASSUME TypeOK, Sorted(text), NEW f \in Files, NEW lits \in [Literals -> Values],
           Sorted(lits), Write(f, lits)
    PROVE  text' \in [Literals -> Values] /\ Sorted(text') /\ torn' \subseteq Files
<1>1. \A l \in Literals : text'[l] = lits[l] \/ text'[l] = text[l]
  BY DEF Write
<1>2. text' \in [Literals -> Values] /\ torn' \subseteq Files
  BY DEF Write, TypeOK
<1>3. \A i \in Instances : refs[i].versionLit \in Literals \cup {NoLiteral}
                           /\ refs[i].digestLit \in Literals \cup {NoLiteral}
  BY DEF TypeOK, References
<1>4. QED
  BY <1>1, <1>2, <1>3 DEF Sorted

LEMMA LoopKeeps ==
    ASSUME UpdateInv,
           \/ CheckFile \/ WriteFile \/ RestoreFile \/ WriteFails \/ RestoreFails
           \/ Planned \/ Fails \/ Kill
    PROVE  UpdateInv'
<1>1. TypeOK /\ Sorted(text) /\ Sorted(upd.loaded) /\ Sorted(upd.new) /\ upd \in Memory
      /\ upd.left \subseteq Files
  BY DEF UpdateInv, Kinds, TypeOK, Memory
<1>2. Loops
  BY <1>1, LoopMemory
<1>3. /\ UNCHANGED <<refs, tags, tagged, moves, stale, late, edits>>
      /\ Inject \/ faults' = faults
  BY DEF CheckFile, WriteFile, RestoreFile, WriteFails, RestoreFails, Planned, Fails, Kill,
     Break, world
<1>4. text' \in [Literals -> Values] /\ Sorted(text') /\ torn' \subseteq Files
  <2>1. CASE UNCHANGED world
    BY <1>1, <2>1 DEF world, TypeOK
  <2>2. ASSUME NEW f \in Files, Break(f)
        PROVE  <1>4
    BY <1>1, <2>2 DEF Break, TypeOK
  <2>3. ASSUME NEW f \in Files, Write(f, upd.new) \/ Write(f, upd.loaded)
        PROVE  <1>4
    BY <1>1, <2>3, WriteType DEF Memory
  <2>4. QED
    BY <1>1, <2>1, <2>2, <2>3 DEF CheckFile, WriteFile, RestoreFile, WriteFails,
       RestoreFails, Planned, Fails, Kill
<1>5. QED
  BY <1>2, <1>3, <1>4, PastPlanning DEF Loops

LEMMA PushKeeps ==
    ASSUME UpdateInv, Push PROVE UpdateInv'
<1>1. TypeOK /\ UNCHANGED <<refs, text, torn, upd, stale, late, edits, faults>>
  BY DEF UpdateInv, Push
<1>2. /\ tags' \in [Repositories -> [Names -> Digests \cup {NoDigest}]]
      /\ moves' \in 0..MaxMoves /\ tagged' = tagged \cup Published(tags')
  BY <1>1, BoundAssumption DEF Push, TypeOK
<1>3. Published(tags') \subseteq Repositories \X Names \X Digests
  BY DEF Published
<1>4. TypeOK'
  BY <1>1, <1>2, <1>3 DEF TypeOK
<1>5. Kinds' /\ Moves' /\ PinsFollow'
  BY <1>1, <1>2, NothingPlanned DEF UpdateInv, Kinds
<1>6. Sound'
  BY <1>1, RefsFrame DEF UpdateInv, Sound
<1>7. TagsKnown'
  BY <1>2 DEF TagsKnown, Published
<1>8. InHand'
  <2>1. Policy(upd.key, upd.first)' = Policy(upd.key, upd.first)
        /\ Group(upd.key)' = Group(upd.key) /\ Repository' = Repository
    BY <1>1, RefsFrame, LoadedFrame DEF Repository
  <2>2. upd.pc = "resolve" => /\ Allowed(upd.first, upd.next)' <=> Allowed(upd.first, upd.next)
                              /\ Was(upd.first)' = Was(upd.first)
    <3>1. upd.first \in Instances
      BY <1>1 DEF TypeOK, Memory
    <3>2. QED
      BY <1>1, <3>1, LoadedFrame
  <2>3. QED
    BY <1>1, <2>1, <2>2 DEF UpdateInv, InHand
<1>9. QED
  BY <1>4, <1>5, <1>6, <1>7, <1>8 DEF UpdateInv

(* An editor puts a version where a version was and a digest where a digest  *)
(* was.                                                                      *)
LEMMA EditKeeps ==
    ASSUME UpdateInv, Edit PROVE UpdateInv'
<1>1. TypeOK /\ UNCHANGED <<refs, torn, tags, tagged, upd, moves, faults>> /\ upd.pc # "load"
      /\ upd \in Memory
  BY DEF UpdateInv, TypeOK, Edit
<1>2. PICK l \in Literals :
         /\ \E x \in IF text[l] \in Names THEN Names ELSE Digests :
                x # text[l] /\ text' = [text EXCEPT ![l] = x]
         /\ stale' \in {stale, stale \ {FileOf[l]}, stale \cup {FileOf[l]}}
         /\ late' \in {late, late \cup {FileOf[l]}}
  BY DEF Edit
<1>3. FileOf[l] \in Files
  BY LiteralAssumption
<1>4. text' \in [Literals -> Values]
  BY <1>1, <1>2 DEF TypeOK, Values
<1>5. \A k \in Literals : /\ text[k] \in Names => text'[k] \in Names
                          /\ text[k] \in Digests => text'[k] \in Digests
  BY <1>1, <1>2, DigestAssumption DEF TypeOK
<1>6. Sorted(text')
  <2>1. \A i \in Instances : refs[i].versionLit \in Literals \cup {NoLiteral}
                             /\ refs[i].digestLit \in Literals \cup {NoLiteral}
    BY <1>1 DEF TypeOK, References
  <2>2. QED
    BY <1>5, <2>1 DEF UpdateInv, Kinds, Sorted
<1>7. stale' \subseteq Files /\ late' \subseteq Files /\ edits' \in 0..MaxEdits
  BY <1>1, <1>2, <1>3, BoundAssumption DEF TypeOK, Edit
<1>8. InHand'
  <2>1. Policy(upd.key, upd.first)' = Policy(upd.key, upd.first)
        /\ Group(upd.key)' = Group(upd.key) /\ Repository' = Repository
    BY <1>1, RefsFrame, LoadedFrame DEF Repository
  <2>2. /\ Allowed(upd.first, upd.next)' <=> Allowed(upd.first, upd.next)
        /\ Was(upd.first)' = Was(upd.first)
    BY <1>1, LoadedFrame DEF Memory
  <2>3. QED
    BY <1>1, <2>1, <2>2 DEF UpdateInv, InHand
<1>9. torn' \subseteq Files
  BY <1>1 DEF TypeOK
<1>10. QED
  BY <1>1, <1>4, <1>6, <1>7, <1>8, <1>9, StepKeeps

LEMMA UpdateNext == UpdateInv /\ [Next]_vars => UpdateInv'
<1> SUFFICES ASSUME UpdateInv, [Next]_vars PROVE UpdateInv'
  OBVIOUS
<1>1. CASE RequestFails
  BY <1>1, ErrorKeeps DEF RequestFails, Becomes, Planning
<1>2. CASE Quiet \/ UNCHANGED vars
  <2>1. UNCHANGED vars
    BY <1>2 DEF Quiet
  <2>2. Kinds' /\ Moves' /\ PinsFollow'
    BY <2>1, NothingPlanned DEF vars, UpdateInv, Kinds
  <2>3. TypeOK' /\ TagsKnown'
    BY <2>1 DEF vars, UpdateInv, TypeOK, TagsKnown, Published
  <2>4. Sound'
    BY <2>1, RefsFrame DEF vars, UpdateInv, Sound
  <2>5. InHand'
    <3>1. Policy(upd.key, upd.first)' = Policy(upd.key, upd.first)
          /\ Group(upd.key)' = Group(upd.key) /\ Repository' = Repository
      BY <2>1, RefsFrame, LoadedFrame DEF vars, Repository
    <3>2. /\ Allowed(upd.first, upd.next)' <=> Allowed(upd.first, upd.next)
          /\ Was(upd.first)' = Was(upd.first)
      BY <2>1, LoadedFrame DEF vars, UpdateInv, TypeOK, Memory
    <3>3. QED
      BY <2>1, <3>1, <3>2 DEF vars, UpdateInv, InHand
  <2>6. QED
    BY <2>2, <2>3, <2>4, <2>5 DEF UpdateInv
<1>3. QED
  BY <1>1, <1>2, LoadKeeps, NextGroupKeeps, ListKeeps, SelectKeeps, ResolveKeeps, LoopKeeps,
     PushKeeps, EditKeeps DEF Next

LEMMA UpdateInit == Init => UpdateInv
<1> SUFFICES ASSUME Init PROVE UpdateInv
  OBVIOUS
<1>1. PICK b \in Bundles : refs = b.refs /\ text = b.text
  BY DEF Init
<1>2. /\ text \in [Literals -> Values] /\ refs \in [Instances -> References] /\ Sorted(text)
  BY <1>1, BundleAssumption DEF Sorted
<1>3. PICK level \in Levels :
          upd = [pc |-> "load", level |-> level,
                 loaded |-> text, new |-> text, todo |-> {},
                 key |-> CHOOSE l \in Literals : TRUE,
                 first |-> CHOOSE i \in Instances : TRUE, next |-> Latest,
                 list |-> [r \in Repositories |-> Unlisted],
                 erred |-> FALSE, changed |-> {}, skipped |-> {},
                 left |-> {}, written |-> {}, unrestored |-> {}]
  BY DEF Init
<1>4. (CHOOSE l \in Literals : TRUE) \in Literals /\ (CHOOSE i \in Instances : TRUE) \in Instances
  BY BundleAssumption
<1>5. upd \in Memory
  BY <1>2, <1>3, <1>4 DEF Memory, Names
<1>6. tags \in [Repositories -> [Names -> Digests \cup {NoDigest}]] /\ tagged = Published(tags)
  BY RegistryAssumption DEF Init
<1>7. TypeOK
  BY <1>2, <1>5, <1>6, BoundAssumption DEF TypeOK, Init, Published
<1>8. upd.pc = "load" /\ upd.loaded = text /\ upd.new = text /\ upd.changed = {}
  BY <1>3
<1>9. Kinds /\ InHand /\ Sound /\ TagsKnown /\ Moves /\ PinsFollow
  BY <1>2, <1>6, <1>8 DEF Kinds, InHand, Sound, TagsKnown, Moves, Allowed, Of, Was, PinsFollow,
     Planning
<1>10. QED
  BY <1>7, <1>9 DEF UpdateInv

LEMMA UpdateInvHolds == Spec => []UpdateInv
<1>1. QED
  BY UpdateInit, UpdateNext, PTL DEF Spec

(* Every variable keeps its type: the rewritten literals are versions and    *)
(* digests, whatever is listed, selected and resolved.                       *)
THEOREM UpdateTypeCorrect == Spec => []TypeOK
<1>1. UpdateInv => TypeOK
  BY DEF UpdateInv
<1>2. QED
  BY <1>1, UpdateInvHolds, PTL

(* No reference is downgraded, a release never becomes a pre-release, and a  *)
(* level keeps what it says it keeps, for every bundle and every listing.    *)
THEOREM MovesForwardHolds == Spec => []MovesForward
<1>1. UpdateInv => MovesForward
  BY DEF UpdateInv, Moves, Allowed, MovesForward
<1>2. QED
  BY <1>1, UpdateInvHolds, PTL

(* A digest that was refreshed is one that the version written next to it    *)
(* pointed to while the command ran, however tags move meanwhile.            *)
THEOREM PinsFollowHolds == Spec => []PinsFollow
<1>1. UpdateInv => PinsFollow
  BY DEF UpdateInv
<1>2. QED
  BY <1>1, UpdateInvHolds, PTL

--------------------------------------------------------------------------------
(***************************************************************************)
(* Every step keeps the invariant of the files.                            *)
(***************************************************************************)

(* The memory a step leaves alone when it touches no file.                   *)
FilesMemory ==
    upd'.loaded = upd.loaded /\ upd'.left = upd.left /\ upd'.written = upd.written
    /\ upd'.unrestored = upd.unrestored

LEMMA SameFrame ==
    ASSUME NEW f, upd'.loaded = upd.loaded, \A l \in LitsOf(f) : text'[l] = text[l]
    PROVE  Same(f)' <=> Same(f)
BY DEF Same, LitsOf

(* A step that plans goes on planning or fails.                              *)
LEMMA PlanningMemory ==
    ASSUME TypeOK,
           \/ NextGroup \/ ListVersions \/ LatestUnread \/ SelectVersion
           \/ ResolveDigest \/ RequestFails
    PROVE  /\ upd.pc \in Planning /\ upd'.pc \in Planning \cup {"failed"}
           /\ FilesMemory /\ UNCHANGED world
<1>1. upd \in Memory
  BY DEF TypeOK
<1>2. upd.pc \in Planning /\ UNCHANGED world
  BY DEF NextGroup, ListVersions, LatestUnread, SelectVersion, ResolveDigest, RequestFails,
     At, Planning
<1>3. ASSUME upd' = [upd EXCEPT !.pc = "plan", !.erred = TRUE]
      PROVE  upd'.pc \in Planning /\ FilesMemory
  BY <1>1, <1>3 DEF Memory, Planning, FilesMemory
<1>4. ASSUME NEW v, NEW d, upd' = Plan(v, d)
      PROVE  upd'.pc \in Planning /\ FilesMemory
  <2>1. PICK new, changed, skipped :
            \/ upd' = [upd EXCEPT !.pc = "plan", !.skipped = skipped]
            \/ upd' = [upd EXCEPT !.pc = "plan", !.new = new, !.changed = changed]
    BY <1>4 DEF Plan
  <2>2. QED
    BY <1>1, <2>1 DEF Memory, Planning, FilesMemory
<1>5. CASE NextGroup
  <2>1. PICK k, first, skipped, todo :
            LET m == [upd EXCEPT !.todo = todo, !.key = k, !.first = first]
            IN  \/ upd' \in {Goto(m, "failed"), Goto(m, "list"), Goto(m, "select")}
                \/ upd' = [m EXCEPT !.skipped = skipped]
    BY <1>5 DEF NextGroup, Becomes
  <2>2. upd.pc = "plan"
    BY <1>5 DEF NextGroup, At
  <2>3. ASSUME NEW stage \in {"failed", "list", "select"},
               upd' = [upd EXCEPT !.todo = todo, !.key = k, !.first = first, !.pc = stage]
        PROVE  upd'.pc \in Planning \cup {"failed"} /\ FilesMemory
    BY <1>1, <2>3 DEF Memory, Planning, FilesMemory
  <2>4. ASSUME upd' = [upd EXCEPT !.todo = todo, !.key = k, !.first = first,
                                  !.skipped = skipped]
        PROVE  upd'.pc \in Planning /\ FilesMemory
    BY <1>1, <2>2, <2>4 DEF Memory, Planning, FilesMemory
  <2>5. QED
    BY <1>2, <2>1, <2>3, <2>4 DEF Goto
<1>6. CASE ListVersions \/ LatestUnread
  <2>1. PICK list : upd' = [upd EXCEPT !.pc = "select", !.list = list]
    BY <1>6 DEF ListVersions, LatestUnread, Becomes
  <2>2. QED
    BY <1>1, <1>2, <2>1 DEF Memory, Planning, FilesMemory
<1>7. CASE SelectVersion
  <2>1. \/ upd' = [upd EXCEPT !.pc = "plan", !.erred = TRUE]
        \/ \E v, d : upd' = Plan(v, d)
        \/ \E v : upd' = [upd EXCEPT !.pc = "resolve", !.next = v]
    BY <1>7 DEF SelectVersion, Becomes
  <2>2. ASSUME NEW v, upd' = [upd EXCEPT !.pc = "resolve", !.next = v]
        PROVE  upd'.pc \in Planning /\ FilesMemory
    BY <1>1, <2>2 DEF Memory, Planning, FilesMemory
  <2>3. QED
    BY <1>2, <1>3, <1>4, <2>1, <2>2
<1>8. CASE ResolveDigest
  BY <1>2, <1>3, <1>4, <1>8 DEF ResolveDigest, Becomes
<1>9. CASE RequestFails
  BY <1>2, <1>3, <1>9 DEF RequestFails, Becomes
<1>10. QED
  BY <1>2, <1>5, <1>6, <1>7, <1>8, <1>9

(* Steps that touch no file: the command stays where it is, goes on          *)
(* planning, or ends before its first write.                                 *)
LEMMA NoFileTouched ==
    ASSUME FilesInv, TypeOK', UNCHANGED <<text, torn, stale, late>>, FilesMemory,
           \/ upd' = upd
           \/ upd.pc \in Planning /\ upd'.pc \in Planning
           \/ upd.pc \in Planning \cup {"load", "check"} /\ upd'.pc \in Outcomes
    PROVE  FilesInv'
<1>1. \A f : Same(f)' <=> Same(f)
  BY SameFrame DEF FilesMemory
<1>2. Undisturbed'
  BY <1>1 DEF FilesInv, Undisturbed, EditsFound, FilesMemory, At, Planning, Outcomes
<1>3. EditsFound'
  <2>1. CASE upd' = upd
    <3>1. Changed' = Changed
      BY <2>1 DEF Changed
    <3>2. QED
      BY <1>1, <2>1, <3>1 DEF FilesInv, EditsFound
  <2>2. CASE upd.pc \in Planning /\ upd'.pc \in Planning
    BY <1>1, <2>2 DEF FilesInv, EditsFound, FilesMemory, Planning
  <2>3. CASE upd'.pc \in Outcomes
    BY <2>3 DEF EditsFound, Planning, Outcomes
  <2>4. QED
    BY <2>1, <2>2, <2>3
<1>4. EditsKept'
  BY DEF FilesInv, EditsKept, FilesMemory
<1>5. QED
  BY <1>2, <1>3, <1>4 DEF FilesInv

LEMMA LoadKeepsFiles ==
    ASSUME FilesInv, TypeOK', Load PROVE FilesInv'
<1>1. upd \in Memory /\ upd.pc = "load" /\ UNCHANGED <<text, torn, stale, late>>
  BY DEF FilesInv, TypeOK, Load, At, world
<1>2. CASE GroupsRefused
  <2>1. upd' = Goto(upd, "failed")
    BY <1>2 DEF Load, Becomes
  <2>2. upd'.pc = "failed" /\ FilesMemory
    BY <1>1, <2>1, GotoType DEF Stages, Outcomes, FilesMemory
  <2>3. QED
    BY <1>1, <2>2, NoFileTouched DEF Outcomes
<1>3. CASE ~GroupsRefused
  <2>1. upd' = [upd EXCEPT !.pc = "plan", !.loaded = text, !.new = text,
                           !.todo = {KeyOf(i) : i \in Targets},
                           !.skipped = {i \in Instances : Skipped(i)}]
    BY <1>3 DEF Load, Becomes
  <2>2. upd'.pc = "plan" /\ upd'.loaded = text /\ upd'.written = upd.written
    BY <1>1, <2>1 DEF Memory
  <2>3. stale = {} /\ upd.written = {}
    BY <1>1 DEF FilesInv, EditsFound
  <2>4. \A f : Same(f)'
    BY <1>1, <2>2 DEF Same
  <2>5. QED
    BY <1>1, <2>2, <2>3, <2>4 DEF FilesInv, Undisturbed, EditsFound, EditsKept, Planning
<1>4. QED
  BY <1>2, <1>3

LEMMA PlannedKeepsFiles ==
    ASSUME FilesInv, TypeOK', Planned PROVE FilesInv'
<1>1. upd \in Memory /\ upd.pc = "plan" /\ UNCHANGED <<text, torn, stale, late>>
  BY DEF FilesInv, TypeOK, Planned, At, world
<1>2. ASSUME NEW stage \in {"failed", "done"}, upd' = Goto(upd, stage)
      PROVE  FilesInv'
  <2>1. upd'.pc = stage /\ FilesMemory
    BY <1>1, <1>2, GotoType DEF Stages, Outcomes, FilesMemory
  <2>2. QED
    BY <1>1, <2>1, NoFileTouched DEF Outcomes, Planning
<1>3. CASE upd' = [upd EXCEPT !.pc = "check", !.left = Changed]
  <2>1. /\ upd'.pc = "check" /\ upd'.left = Changed /\ upd'.loaded = upd.loaded
        /\ upd'.new = upd.new /\ upd'.changed = upd.changed /\ upd'.written = upd.written
        /\ upd'.unrestored = upd.unrestored
    BY <1>1, <1>3 DEF Memory
  <2>2. Changed' = Changed
    BY <2>1 DEF Changed
  <2>3. \A f : Same(f)' <=> Same(f)
    BY <1>1, <2>1, SameFrame
  <2>4. upd.written = {} /\ \A f \in stale : ~Same(f)
    BY <1>1 DEF FilesInv, EditsFound, Planning
  <2>5. QED
    BY <1>1, <2>1, <2>2, <2>3, <2>4
    DEF FilesInv, Undisturbed, EditsFound, EditsKept, Planning, At
<1>4. QED
  BY <1>2, <1>3 DEF Planned, Becomes

(* A file that was edited since the load fails the check.                    *)
LEMMA CheckKeepsFiles ==
    ASSUME FilesInv, TypeOK', CheckFile PROVE FilesInv'
<1>1. upd \in Memory /\ upd.pc = "check" /\ UNCHANGED <<text, torn, stale, late>>
  BY DEF FilesInv, TypeOK, CheckFile, At, world
<1>2. PICK f \in upd.left :
          upd' = IF ~AsLoaded(f) THEN Goto(upd, "failed")
                 ELSE IF upd.left # {f} THEN [upd EXCEPT !.left = @ \ {f}]
                 ELSE [upd EXCEPT !.pc = "write", !.left = Changed]
  BY DEF CheckFile, Becomes
<1>3. CASE ~AsLoaded(f)
  <2>1. upd'.pc = "failed" /\ FilesMemory
    BY <1>1, <1>2, <1>3, GotoType DEF Stages, Outcomes, FilesMemory
  <2>2. QED
    BY <1>1, <2>1, NoFileTouched DEF Outcomes
<1>4. CASE AsLoaded(f)
  <2>1. /\ upd.written = {} /\ upd.left \subseteq Changed
        /\ stale \cap Changed \subseteq upd.left /\ \A g \in stale \cap upd.left : ~Same(g)
    BY <1>1 DEF FilesInv, EditsFound
  <2>2. f \notin stale
    BY <1>4, <2>1 DEF AsLoaded, Same
  <2>3. /\ upd'.loaded = upd.loaded /\ upd'.new = upd.new /\ upd'.changed = upd.changed
        /\ upd'.written = upd.written /\ upd'.unrestored = upd.unrestored
        /\ \/ upd'.pc = "check" /\ upd'.left = upd.left \ {f}
           \/ upd'.pc = "write" /\ upd'.left = Changed /\ upd.left = {f}
    BY <1>1, <1>2, <1>4 DEF Memory
  <2>4. Changed' = Changed
    BY <2>3 DEF Changed
  <2>5. \A g : Same(g)' <=> Same(g)
    BY <1>1, <2>3, SameFrame
  <2>6. Undisturbed' /\ EditsKept'
    BY <1>1, <2>1, <2>3, <2>5 DEF FilesInv, Undisturbed, EditsKept, At
  <2>7. EditsFound'
    BY <1>1, <2>1, <2>2, <2>3, <2>4, <2>5 DEF EditsFound, Planning
  <2>8. QED
    BY <2>6, <2>7 DEF FilesInv
<1>5. QED
  BY <1>3, <1>4

(* The text of the other files is left alone.                                *)
LEMMA WriteFrame ==
    ASSUME NEW f, NEW lits, Write(f, lits), upd'.loaded = upd.loaded
    PROVE  /\ \A g : g # f => (Same(g)' <=> Same(g))
           /\ lits = upd.loaded => Same(f)'
           /\ torn' = torn \ {f}
<1>1. \A g : g # f => \A l \in LitsOf(g) : text'[l] = text[l]
  BY DEF Write, LitsOf
<1>2. \A g : g # f => (Same(g)' <=> Same(g))
  BY <1>1, SameFrame
<1>3. lits = upd.loaded => Same(f)'
  BY DEF Write, Same, LitsOf
<1>4. QED
  BY <1>2, <1>3 DEF Write

LEMMA WriteKeepsFiles ==
    ASSUME FilesInv, TypeOK', WriteFile PROVE FilesInv'
<1>1. upd \in Memory /\ upd.pc = "write" /\ UNCHANGED <<stale, late>>
  BY DEF FilesInv, TypeOK, WriteFile, At
<1>2. PICK f \in upd.left :
          /\ Write(f, upd.new)
          /\ upd' = [upd EXCEPT !.left = @ \ {f}, !.written = @ \cup {f},
                                !.pc = IF upd.left = {f} THEN "done" ELSE @]
  BY DEF WriteFile, Becomes
<1>3. /\ upd'.loaded = upd.loaded /\ upd'.new = upd.new /\ upd'.changed = upd.changed
      /\ upd'.left = upd.left \ {f} /\ upd'.written = upd.written \cup {f}
      /\ upd'.unrestored = upd.unrestored /\ upd'.pc \in {"write", "done"}
  BY <1>1, <1>2 DEF Memory
<1>4. Changed' = Changed
  BY <1>3 DEF Changed
<1>5. upd.left \subseteq Changed /\ stale \cap Changed = {}
  BY <1>1 DEF FilesInv, EditsFound
<1>6. Undisturbed'
  BY <1>1, <1>2, <1>3, WriteFrame DEF FilesInv, Undisturbed, At
<1>7. EditsFound'
  BY <1>1, <1>3, <1>4, <1>5 DEF EditsFound, Planning
<1>8. EditsKept'
  BY <1>1, <1>3, <1>5 DEF FilesInv, EditsKept
<1>9. QED
  BY <1>6, <1>7, <1>8 DEF FilesInv

LEMMA RestoreKeepsFiles ==
    ASSUME FilesInv, TypeOK', RestoreFile \/ RestoreFails PROVE FilesInv'
<1>1. upd \in Memory /\ upd.pc = "restore" /\ UNCHANGED <<stale, late>>
  BY DEF FilesInv, TypeOK, RestoreFile, RestoreFails, At, Break
<1>2. PICK f \in upd.left :
          \/ /\ Write(f, upd.loaded)
             /\ upd' = [upd EXCEPT !.left = @ \ {f},
                                   !.pc = IF upd.left = {f} THEN "failed" ELSE @]
          \/ /\ Break(f)
             /\ upd' = [upd EXCEPT !.left = @ \ {f}, !.unrestored = @ \cup {f},
                                   !.pc = IF upd.left = {f} THEN "failed" ELSE @]
  BY DEF RestoreFile, RestoreFails, Becomes
<1>3. /\ upd'.loaded = upd.loaded /\ upd'.left = upd.left \ {f}
      /\ upd'.written = upd.written
      /\ upd'.pc \in {"restore", "failed"} /\ (upd'.pc = "failed" => upd.left = {f})
      /\ \/ Write(f, upd.loaded) /\ upd'.unrestored = upd.unrestored
         \/ Break(f) /\ upd'.unrestored = upd.unrestored \cup {f}
  <2> DEFINE stage == IF upd.left = {f} THEN "failed" ELSE upd.pc
  <2>1. stage \in {"restore", "failed"} /\ (stage = "failed" => upd.left = {f})
    BY <1>1
  <2> HIDE DEF stage
  <2>2. ASSUME upd' = [upd EXCEPT !.left = @ \ {f}, !.pc = stage]
        PROVE  /\ upd'.loaded = upd.loaded /\ upd'.left = upd.left \ {f}
               /\ upd'.written = upd.written /\ upd'.pc = stage
               /\ upd'.unrestored = upd.unrestored
    BY <1>1, <2>2 DEF Memory
  <2>3. ASSUME upd' = [upd EXCEPT !.left = @ \ {f}, !.unrestored = @ \cup {f}, !.pc = stage]
        PROVE  /\ upd'.loaded = upd.loaded /\ upd'.left = upd.left \ {f}
               /\ upd'.written = upd.written /\ upd'.pc = stage
               /\ upd'.unrestored = upd.unrestored \cup {f}
    BY <1>1, <2>3 DEF Memory
  <2>4. QED
    BY <1>2, <2>1, <2>2, <2>3 DEF stage
<1>4. ASSUME NEW g \in Files \ (torn \cup upd.unrestored \cup stale \cup late)', g # f
      PROVE  /\ g \notin torn \cup upd.unrestored \cup stale \cup late
             /\ Same(g)' <=> Same(g)
  <2>1. CASE Write(f, upd.loaded) /\ upd'.unrestored = upd.unrestored
    BY <1>1, <1>3, <1>4, <2>1, WriteFrame
  <2>2. CASE Break(f) /\ upd'.unrestored = upd.unrestored \cup {f}
    BY <1>1, <1>3, <1>4, <2>2, SameFrame DEF Break
  <2>3. QED
    BY <1>3, <2>1, <2>2
<1>5. ASSUME f \notin upd'.unrestored
      PROVE  Same(f)'
  <2>1. Write(f, upd.loaded)
    BY <1>3, <1>5
  <2>2. QED
    BY <1>3, <2>1, WriteFrame
<1>6. Undisturbed'
  BY <1>1, <1>3, <1>4, <1>5 DEF FilesInv, Undisturbed, At
<1>7. EditsFound' /\ EditsKept'
  BY <1>1, <1>3 DEF FilesInv, EditsFound, EditsKept, Planning
<1>8. QED
  BY <1>6, <1>7 DEF FilesInv

LEMMA WriteFailsKeepsFiles ==
    ASSUME FilesInv, TypeOK', WriteFails PROVE FilesInv'
<1>1. upd \in Memory /\ upd.pc = "write" /\ UNCHANGED <<text, stale, late>> /\ torn \subseteq torn'
  BY DEF FilesInv, TypeOK, WriteFails, At, Break
<1>2. /\ upd'.loaded = upd.loaded /\ upd'.written = upd.written
      /\ upd'.unrestored = upd.unrestored
      /\ \/ upd'.pc = "failed" /\ upd.written = {}
         \/ upd'.pc = "restore" /\ upd'.left = upd.written
  <2>1. CASE upd.written = {}
    <3>1. upd' = Goto(upd, "failed")
      BY <2>1 DEF WriteFails, Becomes
    <3>2. QED
      BY <1>1, <2>1, <3>1, GotoType DEF Stages, Outcomes
  <2>2. CASE upd.written # {}
    <3>1. upd' = [upd EXCEPT !.pc = "restore", !.left = upd.written]
      BY <2>2 DEF WriteFails, Becomes
    <3>2. QED
      BY <1>1, <3>1 DEF Memory
  <2>3. QED
    BY <2>1, <2>2
<1>3. \A f : Same(f)' <=> Same(f)
  BY <1>1, <1>2, SameFrame
<1>4. Undisturbed'
  BY <1>1, <1>2, <1>3 DEF FilesInv, Undisturbed, At
<1>5. EditsFound' /\ EditsKept'
  BY <1>1, <1>2 DEF FilesInv, EditsFound, EditsKept, Planning
<1>6. QED
  BY <1>4, <1>5 DEF FilesInv

LEMMA EndKeepsFiles ==
    ASSUME FilesInv, TypeOK', Fails \/ Kill PROVE FilesInv'
<1>1. PICK stage \in {"failed", "killed"} :
          upd' = Goto(upd, stage) /\ (stage = "failed" => upd.pc \in {"load", "plan", "check"})
  BY DEF Fails, Kill, Becomes
<1>2. upd \in Memory /\ upd'.pc = stage /\ FilesMemory
  BY <1>1, GotoType DEF FilesInv, TypeOK, Stages, Outcomes, FilesMemory
<1>3. UNCHANGED <<text, stale, late>> /\ torn \subseteq torn'
  BY DEF Fails, Kill, Break, world
<1>4. CASE upd.pc \in Planning \cup {"load", "check"}
  <2>1. torn' = torn
    BY <1>4 DEF Fails, Kill, world, Planning
  <2>2. QED
    BY <1>2, <1>3, <1>4, <2>1, NoFileTouched DEF Outcomes
<1>5. CASE upd.pc \notin Planning \cup {"load", "check"}
  <2>1. upd'.pc = "killed"
    BY <1>1, <1>2, <1>5 DEF Planning
  <2>2. \A f : Same(f)' <=> Same(f)
    BY <1>2, <1>3, SameFrame DEF FilesMemory
  <2>3. Undisturbed'
    BY <1>2, <1>3, <2>1, <2>2 DEF FilesInv, Undisturbed, At, FilesMemory
  <2>4. EditsFound' /\ EditsKept'
    BY <1>2, <1>3, <2>1 DEF FilesInv, EditsFound, EditsKept, Planning, FilesMemory
  <2>5. QED
    BY <2>3, <2>4 DEF FilesInv
<1>6. QED
  BY <1>4, <1>5

LEMMA EditKeepsFiles ==
    ASSUME FilesInv, TypeOK', Edit PROVE FilesInv'
<1>1. upd \in Memory /\ UNCHANGED <<torn, upd>> /\ upd.pc \notin Outcomes \cup {"load"}
  BY DEF FilesInv, TypeOK, Edit
<1>2. PICK l, x :
          LET f == FileOf[l]
              unchecked == \/ upd.pc \in {"plan", "list", "select", "resolve"}
                           \/ At("check") /\ f \in upd.left
          IN  /\ text' = [text EXCEPT ![l] = x]
              /\ stale' = IF ~unchecked THEN stale
                          ELSE IF \A k \in LitsOf(f) : text'[k] = upd.loaded[k]
                          THEN stale \ {f} ELSE stale \cup {f}
              /\ late' = IF unchecked THEN late ELSE late \cup {f}
  BY DEF Edit
<1> DEFINE f == FileOf[l]
           unchecked == upd.pc \in Planning \/ (At("check") /\ f \in upd.left)
<1>3. /\ unchecked /\ Same(f)' => stale' = stale \ {f} /\ late' = late
      /\ unchecked /\ ~Same(f)' => stale' = stale \cup {f} /\ late' = late
      /\ ~unchecked => stale' = stale /\ late' = late \cup {f}
  BY <1>1, <1>2 DEF Same, Planning
<1>4. \A g : g # f => (Same(g)' <=> Same(g))
  <2>1. \A g : g # f => \A k \in LitsOf(g) : text'[k] = text[k]
    BY <1>2 DEF LitsOf, FilesInv, TypeOK
  <2>2. QED
    BY <1>1, <2>1, SameFrame
<1> HIDE DEF f
<1>5. Undisturbed'
  <2> SUFFICES ASSUME NEW g \in Files,
                      g \notin torn \cup upd.unrestored \cup stale' \cup late',
                      \/ g \notin upd.written
                      \/ At("failed")
                      \/ At("restore") /\ g \notin upd.left
               PROVE  Same(g)'
    BY <1>1 DEF Undisturbed, At
  <2>1. CASE g = f
    BY <1>3, <2>1
  <2>2. CASE g # f
    <3>1. g \notin stale /\ g \notin late
      BY <1>3, <2>2
    <3>2. Same(g)
      BY <3>1 DEF FilesInv, Undisturbed
    <3>3. QED
      BY <1>4, <2>2, <3>2
  <2>3. QED
    BY <2>1, <2>2
<1>6. Changed' = Changed
  BY <1>1 DEF Changed
<1>7. EditsFound'
  BY <1>1, <1>3, <1>4, <1>6 DEF FilesInv, EditsFound, At, Planning
<1>8. EditsKept'
  <2>1. unchecked => upd.written = {}
    BY DEF FilesInv, EditsFound, At, Planning
  <2>2. stale \cap upd.written = {}
    BY DEF FilesInv, EditsKept
  <2>3. QED
    BY <1>1, <1>3, <2>1, <2>2 DEF EditsKept
<1>9. QED
  BY <1>5, <1>7, <1>8 DEF FilesInv

LEMMA FilesNext == FilesInv /\ TypeOK' /\ [Next]_vars => FilesInv'
<1> SUFFICES ASSUME FilesInv, TypeOK', [Next]_vars PROVE FilesInv'
  OBVIOUS
<1>1. CASE \/ NextGroup \/ ListVersions \/ LatestUnread \/ SelectVersion
           \/ ResolveDigest \/ RequestFails
  <2>1. /\ upd.pc \in Planning /\ upd'.pc \in Planning \cup {"failed"}
        /\ FilesMemory /\ UNCHANGED world
    BY <1>1, PlanningMemory DEF FilesInv
  <2>2. QED
    BY <2>1, NoFileTouched DEF world, Outcomes
<1>2. CASE Push \/ Quiet \/ UNCHANGED vars
  BY <1>2, NoFileTouched DEF Push, Quiet, vars, FilesMemory
<1>3. QED
  BY <1>1, <1>2, LoadKeepsFiles, PlannedKeepsFiles, CheckKeepsFiles, WriteKeepsFiles,
     RestoreKeepsFiles, WriteFailsKeepsFiles, EndKeepsFiles, EditKeepsFiles DEF Next

LEMMA FilesInit == Init /\ TypeOK => FilesInv
<1> SUFFICES ASSUME Init, TypeOK PROVE FilesInv
  OBVIOUS
<1>1. upd.pc = "load" /\ upd.loaded = text /\ upd.written = {} /\ stale = {}
  BY DEF Init
<1>2. QED
  BY <1>1 DEF FilesInv, Undisturbed, EditsFound, EditsKept, Same, Planning

(* Neither a failed write nor an edit beside the command loses the text of a *)
(* file: a failure puts back what was written, and what was edited before    *)
(* its check is not written.                                                 *)
THEOREM FilesKeptHolds == Spec => []FilesKept
<1>1. FilesInv => FilesKept
  BY DEF FilesInv, Undisturbed, FilesKept, FailureRestores, AsLoaded, Same
<1>2. QED
  BY <1>1, UpdateTypeCorrect, FilesInit, FilesNext, PTL DEF Spec

================================================================================
