-------------------------------- MODULE FileCopy -------------------------------
(***************************************************************************)
(* fscopy.CopyDir: a directory is copied, its symbolic links resolved or   *)
(* left out (internal/fscopy/fscopy.go, internal/engine/utils.go).         *)
(*                                                                         *)
(* One entry of a directory is one step.  A link leads to a path without   *)
(* links, which may not be there; chains of links are one link.            *)
(***************************************************************************)
EXTENDS Naturals, Sequences, SequencesExt, FiniteSets

CONSTANTS
    Systems,     \* file systems to start from: functions from paths to entries
    Source,      \* path of the source directory
    Targets,     \* paths given as the destination
    Skips,       \* sets of what is ignored: <<path in the source, as a directory>>
    MaxEntries   \* the budget of one copy

(* A file has content; file and directory a mode, "rw" or "ro".             *)
File(content, mode) == [kind |-> "file", data |-> content, mode |-> mode, to |-> << >>]
Dir(mode)  == [kind |-> "dir", data |-> "", mode |-> mode, to |-> << >>]
Link(path) == [kind |-> "link", data |-> "", mode |-> "rw", to |-> path]
Pipe       == [kind |-> "pipe", data |-> "", mode |-> "rw", to |-> << >>]

VARIABLES
    fs,         \* the file system
    before,     \* the file system at the start (history)
    dst,        \* the destination as given
    root,       \* the destination with its links resolved, opened once
    follow,     \* FollowSymlinks
    skip,       \* what is ignored
    stack,      \* copyTree calls that have not returned, the last one innermost
    visiting,   \* directories on the current recursion path
    entries,    \* entries counted
    copy        \* what the call is at, and the error it ended with

copyVars == <<fs, before, dst, root, follow, skip, stack, visiting, entries, copy>>
given == <<before, dst, follow, skip>>

(* A name that nothing has, for paths outside of the destination.            *)
Nowhere == <<"nowhere">>
Paths   == Seq(STRING \ {"nowhere"})

(* What is on a disk: an entry is in a directory, and a link leads to no     *)
(* link.  The source is a directory, or CopyDir returns before it starts.    *)
CopyAssumption ==
    /\ MaxEntries \in Nat
    /\ Targets \subseteq Paths
    /\ \A f \in Systems :
           /\ IsFiniteSet(DOMAIN f)
           /\ DOMAIN f \subseteq Paths
           /\ Source \in DOMAIN f /\ f[Source].kind = "dir"
           /\ \A p \in DOMAIN f :
                  /\ f[p] \in {File(f[p].data, f[p].mode), Dir(f[p].mode), Link(f[p].to), Pipe}
                  /\ f[p].kind = "link" => f[p].to \in Paths
                  /\ f[p].kind = "link" /\ f[p].to \in DOMAIN f => f[f[p].to].kind # "link"
                  /\ p # << >> => Front(p) \in DOMAIN f /\ f[Front(p)].kind = "dir"

ASSUME CopyAssumption

Errors == {"inside", "limit", "cycle", "dangling", "write"}

CopyInit ==
    /\ fs \in Systems /\ before = fs
    /\ dst \in Targets /\ root = << >> /\ follow \in BOOLEAN /\ skip \in Skips
    /\ stack = << >> /\ visiting = {} /\ entries = 0
    /\ copy = "start"

Exists(p) == p \in DOMAIN fs
Is(p, kind) == Exists(p) /\ fs[p].kind = kind
Follow(p) == IF Is(p, "link") THEN fs[p].to ELSE p

(* The file system with an entry added or replaced. *)
Put(p, entry) == [q \in DOMAIN fs \cup {p} |-> IF q = p THEN entry ELSE fs[q]]

(* resolveExistingPrefix: a path with the links of its existing part         *)
(* resolved.                                                                 *)
Resolved(p) ==
    LET real[k \in 0..Len(p)] ==
            IF k = 0 THEN << >>
            ELSE LET q == Append(real[k - 1], p[k])
                 IN  IF Exists(Follow(q)) THEN Follow(q) ELSE q
    IN  real[Len(p)]

OnTheWay(p) == {SubSeq(p, 1, k) : k \in 0..Len(p)}

(* MkdirAll: what exists on the way is a directory, and takes what does not. *)
Makeable(p) ==
    \A k \in 1..Len(p) :
        LET q == SubSeq(p, 1, k)
            parent == SubSeq(p, 1, k - 1)
        IN  \/ Is(q, "dir")
            \/ ~Exists(q) /\ (Exists(parent) => fs[parent].mode = "rw")

MadeOnTheWay(p) == [q \in DOMAIN fs \cup OnTheWay(p) |-> IF Exists(q) THEN fs[q] ELSE Dir("rw")]

(* Mutant: the destination is opened by its paths. *)
PlaceByPath(rel) == Resolved(dst \o rel)

(* The path of rel below the destination root, which no link leads out of.   *)
Place(rel) ==
    LET at[k \in 0..Len(rel)] ==
            IF k = 0 THEN root
            ELSE IF at[k - 1] = Nowhere THEN Nowhere
            ELSE LET q == Follow(Append(at[k - 1], rel[k]))
                 IN  IF IsPrefix(root, q) THEN q ELSE Nowhere
    IN  at[Len(rel)]

Writable(p) ==
    LET opened == IF Exists(p) THEN p ELSE Front(p)
    IN  Is(opened, IF Exists(p) THEN "file" ELSE "dir") /\ fs[opened].mode = "rw"

(* What os.ReadDir lists.                                                    *)
EntryNames(f, dir) == {Last(p) : p \in {q \in DOMAIN f : q # << >> /\ Front(q) = dir}}

Frame(f, phys, rel) ==
    [phys |-> phys, rel |-> rel, todo |-> EntryNames(f, phys), mode |-> f[phys].mode]

Ends(how) == copy' = how /\ UNCHANGED <<fs, stack, visiting, entries>>

--------------------------------------------------------------------------------
(* The destination is created, unless it is in the source.                   *)
Start ==
    /\ copy = "start"
    /\ root' = Resolved(dst)
    /\ IF IsPrefix(Source, root') THEN Ends("inside")
       ELSE IF ~Makeable(root') THEN Ends("write")
       ELSE /\ fs' = MadeOnTheWay(root')
            /\ stack' = <<Frame(fs, Source, << >>)>>
            /\ visiting' = IF follow THEN {Source} ELSE {}
            /\ copy' = "tree"
            /\ UNCHANGED entries
    /\ UNCHANGED given

Top == Last(stack)
Rel(n) == Append(Top.rel, n)
Phys(n) == Append(Top.phys, n)

Skipped(n) ==
    \/ <<Rel(n), Is(Phys(n), "dir")>> \in skip
    \/ Is(Phys(n), "link") /\ ~follow

(* The stack with entry n of the innermost directory taken.                  *)
Taken(n) == [stack EXCEPT ![Len(stack)].todo = @ \ {n}]

SkipEntry(n) ==
    /\ Skipped(n)
    /\ stack' = Taken(n)
    /\ UNCHANGED <<fs, visiting, entries, copy>>

(* An entry that is not skipped is counted before it is looked at.           *)
Count(n) ==
    /\ ~Skipped(n)
    /\ entries < MaxEntries
    /\ entries' = entries + 1

CountFails(n) ==
    /\ ~Skipped(n)
    /\ entries >= MaxEntries
    /\ Ends("limit")

Error(n, how) == stack' = Taken(n) /\ copy' = how /\ UNCHANGED <<fs, visiting>>

(* Sockets, pipes and devices are not copied.                                *)
Pass(n) == stack' = Taken(n) /\ UNCHANGED <<fs, visiting, copy>>

(* copyDirEntry: the directory is made, unless a link that leads nowhere has *)
(* its name, then read, and gets its mode at the end.                        *)
Enter(n, phys) ==
    LET q == Place(Rel(n))
        made == IF Exists(q) THEN fs ELSE Put(q, Dir("rw"))
        linked == Is(Append(Place(Top.rel), n), "link")
    IN  IF phys \in visiting THEN Error(n, "cycle")
        ELSE IF Is(q, "dir") \/ (q # Nowhere /\ ~linked /\ ~Exists(q) /\ Writable(q))
        THEN /\ fs' = made
             /\ stack' = Append(Taken(n), Frame(made, phys, Rel(n)))
             /\ visiting' = IF follow THEN visiting \cup {phys} ELSE visiting
             /\ UNCHANGED copy
        ELSE Error(n, "write")

(* copyFile: not onto the file itself.                                       *)
Write(n, phys) ==
    LET q == Place(Rel(n))
    IN  IF q # Nowhere /\ q # phys /\ Writable(q)
        THEN /\ fs' = Put(q, fs[phys])
             /\ stack' = Taken(n)
             /\ UNCHANGED <<visiting, copy>>
        ELSE Error(n, "write")

CopyEntry(n) ==
    LET p == Phys(n)
    IN  \/ Is(p, "dir")  /\ Enter(n, p)
        \/ Is(p, "file") /\ Write(n, p)
        \/ Is(p, "pipe") /\ Pass(n)

(* Mutant: what is ignored as a directory is not looked up again. *)
CopySymlinkAnyway(n) ==
    LET real == fs[Phys(n)].to
    IN  /\ Is(Phys(n), "link")
        /\ \/ ~Exists(real) /\ Error(n, "dangling")
           \/ Is(real, "dir")  /\ Enter(n, real)
           \/ Is(real, "file") /\ Write(n, real)
           \/ Is(real, "pipe") /\ Pass(n)

(* copySymlink: the target is copied in its place.                           *)
CopySymlink(n) ==
    LET real == fs[Phys(n)].to
    IN  /\ Is(Phys(n), "link")
        /\ \/ ~Exists(real) /\ Error(n, "dangling")
           \/ Is(real, "dir") /\ IF <<Rel(n), TRUE>> \in skip THEN Pass(n) ELSE Enter(n, real)
           \/ Is(real, "file") /\ Write(n, real)
           \/ Is(real, "pipe") /\ Pass(n)

CopyTree(n) ==
    \/ SkipEntry(n)
    \/ CountFails(n)
    \/ Count(n) /\ (CopyEntry(n) \/ CopySymlink(n))

Leave ==
    LET q == Place(Top.rel)
    IN  /\ fs' = [fs EXCEPT ![q].mode = Top.mode]
        /\ stack' = Front(stack)
        /\ visiting' = visiting \ {Top.phys}
        /\ copy' = IF Len(stack) = 1 THEN "done" ELSE copy
        /\ UNCHANGED entries

Copy ==
    /\ copy = "tree"
    /\ IF Top.todo = {} THEN Leave ELSE \E n \in Top.todo : CopyTree(n)
    /\ UNCHANGED <<given, root>>

Ended == copy \in Errors \cup {"done"}
CopyQuiet == Ended /\ UNCHANGED copyVars

CopyNext == Start \/ Copy \/ CopyQuiet

CopySpec == CopyInit /\ [][CopyNext]_copyVars

--------------------------------------------------------------------------------
(* What a copy should be, read off the file system as it was.                *)

Dirs == {p \in DOMAIN before : before[p].kind = "dir"}

(* The entry n of a directory of the copy: its place, where it comes from,   *)
(* and the directories on the way to it.                                     *)
Below(d, n) ==
    LET q == Append(d.from, n)
    IN  [rel |-> Append(d.rel, n), link |-> before[q].kind = "link",
         from |-> IF before[q].kind = "link" THEN before[q].to ELSE q,
         above |-> d.above \cup {d.from}]

(* What the copy counts, what of it is ignored once its link is resolved,    *)
(* and the directories that it reads: there is nothing below one that loops. *)
Counted(e) ==
    /\ <<e.rel, ~e.link /\ e.from \in Dirs>> \notin skip
    /\ e.link => follow

Ignored(e) == e.link /\ e.from \in Dirs /\ <<e.rel, TRUE>> \in skip

Opened(e) == e.from \in Dirs \ e.above /\ ~Ignored(e)

(* All entries of the copy, by their depth. *)
Unfolded ==
    LET level[k \in 0..Cardinality(Dirs)] ==
            IF k = 0 THEN {[rel |-> << >>, link |-> FALSE, from |-> Source, above |-> {}]}
            ELSE {e \in UNION {{Below(d, n) : n \in EntryNames(before, d.from)} :
                                  d \in {d \in level[k - 1] : Opened(d)}} : Counted(e)}
    IN  UNION {level[k] : k \in 0..Cardinality(Dirs)}

Kept == {e \in Unfolded : ~Ignored(e)}

Looping  == {e \in Kept : e.from \in e.above}
Dangling == {e \in Kept : e.from \notin DOMAIN before}

(* The source leads to the destination, or to what is in it.                 *)
Overlap == \E e \in Kept : IsPrefix(e.from, root) \/ IsPrefix(root, e.from)

(* The destination was there, and a link in it leads to a path in it.        *)
Redirected ==
    \E p \in DOMAIN before :
        IsPrefix(root, p) /\ before[p].kind = "link" /\ IsPrefix(root, before[p].to)

(* No copy goes on without end, not even one that finds its own output,      *)
(* which only the budget stops.                                              *)
CopyTypeOK ==
    /\ copy \in {"start", "tree", "done"} \cup Errors
    /\ entries \in 0..MaxEntries
    /\ Cardinality(DOMAIN fs \ DOMAIN before) <= MaxEntries + Len(root) + 1
    /\ visiting \subseteq {stack[k].phys : k \in DOMAIN stack}

(* Nothing outside of the destination changes, whatever its links lead to,   *)
(* but for the directories that it takes to make it: not the source, and not *)
(* what the source's links lead to.                                          *)
WritesConfined ==
    \A p \in DOMAIN fs \cup DOMAIN before :
        ~IsPrefix(root, p) =>
            /\ p \in DOMAIN fs
            /\ p \in DOMAIN before => fs[p] = before[p]
            /\ p \notin DOMAIN before => p \in OnTheWay(root) /\ fs[p] = Dir("rw")

CopyConfined == CopyTypeOK /\ WritesConfined

(* A copy that ends well holds what the source holds, with the modes of the  *)
(* source, and nothing that is ignored.                                      *)
DoneIsWhole ==
    copy = "done" /\ ~Overlap =>
        LET copied == {e \in Kept : before[e.from].kind # "pipe"}
        IN  /\ Looping = {} /\ Dangling = {}
            /\ Redirected \/
                  /\ \A e \in copied : root \o e.rel \in DOMAIN fs /\ fs[root \o e.rel] = before[e.from]
                  /\ DOMAIN fs = DOMAIN before \cup OnTheWay(root) \cup {root \o e.rel : e \in copied}

(* A copy fails for a reason: trees that share a target are no cycles, what  *)
(* is ignored is not looked at, and read-only directories are no obstacle.   *)
FailsForReason ==
    copy \in Errors /\ ~Overlap =>
        \/ copy = "cycle"    /\ Looping # {}
        \/ copy = "dangling" /\ Dangling # {}
        \/ copy = "limit"    /\ Cardinality(Unfolded) > MaxEntries + 1
        \/ copy = "inside"   /\ IsPrefix(Source, root)
        \/ copy = "write"    /\ (root \in DOMAIN before \/ ~Makeable(root))

(* DoneIsWhole, FailsForReason: a copy that ends well is the source with its *)
(* links resolved, and one that fails has met what its error says.           *)
CopyOutcome == DoneIsWhole /\ FailsForReason

================================================================================
