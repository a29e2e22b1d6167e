----------------------------- MODULE PublishProofs -----------------------------
(***************************************************************************)
(* Theorems about Publish, for every number of commands, command lines,    *)
(* contents, versions and paths, and every bound.                          *)
(***************************************************************************)
EXTENDS Publish, TLAPS

(***************************************************************************)
(* What a command remembers.                                               *)
(***************************************************************************)

(* The image is a module only under the version that is pushed. *)
Packaged(m) ==
    /\ m.image \in Images
    /\ m.name \in Names
    /\ m.image.module => /\ m.name \in Releases /\ m.image.version = m.name
                         /\ Range(m.line.more) \subseteq {Latest}

Fits(m) ==
    LET c == m.line
    IN  /\ c \in Invocations
        /\ Range(m.more) \subseteq Range(c.more)
        /\ m.pc \in {"stage", "build"} => c.kind # "archive" /\ m.name = c.name
        /\ m.pc \in {"version", "open", "validate"} => c.kind = "archive"
        /\ m.pc \in {"open", "validate"} => m.name \in Releases
        /\ m.pc \in {"stage", "build", "version", "open", "validate", "push"} => m.more = c.more
        /\ m.pc = "validate" => m.image \in Images
        /\ m.pc \in {"create", "fill"} => c.kind = "build"
        /\ m.pc \in {"push", "tag", "credentials", "sign"} => c.kind # "build"
        /\ m.pc \in {"push", "tag", "credentials", "sign", "create", "fill"} => Packaged(m)
        /\ m.pc = "tag" => m.more # << >>
        /\ m.pc \in {"credentials", "sign"} => m.more = << >> /\ c.sign
        /\ m.pc = "done" /\ c.kind # "build" => m.more = << >>

(* What a command has pushed carries the tags that are behind it, in T; it   *)
(* was to be signed, in A, and is signed, in S, when the command says so.    *)
Delivers(m, T, A, S) ==
    LET c == m.line
        ended == m.pc = "done" /\ c.kind # "build"
        pushed == ended \/ m.pc \in {"tag", "credentials", "sign"}
    IN  /\ pushed => \A n \in {m.name} \cup (Range(c.more) \ Range(m.more)) :
                         <<n, m.image>> \in T
        /\ pushed /\ c.sign => m.image \in A
        /\ ended /\ c.sign => m.image \in S

(* An output that is not complete belongs to the command that writes it, or  *)
(* to one that was killed.                                                   *)
Filling(r, p) == Doing(r, "fill") /\ command[r].line.path = p

OutputsOwned ==
    /\ \A r \in Processes, p \in Paths : Filling(r, p) => file[p] = Partial
    /\ \A q, r \in Processes, p \in Paths : Filling(q, p) /\ Filling(r, p) => q = r
    /\ \A p \in Paths : file[p] = Partial =>
           \E r \in Processes : command[r].line.path = p /\ command[r].pc \in {"fill", "killed"}

Memories == \A r \in Processes : Fits(command[r]) /\ Delivers(command[r], tagged, asked, signed)

(* What ever had a tag is in the repository. *)
TaggedStored == tagged \subseteq Names \X stored

PublishInv == PublishTypes /\ Memories /\ TagsAsPushed /\ SignedAsAsked /\ TaggedStored

LEMMA HeadTail ==
    ASSUME NEW S, NEW s \in Seq(S), s # << >>
    PROVE  /\ Head(s) \in S /\ Tail(s) \in Seq(S)
           /\ Range(s) = {Head(s)} \cup Range(Tail(s))
<1>1. Head(s) \in S /\ Tail(s) \in Seq(S)
  OBVIOUS
<1>2. Len(s) \in Nat \ {0} /\ DOMAIN s = 1..Len(s) /\ Head(s) = s[1]
  OBVIOUS
<1>3. Len(Tail(s)) = Len(s) - 1 /\ \A k \in 1..(Len(s) - 1) : Tail(s)[k] = s[k + 1]
  OBVIOUS
<1>4. Range(Tail(s)) = {s[k + 1] : k \in 1..(Len(s) - 1)}
  <2>1. DOMAIN Tail(s) = 1..(Len(s) - 1)
    BY <1>1, <1>3
  <2>2. QED
    BY <1>3, <2>1 DEF Range
<1>5. Range(s) = {s[k] : k \in 1..Len(s)}
  BY <1>2 DEF Range
<1>6. \A k \in 1..Len(s) : k = 1 \/ (k - 1 \in 1..(Len(s) - 1) /\ s[k] = s[(k - 1) + 1])
  BY <1>2
<1>7. Range(s) \subseteq {Head(s)} \cup Range(Tail(s))
  BY <1>2, <1>4, <1>5, <1>6
<1>8. {Head(s)} \cup Range(Tail(s)) \subseteq Range(s)
  BY <1>2, <1>4, <1>5
<1>9. QED
  BY <1>1, <1>7, <1>8

LEMMA GotoType ==
    ASSUME NEW m \in Memory,
           NEW stage \in {"stage", "build", "version", "open", "validate", "push",
                          "tag", "credentials", "sign", "create", "fill"} \cup Endings
    PROVE  /\ Turned(m, stage) \in Memory
           /\ Turned(m, stage).pc = stage /\ Turned(m, stage).line = m.line
           /\ Turned(m, stage).name = m.name /\ Turned(m, stage).more = m.more
           /\ Turned(m, stage).image = m.image
BY DEF Turned, Memory

(* Where a command goes with its tags pushed. *)
LEMMA AfterTagsFits ==
    ASSUME NEW m \in Memory, NEW T, NEW A, NEW S,
           m.line \in Invocations, Range(m.more) \subseteq Range(m.line.more),
           m.line.kind # "build", Packaged(m),
           \A n \in {m.name} \cup (Range(m.line.more) \ Range(m.more)) : <<n, m.image>> \in T,
           m.line.sign => m.image \in A
    PROVE  /\ AfterTags(m) \in Memory
           /\ Fits(AfterTags(m)) /\ Delivers(AfterTags(m), T, A, S)
           /\ AfterTags(m).pc \in {"tag", "credentials", "done"}
<1> DEFINE n == AfterTags(m)
<1>1. /\ n \in Memory /\ n.line = m.line /\ n.name = m.name /\ n.more = m.more
      /\ n.image = m.image
      /\ n.pc = IF m.more # << >> THEN "tag" ELSE IF m.line.sign THEN "credentials" ELSE "done"
  BY GotoType DEF AfterTags, Endings
<1> HIDE DEF n
<1>2. Packaged(n)
  BY <1>1 DEF Packaged
<1>3. m.line.sign \in BOOLEAN
  BY CommandAssumption DEF CommandLine
<1>4. Fits(n)
  BY <1>1, <1>2 DEF Fits
<1>5. Delivers(n, T, A, S)
  BY <1>1 DEF Delivers
<1>6. QED
  BY <1>1, <1>4, <1>5 DEF n

LEMMA DeliversMore ==
    ASSUME NEW m, NEW T, NEW A, NEW S, NEW T2, NEW A2, NEW S2, Delivers(m, T, A, S),
           T \subseteq T2, A \subseteq A2, S \subseteq S2
    PROVE  Delivers(m, T2, A2, S2)
BY DEF Delivers

(***************************************************************************)
(* Steps that leave the repository alone.                                  *)
(***************************************************************************)

LEMMA MemoryFrame ==
    ASSUME PublishInv, NEW r \in Processes, NEW n \in Memory, Remembers(r, n),
           tagged \subseteq tagged', asked \subseteq asked', signed \subseteq signed',
           Fits(n), Delivers(n, tagged', asked', signed')
    PROVE  Memories' /\ command' \in [Processes -> Memory] /\ command'[r] = n
<1>1. command' = [command EXCEPT ![r] = n] /\ command \in [Processes -> Memory]
  BY DEF Remembers, PublishInv, PublishTypes
<1>2. command' \in [Processes -> Memory] /\ command'[r] = n /\ \A q \in Processes \ {r} : command'[q] = command[q]
  BY <1>1
<1>3. ASSUME NEW q \in Processes \ {r}
      PROVE  Fits(command'[q]) /\ Delivers(command'[q], tagged', asked', signed')
  BY <1>2, DeliversMore DEF PublishInv, Memories
<1>4. QED
  BY <1>2, <1>3 DEF Memories

Places == {"stage", "layers", "archive", "credentials", "layout"}

LEMMA LocalStep ==
    ASSUME PublishInv, NEW r \in Processes, NEW n \in Memory, Remembers(r, n), Fits(n),
           n.pc = "done" => n.line.kind = "build",
           n.pc \in {"tag", "credentials", "sign"} => Delivers(n, tagged, asked, signed),
           UNCHANGED repository,
           \/ temps' = temps
           \/ \E d \in SUBSET Places : temps' = [temps EXCEPT ![r] = d],
           file' \in [Paths -> Images \cup {Nothing, Partial}],
           commands' \in 0..MaxCommands, mishaps' \in 0..MaxMishaps, removals' \in 0..MaxRemovals
    PROVE  PublishInv'
<1>1. Delivers(n, tagged, asked, signed)
  BY DEF Delivers
<1>2. Memories' /\ command' \in [Processes -> Memory]
  BY <1>1, MemoryFrame DEF repository
<1>3. temps' \in [Processes -> SUBSET Places]
  BY DEF PublishInv, PublishTypes, Places
<1>4. PublishTypes'
  BY <1>2, <1>3 DEF PublishInv, PublishTypes, Places, repository
<1>5. TagsAsPushed' /\ SignedAsAsked' /\ TaggedStored'
  BY DEF PublishInv, repository, TagsAsPushed, TagMatchesVersion, LatestWasPushed, SignedAsAsked,
         TaggedStored
<1>6. QED
  BY <1>2, <1>4, <1>5 DEF PublishInv

(* A command that gives up. *)
LEMMA EndStep ==
    ASSUME PublishInv, NEW r \in Processes, NEW outcome \in {"failed", "killed"},
           Remembers(r, Turned(command[r], outcome)),
           UNCHANGED repository,
           \/ temps' = temps
           \/ \E d \in SUBSET Places : temps' = [temps EXCEPT ![r] = d],
           file' \in [Paths -> Images \cup {Nothing, Partial}],
           commands' \in 0..MaxCommands, mishaps' \in 0..MaxMishaps, removals' \in 0..MaxRemovals
    PROVE  PublishInv'
<1> DEFINE n == Turned(command[r], outcome)
<1>1. command[r] \in Memory /\ Fits(command[r])
  BY DEF PublishInv, PublishTypes, Memories
<1>2. /\ n \in Memory /\ n.pc = outcome /\ n.line = command[r].line
      /\ n.more = command[r].more
  BY <1>1, GotoType DEF Endings
<1>3. Remembers(r, n)
  OBVIOUS
<1> HIDE DEF n
<1>4. Fits(n)
  BY <1>1, <1>2 DEF Fits
<1>5. QED
  BY <1>2, <1>3, <1>4, LocalStep

LEMMA Bounds ==
    ASSUME PublishTypes
    PROVE  /\ Mishap => mishaps' \in 0..MaxMishaps
           /\ commands < MaxCommands /\ commands' = commands + 1 => commands' \in 0..MaxCommands
           /\ removals < MaxRemovals /\ removals' = removals + 1 => removals' \in 0..MaxRemovals
BY PublishBounds DEF PublishTypes, Mishap

LEMMA StartStep ==
    ASSUME PublishInv, NEW r \in Processes, StartCommand(r)
    PROVE  PublishInv'
<1>1. PICK c \in Invocations :
          Remembers(r, [pc |-> First(c), line |-> c, name |-> c.name, more |-> c.more,
                      image |-> Nothing])
  BY DEF StartCommand
<1> DEFINE n == [pc |-> First(c), line |-> c, name |-> c.name, more |-> c.more,
                 image |-> Nothing]
<1>2. c \in CommandLine
  BY CommandAssumption
<1>3. First(c) \in {"stage", "build", "version", "open"}
  BY <1>2 DEF First, CommandLine
<1>4. /\ First(c) \in {"stage", "build"} => c.kind # "archive"
      /\ First(c) \in {"version", "open"} => c.kind = "archive"
      /\ First(c) = "open" => c.name # NoVersion
  BY <1>2 DEF First, CommandLine
<1>5. n \in Memory
  BY <1>2, <1>3 DEF Memory, CommandLine
<1>6. First(c) = "open" => c.name \in Releases
  BY <1>4, CommandAssumption
<1>7. Fits(n)
  BY <1>3, <1>4, <1>6 DEF Fits
<1>8. n.pc = First(c) /\ Remembers(r, n)
  BY <1>1
<1> HIDE DEF n
<1>9. /\ UNCHANGED repository /\ temps' = [temps EXCEPT ![r] = {}]
      /\ file' \in [Paths -> Images \cup {Nothing, Partial}]
      /\ commands' \in 0..MaxCommands /\ mishaps' \in 0..MaxMishaps /\ removals' \in 0..MaxRemovals
  BY Bounds DEF StartCommand, disk, PublishInv, PublishTypes
<1>10. QED
  BY <1>3, <1>5, <1>7, <1>8, <1>9, LocalStep

LEMMA BuildSteps ==
    ASSUME PublishInv, NEW r \in Processes,
           Stage(r) \/ Build(r) \/ Create(r) \/ Fill(r) \/ FillFails(r)
    PROVE  PublishInv'
<1> DEFINE m == command[r]
           c == m.line
<1>1. m \in Memory /\ Fits(m) /\ c \in Invocations /\ c \in CommandLine
  BY CommandAssumption DEF PublishInv, PublishTypes, Memories, Fits
<1>2. PublishTypes /\ temps[r] \in SUBSET Places
  BY DEF PublishInv, PublishTypes, Places
<1>3. CASE Stage(r)
  <2> DEFINE n == Turned(m, "build")
  <2>1. /\ n \in Memory /\ n.pc = "build" /\ n.line = c /\ n.name = m.name
        /\ n.more = m.more
    BY <1>1, GotoType
  <2>2. Remembers(r, n) /\ m.pc = "stage"
    BY <1>3 DEF Stage, Doing
  <2> HIDE DEF n
  <2>3. Fits(n)
    BY <1>1, <2>1, <2>2 DEF Fits
  <2>4. temps' = [temps EXCEPT ![r] = temps[r] \cup {"stage"}]
    BY <1>3 DEF Stage
  <2>5. temps[r] \cup {"stage"} \in SUBSET Places
    BY <1>2 DEF Places
  <2>6. QED
    BY <1>2, <1>3, <2>1, <2>2, <2>3, <2>4, <2>5, LocalStep DEF Stage, disk, PublishTypes
<1>4. CASE Build(r)
  <2> DEFINE image == [module |-> c.kind # "artifact", content |-> c.content,
                       version |-> IF c.kind = "artifact" THEN NoVersion ELSE c.name]
             stage == IF c.kind = "build" THEN "create" ELSE "push"
             n == [m EXCEPT !.pc = stage, !.image = image]
  <2>1. m.pc = "build" /\ c.kind # "archive" /\ m.name = c.name /\ m.more = c.more
    BY <1>1, <1>4 DEF Build, Doing, Fits
  <2>2. /\ c.kind \in {"module", "artifact", "build"}
        /\ c.kind # "artifact" => c.name \in Releases /\ Range(c.more) \subseteq {Latest}
        /\ c.name \in Names /\ c.content \in Contents
    BY <1>1, <2>1, CommandAssumption DEF CommandLine, Names
  <2>3. image \in Images
    BY <2>2 DEF Images
  <2>4. /\ image.module = (c.kind # "artifact")
        /\ c.kind # "artifact" => image.version = c.name
    OBVIOUS
  <2> HIDE DEF image
  <2>5. /\ n \in Memory /\ n.pc = stage /\ n.line = c /\ n.name = m.name
        /\ n.more = m.more /\ n.image = image
    BY <1>1, <2>3 DEF Memory
  <2>6. Remembers(r, n)
    BY <1>4 DEF Build, image
  <2> HIDE DEF n
  <2>7. Packaged(n)
    BY <2>1, <2>2, <2>3, <2>4, <2>5 DEF Packaged
  <2>8. Fits(n)
    BY <1>1, <2>1, <2>2, <2>5, <2>7 DEF Fits
  <2>9. temps' = [temps EXCEPT ![r] = temps[r] \cup {"layers"}]
    BY <1>4 DEF Build
  <2>10. temps[r] \cup {"layers"} \in SUBSET Places
    BY <1>2 DEF Places
  <2>11. n.pc \in {"create", "push"}
    BY <2>5
  <2>12. QED
    BY <1>2, <1>4, <2>5, <2>6, <2>8, <2>9, <2>10, <2>11, LocalStep DEF Build, disk, PublishTypes
<1>5. CASE Create(r) /\ file[c.path] = Nothing
  <2> DEFINE n == Turned(m, "fill")
  <2>1. /\ n \in Memory /\ n.pc = "fill" /\ n.line = c /\ n.name = m.name
        /\ n.more = m.more /\ n.image = m.image
    BY <1>1, GotoType
  <2>2. Remembers(r, n) /\ m.pc = "create"
    BY <1>5 DEF Create, Doing
  <2> HIDE DEF n
  <2>3. Fits(n)
    BY <1>1, <2>1, <2>2 DEF Fits, Packaged
  <2>4. temps' = [temps EXCEPT ![r] = temps[r] \cup {"layout"}]
    BY <1>5 DEF Create
  <2>5. temps[r] \cup {"layout"} \in SUBSET Places
    BY <1>2 DEF Places
  <2>6. file' \in [Paths -> Images \cup {Nothing, Partial}]
    BY <1>2, <1>5 DEF Create, PublishTypes
  <2>7. QED
    BY <1>2, <1>5, <2>1, <2>2, <2>3, <2>4, <2>5, <2>6, LocalStep DEF Create, PublishTypes
<1>6. CASE Create(r) /\ file[c.path] # Nothing
  BY <1>2, <1>6, EndStep DEF Create, End, PublishTypes
<1>7. CASE Fill(r)
  <2> DEFINE n == Turned(m, "done")
  <2>1. /\ n \in Memory /\ n.pc = "done" /\ n.line = c /\ n.more = m.more
    BY <1>1, GotoType DEF Endings
  <2>2. Remembers(r, n) /\ m.pc = "fill" /\ temps' = [temps EXCEPT ![r] = {}]
    BY <1>7 DEF Fill, Doing, End
  <2> HIDE DEF n
  <2>3. Fits(n) /\ n.line.kind = "build"
    BY <1>1, <2>1, <2>2 DEF Fits
  <2>4. m.image \in Images
    BY <1>1, <2>2 DEF Fits, Packaged
  <2>5. file' \in [Paths -> Images \cup {Nothing, Partial}]
    BY <1>2, <1>7, <2>4 DEF Fill, PublishTypes
  <2>6. QED
    BY <1>2, <1>7, <2>1, <2>2, <2>3, <2>5, LocalStep DEF Fill, PublishTypes
<1>8. CASE FillFails(r)
  <2>1. file' \in [Paths -> Images \cup {Nothing, Partial}]
    BY <1>2, <1>8 DEF FillFails, PublishTypes
  <2>2. QED
    BY <1>2, <1>8, <2>1, EndStep, Bounds DEF FillFails, End, PublishTypes
<1>9. QED
  BY <1>3, <1>4, <1>5, <1>6, <1>7, <1>8

LEMMA ArchiveSteps ==
    ASSUME PublishInv, NEW r \in Processes,
           ModuleVersion(r) \/ OpenArchive(r) \/ Validate(r)
    PROVE  PublishInv'
<1> DEFINE m == command[r]
           c == m.line
           found == file[c.path]
<1>1. m \in Memory /\ Fits(m) /\ c \in Invocations /\ c \in CommandLine /\ c.path \in Paths
  BY CommandAssumption DEF PublishInv, PublishTypes, Memories, Fits, CommandLine
<1>2. PublishTypes /\ temps[r] \in SUBSET Places
  BY DEF PublishInv, PublishTypes, Places
<1>3. UNCHANGED <<repository, disk, commands, mishaps>>
  BY DEF ModuleVersion, OpenArchive, Validate
<1>4. ASSUME Unreadable(r)
      PROVE  PublishInv'
  <2>1. \E d \in SUBSET Places : temps' = [temps EXCEPT ![r] = d]
    BY <1>4 DEF Unreadable, Places
  <2>2. QED
    BY <1>2, <1>3, <1>4, <2>1, EndStep DEF Unreadable, disk, PublishTypes
<1>5. ASSUME End(r, m, "failed")
      PROVE  PublishInv'
  BY <1>2, <1>3, <1>5, EndStep DEF End, disk, PublishTypes
<1>6. CASE ModuleVersion(r) /\ found \in Images /\ found.version # NoVersion
  <2> DEFINE n == [m EXCEPT !.pc = "open", !.name = found.version]
  <2>1. found.version \in Releases
    BY <1>6 DEF Images
  <2>2. /\ n \in Memory /\ n.pc = "open" /\ n.line = c /\ n.name = found.version
        /\ n.more = m.more
    BY <1>1, <2>1 DEF Memory, Names
  <2>3. Remembers(r, n) \/ Unreadable(r)
    BY <1>6 DEF ModuleVersion
  <2>4. m.pc = "version" /\ (UNCHANGED temps \/ Unreadable(r))
    BY <1>6 DEF ModuleVersion, Doing
  <2> HIDE DEF n
  <2>5. Fits(n)
    BY <1>1, <2>1, <2>2, <2>4 DEF Fits
  <2>6. QED
    BY <1>2, <1>3, <1>4, <2>2, <2>3, <2>4, <2>5, LocalStep DEF disk, PublishTypes
<1>7. CASE ModuleVersion(r) /\ ~(found \in Images /\ found.version # NoVersion)
  BY <1>4, <1>5, <1>7 DEF ModuleVersion
<1>8. CASE OpenArchive(r) /\ found \in Images
  <2> DEFINE n == [m EXCEPT !.pc = "validate", !.image = found]
  <2>1. /\ n \in Memory /\ n.pc = "validate" /\ n.line = c /\ n.name = m.name
        /\ n.more = m.more /\ n.image = found
    BY <1>1, <1>8 DEF Memory
  <2>2. ~Unreadable(r)
    BY <1>8 DEF Unreadable
  <2>3. /\ Remembers(r, n) /\ m.pc = "open"
        /\ temps' = [temps EXCEPT ![r] = temps[r] \cup {"archive"}]
    BY <1>8, <2>2 DEF OpenArchive, Doing
  <2> HIDE DEF n
  <2>4. Fits(n)
    BY <1>1, <1>8, <2>1, <2>3 DEF Fits
  <2>5. temps[r] \cup {"archive"} \in SUBSET Places
    BY <1>2 DEF Places
  <2>6. QED
    BY <1>2, <1>3, <2>1, <2>3, <2>4, <2>5, LocalStep DEF disk, PublishTypes
<1>9. CASE OpenArchive(r) /\ found \notin Images
  BY <1>4, <1>9 DEF OpenArchive
<1>10. CASE Validate(r) /\ ValidImage(m)
  <2> DEFINE n == Turned(m, "push")
  <2>1. /\ n \in Memory /\ n.pc = "push" /\ n.line = c /\ n.name = m.name
        /\ n.more = m.more /\ n.image = m.image
    BY <1>1, GotoType
  <2>2. Remembers(r, n) /\ m.pc = "validate" /\ UNCHANGED temps
    BY <1>10 DEF Validate, Doing
  <2> HIDE DEF n
  <2>3. c.kind = "archive" /\ m.name \in Releases /\ m.image \in Images
    BY <1>1, <2>2 DEF Fits
  <2>4. Packaged(n)
    BY <1>1, <1>10, <2>1, <2>3, CommandAssumption DEF Packaged, ValidImage, Names
  <2>5. Fits(n)
    BY <1>1, <2>1, <2>2, <2>3, <2>4 DEF Fits
  <2>6. QED
    BY <1>2, <1>3, <2>1, <2>2, <2>5, LocalStep DEF disk, PublishTypes
<1>11. CASE Validate(r) /\ ~ValidImage(m)
  BY <1>5, <1>11 DEF Validate
<1>12. QED
  BY <1>6, <1>7, <1>8, <1>9, <1>10, <1>11

LEMMA OtherSteps ==
    ASSUME PublishInv, NEW r \in Processes, ConfigureCredentials(r) \/ Fails(r) \/ Kill(r)
    PROVE  PublishInv'
<1> DEFINE m == command[r]
<1>1. m \in Memory /\ Fits(m) /\ Delivers(m, tagged, asked, signed)
  BY DEF PublishInv, PublishTypes, Memories
<1>2. PublishTypes /\ temps[r] \in SUBSET Places
  BY DEF PublishInv, PublishTypes, Places
<1>3. CASE ConfigureCredentials(r)
  <2> DEFINE n == Turned(m, "sign")
  <2>1. /\ n \in Memory /\ n.pc = "sign" /\ n.line = m.line /\ n.name = m.name
        /\ n.more = m.more /\ n.image = m.image
    BY <1>1, GotoType
  <2>2. /\ Remembers(r, n) /\ m.pc = "credentials"
        /\ temps' = [temps EXCEPT ![r] = temps[r] \cup {"credentials"}]
    BY <1>3 DEF ConfigureCredentials, Doing
  <2> HIDE DEF n
  <2>3. Fits(n)
    BY <1>1, <2>1, <2>2 DEF Fits, Packaged
  <2>4. Delivers(n, tagged, asked, signed)
    BY <1>1, <2>1, <2>2 DEF Delivers
  <2>5. temps[r] \cup {"credentials"} \in SUBSET Places
    BY <1>2 DEF Places
  <2>6. QED
    BY <1>2, <1>3, <2>1, <2>2, <2>3, <2>4, <2>5, LocalStep
       DEF ConfigureCredentials, disk, PublishTypes
<1>4. CASE Fails(r)
  BY <1>2, <1>4, EndStep, Bounds DEF Fails, End, disk, PublishTypes
<1>5. CASE Kill(r)
  BY <1>2, <1>5, EndStep, Bounds DEF Kill, disk, PublishTypes
<1>6. QED
  BY <1>3, <1>4, <1>5

--------------------------------------------------------------------------------
(***************************************************************************)
(* Steps that change the repository.                                       *)
(***************************************************************************)

(* A tag is given to an image it may name. *)
LEMMA UploadTags ==
    ASSUME PublishInv, NEW n \in Names, NEW image \in Images, Upload(n, image),
           image.module => \/ n \in Releases /\ image.version = n
                           \/ n = Latest /\ <<image.version, image>> \in tagged
    PROVE  /\ TagsAsPushed' /\ TaggedStored'
           /\ tags' \in [Names -> Images \cup {Nothing}]
           /\ stored' \subseteq Images /\ stored \subseteq stored' /\ image \in stored'
           /\ tagged' \subseteq Names \X Images /\ tagged \subseteq tagged'
           /\ <<n, image>> \in tagged'
<1>1. /\ tags \in [Names -> Images \cup {Nothing}] /\ tags' = [tags EXCEPT ![n] = image]
      /\ stored \subseteq Images /\ tagged \subseteq Names \X Images
      /\ stored' = stored \cup {image} /\ tagged' = tagged \cup {<<n, image>>}
  BY DEF PublishInv, PublishTypes, Upload
<1>2. tags' \in [Names -> Images \cup {Nothing}] /\ tags'[n] = image
      /\ \A k \in Names \ {n} : tags'[k] = tags[k]
  BY <1>1
<1>3. TagMatchesVersion'
  BY <1>2, VersionAssumption DEF PublishInv, TagsAsPushed, TagMatchesVersion, Names
<1>4. LatestWasPushed'
  BY <1>1, <1>2, VersionAssumption DEF PublishInv, TagsAsPushed, LatestWasPushed, Names
<1>5. TaggedStored'
  BY <1>1 DEF PublishInv, TaggedStored
<1>6. QED
  BY <1>1, <1>2, <1>3, <1>4, <1>5 DEF TagsAsPushed

(* A command goes on, its tag set. *)
LEMMA ContinueStep ==
    ASSUME PublishInv, NEW r \in Processes, NEW m \in Memory, NEW n \in Names,
           NEW kept \in SUBSET Places, Upload(n, m.image), Continue(r, m, kept),
           asked \subseteq asked', asked' \subseteq Images, UNCHANGED <<signed, disk, commands, mishaps>>,
           m.line \in Invocations, Range(m.more) \subseteq Range(m.line.more),
           m.line.kind # "build", Packaged(m),
           m.image.module => \/ n \in Releases /\ m.image.version = n
                             \/ n = Latest /\ <<m.image.version, m.image>> \in tagged,
           \A k \in {m.name} \cup (Range(m.line.more) \ Range(m.more)) :
               <<k, m.image>> \in tagged \/ k = n,
           m.line.sign => m.image \in asked'
    PROVE  PublishInv'
<1>1. /\ TagsAsPushed' /\ TaggedStored'
      /\ tags' \in [Names -> Images \cup {Nothing}]
      /\ stored' \subseteq Images /\ stored \subseteq stored'
      /\ tagged' \subseteq Names \X Images /\ tagged \subseteq tagged'
      /\ <<n, m.image>> \in tagged'
  BY UploadTags DEF Packaged
<1>2. \A k \in {m.name} \cup (Range(m.line.more) \ Range(m.more)) : <<k, m.image>> \in tagged'
  BY <1>1
<1> DEFINE a == AfterTags(m)
<1>3. a \in Memory /\ Fits(a) /\ Delivers(a, tagged', asked', signed')
  BY <1>2, AfterTagsFits
<1>4. Remembers(r, a) /\ \E d \in SUBSET Places : temps' = [temps EXCEPT ![r] = d]
  <2>1. CASE a.pc = "done"
    <3>1. m.more = << >> /\ ~m.line.sign
      BY <2>1, GotoType DEF AfterTags, Endings
    <3>2. a = Turned(m, "done")
      BY <3>1 DEF AfterTags
    <3>3. QED
      BY <2>1, <3>2 DEF Continue, End
  <2>2. CASE a.pc # "done"
    BY <2>2 DEF Continue
  <2>3. QED
    BY <2>1, <2>2
<1> HIDE DEF a
<1>5. Memories' /\ command' \in [Processes -> Memory]
  BY <1>1, <1>3, <1>4, MemoryFrame
<1>6. temps' \in [Processes -> SUBSET Places]
  BY <1>4 DEF PublishInv, PublishTypes, Places
<1>7. PublishTypes'
  BY <1>1, <1>5, <1>6 DEF PublishInv, PublishTypes, Places, disk
<1>8. SignedAsAsked'
  BY DEF PublishInv, SignedAsAsked
<1>9. QED
  BY <1>1, <1>5, <1>7, <1>8 DEF PublishInv

LEMMA PushStep ==
    ASSUME PublishInv, NEW r \in Processes, Push(r)
    PROVE  PublishInv'
<1> DEFINE m == command[r]
<1>1. m \in Memory /\ Fits(m) /\ m.pc = "push" /\ asked \subseteq Images
  BY DEF PublishInv, PublishTypes, Memories, Push, Doing
<1>2. m.line \in Invocations /\ m.line.kind # "build" /\ Packaged(m) /\ m.more = m.line.more
  BY <1>1 DEF Fits
<1>3. temps[r] \ {"layers", "archive"} \in SUBSET Places
  BY DEF PublishInv, PublishTypes, Places
<1>4. /\ asked \subseteq asked' /\ asked' \subseteq Images
      /\ m.line.sign => m.image \in asked'
  BY <1>1, <1>2 DEF Push, Packaged
<1>5. QED
  BY <1>1, <1>2, <1>3, <1>4, ContinueStep DEF Push, Packaged

LEMMA TagStep ==
    ASSUME PublishInv, NEW r \in Processes, TagArtifact(r)
    PROVE  PublishInv'
<1> DEFINE m == command[r]
           n == [m EXCEPT !.more = Tail(@)]
           h == Head(m.more)
<1>1. m \in Memory /\ Fits(m) /\ m.pc = "tag" /\ asked \subseteq Images
      /\ Delivers(m, tagged, asked, signed)
  BY DEF PublishInv, PublishTypes, Memories, TagArtifact, Doing
<1>2. /\ m.line \in Invocations /\ m.line.kind # "build" /\ Packaged(m) /\ m.more # << >>
      /\ Range(m.more) \subseteq Range(m.line.more) /\ m.more \in Seq(Names)
  BY <1>1 DEF Fits, Memory
<1>3. /\ h \in Names /\ Tail(m.more) \in Seq(Names)
      /\ Range(m.more) = {h} \cup Range(Tail(m.more))
  BY <1>2, HeadTail
<1>4. /\ n \in Memory /\ n.line = m.line /\ n.name = m.name /\ n.image = m.image
      /\ n.more = Tail(m.more)
  BY <1>1, <1>3 DEF Memory
<1>5. temps[r] \in SUBSET Places
  BY DEF PublishInv, PublishTypes, Places
<1>6. Upload(h, n.image) /\ Continue(r, n, temps[r]) /\ UNCHANGED <<signed, asked, disk, commands, mishaps>>
  BY <1>4 DEF TagArtifact
<1> HIDE DEF n, h
<1>7. Packaged(n)
  BY <1>2, <1>4 DEF Packaged
<1>8. /\ \A k \in {m.name} \cup (Range(m.line.more) \ Range(m.more)) : <<k, m.image>> \in tagged
      /\ m.line.sign => m.image \in asked
  BY <1>1 DEF Delivers
<1>9. n.image.module => h = Latest /\ <<n.image.version, n.image>> \in tagged
  BY <1>2, <1>3, <1>4, <1>8 DEF Packaged
<1>10. QED
  BY <1>1, <1>2, <1>3, <1>4, <1>5, <1>6, <1>7, <1>8, <1>9, ContinueStep

LEMMA SignStep ==
    ASSUME PublishInv, NEW r \in Processes, SignCosign(r)
    PROVE  PublishInv'
<1> DEFINE m == command[r]
           n == Turned(m, "done")
<1>1. m \in Memory /\ Fits(m) /\ m.pc = "sign" /\ Delivers(m, tagged, asked, signed)
  BY DEF PublishInv, PublishTypes, Memories, SignCosign, Doing
<1>2. /\ n \in Memory /\ n.pc = "done" /\ n.line = m.line /\ n.name = m.name
      /\ n.more = m.more /\ n.image = m.image
  BY <1>1, GotoType DEF Endings
<1>3. Remembers(r, n) /\ temps' = [temps EXCEPT ![r] = {}] /\ signed' = signed \cup {m.image}
      /\ UNCHANGED <<tags, stored, tagged, asked, disk, commands, mishaps>>
  BY DEF SignCosign, End
<1> HIDE DEF n
<1>4. Fits(n)
  BY <1>1, <1>2 DEF Fits
<1>5. Delivers(n, tagged', asked', signed')
  BY <1>1, <1>2, <1>3 DEF Delivers
<1>6. Memories' /\ command' \in [Processes -> Memory]
  BY <1>2, <1>3, <1>4, <1>5, MemoryFrame
<1>7. m.image \in asked /\ m.image \in Images
  BY <1>1 DEF Fits, Packaged, Delivers
<1>8. SignedAsAsked' /\ TagsAsPushed' /\ TaggedStored'
  BY <1>3, <1>7 DEF PublishInv, SignedAsAsked, TagsAsPushed, TagMatchesVersion, LatestWasPushed,
     TaggedStored
<1>9. m.image \in stored
  <2>1. <<m.name, m.image>> \in tagged
    BY <1>1 DEF Delivers
  <2>2. QED
    BY <2>1 DEF PublishInv, TaggedStored
<1>10. PublishTypes'
  BY <1>3, <1>6, <1>9 DEF PublishInv, PublishTypes, disk
<1>11. QED
  BY <1>6, <1>8, <1>10 DEF PublishInv

(* A request that fails may have had its effect. *)
LEMMA RequestFailsStep ==
    ASSUME PublishInv, NEW r \in Processes, RequestFails(r)
    PROVE  PublishInv'
<1> DEFINE m == command[r]
           n == Turned(m, "failed")
<1>1. m \in Memory /\ Fits(m) /\ Delivers(m, tagged, asked, signed)
  BY DEF PublishInv, PublishTypes, Memories
<1>2. n \in Memory /\ n.pc = "failed" /\ n.line = m.line /\ n.more = m.more
  BY <1>1, GotoType DEF Endings
<1>3. /\ Remembers(r, n) /\ temps' = [temps EXCEPT ![r] = {}]
      /\ mishaps' \in 0..MaxMishaps /\ UNCHANGED <<disk, commands>>
      /\ m.pc \in {"push", "tag", "sign"}
  BY Bounds DEF RequestFails, End, PublishInv
<1> HIDE DEF n
<1>4. Fits(n) /\ Delivers(n, tagged', asked', signed')
  BY <1>1, <1>2 DEF Fits, Delivers
<1>5. m.line.kind # "build" /\ Packaged(m)
  BY <1>1, <1>3 DEF Fits
<1>6. CASE UNCHANGED repository
  <2>1. temps' = temps \/ \E d \in SUBSET Places : temps' = [temps EXCEPT ![r] = d]
    BY <1>3 DEF Places
  <2>2. QED
    BY <1>2, <1>3, <1>4, <1>6, <2>1, LocalStep DEF PublishInv, PublishTypes, disk
<1>7. ASSUME NEW t \in Names, Upload(t, m.image), signed' = signed,
             asked \subseteq asked', asked' \subseteq Images,
             m.image.module => \/ t \in Releases /\ m.image.version = t
                               \/ t = Latest /\ <<m.image.version, m.image>> \in tagged
      PROVE  PublishInv'
  <2>1. /\ TagsAsPushed' /\ TaggedStored'
        /\ tags' \in [Names -> Images \cup {Nothing}]
        /\ stored' \subseteq Images /\ stored \subseteq stored'
        /\ tagged' \subseteq Names \X Images /\ tagged \subseteq tagged'
    BY <1>5, <1>7, UploadTags DEF Packaged
  <2>2. Memories' /\ command' \in [Processes -> Memory]
    BY <1>2, <1>3, <1>4, <1>7, <2>1, MemoryFrame
  <2>3. SignedAsAsked'
    BY <1>7 DEF PublishInv, SignedAsAsked
  <2>4. PublishTypes'
    BY <1>3, <1>7, <2>1, <2>2 DEF PublishInv, PublishTypes, disk
  <2>5. QED
    BY <2>1, <2>2, <2>3, <2>4 DEF PublishInv
<1>8. CASE /\ Doing(r, "push") /\ Upload(m.name, m.image) /\ UNCHANGED signed
           /\ asked' = IF m.line.sign THEN asked \cup {m.image} ELSE asked
  <2>1. asked \subseteq asked' /\ asked' \subseteq Images
    BY <1>5, <1>8 DEF Packaged, PublishInv, PublishTypes
  <2>2. QED
    BY <1>5, <1>7, <1>8, <2>1 DEF Packaged
<1>9. CASE Doing(r, "tag") /\ Upload(Head(m.more), m.image) /\ UNCHANGED <<signed, asked>>
  <2>1. m.pc = "tag" /\ m.more \in Seq(Names) /\ m.more # << >>
    BY <1>1, <1>9 DEF Doing, Fits, Memory
  <2>2. Head(m.more) \in Names /\ Head(m.more) \in Range(m.line.more)
    BY <1>1, <2>1, HeadTail DEF Fits
  <2>3. <<m.name, m.image>> \in tagged
    BY <1>1, <2>1 DEF Delivers
  <2>4. m.image.module => Head(m.more) = Latest /\ <<m.image.version, m.image>> \in tagged
    BY <1>5, <2>2, <2>3 DEF Packaged
  <2>5. asked \subseteq asked' /\ asked' \subseteq Images
    BY <1>9 DEF PublishInv, PublishTypes
  <2>6. QED
    BY <1>7, <1>9, <2>2, <2>4, <2>5
<1>10. CASE /\ Doing(r, "sign") /\ signed' = signed \cup {m.image}
            /\ UNCHANGED <<tags, stored, tagged, asked>>
  <2>1. m.line.sign /\ m.pc = "sign"
    BY <1>1, <1>10 DEF Doing, Fits
  <2>2. m.image \in asked /\ <<m.name, m.image>> \in tagged
    BY <1>1, <2>1 DEF Delivers
  <2>3. m.image \in stored
    BY <2>2 DEF PublishInv, TaggedStored
  <2>4. Memories' /\ command' \in [Processes -> Memory]
    BY <1>2, <1>3, <1>4, <1>10, MemoryFrame
  <2>5. SignedAsAsked' /\ TagsAsPushed' /\ TaggedStored'
    BY <1>10, <2>2 DEF PublishInv, SignedAsAsked, TagsAsPushed, TagMatchesVersion,
       LatestWasPushed, TaggedStored
  <2>6. PublishTypes'
    BY <1>3, <1>10, <2>3, <2>4 DEF PublishInv, PublishTypes, disk
  <2>7. QED
    BY <2>4, <2>5, <2>6 DEF PublishInv
<1>11. QED
  BY <1>6, <1>8, <1>9, <1>10 DEF RequestFails

LEMMA PublishKept ==
    ASSUME PublishInv, [PublishNext]_publishVars
    PROVE  PublishInv'
<1>1. CASE UNCHANGED publishVars
  BY <1>1 DEF publishVars, PublishInv, PublishTypes, Memories, TagsAsPushed, TagMatchesVersion,
              LatestWasPushed, SignedAsAsked, TaggedStored
<1>2. ASSUME NEW p \in Paths, Remove(p)
      PROVE  PublishInv'
  <2>1. PublishTypes'
    BY <1>2, Bounds DEF Remove, repository, PublishInv, PublishTypes
  <2>2. QED
    BY <1>2, <2>1 DEF Remove, repository, PublishInv, Memories, TagsAsPushed,
       TagMatchesVersion, LatestWasPushed, SignedAsAsked, TaggedStored
<1>3. QED
  BY <1>1, <1>2, StartStep, BuildSteps, ArchiveSteps, OtherSteps, PushStep, TagStep, SignStep,
     RequestFailsStep DEF PublishNext, PublishQuiet

LEMMA PublishBegun == PublishInit => PublishInv
<1> SUFFICES ASSUME PublishInit PROVE PublishInv
  OBVIOUS
<1> DEFINE c == CHOOSE l \in Invocations : TRUE
           n == [pc |-> "idle", line |-> c, name |-> NoVersion, more |-> << >>, image |-> Nothing]
<1>1. c \in Invocations /\ c \in CommandLine
  BY CommandAssumption
<1>2. n \in Memory
  BY <1>1 DEF Memory
<1>3. Range(<< >>) = {}
  BY DEF Range
<1>4. Fits(n) /\ Delivers(n, tagged, asked, signed)
  BY <1>1, <1>3 DEF Fits, Delivers
<1>5. command = [r \in Processes |-> n]
  BY DEF PublishInit
<1> HIDE DEF n
<1>6. Memories /\ command \in [Processes -> Memory]
  BY <1>2, <1>4, <1>5 DEF Memories
<1>7. file \in [Paths -> Images \cup {Nothing, Partial}]
  BY DEF PublishInit, Images
<1>8. PublishTypes
  BY <1>6, <1>7, PublishBounds DEF PublishInit, PublishTypes
<1>9. TagsAsPushed
  BY FileAssumption, VersionAssumption
     DEF PublishInit, TagsAsPushed, TagMatchesVersion, LatestWasPushed, Names
<1>10. QED
  BY <1>6, <1>8, <1>9 DEF PublishInit, PublishInv, SignedAsAsked, TaggedStored

(* What a command remembers of what it has pushed is true, tags and          *)
(* signatures are those of the commands, and the state is well-formed.       *)
THEOREM PublishInvHolds == PublishSpec => []PublishInv
<1>1. PublishInit => PublishInv
  BY PublishBegun
<1>2. PublishInv /\ [PublishNext]_publishVars => PublishInv'
  BY PublishKept
<1>3. QED
  BY <1>1, <1>2, PTL DEF PublishSpec

(* Whatever else is pushed, replaced, removed or killed meanwhile, no module *)
(* is tagged with a version it is not annotated with, nor with "latest"      *)
(* before its version.                                                       *)
THEOREM TagsHold == PublishSpec => []TagsAsPushed
BY PublishInvHolds, PTL DEF PublishInv

(* A command that ends well has tagged and signed what it packaged, and      *)
(* nothing is signed that no command was to sign.                            *)
THEOREM PublishedHolds == PublishSpec => []PublishedAsAsked
<1>1. PublishInv => PublishedAsAsked
  <2> SUFFICES ASSUME PublishInv PROVE DonePublished
    BY DEF PublishInv, PublishedAsAsked
  <2> SUFFICES ASSUME NEW r \in Processes, Doing(r, "done"), command[r].line.kind # "build"
               PROVE  /\ \A n \in {command[r].name} \cup Range(command[r].line.more) :
                             <<n, command[r].image>> \in tagged
                      /\ command[r].line.sign => command[r].image \in signed
    BY DEF DonePublished
  <2>1. command[r].more = << >> /\ Delivers(command[r], tagged, asked, signed)
    BY DEF PublishInv, Memories, Fits, Doing
  <2>2. Range(<< >>) = {}
    BY DEF Range
  <2>3. QED
    BY <2>1, <2>2 DEF Delivers, Doing
<1>2. QED
  BY <1>1, PublishInvHolds, PTL

--------------------------------------------------------------------------------
(***************************************************************************)
(* Files.                                                                  *)
(***************************************************************************)

(* A step of r touches its own memory and directories only; when it ends, its *)
(* directories are removed; only what writes an output changes one, and a     *)
(* command that was killed does nothing more.                                 *)
LEMMA StepTemps ==
    ASSUME PublishInv, NEW r \in Processes,
           \/ StartCommand(r) \/ Stage(r) \/ Build(r) \/ Create(r) \/ Fill(r) \/ FillFails(r)
           \/ ModuleVersion(r) \/ OpenArchive(r) \/ Validate(r)
           \/ Push(r) \/ TagArtifact(r) \/ ConfigureCredentials(r) \/ SignCosign(r)
           \/ RequestFails(r) \/ Fails(r) \/ Kill(r)
    PROVE  /\ \A q \in Processes \ {r} : command'[q] = command[q] /\ temps'[q] = temps[q]
           /\ command'[r].pc \in {"done", "failed"} => temps'[r] \subseteq {"archive"}
           /\ command[r].pc \notin {"create", "fill"} => command'[r].pc # "fill" /\ file' = file
           /\ command[r].pc = "killed" => command'[r] = command[r]
<1> DEFINE m == command[r]
           Clean == /\ \A q \in Processes \ {r} : command'[q] = command[q] /\ temps'[q] = temps[q]
                    /\ command'[r].pc \in {"done", "failed"} => temps'[r] \subseteq {"archive"}
                    /\ m.pc \notin {"create", "fill"} => command'[r].pc # "fill" /\ file' = file
                    /\ m.pc = "killed" => command'[r] = command[r]
<1> SUFFICES Clean
  OBVIOUS
<1>1. m \in Memory /\ PublishTypes
  BY DEF PublishInv, PublishTypes
<1>2. ASSUME NEW n, Remembers(r, n), n.pc \notin {"done", "failed"}, m.pc # "killed",
             \/ temps' = temps
             \/ \E d : temps' = [temps EXCEPT ![r] = d],
             m.pc \notin {"create", "fill"} => n.pc # "fill" /\ file' = file
      PROVE  Clean
  BY <1>1, <1>2 DEF Remembers, PublishTypes
<1>3. ASSUME NEW n, NEW outcome \in {"done", "failed"}, End(r, n, outcome), n \in Memory,
             m.pc # "killed", m.pc \notin {"create", "fill"} => file' = file
      PROVE  Clean
  <2>1. Turned(n, outcome).pc = outcome
    BY <1>3, GotoType DEF Endings
  <2>2. command'[r] = Turned(n, outcome) /\ temps'[r] = {}
        /\ \A q \in Processes \ {r} : command'[q] = command[q] /\ temps'[q] = temps[q]
    BY <1>1, <1>3 DEF End, Remembers, PublishTypes
  <2>3. QED
    BY <1>3, <2>1, <2>2
<1>4. \A stage \in {"build", "fill", "push", "sign", "killed"} :
          Turned(m, stage).pc = stage
  BY <1>1, GotoType DEF Endings
<1>5. CASE StartCommand(r)
  <2>1. PICK c \in Invocations :
            Remembers(r, [pc |-> First(c), line |-> c, name |-> c.name, more |-> c.more,
                        image |-> Nothing])
    BY <1>5 DEF StartCommand
  <2> DEFINE n == [pc |-> First(c), line |-> c, name |-> c.name, more |-> c.more,
                   image |-> Nothing]
  <2>2. First(c) \in {"stage", "build", "version", "open"}
    BY CommandAssumption DEF First, CommandLine
  <2>3. n.pc = First(c) /\ Remembers(r, n)
    BY <2>1
  <2>4. m.pc # "killed" /\ temps' = [temps EXCEPT ![r] = {}] /\ file' = file
    BY <1>5 DEF StartCommand, disk
  <2> HIDE DEF n, Clean
  <2>5. QED
    BY <1>2, <2>2, <2>3, <2>4
<1>6. CASE Stage(r)
  <2> HIDE DEF Clean
  <2>1. QED
    BY <1>2, <1>4, <1>6 DEF Stage, Doing, disk
<1>7. CASE Build(r)
  <2>1. PICK stage \in {"create", "push"} : \E image :
            Remembers(r, [m EXCEPT !.pc = stage, !.image = image])
    BY <1>7 DEF Build
  <2>2. \A image : [m EXCEPT !.pc = stage, !.image = image].pc = stage
    BY <1>1 DEF Memory
  <2>3. m.pc = "build" /\ file' = file /\ \E d : temps' = [temps EXCEPT ![r] = d]
    BY <1>7 DEF Build, Doing, disk
  <2> HIDE DEF Clean
  <2>4. QED
    BY <1>2, <2>1, <2>2, <2>3
<1>8. CASE Create(r) \/ Fill(r) \/ FillFails(r)
  <2>1. \/ \E outcome \in {"done", "failed"} : End(r, m, outcome)
        \/ Remembers(r, Turned(m, "fill")) /\ \E d : temps' = [temps EXCEPT ![r] = d]
    BY <1>8 DEF Create, Fill, FillFails
  <2>2. m.pc \in {"create", "fill"}
    BY <1>8 DEF Create, Fill, FillFails, Doing
  <2> HIDE DEF Clean
  <2>3. QED
    BY <1>1, <1>2, <1>3, <1>4, <2>1, <2>2
<1>9. ASSUME Unreadable(r), m.pc \in {"version", "open"}, file' = file
      PROVE  Clean
  <2>1. command'[r] = Turned(m, "failed") /\ \A q \in Processes \ {r} : command'[q] = command[q]
    BY <1>1, <1>9 DEF Unreadable, Remembers, PublishTypes
  <2>2. Turned(m, "failed").pc = "failed"
    BY <1>1, GotoType DEF Endings
  <2>3. temps'[r] \subseteq {"archive"} /\ \A q \in Processes \ {r} : temps'[q] = temps[q]
    BY <1>1, <1>9 DEF Unreadable, PublishTypes
  <2>4. QED
    BY <1>9, <2>1, <2>2, <2>3
<1>10. CASE ModuleVersion(r)
  <2> DEFINE n == [m EXCEPT !.pc = "open", !.name = file[m.line.path].version]
  <2>1. n.pc = "open"
    BY <1>1 DEF Memory
  <2>2. \/ Unreadable(r) \/ End(r, m, "failed")
        \/ Remembers(r, n) /\ UNCHANGED temps
    BY <1>10 DEF ModuleVersion
  <2>3. m.pc = "version" /\ file' = file
    BY <1>10 DEF ModuleVersion, Doing, disk
  <2> HIDE DEF n, Clean
  <2>4. QED
    BY <1>1, <1>2, <1>3, <1>9, <2>1, <2>2, <2>3
<1>11. CASE OpenArchive(r)
  <2> DEFINE n == [m EXCEPT !.pc = "validate", !.image = file[m.line.path]]
  <2>1. n.pc = "validate"
    BY <1>1 DEF Memory
  <2>2. \/ Unreadable(r)
        \/ Remembers(r, n) /\ \E d : temps' = [temps EXCEPT ![r] = d]
    BY <1>11 DEF OpenArchive
  <2>3. m.pc = "open" /\ file' = file
    BY <1>11 DEF OpenArchive, Doing, disk
  <2> HIDE DEF n, Clean
  <2>4. QED
    BY <1>2, <1>9, <2>1, <2>2, <2>3
<1>12. CASE Validate(r)
  <2> HIDE DEF Clean
  <2>1. QED
    BY <1>1, <1>2, <1>3, <1>4, <1>12 DEF Validate, Doing, disk
<1>13. ASSUME NEW n \in Memory, NEW kept, Continue(r, n, kept), m.pc \in {"push", "tag"},
              file' = file
       PROVE  Clean
  <2>1. CASE AfterTags(n).pc = "done"
    <3> HIDE DEF Clean
    <3>1. QED
      BY <1>3, <1>13, <2>1 DEF Continue
  <2>2. CASE AfterTags(n).pc # "done"
    <3>1. AfterTags(n).pc \in {"tag", "credentials"}
      BY <1>13, <2>2, GotoType DEF AfterTags, Endings
    <3> DEFINE a == AfterTags(n)
    <3>2. Remembers(r, a) /\ temps' = [temps EXCEPT ![r] = kept] /\ a.pc \in {"tag", "credentials"}
      BY <1>13, <2>2, <3>1 DEF Continue
    <3> HIDE DEF Clean, a
    <3>3. QED
      BY <1>2, <1>13, <3>2
  <2>3. QED
    BY <2>1, <2>2
<1>14. CASE Push(r)
  <2> HIDE DEF Clean
  <2>1. QED
    BY <1>1, <1>13, <1>14 DEF Push, Doing, disk
<1>15. CASE TagArtifact(r)
  <2> DEFINE n == [m EXCEPT !.more = Tail(@)]
  <2>0. m.more # << >>
    BY <1>15 DEF TagArtifact, Doing, PublishInv, Memories, Fits
  <2>1. n \in Memory
    BY <1>1, <2>0, HeadTail DEF Memory
  <2>2. Continue(r, n, temps[r]) /\ m.pc = "tag" /\ file' = file
    BY <1>15 DEF TagArtifact, Doing, disk
  <2> HIDE DEF Clean, n
  <2>3. QED
    BY <1>13, <2>1, <2>2
<1>16. CASE ConfigureCredentials(r)
  <2> HIDE DEF Clean
  <2>1. QED
    BY <1>2, <1>4, <1>16 DEF ConfigureCredentials, Doing, disk
<1>17. CASE SignCosign(r) \/ RequestFails(r) \/ Fails(r)
  <2>1. \E outcome \in {"done", "failed"} : End(r, m, outcome)
    BY <1>17 DEF SignCosign, RequestFails, Fails
  <2>2. file' = file /\ m.pc # "killed"
    BY <1>17 DEF SignCosign, RequestFails, Fails, Doing, disk
  <2> HIDE DEF Clean
  <2>3. QED
    BY <1>1, <1>3, <2>1, <2>2
<1>18. CASE Kill(r)
  <2>1. Remembers(r, Turned(m, "killed")) /\ temps' = temps /\ file' = file /\ m.pc # "killed"
    BY <1>18 DEF Kill, disk, Endings
  <2> HIDE DEF Clean
  <2>2. QED
    BY <1>2, <1>4, <2>1
<1>19. QED
  <2> HIDE DEF Clean
  <2>1. QED
    BY <1>5, <1>6, <1>7, <1>8, <1>10, <1>11, <1>12, <1>14, <1>15, <1>16, <1>17, <1>18

(* A command that has ended, and was not killed, has left no temporary        *)
(* directory but that of an archive it could not read, and the state is       *)
(* well-formed.                                                               *)
THEOREM PublishTypeCorrect == PublishSpec => []PublishTypeOK
<1>1. PublishInit => TempsRemoved
  BY DEF PublishInit, TempsRemoved
<1>2. PublishInv /\ TempsRemoved /\ [PublishNext]_publishVars => TempsRemoved'
  <2> SUFFICES ASSUME PublishInv, TempsRemoved, [PublishNext]_publishVars
               PROVE  TempsRemoved'
    OBVIOUS
  <2>1. CASE command' = command /\ temps' = temps
    BY <2>1 DEF TempsRemoved
  <2>2. QED
    BY <2>1, StepTemps DEF PublishNext, Remove, PublishQuiet, publishVars, TempsRemoved
<1>3. QED
  BY <1>1, <1>2, PublishInvHolds, PTL DEF PublishSpec, PublishInv, PublishTypeOK

(* The command line of a command is fixed when it starts. *)
LEMMA LineKept ==
    ASSUME PublishInv, NEW r \in Processes,
           Create(r) \/ Fill(r) \/ FillFails(r) \/ Kill(r)
    PROVE  /\ command'[r].line = command[r].line
           /\ Create(r) => \/ file[command[r].line.path] = Nothing /\ command'[r].pc = "fill"
                           \/ file' = file /\ command'[r].pc = "failed"
           /\ Fill(r) => command'[r].pc = "done"
           /\ FillFails(r) => command'[r].pc = "failed"
           /\ Kill(r) => command'[r].pc = "killed"
<1> DEFINE m == command[r]
<1>1. m \in Memory /\ PublishTypes
  BY DEF PublishInv, PublishTypes
<1>2. \A stage \in {"fill", "done", "failed", "killed"} :
          Turned(m, stage).line = m.line /\ Turned(m, stage).pc = stage
  BY <1>1, GotoType DEF Endings
<1>3. ASSUME NEW n, Remembers(r, n)
      PROVE  command'[r] = n
  BY <1>1, <1>3 DEF Remembers, PublishTypes
<1>4. CASE Create(r)
  BY <1>2, <1>3, <1>4 DEF Create, End, Doing, Fill, FillFails, Kill
<1>5. CASE Fill(r)
  BY <1>2, <1>3, <1>5 DEF Fill, End, Doing, Create, FillFails, Kill
<1>6. CASE FillFails(r)
  BY <1>2, <1>3, <1>6 DEF FillFails, End, Doing, Create, Fill, Kill
<1>7. CASE Kill(r)
  BY <1>2, <1>3, <1>7 DEF FillFails, End, Doing, Create, Fill, Kill
<1>8. QED
  BY <1>4, <1>5, <1>6, <1>7

LEMMA OwnedPlain ==
    ASSUME OutputsOwned, NEW r \in Processes, file' = file,
           \A q \in Processes \ {r} : command'[q] = command[q],
           command[r].pc # "fill", command'[r].pc # "fill", command[r].pc = "killed" => command'[r] = command[r]
    PROVE  OutputsOwned'
<1>1. \A q \in Processes, p \in Paths : Filling(q, p)' => Filling(q, p)
  BY DEF Filling, Doing
<1>2. \A q \in Processes, p \in Paths :
          command[q].line.path = p /\ command[q].pc \in {"fill", "killed"} =>
              command'[q].line.path = p /\ command'[q].pc \in {"fill", "killed"}
  OBVIOUS
<1>3. QED
  BY <1>1, <1>2 DEF OutputsOwned

LEMMA OwnedStep ==
    ASSUME PublishInv, OutputsOwned, NEW r \in Processes,
           \/ StartCommand(r) \/ Stage(r) \/ Build(r) \/ Create(r) \/ Fill(r) \/ FillFails(r)
           \/ ModuleVersion(r) \/ OpenArchive(r) \/ Validate(r)
           \/ Push(r) \/ TagArtifact(r) \/ ConfigureCredentials(r) \/ SignCosign(r)
           \/ RequestFails(r) \/ Fails(r) \/ Kill(r)
    PROVE  OutputsOwned'
<1> DEFINE m == command[r]
           p == m.line.path
<1>1. m \in Memory /\ PublishTypes /\ Fits(m) /\ p \in Paths
  BY CommandAssumption DEF PublishInv, PublishTypes, Memories, Fits, CommandLine
<1>2. \A q \in Processes \ {r} : command'[q] = command[q]
  BY StepTemps
<1>3. CASE m.pc \notin {"create", "fill"}
  BY <1>3, StepTemps, OwnedPlain
<1>4. CASE m.pc \in {"create", "fill"}
  <2>1. Create(r) \/ Fill(r) \/ FillFails(r) \/ Kill(r) \/ (Fails(r) /\ m.pc = "create")
    BY <1>4 DEF StartCommand, Stage, Build, ModuleVersion, OpenArchive, Validate, Push, TagArtifact,
       ConfigureCredentials, SignCosign, RequestFails, Fails, Doing
  <2>2. CASE Fails(r) /\ m.pc = "create"
    <3>1. command'[r] = Turned(m, "failed") /\ file' = file
      BY <1>1, <2>2 DEF Fails, End, Remembers, disk, PublishTypes
    <3>2. command'[r].pc = "failed"
      BY <1>1, <3>1, GotoType DEF Endings
    <3>3. QED
      BY <1>2, <2>2, <3>1, <3>2, OwnedPlain
  <2>3. CASE Create(r)
    <3>1. m.pc = "create" /\ command'[r].line = m.line
      BY <2>3, LineKept DEF Create, Doing
    <3>2. CASE file' = file /\ command'[r].pc = "failed"
      BY <1>2, <3>1, <3>2, OwnedPlain
    <3>3. CASE file[p] = Nothing /\ command'[r].pc = "fill"
      <4>1. file' = [file EXCEPT ![p] = Partial]
        BY <2>3, <3>3 DEF Create
      <4>2. file'[p] = Partial /\ \A o \in Paths \ {p} : file'[o] = file[o]
        BY <1>1, <4>1 DEF PublishTypes
      <4>3. \A q \in Processes \ {r}, o \in Paths : Filling(q, o)' => Filling(q, o) /\ o # p
        BY <1>2, <3>3, FileAssumption DEF OutputsOwned, Filling, Doing
      <4>4. \A o \in Paths : Filling(r, o)' => o = p
        BY <3>1 DEF Filling
      <4>5. \A q \in Processes, o \in Paths : Filling(q, o)' => file'[o] = Partial
        BY <4>2, <4>3, <4>4 DEF OutputsOwned
      <4>6. \A q, k \in Processes, o \in Paths : Filling(q, o)' /\ Filling(k, o)' => q = k
        BY <4>3, <4>4 DEF OutputsOwned
      <4>7. ASSUME NEW o \in Paths, file'[o] = Partial
            PROVE  \E q \in Processes : command'[q].line.path = o /\ command'[q].pc \in {"fill", "killed"}
        <5>1. CASE o = p
          BY <3>1, <3>3, <5>1
        <5>2. CASE o # p
          <6>1. PICK q \in Processes : command[q].line.path = o /\ command[q].pc \in {"fill", "killed"}
            BY <4>2, <4>7, <5>2 DEF OutputsOwned
          <6>2. q # r
            BY <3>1, <6>1
          <6>3. QED
            BY <1>2, <6>1, <6>2
        <5>3. QED
          BY <5>1, <5>2
      <4>8. QED
        BY <4>5, <4>6, <4>7 DEF OutputsOwned
    <3>4. QED
      BY <2>3, <3>2, <3>3, LineKept
  <2>4. CASE Fill(r) \/ FillFails(r)
    <3>1. m.pc = "fill" /\ command'[r].line = m.line /\ command'[r].pc \in {"done", "failed"}
      BY <2>4, LineKept DEF Fill, FillFails, Doing
    <3>2. m.image \in Images
      BY <1>1, <3>1 DEF Fits, Packaged
    <3>3. file'[p] # Partial /\ \A o \in Paths \ {p} : file'[o] = file[o]
      BY <1>1, <2>4, <3>2, FileAssumption DEF Fill, FillFails, PublishTypes
    <3>4. \A q \in Processes, o \in Paths : Filling(q, o)' => q # r /\ Filling(q, o)
      BY <1>2, <3>1 DEF Filling, Doing
    <3>5. \A q \in Processes, o \in Paths : Filling(q, o)' => o # p
      BY <3>1, <3>4 DEF OutputsOwned, Filling, Doing
    <3>6. \A q \in Processes, o \in Paths : Filling(q, o)' => file'[o] = Partial
      BY <3>3, <3>4, <3>5 DEF OutputsOwned
    <3>7. ASSUME NEW o \in Paths, file'[o] = Partial
          PROVE  \E q \in Processes : command'[q].line.path = o /\ command'[q].pc \in {"fill", "killed"}
      <4>1. o # p /\ file[o] = Partial
        BY <3>3, <3>7
      <4>2. PICK q \in Processes : command[q].line.path = o /\ command[q].pc \in {"fill", "killed"}
        BY <4>1 DEF OutputsOwned
      <4>3. q # r
        BY <4>1, <4>2
      <4>4. QED
        BY <1>2, <4>2, <4>3
    <3>8. QED
      BY <3>4, <3>6, <3>7 DEF OutputsOwned
  <2>5. CASE Kill(r)
    <3>1. command'[r].line = m.line /\ command'[r].pc = "killed" /\ file' = file
      BY <2>5, LineKept DEF Kill, disk
    <3>2. \A q \in Processes, o \in Paths : Filling(q, o)' => Filling(q, o)
      BY <1>2, <3>1 DEF Filling, Doing
    <3>3. \A q \in Processes, o \in Paths :
              command[q].line.path = o /\ command[q].pc \in {"fill", "killed"} =>
                  command'[q].line.path = o /\ command'[q].pc \in {"fill", "killed"}
      BY <1>2, <3>1
    <3>4. QED
      BY <3>1, <3>2, <3>3 DEF OutputsOwned
  <2>6. QED
    BY <2>1, <2>2, <2>3, <2>4, <2>5
<1>5. QED
  BY <1>3, <1>4

LEMMA OwnedNext ==
    ASSUME PublishInv, OutputsOwned, [PublishNext]_publishVars
    PROVE  OutputsOwned'
<1>1. ASSUME command' = command, file' = file
      PROVE  OutputsOwned'
  BY <1>1 DEF OutputsOwned, Filling, Doing
<1>2. ASSUME NEW p \in Paths, Remove(p)
      PROVE  OutputsOwned'
  <2>1. command' = command /\ file'[p] = Nothing /\ \A o \in Paths \ {p} : file'[o] = file[o]
    BY <1>2 DEF Remove, PublishInv, PublishTypes
  <2>2. \A r \in Processes, o \in Paths : Filling(r, o)' => Filling(r, o) /\ o # p
    BY <1>2, <2>1 DEF Remove, Filling, Doing
  <2>3. \A o \in Paths : file'[o] = Partial => file[o] = Partial
    BY <2>1, FileAssumption
  <2>4. QED
    BY <2>1, <2>2, <2>3 DEF OutputsOwned
<1>3. QED
  BY <1>1, <1>2, OwnedStep DEF PublishNext, PublishQuiet, publishVars

(* No command writes over or removes a complete archive or layout, and what  *)
(* is incomplete belongs to the command that writes it or to one that was    *)
(* killed: Create, Fill and FillFails do not collide, whoever removes what.  *)
THEOREM OutputsKeptHolds == PublishSpec => OutputsKept
<1> DEFINE Kept(p) ==
        /\ file[p] \in Images /\ file'[p] # file[p] => removals' # removals
        /\ file'[p] = Partial =>
               \E r \in Processes : command'[r].line.path = p /\ command'[r].pc \in {"fill", "killed"}
<1>1. ASSUME PublishInv, OutputsOwned, OutputsOwned', [PublishNext]_publishVars, NEW p \in Paths
      PROVE  Kept(p)
  <2>1. ASSUME file[p] \in Images, file'[p] # file[p]
        PROVE  removals' # removals
    <3>1. ASSUME NEW o \in Paths, Remove(o)
          PROVE  removals' # removals
      BY <1>1, <3>1 DEF Remove, PublishInv, PublishTypes
    <3>2. ASSUME NEW r \in Processes, Create(r) \/ Fill(r) \/ FillFails(r)
          PROVE  FALSE
      <4>1. command[r].line.path \in Paths
        BY <1>1, CommandAssumption DEF PublishInv, Memories, Fits, CommandLine
      <4>2. p = command[r].line.path
        BY <1>1, <2>1, <3>2 DEF Create, Fill, FillFails, PublishInv, PublishTypes
      <4>3. CASE Create(r)
        BY <2>1, <4>2, <4>3, FileAssumption DEF Create
      <4>4. CASE Fill(r) \/ FillFails(r)
        <5>1. Filling(r, p)
          BY <4>2, <4>4 DEF Fill, FillFails, Filling
        <5>2. QED
          BY <1>1, <2>1, <5>1, FileAssumption DEF OutputsOwned
      <4>5. QED
        BY <3>2, <4>3, <4>4
    <3>3. QED
      BY <1>1, <2>1, <3>1, <3>2 DEF PublishNext, PublishQuiet, publishVars, disk, StartCommand, Stage, Build, ModuleVersion,
         OpenArchive, Validate, Push, TagArtifact, ConfigureCredentials, SignCosign,
         RequestFails, Fails, Kill
  <2>2. QED
    BY <1>1, <2>1 DEF OutputsOwned
<1>2. PublishInv /\ OutputsOwned /\ OutputsOwned' /\ [PublishNext]_publishVars => [\A p \in Paths : Kept(p)]_publishVars
  BY <1>1
<1>3. PublishInit => OutputsOwned
  <2>1. [module : {FALSE}, content : Contents, version : {NoVersion}] \subseteq Images
    BY DEF Images
  <2>2. ASSUME PublishInit, NEW p \in Paths
        PROVE  file[p] \in {Nothing} \cup Images
    BY <2>1, <2>2 DEF PublishInit
  <2>3. ASSUME PublishInit, NEW r \in Processes
        PROVE  command[r].pc = "idle"
    BY <2>3 DEF PublishInit
  <2>4. QED
    BY <2>2, <2>3, FileAssumption DEF OutputsOwned, Filling, Doing
<1>4. PublishInv /\ OutputsOwned /\ [PublishNext]_publishVars => OutputsOwned'
  BY OwnedNext
<1>5. QED
  BY <1>2, <1>3, <1>4, PublishInvHolds, PTL DEF PublishSpec, OutputsKept

================================================================================
