-------------------------------- MODULE Publish --------------------------------
(***************************************************************************)
(* Publishing: `timoni mod push` of a directory or of a local archive,     *)
(* `timoni mod build` of that archive and `timoni artifact push`           *)
(* (cmd/timoni/mod_push.go, mod_build.go, artifact_push.go, and            *)
(* internal/oci).                                                          *)
(*                                                                         *)
(* Commands run concurrently on one repository and one file system.        *)
(* Requests fail, with or without their effect, and commands are killed.   *)
(***************************************************************************)
EXTENDS Naturals, Sequences, Functions

CONSTANTS
    Processes,    \* slots of concurrent commands
    Contents,     \* contents of source directories
    Releases,     \* module versions
    Latest,       \* the tag "latest"
    NoVersion,    \* no version annotation, or no --version flag
    Paths,        \* paths of local archives and layouts
    Nothing,      \* there is no file at a path
    Partial,      \* a file that is not completely written
    Invocations,  \* command lines
    MaxCommands,  \* bound: commands started
    MaxMishaps,   \* bound: failures and kills
    MaxRemovals   \* bound: local archives removed by hand

Names == Releases \cup {Latest}

(* An image is told from others by its digest: what was packaged and the     *)
(* version annotated, which an artifact that is no module does not have.     *)
Images == [module : BOOLEAN, content : Contents, version : Releases \cup {NoVersion}]

(* name: the tag that is pushed, the version of a module; more: the tags     *)
(* added to it.                                                              *)
CommandLine ==
    [kind : {"module", "artifact", "archive", "build"}, content : Contents,
     name : Names \cup {NoVersion}, more : Seq(Names), sign : BOOLEAN,
     resolve : BOOLEAN, path : Paths]

ASSUME VersionAssumption == {Latest, NoVersion} \cap Releases = {} /\ Latest # NoVersion
(* `mod push` adds no tag but "latest".                                      *)
ASSUME CommandAssumption ==
    /\ Invocations # {}
    /\ \A c \in Invocations :
        /\ c \in CommandLine
        /\ c.kind \in {"module", "build"} => c.name \in Releases
        /\ c.kind # "artifact" => Range(c.more) \subseteq {Latest}
        /\ c.kind = "artifact" => c.name \in Names
        /\ c.kind = "archive" => c.name \in Releases \cup {NoVersion} /\ ~c.resolve
ASSUME FileAssumption    == Nothing \notin Images /\ Partial \notin Images /\ Nothing # Partial
ASSUME PublishBounds ==
    MaxCommands \in Nat /\ MaxMishaps \in Nat /\ MaxRemovals \in Nat

VARIABLES
    tags,      \* tags[n]: the image tag n of the repository points to
    stored,    \* images in the repository, by digest
    signed,    \* images with a signature
    file,      \* file[p]: the archive or layout at path p
    temps,     \* temps[r]: temporary directories of process r
    command,   \* the memory of each command
    tagged,    \* every <<n, image>> that tags ever had (history)
    asked,     \* images of the commands that were to sign (history)
    commands, mishaps, removals

publishVars ==
    <<tags, stored, signed, file, temps, command, tagged, asked, commands, mishaps, removals>>

Endings == {"done", "failed", "killed"}

Memory ==
    [pc : {"idle", "stage", "build", "version", "open", "validate", "push",
           "tag", "credentials", "sign", "create", "fill"} \cup Endings,
     line : CommandLine, name : Names \cup {NoVersion}, more : Seq(Names),
     image : Images \cup {Nothing}]

PublishTypes ==
    /\ tags \in [Names -> Images \cup {Nothing}]
    /\ stored \subseteq Images /\ signed \subseteq stored
    /\ file \in [Paths -> Images \cup {Nothing, Partial}]
    /\ temps \in [Processes -> SUBSET {"stage", "layers", "archive", "credentials", "layout"}]
    /\ command \in [Processes -> Memory]
    /\ tagged \subseteq Names \X Images /\ asked \subseteq Images
    /\ commands \in 0..MaxCommands /\ mishaps \in 0..MaxMishaps /\ removals \in 0..MaxRemovals

PublishInit ==
    /\ tags = [n \in Names |-> Nothing]
    /\ stored = {} /\ signed = {}
    /\ file \in [Paths -> {Nothing} \cup [module : {FALSE}, content : Contents,
                                         version : {NoVersion}]]
    /\ temps = [r \in Processes |-> {}]
    /\ command = [r \in Processes |->
                 [pc |-> "idle", line |-> CHOOSE c \in Invocations : TRUE,
                  name |-> NoVersion, more |-> << >>, image |-> Nothing]]
    /\ tagged = {} /\ asked = {}
    /\ commands = 0 /\ mishaps = 0 /\ removals = 0

Doing(r, stage) == command[r].pc = stage
Remembers(r, m) == command' = [command EXCEPT ![r] = m]
Turned(m, stage) == [m EXCEPT !.pc = stage]
Mishap == mishaps < MaxMishaps /\ mishaps' = mishaps + 1

repository == <<tags, stored, signed, tagged, asked>>
disk == <<file, removals>>

(* Mutant: only a command that gets to its end cleans up. *)
EndDirty(r, m, outcome) ==
    /\ Remembers(r, Turned(m, outcome))
    /\ temps' = [temps EXCEPT ![r] = IF outcome = "done" THEN {} ELSE @]

(* What a command has deferred is done when it ends. *)
End(r, m, outcome) ==
    /\ Remembers(r, Turned(m, outcome))
    /\ temps' = [temps EXCEPT ![r] = {}]

--------------------------------------------------------------------------------
(* Building an image. *)

First(c) ==
    CASE c.kind \in {"module", "artifact"} -> IF c.resolve THEN "stage" ELSE "build"
      [] c.kind = "archive"                -> IF c.name = NoVersion THEN "version" ELSE "open"
      [] c.kind = "build"                  -> "build"

StartCommand(r) ==
    /\ command[r].pc \in {"idle", "done", "failed"}
    /\ commands < MaxCommands /\ commands' = commands + 1
    /\ \E c \in Invocations :
           Remembers(r, [pc |-> First(c), line |-> c, name |-> c.name, more |-> c.more,
                       image |-> Nothing])
    /\ temps' = [temps EXCEPT ![r] = {}]
    /\ UNCHANGED <<repository, disk, mishaps>>

(* The source is copied with its symbolic links resolved. *)
Stage(r) ==
    /\ Doing(r, "stage")
    /\ Remembers(r, Turned(command[r], "build"))
    /\ temps' = [temps EXCEPT ![r] = @ \cup {"stage"}]
    /\ UNCHANGED <<repository, disk, commands, mishaps>>

(* The image reads its layers from temporary files until it is closed. *)
Build(r) ==
    LET c == command[r].line
    IN  /\ Doing(r, "build")
        /\ Remembers(r, [command[r] EXCEPT
                          !.pc = IF c.kind = "build" THEN "create" ELSE "push",
                          !.image = [module |-> c.kind # "artifact", content |-> c.content,
                                     version |-> IF c.kind = "artifact" THEN NoVersion
                                                 ELSE c.name]])
        /\ temps' = [temps EXCEPT ![r] = @ \cup {"layers"}]
        /\ UNCHANGED <<repository, disk, commands, mishaps>>

--------------------------------------------------------------------------------
(* timoni mod build: WriteImage.  A layout is written in place, an archive   *)
(* from a temporary layout.                                                  *)

(* Mutant: a file that is there is truncated. *)
CreateOver(r) ==
    /\ Doing(r, "create")
    /\ Remembers(r, Turned(command[r], "fill"))
    /\ file' = [file EXCEPT ![command[r].line.path] = Partial]
    /\ temps' = [temps EXCEPT ![r] = @ \cup {"layout"}]
    /\ UNCHANGED <<repository, removals, commands, mishaps>>

(* The output must not exist. *)
Create(r) ==
    LET p == command[r].line.path
    IN  /\ Doing(r, "create")
        /\ IF file[p] = Nothing
           THEN /\ Remembers(r, Turned(command[r], "fill"))
                /\ file' = [file EXCEPT ![p] = Partial]
                /\ temps' = [temps EXCEPT ![r] = @ \cup {"layout"}]
           ELSE End(r, command[r], "failed") /\ UNCHANGED file
        /\ UNCHANGED <<repository, removals, commands, mishaps>>

Fill(r) ==
    /\ Doing(r, "fill")
    /\ End(r, command[r], "done")
    /\ file' = [file EXCEPT ![command[r].line.path] = command[r].image]
    /\ UNCHANGED <<repository, removals, commands, mishaps>>

(* An error while writing removes the output. *)
FillFails(r) ==
    /\ Doing(r, "fill")
    /\ Mishap
    /\ End(r, command[r], "failed")
    /\ file' = [file EXCEPT ![command[r].line.path] = Nothing]
    /\ UNCHANGED <<repository, removals, commands>>

--------------------------------------------------------------------------------
(* timoni mod push of a local archive.  It is extracted to a temporary       *)
(* directory.  Without an image in it the caller gets an error and does not  *)
(* run the clean-up that comes with it.                                      *)

Unreadable(r) ==
    /\ file[command[r].line.path] \notin Images
    /\ Remembers(r, Turned(command[r], "failed"))
    /\ temps' = [temps EXCEPT ![r] = IF file[command[r].line.path] = Partial
                                     THEN {"archive"} ELSE {}]

(* ModuleVersion: without a flag the version is that of the archive. *)
ModuleVersion(r) ==
    LET found == file[command[r].line.path]
    IN  /\ Doing(r, "version")
        /\ \/ Unreadable(r)
           \/ /\ found \in Images
              /\ found.version = NoVersion
              /\ End(r, command[r], "failed")
           \/ /\ found \in Images
              /\ found.version # NoVersion
              /\ Remembers(r, [command[r] EXCEPT !.pc = "open", !.name = found.version])
              /\ UNCHANGED temps
        /\ UNCHANGED <<repository, disk, commands, mishaps>>

(* The archive is opened again: it may be another one. *)
OpenArchive(r) ==
    LET found == file[command[r].line.path]
    IN  /\ Doing(r, "open")
        /\ \/ Unreadable(r)
           \/ /\ found \in Images
              /\ Remembers(r, [command[r] EXCEPT !.pc = "validate", !.image = found])
              /\ temps' = [temps EXCEPT ![r] = @ \cup {"archive"}]
        /\ UNCHANGED <<repository, disk, commands, mishaps>>

(* Mutant: any module is accepted. *)
ValidImageAnyVersion(m) == m.image.module

(* A module, annotated with the version that is pushed. *)
ValidImage(m) == m.image.module /\ m.image.version = m.name

Validate(r) ==
    /\ Doing(r, "validate")
    /\ IF ValidImage(command[r]) THEN Remembers(r, Turned(command[r], "push")) /\ UNCHANGED temps
       ELSE End(r, command[r], "failed")
    /\ UNCHANGED <<repository, disk, commands, mishaps>>

--------------------------------------------------------------------------------
(* Push, tag and sign. *)

Upload(n, image) ==
    /\ stored' = stored \cup {image}
    /\ tags' = [tags EXCEPT ![n] = image]
    /\ tagged' = tagged \cup {<<n, image>>}

AfterTags(m) ==
    IF m.more # << >> THEN Turned(m, "tag")
    ELSE IF m.line.sign THEN Turned(m, "credentials") ELSE Turned(m, "done")

(* A command that is done with its tags ends, or goes on to the rest. *)
Continue(r, m, kept) ==
    IF AfterTags(m).pc = "done" THEN End(r, m, "done")
    ELSE Remembers(r, AfterTags(m)) /\ temps' = [temps EXCEPT ![r] = kept]

(* crane.Push, after which the image is closed. *)
Push(r) ==
    LET m == command[r]
    IN  /\ Doing(r, "push")
        /\ Upload(m.name, m.image)
        /\ asked' = IF m.line.sign THEN asked \cup {m.image} ELSE asked
        /\ Continue(r, m, temps[r] \ {"layers", "archive"})
        /\ UNCHANGED <<signed, disk, commands, mishaps>>

(* TagArtifact, by the digest that was pushed. *)
TagArtifact(r) ==
    LET m == command[r]
    IN  /\ Doing(r, "tag")
        /\ Upload(Head(m.more), m.image)
        /\ Continue(r, [m EXCEPT !.more = Tail(@)], temps[r])
        /\ UNCHANGED <<signed, asked, disk, commands, mishaps>>

(* configureCosignCredentials: a configuration of its own for cosign. *)
ConfigureCredentials(r) ==
    /\ Doing(r, "credentials")
    /\ Remembers(r, Turned(command[r], "sign"))
    /\ temps' = [temps EXCEPT ![r] = @ \cup {"credentials"}]
    /\ UNCHANGED <<repository, disk, commands, mishaps>>

(* Mutant: what the tag points to by now is signed. *)
SignByName(r) ==
    /\ Doing(r, "sign")
    /\ signed' = signed \cup {tags[command[r].name]}
    /\ End(r, command[r], "done")
    /\ UNCHANGED <<tags, stored, tagged, asked, disk, commands, mishaps>>

(* SignCosign, by digest too. *)
SignCosign(r) ==
    /\ Doing(r, "sign")
    /\ signed' = signed \cup {command[r].image}
    /\ End(r, command[r], "done")
    /\ UNCHANGED <<tags, stored, tagged, asked, disk, commands, mishaps>>

(* An error is returned whether or not the request had its effect. *)
RequestFails(r) ==
    LET m == command[r]
    IN  /\ command[r].pc \in {"push", "tag", "sign"}
        /\ Mishap
        /\ End(r, m, "failed")
        /\ \/ UNCHANGED repository
           \/ /\ Doing(r, "push")
              /\ Upload(m.name, m.image)
              /\ asked' = IF m.line.sign THEN asked \cup {m.image} ELSE asked
              /\ UNCHANGED signed
           \/ Doing(r, "tag") /\ Upload(Head(m.more), m.image) /\ UNCHANGED <<signed, asked>>
           \/ /\ Doing(r, "sign")
              /\ signed' = signed \cup {m.image}
              /\ UNCHANGED <<tags, stored, tagged, asked>>
        /\ UNCHANGED <<disk, commands>>

--------------------------------------------------------------------------------
(* A copy, a file or a directory that fails, a cosign that is not there. *)
Fails(r) ==
    /\ command[r].pc \in {"stage", "build", "version", "open", "create", "credentials"}
    /\ Mishap
    /\ End(r, command[r], "failed")
    /\ UNCHANGED <<repository, disk, commands>>

Kill(r) ==
    /\ command[r].pc \notin Endings \cup {"idle"}
    /\ Mishap
    /\ Remembers(r, Turned(command[r], "killed"))
    /\ UNCHANGED <<repository, disk, temps, commands>>

(* Somebody removes an archive that nobody is writing. *)
Remove(p) ==
    /\ removals < MaxRemovals /\ removals' = removals + 1
    /\ file[p] # Nothing
    /\ \A r \in Processes : ~(Doing(r, "fill") /\ command[r].line.path = p)
    /\ file' = [file EXCEPT ![p] = Nothing]
    /\ UNCHANGED <<repository, temps, command, commands, mishaps>>

PublishQuiet ==
    /\ \A r \in Processes : command[r].pc \in Endings \cup {"idle"}
    /\ UNCHANGED publishVars

PublishNext ==
    \/ \E r \in Processes :
           \/ StartCommand(r) \/ Stage(r) \/ Build(r) \/ Create(r) \/ Fill(r) \/ FillFails(r)
           \/ ModuleVersion(r) \/ OpenArchive(r) \/ Validate(r)
           \/ Push(r) \/ TagArtifact(r) \/ ConfigureCredentials(r) \/ SignCosign(r)
           \/ RequestFails(r) \/ Fails(r) \/ Kill(r)
    \/ \E p \in Paths : Remove(p)
    \/ PublishQuiet

PublishSpec == PublishInit /\ [][PublishNext]_publishVars

--------------------------------------------------------------------------------
(* What the code promises. *)

(* A version names modules annotated with it, though archives are replaced   *)
(* while they are pushed.                                                    *)
TagMatchesVersion ==
    \A n \in Releases : tags[n] \in Images /\ tags[n].module => tags[n].version = n

(* "latest" is given to no module that has not been pushed by its version.   *)
LatestWasPushed ==
    tags[Latest] \in Images /\ tags[Latest].module =>
        <<tags[Latest].version, tags[Latest]>> \in tagged

(* Tags stand for what was pushed by them. *)
TagsAsPushed == TagMatchesVersion /\ LatestWasPushed

(* Only what a command that was to sign has pushed is signed, whatever the   *)
(* tags point to by then.                                                    *)
SignedAsAsked == signed \subseteq asked

(* A command that ends well has set every tag it was given to the image it   *)
(* pushed, and signed that image.                                            *)
DonePublished ==
    \A r \in Processes :
        LET m == command[r]
            c == m.line
        IN  Doing(r, "done") /\ c.kind # "build" =>
                /\ \A n \in {m.name} \cup Range(c.more) :
                       <<n, m.image>> \in tagged
                /\ c.sign => m.image \in signed

(* What a command was asked to publish and sign it has, and nothing else is  *)
(* signed.                                                                   *)
PublishedAsAsked == SignedAsAsked /\ DonePublished

(* A complete archive is never written over or removed by a command, and     *)
(* what is incomplete is being written or was left by a kill.                *)
OutputsKept ==
    [][\A p \in Paths :
        /\ file[p] \in Images /\ file'[p] # file[p] => removals' # removals
        /\ file'[p] = Partial =>
               \E r \in Processes :
                   command'[r].line.path = p /\ command'[r].pc \in {"fill", "killed"}]_publishVars

(* A command that was not killed leaves no temporary directory, except that  *)
(* of an archive it could not read.                                          *)
TempsRemoved ==
    \A r \in Processes : command[r].pc \in {"done", "failed"} => temps[r] \subseteq {"archive"}

(* The state keeps its types and an ended command no temporary directory.    *)
PublishTypeOK == PublishTypes /\ TempsRemoved

================================================================================
