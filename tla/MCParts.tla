-------------------------------- MODULE MCParts --------------------------------
(***************************************************************************)
(* Parts that are checked each on its own, one of them in a behaviour: a   *)
(* cosign process, what is told of a Job and of a custom resource, two     *)
(* rival commands on a bundle.                                             *)
(* The variables of a part that is not in it keep their value.             *)
(***************************************************************************)
EXTENDS CosignIO, ObjectStatus, TLC

statusVars == vars

(* No step of CosignIO is enabled, so that its fairness asks for nothing.    *)
NoCosign ==
    /\ child = "none" /\ helper = FALSE /\ pipe = << >> /\ open = << >>
    /\ reader = [s \in Streams |-> "none"]
    /\ closer = "none" /\ expired = TRUE /\ main = "none" /\ lines = 0 /\ counted = 0

--------------------------------------------------------------------------------
(* Status: a Job, which may start suspended, and a custom resource, with     *)
(* health checks for its group, its kind, or for batch.                      *)

CONSTANTS job, custom

BatchJob == [group |-> "batch", kind |-> "Job"]

KindOf == job :> BatchJob @@ custom :> [group |-> "g", kind |-> "k"]

Saying(matches, inProgress, isFailed, current) ==
    [matches |-> matches, inProgress |-> inProgress, failed |-> isFailed, current |-> current]

Good == Saying(TRUE, "incomplete", "incomplete", "true")

Live(phase, suspend, says, generic) ==
    [phase |-> phase, suspend |-> suspend, failedPods |-> 0, conditions |-> << >>,
     says |-> says, generic |-> generic]

JobStates == {Live("live", suspend, <<Good, Good>>, "InProgress") : suspend \in BOOLEAN}

CustomStates ==
    {Live("live", FALSE, <<Good, Saying(TRUE, "false", "incomplete", "true")>>, "Current"),
     Live("live", FALSE, <<Good, Saying(TRUE, "true", "true", "true")>>, "InProgress"),
     Live("live", FALSE, <<Good, Saying(FALSE, "false", "false", "true")>>, "Failed"),
     Live("live", FALSE, <<Saying(TRUE, "incomplete", "true", "error"),
                           Saying(TRUE, "incomplete", "error", "true")>>, "Current"),
     Live("deleting", FALSE, <<Good, Good>>, "Current"),
     Live("unreadable", FALSE, <<Good, Good>>, "Current")}

Checks ==
    LET For(group, kind) == [group |-> group, kind |-> kind, complete |-> TRUE]
    IN  {<<For("g", ""), For("g", "k")>>, <<For("batch", "")>>,
         <<For("g", "k"), For("g", "k")>>}

ListedClusters ==
    LET Found(instances) == [lists |-> TRUE, instances |-> instances]
        Instance(list) == [parses |-> TRUE, objects |-> list]
    IN  {<< >>, <<Found(<<Instance(<<custom, job>>), Instance(<< >>)>>)>>,
         <<Found(<<Instance(<<job>>)>>), Found(<<Instance(<<custom>>)>>)>>,
         <<Found(<<Instance(<<custom>>)>>), Found(<< >>), Found(<<Instance(<<job>>)>>)>>,
         <<[lists |-> FALSE, instances |-> << >>]>>,
         <<Found(<<[parses |-> FALSE, objects |-> << >>]>>)>>, <<Found(<< >>)>>}

(* No step of ObjectStatus is enabled but its stuttering.                    *)
NoStatus ==
    /\ command = "none" /\ declared = << >> /\ wait = FALSE /\ awaited = {} /\ expires = FALSE
    /\ live = << >> /\ read = << >> /\ scope = << >> /\ at = 0 /\ queue = << >>
    /\ failed = FALSE /\ told = "none"

--------------------------------------------------------------------------------
(* Two commands on one bundle, side by side.                                 *)

CONSTANTS i1, i2, A, c1, k1, k2, NoBundle

VARIABLES record, earlier, clock, cmd, starts, faults

bundleVars == <<record, earlier, clock, cmd, starts, faults>>

B == INSTANCE Bundle WITH
         Clusters <- {c1}, Instances <- {i1, i2}, Bundles <- {A}, Commands <- {k1, k2},
         Plans <- A :> {<<i1, i2>>}, Selections <- {<<c1>>},
         Serial <- FALSE, Misread <- TRUE, SameSecond <- FALSE, MaxStarts <- 2, MaxFaults <- 1

--------------------------------------------------------------------------------
VARIABLE part

PartsInit ==
    /\ B!Init
    /\ \/ part = "bundle" /\ NoCosign   /\ NoStatus
       \/ part = "cosign" /\ CosignInit /\ NoStatus
       \/ part = "status" /\ NoCosign   /\ Init

PartsNext ==
    /\ UNCHANGED part
    /\ \/ part = "bundle" /\ B!Next     /\ UNCHANGED <<cosignVars, statusVars>>
       \/ part = "cosign" /\ CosignNext /\ UNCHANGED <<bundleVars, statusVars>>
       \/ part = "status" /\ Next       /\ UNCHANGED <<bundleVars, cosignVars>>

PartsSpec ==
    /\ PartsInit
    /\ [][PartsNext]_<<part, bundleVars, cosignVars, statusVars>>
    /\ \A r \in {k1, k2} : WF_bundleVars(part = "bundle" /\ B!Step(r))
    /\ CosignFairness
    /\ Fairness

(* CommandsEnd: a command on a bundle ends, whatever the other one does.     *)
CommandsEnd == part = "bundle" => B!CommandsEnd

(* Returns: processCosignIO returns, whatever cosign does.                   *)
CosignReturns == part = "cosign" => Returns

(* WaitEnds: a wait ends by its timeout, and before it when the objects stay *)
(* ready or one of them stays failed.                                        *)
StatusWaitEnds == part = "status" => WaitEnds

================================================================================
