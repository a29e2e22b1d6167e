-------------------------------- MODULE CosignIO -------------------------------
(***************************************************************************)
(* processCosignIO: cosign runs as a child process with a pipe for each of *)
(* its outputs; two goroutines log what comes, a third closes the pipes    *)
(* when the context of the command is done (internal/oci/sign_cosign.go).  *)
(*                                                                         *)
(* A child that writes to a full pipe waits.  A process it has started may *)
(* hold the pipes open after its end.                                      *)
(***************************************************************************)
EXTENDS Naturals, Sequences

CONSTANTS
    Capacity,  \* lines a pipe holds
    MaxLines   \* bound: lines cosign writes

Streams == {"stdout", "stderr"}

VARIABLES
    child,    \* cosign
    helper,   \* whether a process started by cosign holds the pipes
    pipe,     \* pipe[s]: what is in the pipe of a stream
    open,     \* open[s]: whether the read end is open
    reader,   \* reader[s]: scanCosignOutput of a stream
    closer,   \* the goroutine that waits for the context
    expired,  \* whether the context is done
    main,     \* processCosignIO, and what it returned
    lines,    \* lines written
    counted   \* lines that were logged or drained (history)

cosignVars == <<child, helper, pipe, open, reader, closer, expired, main, lines, counted>>
process == <<child, helper, lines>>
goroutines == <<reader, closer, main>>

TypeOK ==
    /\ child \in {"none", "running", "signed", "failed", "killed"} /\ helper \in BOOLEAN
    /\ pipe \in [Streams -> Seq({"line", "long"})] /\ open \in [Streams -> BOOLEAN]
    /\ reader \in [Streams -> {"none", "scan", "drain", "logged", "dropped"}]
    /\ closer \in {"none", "select", "ended"} /\ expired \in BOOLEAN
    /\ main \in {"start", "outputs", "closed", "signed", "failed"}
    /\ lines \in Nat /\ counted \in Nat

CosignInit ==
    /\ child = "none" /\ helper = FALSE
    /\ pipe = [s \in Streams |-> << >>]
    /\ open = [s \in Streams |-> TRUE]
    /\ reader = [s \in Streams |-> "none"]
    /\ closer = "none" /\ main = "start" /\ expired = FALSE
    /\ lines = 0 /\ counted = 0

Returned == main \in {"signed", "failed"}

--------------------------------------------------------------------------------
(* The child.                                                                *)

Write(s) ==
    /\ child = "running"
    /\ lines < MaxLines /\ lines' = lines + 1
    /\ IF open[s]
       THEN /\ Len(pipe[s]) < Capacity
            /\ \E text \in {"line", "long"} : pipe' = [pipe EXCEPT ![s] = Append(@, text)]
            /\ UNCHANGED child
       ELSE child' = "failed" /\ UNCHANGED pipe
    /\ UNCHANGED <<helper, open, goroutines, expired, counted>>

StartHelper ==
    /\ child = "running" /\ ~helper
    /\ helper' = TRUE
    /\ UNCHANGED <<child, pipe, open, goroutines, expired, lines, counted>>

Exit ==
    /\ child = "running"
    /\ child' \in {"signed", "failed"}
    /\ UNCHANGED <<helper, pipe, open, goroutines, expired, lines, counted>>

HelperExits ==
    /\ helper
    /\ helper' = FALSE
    /\ UNCHANGED <<child, pipe, open, goroutines, expired, lines, counted>>

(* exec.CommandContext kills the child, and nothing else.                    *)
Kill ==
    /\ expired /\ child = "running"
    /\ child' = "killed"
    /\ UNCHANGED <<helper, pipe, open, goroutines, expired, lines, counted>>

--------------------------------------------------------------------------------
(* The command.                                                              *)

Expire ==
    /\ ~expired /\ ~Returned
    /\ expired' = TRUE
    /\ UNCHANGED <<process, pipe, open, goroutines, counted>>

Start ==
    /\ main = "start"
    /\ \/ main' = "failed" /\ UNCHANGED <<child, reader, closer>>
       \/ /\ ~expired
          /\ main' = "outputs" /\ child' = "running" /\ closer' = "select"
          /\ reader' = [s \in Streams |-> "scan"]
    /\ UNCHANGED <<helper, pipe, open, expired, lines, counted>>

Reads(s) == reader[s] \in {"scan", "drain"}
AtEnd(s) == pipe[s] = << >> /\ child # "running" /\ ~helper

(* Mutant: the goroutine ends with the error of its scanner. *)
ScanStops(s) ==
    /\ reader[s] = "scan"
    /\ \/ /\ ~open[s] \/ AtEnd(s)
          /\ reader' = [reader EXCEPT ![s] = "logged"]
          /\ UNCHANGED <<pipe, counted>>
       \/ /\ open[s] /\ pipe[s] # << >>
          /\ pipe' = [pipe EXCEPT ![s] = Tail(@)]
          /\ counted' = counted + 1
          /\ reader' = [reader EXCEPT ![s] = IF Head(pipe[s]) = "long" THEN "dropped" ELSE @]
    /\ UNCHANGED <<process, open, closer, main, expired>>

(* A line too long for the scanner ends the log of the stream, not its       *)
(* reading.  A pipe that is closed is no error.                              *)
Scan(s) ==
    /\ reader[s] = "scan"
    /\ \/ /\ ~open[s] \/ AtEnd(s)
          /\ reader' = [reader EXCEPT ![s] = "logged"]
          /\ UNCHANGED <<pipe, counted>>
       \/ /\ open[s] /\ pipe[s] # << >>
          /\ pipe' = [pipe EXCEPT ![s] = Tail(@)]
          /\ counted' = counted + 1
          /\ reader' = [reader EXCEPT ![s] = IF Head(pipe[s]) = "long" THEN "drain" ELSE @]
    /\ UNCHANGED <<process, open, closer, main, expired>>

Drain(s) ==
    /\ reader[s] = "drain"
    /\ \/ /\ ~open[s] \/ AtEnd(s)
          /\ reader' = [reader EXCEPT ![s] = "dropped"]
          /\ UNCHANGED <<pipe, counted>>
       \/ /\ open[s] /\ pipe[s] # << >>
          /\ pipe' = [pipe EXCEPT ![s] = Tail(@)]
          /\ counted' = counted + 1
          /\ UNCHANGED reader
    /\ UNCHANGED <<process, open, closer, main, expired>>

(* Mutant: the end of the child is expected to end its pipes. *)
KeepPipes ==
    /\ closer = "select" /\ expired
    /\ closer' = "ended"
    /\ UNCHANGED <<process, pipe, open, reader, main, expired, counted>>

ClosePipes ==
    /\ closer = "select" /\ expired
    /\ closer' = "ended"
    /\ open' = [s \in Streams |-> FALSE]
    /\ UNCHANGED <<process, pipe, reader, main, expired, counted>>

(* Both outputs have been read: the third goroutine is told to stop.         *)
StopClosing ==
    /\ main = "outputs"
    /\ \A s \in Streams : reader[s] \in {"logged", "dropped"}
    /\ main' = "closed"
    /\ UNCHANGED <<process, pipe, open, reader, closer, expired, counted>>

Stopped ==
    /\ closer = "select" /\ main \notin {"start", "outputs"}
    /\ closer' = "ended"
    /\ UNCHANGED <<process, pipe, open, reader, main, expired, counted>>

(* cosignCmd.Wait.  A child that had ended when the context killed it may    *)
(* count as killed.                                                          *)
Wait ==
    /\ main = "closed" /\ closer = "ended"
    /\ child # "running"
    /\ \/ main' = IF child = "signed" THEN "signed" ELSE "failed"
       \/ expired /\ main' = "failed"
    /\ open' = [s \in Streams |-> FALSE]
    /\ UNCHANGED <<process, pipe, reader, closer, expired, counted>>

Cosign == StartHelper \/ Exit \/ HelperExits \/ \E s \in Streams : Write(s)

Goroutine == Start \/ ClosePipes \/ Stopped \/ StopClosing \/ Wait \/ \E s \in Streams : Scan(s) \/ Drain(s)

Quiet == Returned /\ UNCHANGED cosignVars

CosignNext == Cosign \/ Goroutine \/ Kill \/ Expire \/ Quiet

(* Goroutines run, the context has a deadline, and a child that is killed    *)
(* ends.  Nothing is assumed about what cosign does.                         *)
CosignFairness ==
    /\ WF_cosignVars(Start) /\ WF_cosignVars(ClosePipes) /\ WF_cosignVars(Stopped)
    /\ WF_cosignVars(StopClosing) /\ WF_cosignVars(Wait)
    /\ \A s \in Streams : WF_cosignVars(Scan(s)) /\ WF_cosignVars(Drain(s))
    /\ WF_cosignVars(Kill) /\ WF_cosignVars(Expire)

CosignSpec == CosignInit /\ [][CosignNext]_cosignVars /\ CosignFairness

--------------------------------------------------------------------------------
(* What the code promises.                                                   *)

(* A child that waits for room in one pipe is read, whatever is in the other *)
(* one and however long its lines are.                                       *)
NobodyWaits ==
    \A s \in Streams : child = "running" /\ Len(pipe[s]) = Capacity /\ open[s] => Reads(s)

(* Without a timeout all of the output has been read, and the outcome is     *)
(* that of cosign; a failure is never returned as success.                   *)
OutcomeOfCosign ==
    /\ main = "signed" => child = "signed"
    /\ Returned /\ child # "none" /\ ~expired =>
           /\ main = "signed" <=> child = "signed"
           /\ counted = lines

(* No goroutine outlives the call.                                           *)
NothingLeft ==
    Returned /\ child # "none" => closer = "ended" /\ \A s \in Streams : ~Reads(s)

(* CosignSound: processCosignIO reads each pipe cosign waits for, its        *)
(* outcome is that of the child, and it leaves no goroutine.                 *)
CosignSound == NobodyWaits /\ OutcomeOfCosign /\ NothingLeft

(* The call returns, though cosign may hang, and may leave a process behind  *)
(* that holds its pipes.                                                     *)
Returns == <>Returned

================================================================================
