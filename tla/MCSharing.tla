------------------------------- MODULE MCSharing -------------------------------
(***************************************************************************)
(* Two things that commands share, one of them in a behaviour: a           *)
(* repository and an archive, for two modules that push the same version,  *)
(* an archive that is built and pushed with and without a version, and an  *)
(* artifact with three tags; and an object, for two instances that render  *)
(* it.  The variables of the part that is not in it keep their value.      *)
(***************************************************************************)
EXTENDS Reconciler, Publish, TLC

CONSTANTS v1, v2, x, y, archive

Line(kind, content, name, more, sign, resolve) ==
    [kind |-> kind, content |-> content, name |-> name, more |-> more,
     sign |-> sign, resolve |-> resolve, path |-> archive]

Lines ==
    {Line("module", x, v1, <<Latest>>, TRUE, FALSE),
     Line("module", y, v1, <<Latest>>, FALSE, TRUE),
     Line("artifact", y, v2, <<v1, Latest>>, TRUE, TRUE),
     Line("build", x, v1, << >>, FALSE, FALSE),
     Line("build", y, v2, << >>, FALSE, FALSE),
     Line("archive", x, NoVersion, <<Latest>>, TRUE, FALSE),
     Line("archive", x, v1, << >>, FALSE, FALSE)}

(* Nothing is pushed or built.                                               *)
NoPublish ==
    /\ PublishInit
    /\ file = [p \in Paths |-> Nothing]

--------------------------------------------------------------------------------
(* Instances i1 and i2 share b, which has a finalizer and an immutable field *)
(* and is annotated to be recreated.  Either object may be there before, and *)
(* a is then left alone.                                                     *)

CONSTANTS a, b, i1, i2

At1(o) == [obj |-> o, ver |-> v1]

Sharing == i1 :> {<<{At1(a), At1(b)}>>, <<{At1(a)}>>} @@ i2 :> {<<{At1(b)}>>}

NoReconciler ==
    /\ Init
    /\ cluster = [o \in Objects |-> Absent]

--------------------------------------------------------------------------------
VARIABLE part

SharingInit ==
    \/ part = "repository" /\ PublishInit /\ NoReconciler
    \/ part = "cluster" /\ NoPublish /\ Init

SharingNext ==
    /\ UNCHANGED part
    /\ \/ part = "repository" /\ PublishNext /\ UNCHANGED vars
       \/ part = "cluster" /\ Next /\ UNCHANGED publishVars

(* The processes are alike: nothing chooses one of them.                     *)
Alike == Permutations(Processes) \cup Permutations(Runs)

SharingSpec == SharingInit /\ [][SharingNext]_<<part, publishVars, vars>>

================================================================================
