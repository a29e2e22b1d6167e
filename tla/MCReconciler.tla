----------------------------- MODULE MCReconciler -----------------------------
(***************************************************************************)
(* Instances of Reconciler small enough for TLC.  An upgrade can drop an   *)
(* object, add one, change an API version and have two apply sets.         *)
(***************************************************************************)
EXTENDS Reconciler, TLC

CONSTANTS a, b, c, i1, i2, v1, v2, B

At1(o) == [obj |-> o, ver |-> v1]
At2(o) == [obj |-> o, ver |-> v2]

(* One instance: two sets, then a version bump with a replacement, then      *)
(* neither of the replaced objects.                                          *)
OneInstance == i1 :> {<<{At1(a)}, {At1(b)}>>, <<{At2(a), At1(c)}>>, <<{At1(a)}>>}

================================================================================
