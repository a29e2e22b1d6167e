------------------------------- MODULE MCBundle -------------------------------
(***************************************************************************)
(* Instances of Bundle small enough for TLC: bundles that share an         *)
(* instance, a bundle whose order is not that of its instances' names, one *)
(* and two clusters.                                                       *)
(***************************************************************************)
EXTENDS Bundle, TLC

CONSTANTS i1, i2, A, B, c1, c2

Overlapping == A :> {<<i1, i2>>} @@ B :> {<<i2, i1>>, <<i2>>, << >>}

Single == A :> {<<i1, i2>>}

OneCluster == {<<c1>>}
TwoClusters == {<<c1, c2>>}

================================================================================
