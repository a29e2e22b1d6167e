---------------------------- MODULE MCModuleFetch ----------------------------
(***************************************************************************)
(* Two manifests that share a layer; a pinned and a plain reference by one *)
(* version, and a pinned one by "latest".                                  *)
(***************************************************************************)
EXTENDS ModuleFetch, TLC

CONSTANTS m1, m2, m3, latest, v1, d1, d2, l1, l2, p1, p2

AnyProc == Permutations(Procs)

Versions3 == m1 :> v1 @@ m2 :> v1 @@ m3 :> latest
Pins3     == m1 :> d2 @@ m2 :> NoDigest @@ m3 :> d1

Layers2 == d1 :> {l1} @@ d2 :> {l1, l2}

================================================================================
