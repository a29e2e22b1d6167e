-------------------------------- MODULE Ledger --------------------------------
(***************************************************************************)
(* What the records of instances are for: an object an instance holds on   *)
(* the cluster stands in its ledger until it is held no more, so that a    *)
(* later apply or delete finds it.  Of how the ledger is kept, of runs,    *)
(* calls and failures, nothing is said: this is the specification that     *)
(* Reconciler implements.                                                  *)
(***************************************************************************)
CONSTANTS Instances, Objects

VARIABLES
    known,     \* instances that have a ledger
    stored,    \* stored[i]: the objects of the revision of i that is in place
    pending,   \* pending[i]: the objects of the revision that is to replace it
    held       \* held[i]: the objects on the cluster that belong to i

ledger == <<known, stored, pending>>
vars   == <<known, stored, pending, held>>

Listed(i) == stored[i] \cup pending[i]

Init ==
    /\ known = {}
    /\ stored = [i \in Instances |-> {}]
    /\ pending = [i \in Instances |-> {}]
    /\ held = [i \in Instances |-> {}]

(* The first revision of an instance. *)
Create(i, objects) ==
    /\ i \notin known
    /\ known' = known \cup {i}
    /\ stored' = [stored EXCEPT ![i] = objects]
    /\ UNCHANGED <<pending, held>>

(* A revision is announced.  It takes the place of one that was announced    *)
(* and never put in place: here, and only here, objects can be lost.         *)
Plan(i, objects) ==
    /\ i \in known
    /\ pending' = [pending EXCEPT ![i] = objects]
    /\ UNCHANGED <<known, stored, held>>

(* A revision is in place once nothing else of the ledger is held.           *)
Promote(i, objects) ==
    /\ i \in known
    /\ held[i] \cap Listed(i) \subseteq objects
    /\ stored' = [stored EXCEPT ![i] = objects]
    /\ pending' = [pending EXCEPT ![i] = {}]
    /\ UNCHANGED <<known, held>>

(* An instance is forgotten once nothing of its ledger is held. *)
Remove(i) ==
    /\ i \in known
    /\ held[i] \cap Listed(i) = {}
    /\ known' = known \ {i}
    /\ stored' = [stored EXCEPT ![i] = {}]
    /\ pending' = [pending EXCEPT ![i] = {}]
    /\ UNCHANGED held

(* An instance comes to hold what it has listed, another one may lose it. *)
Gain(i, o) ==
    /\ o \in Listed(i)
    /\ held' = [j \in Instances |-> IF j = i THEN held[j] \cup {o} ELSE held[j] \ {o}]
    /\ UNCHANGED ledger

Lose(o) ==
    /\ held' = [j \in Instances |-> held[j] \ {o}]
    /\ UNCHANGED ledger

Next ==
    \/ \E i \in Instances, objects \in SUBSET Objects :
           Create(i, objects) \/ Plan(i, objects) \/ Promote(i, objects)
    \/ \E i \in Instances : Remove(i)
    \/ \E i \in Instances, o \in Objects : Gain(i, o)
    \/ \E o \in Objects : Lose(o)

Spec == Init /\ [][Next]_vars

(* Held and not listed. *)
Lost(i) == held[i] \ Listed(i)

(* Only an announcement that replaces an earlier one loses objects, and then *)
(* only objects of the earlier one.                                          *)
OnlyPlansLose ==
    [][\A i \in Instances :
           \/ Lost(i)' \subseteq Lost(i)
           \/ /\ \E objects \in SUBSET Objects : Plan(i, objects)
              /\ Lost(i)' \subseteq Lost(i) \cup pending[i]]_vars

================================================================================
