------------------------------- MODULE Inventory -------------------------------
(***************************************************************************)
(* Instance inventories (internal/runtime/instances.go, the record algebra *)
(* of internal/runtime/storage.go and internal/reconciler/reconciler.go).  *)
(*                                                                         *)
(* An inventory entry pairs the identity of a Kubernetes object (group,    *)
(* kind, namespace and name: one model value of Objects) with the API      *)
(* version it was rendered at.  An inventory is a set of entries: the code *)
(* keeps a sorted list and never depends on the order.                     *)
(***************************************************************************)
CONSTANTS
    Objects,    \* identities of the Kubernetes objects
    Versions    \* API versions an object can be rendered at

Ref == [obj : Objects, ver : Versions]

Inventories == SUBSET Ref

(* The identities an inventory names. *)
ListMeta(inv) == {e.obj : e \in inv}

(* The identities of inv that target does not name; the API version is not *)
(* part of an identity.                                                    *)
Diff(inv, target) == ListMeta(inv) \ ListMeta(target)

(* Whether an upgrade would record anything new: unlike Diff, it compares  *)
(* the entries with their versions.                                        *)
SameInventory(a, b) == a = b

(***************************************************************************)
(* The storage record of an instance, one Secret: the finalized inventory  *)
(* under its "instance" key, the inventory of an unfinished upgrade under  *)
(* its "pending" key, the label of the owning bundle and the annotation    *)
(* that marks a delete in progress.                                        *)
(***************************************************************************)
Records(Owners) ==
    [exists : BOOLEAN, inv : Inventories, hasPending : BOOLEAN,
     pending : Inventories, bundle : Owners, deleting : BOOLEAN]

NoRecord(noBundle) ==
    [exists |-> FALSE, inv |-> {}, hasPending |-> FALSE, pending |-> {},
     bundle |-> noBundle, deleting |-> FALSE]

(* Mutant: a merge patch, which keeps the pending key. *)
StoredRecordMerged(old, inventory, owner) ==
    [old EXCEPT !.exists = TRUE, !.inv = inventory, !.bundle = owner]

(* Server-side apply of the "instance" key alone: the "pending" key, applied *)
(* by the same manager before, is dropped, and so is a bundle label that is  *)
(* not applied again.  The annotation belongs to the manager's update        *)
(* entry, which an apply does not touch.                                     *)
StoredRecord(old, inventory, owner) ==
    [exists |-> TRUE, inv |-> inventory, hasPending |-> FALSE, pending |-> {},
     bundle |-> owner, deleting |-> old.deleting]

(* Server-side apply of both keys, from the bytes and labels read before. *)
PendingRecord(old, read, inventory) ==
    [exists |-> TRUE, inv |-> read.inv, hasPending |-> TRUE,
     pending |-> inventory, bundle |-> read.bundle, deleting |-> old.deleting]

(* What GetPending returns: no pending revision reads as nothing to prune. *)
PendingObjects(rec) == IF rec.hasPending THEN ListMeta(rec.pending) ELSE {}

(* Objects a delete of the instance covers. *)
ListAllObjects(rec) ==
    IF rec.exists THEN ListMeta(rec.inv) \cup PendingObjects(rec) ELSE {}

================================================================================
