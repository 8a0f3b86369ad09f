----------------------------- MODULE DiskQueue -----------------------------
(***************************************************************************)
(* The disk queue of src/agent/src/disk_queue.rs: one sled subtree whose    *)
(* keys are ids drawn from the database's monotonic id generator.  The     *)
(* 64-character binary key encoding preserves numeric order (KeyEncoding    *)
(* checks that), so keys are modelled here by the ids themselves and the   *)
(* tree's lexicographic order by <.                                        *)
(*                                                                         *)
(* Values are what the tree stores: a serialized item, or the constant     *)
(* Undecodable for bytes that serde_json cannot read back as the queue's    *)
(* item type.  Deserialization is done by the iterator, not by the tree.   *)
(*                                                                         *)
(* This module holds the state and the operations; the component that     *)
(* owns a queue (RetryQueue) instantiates it and uses the operations as     *)
(* parts of its own actions.                                              *)
(***************************************************************************)
EXTENDS Naturals, FiniteSets, FiniteSetsExt, Functions, TLC

CONSTANTS
  MaxSize,      \* DiskQueueOptions.max_size: a natural, or None
  None,         \* model value: Option::None
  NoCurrent     \* the iterator's `current` before its first item

VARIABLES
  tree,         \* the sled subtree: a function from id to stored value
  nextId        \* the next id db.generate_id() hands out

Keys == DOMAIN tree

Init ==
  /\ tree = <<>>
  /\ nextId = 0

(* push: when the tree already holds max_size entries, tree.pop_min()       *)
(* drops the smallest key (pop_min on an empty tree drops nothing); then a *)
(* fresh id is generated and the value inserted under it.                 *)
Evicted(t) ==
  IF MaxSize # None /\ Cardinality(DOMAIN t) >= MaxSize /\ DOMAIN t # {}
  THEN Restrict(t, DOMAIN t \ {Min(DOMAIN t)})
  ELSE t

(* Mutant: an id generator that is not advanced, so a key is reused.       *)
PushReusingId(v) ==
  /\ tree' = (nextId :> v) @@ Evicted(tree)
  /\ UNCHANGED nextId

Push(v) ==
  /\ tree' = (nextId :> v) @@ Evicted(tree)
  /\ nextId' = nextId + 1

(* remove: tree.remove(key); removing an absent key is a no-op.            *)
Remove(k) ==
  /\ tree' = Restrict(tree, Keys \ {k})
  /\ UNCHANGED nextId

(* update: tree.insert(key, value), an upsert: it inserts the key again if *)
(* it is no longer in the tree.                                           *)
Update(k, v) ==
  /\ tree' = (k :> v) @@ tree
  /\ UNCHANGED nextId

(* Mutant: the search starts at current instead of after it.              *)
NextKeyInclusive(current) == Min({k \in Keys : k >= current})

(* The iterator's next(): scan the tree from the start and find the first *)
(* key greater than `current`, under the tree lock.                        *)
HasNext(current) == \E k \in Keys : k > current

NextKey(current) == Min({k \in Keys : k > current})

=============================================================================
