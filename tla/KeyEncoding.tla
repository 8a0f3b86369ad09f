---------------------------- MODULE KeyEncoding ----------------------------
(***************************************************************************)
(* The disk queue's key encoding, disk_queue.rs:152-158: an id from sled's *)
(* generator is stored under format!("{:064b}", id) and read back with     *)
(* u64::from_str_radix(key, 2).  A key is a sequence of the digits 0 and   *)
(* 1, standing for the bytes '0' < '1'; sled orders keys by comparing      *)
(* their bytes lexicographically, a proper prefix first.                  *)
(*                                                                         *)
(* Bits is the width of the id type (64 for u64) and Width the format's    *)
(* minimum width (64); the model takes both smaller.  The state is the id  *)
(* last handed out by db.generate_id(), which counts up by one.           *)
(***************************************************************************)
EXTENDS Naturals, Sequences, SequencesExt

CONSTANTS
  Bits,     \* bits of the id type
  Width     \* minimum width of the formatted key

MaxId == 2^Bits - 1

VARIABLE id

(* The binary digits of n, most significant first, without leading zeros. *)
RECURSIVE ToBinary(_)
ToBinary(n) ==
  IF n < 2 THEN <<n>> ELSE Append(ToBinary(n \div 2), n % 2)

(* {:0Wb} pads with zeros on the left to at least Width digits.            *)
PadLeft(s) ==
  [i \in 1..(Width - Len(s)) |-> 0] \o s

(* Mutant: {:b}, no zero padding.                                         *)
EncodeUnpadded(n) == ToBinary(n)

EncodeBinaryKey(n) == PadLeft(ToBinary(n))

(* Mutant: the digits are read least significant first.                  *)
DecodeLsbFirst(s) ==
  FoldRight(LAMBDA d, acc : 2 * acc + d, s, 0)

(* from_str_radix(_, 2): each digit shifts the value left by one.          *)
DecodeBinaryKey(s) ==
  FoldLeft(LAMBDA acc, d : 2 * acc + d, 0, s)

(* sled's key order: bytewise lexicographic, a proper prefix first.       *)
RECURSIVE KeyLess(_, _)
KeyLess(s, t) ==
  CASE s = <<>> -> t # <<>>
    [] t = <<>> -> FALSE
    [] Head(s) # Head(t) -> Head(s) < Head(t)
    [] OTHER -> KeyLess(Tail(s), Tail(t))

Init == id = 0

(* db.generate_id() hands out the next id.                                *)
GenerateId ==
  /\ id < MaxId
  /\ id' = id + 1

Spec == Init /\ [][GenerateId]_id

-----------------------------------------------------------------------------
(* spec.md 8, key order: the key of the id just generated sorts after the  *)
(* key of every id generated before it, so the queue's iterator, which     *)
(* walks sled's key order, visits envelopes in push order.                *)
KeyOrderIsIdOrder ==
  \A j \in 0..(id - 1) : KeyLess(EncodeBinaryKey(j), EncodeBinaryKey(id))

(* decode_binary_key reads back the id a key was written under, so the    *)
(* iterator's `current` and the keys passed to remove and update name the  *)
(* envelope that was read.                                                *)
KeyRoundTrip ==
  DecodeBinaryKey(EncodeBinaryKey(id)) = id

=============================================================================
