----------------------------- MODULE Ringbuffer -----------------------------
(***************************************************************************)
(* Ringbuffer (utils/ringbuffer.hpp): the array of pointers and its two    *)
(* indices.  head = tail is an empty ring, so Size slots hold Size - 1     *)
(* items.                                                                  *)
(***************************************************************************)
EXTENDS Naturals, Sequences

NewRing(Size) ==
  [size |-> Size, data |-> [i \in 0 .. Size - 1 |-> 0], head |-> 0, tail |-> 0]

IsEmpty(r) == r.head = r.tail
IsFull(r) == (r.head + 1) % r.size = r.tail

(* write: the oldest item of a full ring is overwritten. *)
RingWrite(r, item) ==
  [size |-> r.size,
   data |-> [r.data EXCEPT ![r.head] = item],
   head |-> (r.head + 1) % r.size,
   tail |-> IF IsFull(r) THEN (r.tail + 1) % r.size ELSE r.tail]

(* Mutant: the item stays in the ring. *)
RingReadKeeps(r) == r

(* Mutant: the item written last is read. *)
Newest(r) == r.data[(r.head + r.size - 1) % r.size]

(* read of a ring that is not empty: the item, and the ring after it. *)
Oldest(r) == r.data[r.tail]
RingRead(r) == [r EXCEPT !.tail = (@ + 1) % r.size]

(* The items, oldest first. *)
Items(r) ==
  [i \in 1 .. (r.head + r.size - r.tail) % r.size |-> r.data[(r.tail + i - 1) % r.size]]
=============================================================================
