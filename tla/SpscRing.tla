------------------------------ MODULE SpscRing ------------------------------
(***************************************************************************)
(* SpscByteRing (src/include/spsc_ring.hpp), one atomic access per step.   *)
(*                                                                         *)
(* The acquire loads pair with the release stores of the other thread and  *)
(* each index has a single writer, so an interleaving of the accesses      *)
(* loses no behaviour.  What does need care is the slot itself: assign is  *)
(* not atomic, so between its start and its end the slot is Torn, and a    *)
(* consumer that looks at it then has a data race.                         *)
(***************************************************************************)
EXTENDS Naturals, Sequences

CONSTANT Capacity    \* capacity_pow2

ASSUME CapacityAssumption ==
  /\ Capacity \in Nat \ {0, 1}
  /\ \E k \in 1..Capacity : Capacity = 2^k

VARIABLES
  slots,      \* slots_
  head,       \* head_
  tail,       \* tail_
  producer,   \* out of try_write, or past its test for full: assigning, assigned
  h,          \* drain's local h; head between two calls of drain
  t,          \* drain's local t
  count       \* drain's local count is not 0

ringVars == <<slots, head, tail, producer, h, t, count>>

Torn == 0     \* a record half assigned; records are 1, 2, 3, ...

Index == 0..(Capacity - 1)

RingInit ==
  /\ slots = [i \in Index |-> Torn]
  /\ head = 0 /\ tail = 0
  /\ producer = "out"
  /\ h = 0 /\ t = 0 /\ count = FALSE

RingTypeOK ==
  /\ slots \in [Index -> Nat]
  /\ head \in Index /\ tail \in Index /\ h \in Index /\ t \in Index
  /\ producer \in {"out", "assigning", "assigned"}
  /\ count \in BOOLEAN

NextIndex_NoMask(i) == i + 1

(* (i + 1) & mask_                                                         *)
NextIndex(i) == (i + 1) % Capacity

empty == head = tail

-----------------------------------------------------------------------------
(* Faults a plausible edit could introduce, for the mutation runs.         *)

TryBegin_OneMore ==
  /\ producer = "out"
  /\ producer' = "assigning"
  /\ slots' = [slots EXCEPT ![tail] = Torn]
  /\ UNCHANGED <<head, tail, h, t, count>>

DrainBegin_FreeFirst ==
  /\ h' = head
  /\ t' = tail
  /\ head' = tail
  /\ count' = FALSE
  /\ UNCHANGED <<slots, tail, producer>>

-----------------------------------------------------------------------------
(* try_write.  A call that finds the ring full changes nothing.            *)

TryBegin ==
  /\ producer = "out"
  /\ NextIndex(tail) # head
  /\ producer' = "assigning"
  /\ slots' = [slots EXCEPT ![tail] = Torn]
  /\ UNCHANGED <<head, tail, h, t, count>>

(* The end of assign.                                                      *)
Assigned(rec) ==
  /\ producer = "assigning"
  /\ slots' = [slots EXCEPT ![tail] = rec]
  /\ producer' = "assigned"
  /\ UNCHANGED <<head, tail, h, t, count>>

Publish ==
  /\ producer = "assigned"
  /\ tail' = NextIndex(tail)
  /\ producer' = "out"
  /\ UNCHANGED <<slots, head, h, t, count>>

-----------------------------------------------------------------------------
(* drain.                                                                  *)

DrainBegin ==
  /\ h' = head
  /\ t' = tail
  /\ count' = FALSE
  /\ UNCHANGED <<slots, head, tail, producer>>

(* One iteration: the caller's fn sees slots[h].                           *)
DrainRecord ==
  /\ h # t
  /\ h' = NextIndex(h)
  /\ count' = TRUE
  /\ UNCHANGED <<slots, head, tail, producer, t>>

DrainEnd ==
  /\ h = t
  /\ head' = IF count THEN h ELSE head
  /\ UNCHANGED <<slots, tail, producer, h, t, count>>

-----------------------------------------------------------------------------

(* The published records the consumer has not looked at yet, oldest first. *)
Pending ==
  [i \in 1..((tail + Capacity - h) % Capacity) |-> slots[(h + i - 1) % Capacity]]

=============================================================================
