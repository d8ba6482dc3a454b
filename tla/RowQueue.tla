------------------------------ MODULE RowQueue ------------------------------
(***************************************************************************)
(* What CsvSink's ring promises: a bounded first-in first-out queue of     *)
(* numbered rows.  Rows are put in the order of their numbers, none is     *)
(* left out, and the only row ever taken is the oldest.                    *)
(***************************************************************************)
EXTENDS Naturals, Sequences

CONSTANT Bound    \* how many rows the queue holds

VARIABLES
  queue,    \* the rows in the queue, oldest first
  sent      \* how many rows have been put

vars == <<queue, sent>>

Init ==
  /\ queue = <<>>
  /\ sent = 0

Put ==
  /\ Len(queue) < Bound
  /\ sent' = sent + 1
  /\ queue' = Append(queue, sent')

Get ==
  /\ queue # <<>>
  /\ queue' = Tail(queue)
  /\ UNCHANGED sent

(* A row that needs no queue (sync mode).                                  *)
Pass ==
  /\ queue = <<>>
  /\ sent' = sent + 1
  /\ UNCHANGED queue

Next == Put \/ Get \/ Pass

Spec == Init /\ [][Next]_vars

=============================================================================
