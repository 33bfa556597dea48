----------------------------- MODULE BoundedFifo -----------------------------
(***************************************************************************)
(* What the task queue of the worker pool promises its users: a bounded    *)
(* first-in first-out buffer that can be closed.  Nothing enters a closed  *)
(* buffer; what is still inside may be taken or, at the end, discarded.    *)
(* WorkerPool is the detailed version, with its mutex, condition variables *)
(* and threads.                                                            *)
(***************************************************************************)
EXTENDS Naturals, Sequences

CONSTANTS Items,     \* what may be put into the buffer
          Capacity   \* how many items it holds

VARIABLES items,     \* the content, oldest first
          closed     \* the buffer accepts nothing any more

fifo == <<items, closed>>

Init == items = <<>> /\ closed = FALSE

Put(i) == /\ ~closed
          /\ Len(items) < Capacity
          /\ items' = Append(items, i)
          /\ UNCHANGED closed

Get == /\ items # <<>>
       /\ items' = Tail(items)
       /\ UNCHANGED closed

Close == closed' = TRUE /\ UNCHANGED items

Discard == /\ closed
           /\ items' = <<>>
           /\ UNCHANGED closed

Next == (\E i \in Items : Put(i)) \/ Get \/ Close \/ Discard

Spec == Init /\ [][Next]_fifo
=============================================================================
