------------------------------- MODULE Mailbox -------------------------------
(***************************************************************************)
(* What the message path from the worker threads to one IO thread promises *)
(* (advanced-reactor-server/io_thread.c): messages are collected one at a  *)
(* time, in the order in which they were posted, each exactly once, and a  *)
(* mailbox that holds a message is eventually collected from.  No thread,  *)
(* pipe or wake-up appears here; MessageChannel is the detailed version.   *)
(***************************************************************************)
EXTENDS Sequences

CONSTANT Conns      \* what a message names: the connection it is about

VARIABLE box        \* the messages posted and not yet collected

Init == box = <<>>

Post(c) == box' = Append(box, c)

Collect == /\ box # <<>>
           /\ box' = Tail(box)

Next == (\E c \in Conns : Post(c)) \/ Collect

Spec == Init /\ [][Next]_box /\ WF_box(Collect)

\* The part of the promise that is a safety property.
SafeSpec == Init /\ [][Next]_box
=============================================================================
