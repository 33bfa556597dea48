------------------------------ MODULE EventLoop ------------------------------
(***************************************************************************)
(* The event loop abstraction of the advanced reactor server for ONE       *)
(* descriptor, always registered edge-triggered, and its two backends      *)
(* (event_loop.c, event_loop_epoll.c, event_loop_kqueue.c).  A             *)
(* registration is the set of filters it waits for and the set of those    *)
(* with an edge that was not reported yet.                                 *)
(*                                                                         *)
(* The backends differ in two places: a change of interest replaces the    *)
(* filters on epoll and adds to them on kqueue, and a batch holds one      *)
(* event per descriptor on epoll and one per filter on kqueue.  Both look  *)
(* at the descriptor again when the interest is changed and when events    *)
(* are collected.                                                          *)
(***************************************************************************)
Filters == {"read", "write"}
Backends == {"epoll", "kqueue"}

Registration == [filters : SUBSET Filters, pending : SUBSET Filters]

\* event_loop_add
Add(events, ready) == [filters |-> events, pending |-> events \cap ready]

\* epoll_mod_impl: EPOLL_CTL_MOD
EpollMod(reg, events, ready) == Add(events, ready)

\* kqueue_mod_impl: EV_ADD, which leaves the other filter alone.
KqueueMod(reg, events, ready) ==
    [filters |-> reg.filters \cup events, pending |-> reg.pending \cup (events \cap ready)]

\* event_loop_mod
Mod(backend, reg, events, ready) ==
    IF backend = "epoll" THEN EpollMod(reg, events, ready) ELSE KqueueMod(reg, events, ready)

\* Something happened to the descriptor that filter f waits for.
Raise(reg, f) == [reg EXCEPT !.pending = @ \cup ({f} \cap reg.filters)]

\* event_loop_wait: what is reported, and the registration afterwards.
Reported(reg, ready) == reg.pending \cap ready
Collect(reg) == [reg EXCEPT !.pending = {}]
=============================================================================
