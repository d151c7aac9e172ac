----------------------------- MODULE EventService -----------------------------
(***************************************************************************)
(* What the event queue promises a guest, without ring, doorbell, phase or *)
(* index: a queue of at most Capacity events that are read in the order    *)
(* they were posted.  Events of a group that is not enabled are not        *)
(* posted; an enabled one may be left out when the guest has given no room *)
(* for it.  A link event carries the state of the link when it is posted.  *)
(* Only setting the queue up again, with every group disabled, and a reset *)
(* discard events.                                                         *)
(***************************************************************************)
EXTENDS Naturals, Sequences

CONSTANTS Capacity

VARIABLES
    groups,     \* the groups the guest has enabled
    link,       \* the state of the link
    queue,      \* the events posted and not read yet
    view        \* the last link state the guest read

vars == <<groups, link, queue, view>>

Init == groups = {} /\ link = "up" /\ queue = <<>> /\ view = "unknown"

\* The event is queued, if its group is one of gs, or left out.
Offer(gs, group, e) ==
    \/ group \in gs /\ Len(queue) < Capacity /\ queue' = Append(queue, e)
    \/ UNCHANGED queue

LinkChange ==
    /\ link' \in {"up", "down"} \ {link}
    /\ Offer(groups, "link_change", link')
    /\ UNCHANGED <<groups, view>>

Configure(gs) ==
    /\ groups' = gs
    /\ Offer(gs, "link_change", link)
    /\ UNCHANGED <<link, view>>

KeepAlive ==
    /\ Offer(groups, "keep_alive", "keep_alive")
    /\ UNCHANGED <<groups, link, view>>

Take ==
    /\ queue # <<>>
    /\ queue' = Tail(queue)
    /\ view' = IF Head(queue) \in {"up", "down"} THEN Head(queue) ELSE view
    /\ UNCHANGED <<groups, link>>

SetUp ==
    /\ groups = {}
    /\ queue' = <<>>
    /\ UNCHANGED <<groups, link, view>>

Reset ==
    /\ groups' = {} /\ queue' = <<>> /\ view' = "unknown"
    /\ UNCHANGED link

Next ==
    \/ LinkChange
    \/ \E gs \in SUBSET {"link_change", "keep_alive"} : Configure(gs)
    \/ KeepAlive \/ Take \/ SetUp \/ Reset

Spec == Init /\ [][Next]_vars
=============================================================================
