------------------------------ MODULE XBarLayer ------------------------------
(***************************************************************************)
(* A layer of a crossbar (BaseXBar::Layer): it carries one packet at a     *)
(* time to one destination, keeps the ports it turned away in a list, and  *)
(* calls them back one by one.                                             *)
(*                                                                         *)
(* The layer is a record, and its member functions are operators on it.    *)
(* Its releaseEvent is scheduled exactly while it is BUSY, and RETRY lasts *)
(* no longer than one call.                                                *)
(***************************************************************************)
EXTENDS Naturals, Sequences

CONSTANT NoPort     \* the null pointer

IdleLayer == [state |-> "IDLE", waitingForLayer |-> <<>>, waitingForPeer |-> NoPort]

\* tryTiming() turns a packet away.
occupied(l) == l.state = "BUSY" \/ l.waitingForPeer # NoPort

\* Mutant: a layer that has just been released does not mind a peer that is busy.
offerHasty(l, src, taken) ==
    IF l.state = "BUSY"
    THEN [l EXCEPT !.waitingForLayer = Append(l.waitingForLayer, src)]
    ELSE [l EXCEPT !.state = "BUSY", !.waitingForPeer = IF taken THEN NoPort ELSE src]

\* A packet of src comes: tryTiming(), and then succeededTiming() or
\* failedTiming(), as the destination took it or not.
offer(l, src, taken) ==
    IF occupied(l)
    THEN [l EXCEPT !.waitingForLayer = Append(l.waitingForLayer, src)]
    ELSE [l EXCEPT !.state = "BUSY", !.waitingForPeer = IF taken THEN NoPort ELSE src]

releaseLayer(l) == [l EXCEPT !.state = "IDLE"]

\* recvRetry(): the peer is ready again, and who failed goes first.
recvRetry(l) ==
    [l EXCEPT !.waitingForLayer = <<l.waitingForPeer>> \o l.waitingForLayer,
              !.waitingForPeer = NoPort]

\* What releaseLayer() and recvRetry() ask before they call retryWaiting().
callsBack(l) == l.state = "IDLE" /\ l.waitingForPeer = NoPort /\ l.waitingForLayer # <<>>

\* retryWaiting(), before and after sendRetry() to the first port of the list.
retryingPort(l) == Head(l.waitingForLayer)
retryWaiting(l) == [l EXCEPT !.state = "RETRY", !.waitingForLayer = Tail(l.waitingForLayer)]
retried(l) == IF l.state = "RETRY" THEN [l EXCEPT !.state = "BUSY"] ELSE l
=============================================================================
