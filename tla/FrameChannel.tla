----------------------------- MODULE FrameChannel -----------------------------
(***************************************************************************)
(* What one direction of a connection promises: whole frames, in the order *)
(* they were sent, each once, and none left behind.  Connection takes      *)
(* toServer and toClient to be such channels.                              *)
(***************************************************************************)
EXTENDS Naturals, Sequences

CONSTANT Frame

VARIABLES
    queue,     \* sent and not delivered
    got        \* delivered

channelVars == <<queue, got>>

Init == queue = <<>> /\ got = <<>>

Send(f) ==
    /\ queue' = Append(queue, f)
    /\ UNCHANGED got

\* One handler of the receiver may take several frames.
Deliver(n) ==
    /\ got'   = got \o SubSeq(queue, 1, n)
    /\ queue' = SubSeq(queue, n + 1, Len(queue))

Delivery == \E n \in 1 .. Len(queue) : Deliver(n)

Next == (\E f \in Frame : Send(f)) \/ Delivery

Spec == Init /\ [][Next]_channelVars /\ WF_channelVars(Delivery)
=============================================================================
