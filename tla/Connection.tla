------------------------------ MODULE Connection ------------------------------
(***************************************************************************)
(* One TCP connection per client process, seen from both ends:             *)
(* server/TcpServer.cpp and server/ClientSession.cpp (Boost.Asio) on one   *)
(* side, network/TcpNetworkClient.cpp (QTcpSocket) on the other.           *)
(*                                                                         *)
(* A session goes through the stages                                       *)
(*    none      the client process has not connected yet                   *)
(*    pending   the kernel has the connection, async_accept has not run    *)
(*    active    the ClientSession is registered and its async_read pending *)
(*    closed    a write failed: removed and its socket closed, while a     *)
(*              read that had already completed may still be handled       *)
(*    retired   the read loop has ended too                                *)
(* A client process makes one connection in its life (LoginWindow closes   *)
(* after a success and nothing reconnects), so a reconnection of the same  *)
(* person is another session with the same name.                           *)
(*                                                                         *)
(* Frames are delivered in order and whole; the framing that achieves it   *)
(* is a component of its own.  What a broken link does: frames on their    *)
(* way to the server may be lost, and each write the server has            *)
(* outstanding completes with an error, one completion handler each.       *)
(***************************************************************************)
EXTENDS Message, Sequences

CONSTANTS Session

VARIABLES
    session,    \* the stage of each session
    linkUp,     \* the connection has been made and is not broken
    failing,    \* writes of a broken link whose completion has not run
    toServer,   \* frames sent by the client, not yet read by the server
    toClient    \* frames sent to the client, not yet read by it

connVars == <<session, linkUp, failing, toServer, toClient>>

Stage == {"none", "pending", "active", "closed", "retired"}

ConnTypeOK ==
    /\ session  \in [Session -> Stage]
    /\ linkUp   \in [Session -> BOOLEAN]
    /\ failing  \in [Session -> Nat]
    /\ toServer \in [Session -> Seq(ClientFrame)]
    /\ toClient \in [Session -> Seq(Raw)]

ConnInit ==
    /\ session  = [s \in Session |-> "none"]
    /\ linkUp   = [s \in Session |-> FALSE]
    /\ failing  = [s \in Session |-> 0]
    /\ toServer = [s \in Session |-> <<>>]
    /\ toClient = [s \in Session |-> <<>>]

-----------------------------------------------------------------------------
(* ClientSession::send and sendBinary: `out' gives the frames written to   *)
(* each session by one handler, `pending' the failing writes it starts     *)
(* from.  A frame written to a broken link is an outstanding write that    *)
(* will fail.                                                              *)

Silence == [s \in Session |-> <<>>]

WriteFrom(pending, out) ==
    /\ toClient' = [s \in Session |->
                      IF linkUp[s] THEN toClient[s] \o out[s] ELSE toClient[s]]
    /\ failing'  = [s \in Session |->
                      IF linkUp[s] THEN pending[s]
                                   ELSE pending[s] + Len(out[s])]

Write(out) == WriteFrom(failing, out)

SendTo(S, raw) == [s \in Session |-> IF s \in S THEN <<raw>> ELSE <<>>]

Both(out1, out2) == [s \in Session |-> out1[s] \o out2[s]]

\* ClientSession::readPayload hands the next whole frame to the controller.
ReadFrame(s) ==
    /\ session[s] \in {"active", "closed"}
    /\ toServer[s] # <<>>
    /\ toServer' = [toServer EXCEPT ![s] = Tail(@)]

-----------------------------------------------------------------------------
(* TcpNetworkClient::sendMessage and sendBinary: on a socket that is not   *)
(* connected the frames are dropped, and the caller is not told.           *)

SendFrames(s, frames) ==
    toServer' = IF linkUp[s] THEN [toServer EXCEPT ![s] = @ \o frames]
                             ELSE toServer

\* TcpNetworkClient::processBuffer hands the next whole frame to the handler.
TakeFrame(s) ==
    /\ toClient[s] # <<>>
    /\ toClient' = [toClient EXCEPT ![s] = Tail(@)]

-----------------------------------------------------------------------------
(* The link breaks: the client exits, its machine leaves the network, or   *)
(* a cable is pulled.  The last n frames written to it are still           *)
(* outstanding writes; what came before is in the kernels' buffers.        *)
Disconnect(s) ==
    /\ linkUp[s]
    /\ linkUp' = [linkUp EXCEPT ![s] = FALSE]
    /\ \E n \in 0 .. Len(toClient[s]) :
         /\ failing'  = [failing EXCEPT ![s] = n]
         /\ toClient' = [toClient EXCEPT
                           ![s] = SubSeq(@, 1, Len(@) - n)]
    /\ UNCHANGED <<session, toServer>>

(* A write on the broken link that the kernel still took: it completes     *)
(* without an error and its bytes are lost.  Once the socket is closed     *)
(* every outstanding write is aborted, so none ends this way.              *)
WriteLost(s) ==
    /\ session[s] = "active"
    /\ failing[s] > 0
    /\ failing' = [failing EXCEPT ![s] = @ - 1]
    /\ UNCHANGED <<session, linkUp, toServer, toClient>>
=============================================================================
