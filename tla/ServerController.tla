--------------------------- MODULE ServerController ---------------------------
(***************************************************************************)
(* server/ServerController.cpp, with the life of its sessions from         *)
(* ClientSession.cpp and TcpServer.cpp and the process from server.cpp.    *)
(*                                                                         *)
(* server.cpp runs one io_context on one thread, so each completion        *)
(* handler (accept, read, failed write) runs whole before the next: a      *)
(* handler is one action.  What interleaves is their order, between        *)
(* sessions and between a session's reads and its failed writes.           *)
(*                                                                         *)
(* The containers: `clients' and the groups are vectors without            *)
(* duplicates whose order only decides the order of writes to different    *)
(* sockets, hence sets.  `users' is a map: users[u] = NoSession is an      *)
(* absent key.  groupHistory is a map whose keys are loadedGroups.         *)
(* activeAttachmentRoutes is the set of the start messages themselves, at  *)
(* most one for a file id.                                                 *)
(*                                                                         *)
(* The files public_history.txt and group_<id>.txt are publicFile and      *)
(* groupFile; they survive a crash of the process.                         *)
(***************************************************************************)
EXTENDS Connection, FiniteSets

CONSTANTS NoSession

ASSUME NoSessionAssumption == NoSession \notin Session

VARIABLES
    clients, users, groups, publicHistory, groupHistory, loadedGroups,
    routes,         \* activeAttachmentRoutes
    username,       \* ClientSession::username
    publicFile, groupFile

diskVars   == <<publicFile, groupFile>>
memoryVars == <<clients, users, groups, publicHistory, groupHistory,
                loadedGroups, routes, username>>
serverVars == <<memoryVars, diskVars>>

ServerTypeOK ==
    /\ clients       \subseteq Session
    /\ users         \in [Name -> Session \cup {NoSession}]
    /\ groups        \in [Group -> SUBSET Session]
    /\ publicHistory \in Seq(Raw)
    /\ groupHistory  \in [Group -> Seq(Raw)]
    /\ loadedGroups  \subseteq Group
    /\ routes        \subseteq Raw
    /\ username      \in [Session -> Name \cup {Empty}]
    /\ publicFile    \in Seq(Raw)
    /\ groupFile     \in [Group -> Seq(Raw)]

ServerInit ==
    /\ clients       = {}
    /\ users         = [u \in Name |-> NoSession]
    /\ groups        = [g \in Group |-> {}]
    /\ publicHistory = <<>>
    /\ groupHistory  = [g \in Group |-> <<>>]
    /\ loadedGroups  = {}
    /\ routes        = {}
    /\ username      = [s \in Session |-> Empty]
    /\ publicFile    = <<>>
    /\ groupFile     = [g \in Group |-> <<>>]

-----------------------------------------------------------------------------
(* Who a message goes to, and with it what each handler writes.            *)

\* users.count(u) and users[u], as the set of sessions that are written to.
RegisteredAs(u) ==
    IF u \in Name /\ users[u] # NoSession THEN {users[u]} ELSE {}

\* The user list: every key of the map, joined into one content string.
userList(registered) ==
    toJson(NewMessage("UserList", Empty, Empty, Empty, "", 0,
                      { u \in Name : registered[u] # NoSession }))

\* Faulty: whoever wrote the message is left out.
broadcastToOthers(raw) ==
    SendTo({ s \in clients : username[s] # raw.sender }, raw)

broadcast(raw) == SendTo(clients, raw)

broadcastUserList(members, registered) ==
    SendTo(members, userList(registered))

\* Faulty: whoever wrote the message is left out.
sendToOthers(g, raw) ==
    SendTo({ s \in groups[g] : username[s] # raw.sender }, raw)

sendToGroup(g, raw) == SendTo(groups[g], raw)

\* Faulty: the loop starts behind the first message.
sendHistoryFromSecond(s, history) ==
    [Silence EXCEPT ![s] = SubSeq(history, 2, Len(history))]

sendHistory(s, history) ==
    [Silence EXCEPT ![s] = history]

\* Typing, AttachmentStart and AttachmentEnd: to the target and back to the
\* sending session, or to the group, or to everybody.
RouteText(s, raw) ==
    IF raw.target # Empty THEN Both(SendTo(RegisteredAs(raw.target), raw),
                                 SendTo({s}, raw))
    ELSE IF raw.groupId # Empty THEN sendToGroup(raw.groupId, raw)
    ELSE broadcast(raw)

\* Faulty: no echo of the chunks of a private attachment.
RouteBinaryOneWay(route, raw) ==
    IF route.target # Empty THEN SendTo(RegisteredAs(route.target), raw)
    ELSE IF route.groupId # Empty THEN sendToGroup(route.groupId, raw)
    ELSE broadcast(raw)

\* routeBinaryByFileId: a private chunk is echoed to whoever holds the
\* sender's name now, not to the session it came from.
RouteBinary(route, raw) ==
    IF route.target # Empty THEN Both(SendTo(RegisteredAs(route.target), raw),
                                   SendTo(RegisteredAs(route.sender), raw))
    ELSE IF route.groupId # Empty THEN sendToGroup(route.groupId, raw)
    ELSE broadcast(raw)

-----------------------------------------------------------------------------
(* TcpServer::acceptNext, ClientSession::start, registerClient: the        *)
(* session is among the clients before its connect frame has been read.    *)
Accept(s) ==
    /\ session[s] = "pending"
    /\ session' = [session EXCEPT ![s] = "active"]
    /\ clients' = clients \cup {s}
    /\ UNCHANGED <<linkUp, failing, toServer, toClient, users, groups,
                   publicHistory, groupHistory, loadedGroups, routes,
                   username, diskVars>>

\* Faulty: the list is made before the name is erased.
removeClientListed(s, pending) ==
    /\ clients' = clients \ {s}
    /\ groups'  = [g \in Group |-> groups[g] \ {s}]
    /\ IF username[s] # Empty
         THEN /\ users' = [users EXCEPT ![username[s]] = NoSession]
              /\ WriteFrom(pending, broadcastUserList(clients', users))
         ELSE /\ UNCHANGED users
              /\ WriteFrom(pending, Silence)

(* removeClient, as called from a completion handler that leaves `pending' *)
(* failing writes.  It erases the key of the session's name whoever is     *)
(* registered under it.                                                    *)
removeClient(s, pending) ==
    /\ clients' = clients \ {s}
    /\ groups'  = [g \in Group |-> groups[g] \ {s}]
    /\ IF username[s] # Empty
         THEN /\ users' = [users EXCEPT ![username[s]] = NoSession]
              /\ WriteFrom(pending, broadcastUserList(clients', users'))
         ELSE /\ UNCHANGED users
              /\ WriteFrom(pending, Silence)

\* Faulty: a session whose failed write has removed it is not removed again.
ReadErrorRemovesOnce(s) ==
    /\ session[s] \in {"active", "closed"}
    /\ ~linkUp[s]
    /\ session'  = [session EXCEPT ![s] = "retired"]
    /\ toServer' = [toServer EXCEPT ![s] = <<>>]
    /\ IF session[s] = "active" THEN removeClient(s, failing)
         ELSE UNCHANGED <<clients, groups, users, toClient, failing>>
    /\ UNCHANGED <<linkUp, publicHistory, groupHistory, loadedGroups, routes,
                   username, diskVars>>

\* Faulty: the read loop of a socket a failed write has closed never ends.
ReadErrorActiveOnly(s) ==
    /\ session[s] = "active"
    /\ ~linkUp[s]
    /\ session'  = [session EXCEPT ![s] = "retired"]
    /\ toServer' = [toServer EXCEPT ![s] = <<>>]
    /\ removeClient(s, failing)
    /\ UNCHANGED <<linkUp, publicHistory, groupHistory, loadedGroups, routes,
                   username, diskVars>>

(* readHeader or readPayload completes with an error, because the link     *)
(* broke or a failed write closed the socket: the frames still on their    *)
(* way are lost and the read loop ends.                                    *)
ReadError(s) ==
    /\ session[s] \in {"active", "closed"}
    /\ ~linkUp[s]
    /\ session'  = [session EXCEPT ![s] = "retired"]
    /\ toServer' = [toServer EXCEPT ![s] = <<>>]
    /\ removeClient(s, failing)
    /\ UNCHANGED <<linkUp, publicHistory, groupHistory, loadedGroups, routes,
                   username, diskVars>>

(* A write of the session completes with an error.  It closes the socket,  *)
(* so of the frames on their way at most the one whose read had completed  *)
(* is still handled.                                                       *)
WriteError(s) ==
    /\ failing[s] > 0
    /\ session'  = [session EXCEPT ![s] = IF @ = "active" THEN "closed" ELSE @]
    /\ toServer' = [toServer EXCEPT
                      ![s] = IF session[s] = "active" /\ @ # <<>>
                               THEN <<Head(@)>> ELSE @]
    /\ removeClient(s, [failing EXCEPT ![s] = @ - 1])
    /\ UNCHANGED <<linkUp, publicHistory, groupHistory, loadedGroups, routes,
                   username, diskVars>>

-----------------------------------------------------------------------------
(* handleMessage: one action for each case of its switch.                  *)

Received(s, t) ==
    /\ ReadFrame(s)
    /\ Head(toServer[s]).type # "binary"
    /\ fromJson(Head(toServer[s])).type = t

\* Faulty: the map is made anew from the connecting session.
registerAlone(s, u) ==
    users' = [v \in Name |-> IF v = u THEN s ELSE NoSession]

register(s, u) == users' = [users EXCEPT ![u] = s]

HandleConnect(s) ==
    LET raw == Head(toServer[s]) IN
    /\ Received(s, "Connect")
    /\ username' = [username EXCEPT ![s] = raw.sender]
    /\ register(s, raw.sender)
    /\ Write(Both(SendTo({s}, raw),
                  Both(sendHistory(s, publicHistory),
                       broadcastUserList(clients, users'))))
    /\ UNCHANGED <<session, linkUp, clients, groups, publicHistory,
                   groupHistory, loadedGroups, routes, diskVars>>

HandlePublicMessage(s) ==
    LET raw == Head(toServer[s]) IN
    /\ Received(s, "PublicMessage")
    /\ publicHistory' = Append(publicHistory, raw)
    /\ publicFile'    = Append(publicFile, raw)
    /\ Write(broadcast(raw))
    /\ UNCHANGED <<session, linkUp, clients, users, groups, groupHistory,
                   loadedGroups, routes, username, groupFile>>

\* Faulty: the echo is sent only where there is no one to write to.
HandlePrivateMessageOnce(s) ==
    LET raw == Head(toServer[s]) IN
    /\ Received(s, "PrivateMessage")
    /\ Write(SendTo(IF RegisteredAs(raw.target) = {} THEN {s}
                      ELSE RegisteredAs(raw.target), raw))
    /\ UNCHANGED <<session, linkUp, serverVars>>

HandlePrivateMessage(s) ==
    LET raw == Head(toServer[s]) IN
    /\ Received(s, "PrivateMessage")
    /\ Write(Both(SendTo(RegisteredAs(raw.target), raw), SendTo({s}, raw)))
    /\ UNCHANGED <<session, linkUp, serverVars>>

HandleTyping(s) ==
    LET raw == Head(toServer[s]) IN
    /\ Received(s, "Typing")
    /\ Write(RouteText(s, raw))
    /\ UNCHANGED <<session, linkUp, serverVars>>

(* CreateGroup and JoinGroup run the same statements: addClientToGroup,    *)
(* loadGroupHistory (a no-op on a group whose key is there), the echo, and *)
(* the whole history, whose operator[] leaves the key behind.              *)

\* Faulty: the test for a member already there is inverted.
addMemberToGroup(s, g) ==
    groups' = IF g = Empty \/ s \notin groups[g] THEN groups
              ELSE [groups EXCEPT ![g] = @ \cup {s}]

addClientToGroup(s, g) ==
    groups' = IF g = Empty THEN groups ELSE [groups EXCEPT ![g] = @ \cup {s}]

\* Faulty: the lines of the file are read again for a group that has its key.
loadGroupHistoryAgain(g) ==
    groupHistory' = [groupHistory EXCEPT ![g] = @ \o groupFile[g]]

loadGroupHistory(g) ==
    groupHistory' = IF g \in loadedGroups THEN groupHistory
                    ELSE [groupHistory EXCEPT ![g] = groupFile[g]]

HandleJoinGroup(s) ==
    LET raw == Head(toServer[s])
        g   == raw.groupId
    IN  /\ Received(s, "CreateGroup") \/ Received(s, "JoinGroup")
        /\ addClientToGroup(s, g)
        /\ loadGroupHistory(g)
        /\ loadedGroups' = loadedGroups \cup {g}
        /\ Write(Both(SendTo({s}, raw), sendHistory(s, groupHistory'[g])))
        /\ UNCHANGED <<session, linkUp, clients, users, publicHistory,
                       routes, username, diskVars>>

(* GroupMessage does not load the group's file: operator[] makes an empty  *)
(* history for a group that has no key yet.                                *)
HandleGroupMessage(s) ==
    LET raw == Head(toServer[s])
        g   == raw.groupId
    IN  /\ Received(s, "GroupMessage")
        /\ groupHistory' = [groupHistory EXCEPT ![g] = Append(@, raw)]
        /\ loadedGroups' = loadedGroups \cup {g}
        /\ groupFile'    = [groupFile EXCEPT ![g] = Append(@, raw)]
        /\ Write(sendToGroup(g, raw))
        /\ UNCHANGED <<session, linkUp, clients, users, groups, publicHistory,
                       routes, username, publicFile>>

\* Faulty: the routes are kept by target, not by file id.
routesByTarget(raw) == { r \in routes : r.target # raw.target }

routesWithout(raw) == { r \in routes : fileId(r) # fileId(raw) }

HandleAttachmentStart(s) ==
    LET raw == Head(toServer[s]) IN
    /\ Received(s, "AttachmentStart")
    /\ routes' = routesWithout(raw) \cup {raw}
    /\ Write(RouteText(s, raw))
    /\ UNCHANGED <<session, linkUp, clients, users, groups, publicHistory,
                   groupHistory, loadedGroups, username, diskVars>>

HandleAttachmentEnd(s) ==
    LET raw == Head(toServer[s]) IN
    /\ Received(s, "AttachmentEnd")
    /\ Write(RouteText(s, raw))
    /\ routes' = routesWithout(raw)
    /\ UNCHANGED <<session, linkUp, clients, users, groups, publicHistory,
                   groupHistory, loadedGroups, username, diskVars>>

\* The default case; of what a client sends only a garbled frame gets here.
HandleUnknown(s) ==
    /\ \E t \in {"Unknown", "ConnectAck", "UserList", "Error", "History",
                 "AIRequest", "AIResponse"} : Received(s, t)
    /\ UNCHANGED <<session, linkUp, failing, toClient, serverVars>>

\* handleBinary and routeBinaryByFileId.
HandleBinary(s) ==
    LET raw == Head(toServer[s])
        to  == { r \in routes : fileId(r) = fileId(raw) }
    IN  /\ ReadFrame(s)
        /\ raw.type = "binary"
        /\ IF to = {} THEN UNCHANGED <<toClient, failing>>
                      ELSE \E route \in to : Write(RouteBinary(route, raw))
        /\ UNCHANGED <<session, linkUp, serverVars>>

HandleFrame(s) ==
    \/ HandleConnect(s)         \/ HandlePublicMessage(s)
    \/ HandlePrivateMessage(s)  \/ HandleTyping(s)
    \/ HandleJoinGroup(s)       \/ HandleGroupMessage(s)
    \/ HandleAttachmentStart(s) \/ HandleAttachmentEnd(s)
    \/ HandleBinary(s)          \/ HandleUnknown(s)

-----------------------------------------------------------------------------
\* Faulty: the file is written and never read.
loadPublicHistoryNever == <<>>

loadPublicHistory == publicFile

(* The process dies and is started again.  The constructor loads the       *)
(* public history; group files wait for a join.  Every connection is gone  *)
(* with the old process; what the kernels still hold for a client may or   *)
(* may not be read.  A crash inside a handler is no more than this: a      *)
(* handler writes its file before it writes to a socket, and the frames    *)
(* it did not get to send are frames that are never read.                  *)
Restart ==
    /\ session'  = [s \in Session |-> IF session[s] = "none" THEN "none"
                                                             ELSE "retired"]
    /\ linkUp'   = [s \in Session |-> FALSE]
    /\ failing'  = [s \in Session |-> 0]
    /\ toServer' = [s \in Session |-> <<>>]
    /\ clients'       = {}
    /\ users'         = [u \in Name |-> NoSession]
    /\ groups'        = [g \in Group |-> {}]
    /\ publicHistory' = loadPublicHistory
    /\ groupHistory'  = [g \in Group |-> <<>>]
    /\ loadedGroups'  = {}
    /\ routes'        = {}
    /\ username'      = [s \in Session |-> Empty]
    /\ UNCHANGED <<toClient, diskVars>>
=============================================================================
