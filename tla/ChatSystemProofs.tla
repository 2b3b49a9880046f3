--------------------------- MODULE ChatSystemProofs ---------------------------
(***************************************************************************)
(* Theorems of ChatSystem, for every set of sessions, names and groups and *)
(* every bound.                                                            *)
(***************************************************************************)
EXTENDS ChatSystem, SequenceTheorems, TLAPS

-----------------------------------------------------------------------------
(* What the clients and the server write is a frame of the protocol.       *)

LEMMA MessageIsRaw ==
    ASSUME NEW t \in MessageType, NEW from \in Name \cup {Empty},
           NEW to \in Name \cup {Empty}, NEW g \in Group \cup {Empty},
           NEW word \in {"", "typing", "stopped"}, NEW n \in Nat,
           NEW names \in SUBSET Name
    PROVE  toJson(NewMessage(t, from, to, g, word, n, names)) \in Raw
  <1>1. messageTypeToString(t) \in RawWord
    BY DEF RawWord
  <1> QED
    BY <1>1 DEF toJson, NewMessage, Raw

\* What a user's operations write: anything but the connect frame.
UserFrame == { raw \in ClientFrame : raw.type # "connect" }

LEMMA MessageIsUserFrame ==
    ASSUME NEW t \in MessageType \ {"Connect"}, NEW from \in Name \cup {Empty},
           NEW to \in Name \cup {Empty}, NEW g \in Group \cup {Empty},
           NEW word \in {"", "typing", "stopped"}, NEW n \in Nat,
           t \in {"CreateGroup", "JoinGroup", "GroupMessage"} => g \in Group
    PROVE  toJson(NewMessage(t, from, to, g, word, n, {})) \in UserFrame
  <1> DEFINE raw == toJson(NewMessage(t, from, to, g, word, n, {}))
  <1>1. raw \in Raw
    BY MessageIsRaw
  <1>2. raw.type = messageTypeToString(t) /\ raw.groupId = g
    BY DEF toJson, NewMessage
  <1>3. messageTypeToString(t) # "connect"
    BY DEF messageTypeToString, MessageType
  <1>4. messageTypeToString(t) \in GroupWord
          => t \in {"CreateGroup", "JoinGroup", "GroupMessage"}
    BY DEF messageTypeToString, MessageType, GroupWord
  <1> HIDE DEF raw
  <1> QED
    BY <1>1, <1>2, <1>3, <1>4 DEF UserFrame, ClientFrame, raw

LEMMA ConnectIsClientFrame ==
    ASSUME NEW u \in Name
    PROVE  /\ connectMessage(u) \subseteq ClientFrame
           /\ \A raw \in connectMessage(u) : raw.type \in {"connect", "garbled"}
  <1>1. Garbled \in Raw /\ Garbled.type = "garbled"
    BY DEF Garbled, NoMessage, NewMessage, Raw, RawWord
  <1>2. ASSUME NEW read \in ReadAs(u), NEW raw,
               raw = toJson(NewMessage("Connect", read, Empty, Empty, "", 0, {}))
        PROVE  raw \in Raw /\ raw.type = "connect" /\ raw.sender \in Name
    <2>1. read \in Name
      BY DEF ReadAs
    <2>2. raw \in Raw
      BY <1>2, <2>1, MessageIsRaw DEF MessageType
    <2>3. raw.type = "connect" /\ raw.sender = read
      BY <1>2 DEF toJson, NewMessage, messageTypeToString
    <2> QED
      BY <2>1, <2>2, <2>3
  <1>3. ASSUME NEW raw \in connectMessage(u)
        PROVE  raw \in ClientFrame /\ raw.type \in {"connect", "garbled"}
    <2>1. CASE u \in QuotedNames
      BY <1>1, <1>3, <2>1 DEF connectMessage, ClientFrame, GroupWord
    <2>2. CASE u \notin QuotedNames
      BY <1>2, <1>3, <2>2 DEF connectMessage, ClientFrame, GroupWord
    <2> QED
      BY <2>1, <2>2
  <1> QED
    BY <1>3

LEMMA ChunkIsUserFrame ==
    ASSUME NEW u \in Name \cup {Empty}, NEW n \in Nat
    PROVE  chunkPacket(u, n) \in UserFrame
  BY DEF chunkPacket, NewMessage, Raw, RawWord, UserFrame, ClientFrame, GroupWord

LEMMA UserListIsRaw ==
    ASSUME NEW registered
    PROVE  userList(registered) \in Raw
  BY MessageIsRaw DEF userList, MessageType

-----------------------------------------------------------------------------
(* What one handler writes to each session.                                *)

Output == [Session -> Seq(Raw)]

LEMMA OutputTypes ==
    /\ Silence \in Output
    /\ \A S, raw : raw \in Raw => SendTo(S, raw) \in Output
    /\ \A out1, out2 \in Output : Both(out1, out2) \in Output
    /\ \A s, h : h \in Seq(Raw) => sendHistory(s, h) \in Output
  <1>1. Silence \in Output
    BY DEF Output, Silence
  <1>2. ASSUME NEW S, NEW raw \in Raw
        PROVE  SendTo(S, raw) \in Output
    <2>1. <<raw>> \in Seq(Raw) /\ <<>> \in Seq(Raw)
      OBVIOUS
    <2> QED
      BY <2>1 DEF Output, SendTo
  <1>3. ASSUME NEW out1 \in Output, NEW out2 \in Output
        PROVE  Both(out1, out2) \in Output
    <2>1. ASSUME NEW s \in Session
          PROVE  out1[s] \o out2[s] \in Seq(Raw)
      BY DEF Output
    <2> QED
      BY <2>1 DEF Output, Both
  <1>4. ASSUME NEW s, NEW h \in Seq(Raw)
        PROVE  sendHistory(s, h) \in Output
    BY <1>1 DEF Output, sendHistory
  <1> QED
    BY <1>1, <1>2, <1>3, <1>4

LEMMA RouteTypes ==
    ASSUME NEW s \in Session, NEW raw \in Raw, NEW route \in Raw
    PROVE  /\ RouteText(s, raw) \in Output
           /\ RouteBinary(route, raw) \in Output
  BY OutputTypes DEF RouteText, RouteBinary, sendToGroup, broadcast

LEMMA WriteType ==
    ASSUME ConnTypeOK, NEW pending \in [Session -> Nat], NEW out \in Output,
           WriteFrom(pending, out)
    PROVE  /\ toClient' \in [Session -> Seq(Raw)]
           /\ failing'  \in [Session -> Nat]
  BY DEF ConnTypeOK, WriteFrom, Output

-----------------------------------------------------------------------------
(* The queue a client writes to.                                           *)

LEMMA FramesType ==
    ASSUME TypeOK, NEW s \in Session, NEW to \in Name \cup {Empty},
           NEW g \in Group \cup {Empty}
    PROVE  /\ \A word \in {"typing", "stopped"} :
                << typingFrame(s, to, g, word) >> \in Seq(UserFrame)
           /\ \A t \in {"PublicMessage", "PrivateMessage"} :
                << typingFrame(s, to, g, "stopped"), textFrame(s, t, to, g) >>
                    \in Seq(UserFrame)
           /\ g \in Group => \A t \in {"CreateGroup", "JoinGroup"} :
                << textFrame(s, t, to, g) >> \in Seq(UserFrame)
           /\ g \in Group =>
                << typingFrame(s, to, g, "stopped"),
                   textFrame(s, "GroupMessage", to, g) >> \in Seq(UserFrame)
           /\ attachmentFrames(s, to, g) \in Seq(UserFrame)
  <1>0. currentUser[s] \in Name \cup {Empty} /\ ops + 1 \in Nat
    BY DEF TypeOK, ControllerTypeOK
  <1>1. \A word \in {"typing", "stopped"} :
          typingFrame(s, to, g, word) \in UserFrame
    BY <1>0, MessageIsUserFrame DEF typingFrame, MessageType
  <1>2. \A t \in {"PublicMessage", "PrivateMessage", "AttachmentStart",
                 "AttachmentEnd"} : textFrame(s, t, to, g) \in UserFrame
    BY <1>0, MessageIsUserFrame, ZenonT(60) DEF textFrame, MessageType
  <1>3. g \in Group => \A t \in {"CreateGroup", "JoinGroup", "GroupMessage"} :
                          textFrame(s, t, to, g) \in UserFrame
    BY <1>0, MessageIsUserFrame DEF textFrame, MessageType
  <1>4. attachmentFrames(s, to, g) \in Seq(UserFrame)
    <2> DEFINE chunks ==
          [ c \in 1 .. Chunks |-> chunkPacket(currentUser[s], ops + 1) ]
    <2>1. chunks \in Seq(UserFrame)
      <3>1. chunks \in [1 .. Chunks -> UserFrame]
        BY <1>0, ChunkIsUserFrame
      <3> QED
        BY <3>1, ChunksAssumption, SeqDef
    <2>2. /\ << textFrame(s, "AttachmentStart", to, g) >> \in Seq(UserFrame)
          /\ << textFrame(s, "AttachmentEnd", to, g) >> \in Seq(UserFrame)
      BY <1>2
    <2> HIDE DEF chunks
    <2>3. << textFrame(s, "AttachmentStart", to, g) >> \o chunks
            \in Seq(UserFrame)
      BY <2>1, <2>2, ConcatProperties
    <2>4. << textFrame(s, "AttachmentStart", to, g) >> \o chunks
            \o << textFrame(s, "AttachmentEnd", to, g) >> \in Seq(UserFrame)
      BY <2>2, <2>3, ConcatProperties
    <2> QED
      BY <2>4 DEF attachmentFrames, chunks
  <1> QED
    BY <1>1, <1>2, <1>3, <1>4

LEMMA OperationType ==
    ASSUME TypeOK, NEW s \in Session, NEW kind, NEW frames \in Seq(UserFrame),
           Operation(s, kind, frames)
    PROVE  ConnTypeOK' /\ ops' \in Nat /\ currentUser' = currentUser
  <1>1. toServer' \in [Session -> Seq(ClientFrame)]
    <2>1. frames \in Seq(ClientFrame)
      BY SeqMonotonic DEF UserFrame
    <2> QED
      BY <2>1 DEF Operation, SendFrames, TypeOK, ConnTypeOK
  <1> QED
    BY <1>1 DEF Operation, TypeOK, ConnTypeOK, ControllerTypeOK

LEMMA UserStepFrames ==
    ASSUME TypeOK, NEW s \in Session, UserStep(s)
    PROVE  /\ joinedGroups' \in [Session -> SUBSET Group]
           /\ \E kind : \E frames \in Seq(UserFrame) :
                Operation(s, kind, frames)
  <1> DEFINE Joined == joinedGroups' \in [Session -> SUBSET Group]
  <1>0. joinedGroups \in [Session -> SUBSET Group]
    BY DEF TypeOK, ControllerTypeOK
  <1>2. ASSUME NEW word \in {"typing", "stopped"}, sendTypingStatus(s, word)
        PROVE  Joined /\ \E kind : \E frames \in Seq(UserFrame) :
                 Operation(s, kind, frames)
    BY <1>0, <1>2, FramesType DEF sendTypingStatus
  <1>3. CASE sendPublicMessage(s)
    BY <1>0, <1>3, FramesType DEF sendPublicMessage
  <1>4. CASE sendPublicAttachment(s)
    BY <1>0, <1>4, FramesType DEF sendPublicAttachment
  <1>5. ASSUME NEW u \in Name, sendPrivateMessage(s, u)
        PROVE  Joined /\ \E kind : \E frames \in Seq(UserFrame) :
                 Operation(s, kind, frames)
    BY <1>0, <1>5, FramesType DEF sendPrivateMessage
  <1>6. ASSUME NEW u \in Name, sendPrivateAttachment(s, u)
        PROVE  Joined /\ \E kind : \E frames \in Seq(UserFrame) :
                 Operation(s, kind, frames)
    BY <1>0, <1>6, FramesType DEF sendPrivateAttachment
  <1>7. ASSUME NEW g \in Group, createGroup(s, g) \/ joinGroup(s, g)
        PROVE  Joined /\ \E kind : \E frames \in Seq(UserFrame) :
                 Operation(s, kind, frames)
    BY <1>0, <1>7, FramesType DEF createGroup, joinGroup
  <1>8. ASSUME NEW g \in Group, sendGroupMessage(s, g)
        PROVE  Joined /\ \E kind : \E frames \in Seq(UserFrame) :
                 Operation(s, kind, frames)
    BY <1>0, <1>8, FramesType DEF sendGroupMessage
  <1>9. ASSUME NEW g \in Group, sendGroupAttachment(s, g)
        PROVE  Joined /\ \E kind : \E frames \in Seq(UserFrame) :
                 Operation(s, kind, frames)
    BY <1>0, <1>9, FramesType DEF sendGroupAttachment
  <1>10. ASSUME NEW g \in Group, NEW word \in {"typing", "stopped"},
                sendGroupTypingStatus(s, g, word)
         PROVE  Joined /\ \E kind : \E frames \in Seq(UserFrame) :
                  Operation(s, kind, frames)
    BY <1>0, <1>10, FramesType DEF sendGroupTypingStatus
  <1> QED
    BY <1>2, <1>3, <1>4, <1>5, <1>6, <1>7, <1>8, <1>9, <1>10 DEF UserStep

LEMMA UserStepType ==
    ASSUME TypeOK, NEW s \in Session, UserStep(s)
    PROVE  ConnTypeOK' /\ ControllerTypeOK'
  BY UserStepFrames, OperationType DEF TypeOK, ControllerTypeOK

-----------------------------------------------------------------------------
(* The server's handlers.                                                  *)

LEMMA HeadType ==
    ASSUME TypeOK, NEW s \in Session, ReadFrame(s)
    PROVE  /\ Head(toServer[s]) \in ClientFrame
           /\ toServer' \in [Session -> Seq(ClientFrame)]
  <1>1. toServer[s] \in Seq(ClientFrame) /\ toServer[s] # <<>>
    BY DEF ReadFrame, TypeOK, ConnTypeOK
  <1>2. Head(toServer[s]) \in ClientFrame
        /\ Tail(toServer[s]) \in Seq(ClientFrame)
    BY <1>1, HeadTailProperties
  <1> QED
    BY <1>2 DEF ReadFrame, TypeOK, ConnTypeOK

LEMMA RemoveType ==
    ASSUME TypeOK, NEW s \in Session, NEW pending \in [Session -> Nat],
           removeClient(s, pending)
    PROVE  /\ clients' \subseteq Session
           /\ users' \in [Name -> Session \cup {NoSession}]
           /\ groups' \in [Group -> SUBSET Session]
           /\ toClient' \in [Session -> Seq(Raw)]
           /\ failing'  \in [Session -> Nat]
  <1>1. /\ clients' \subseteq Session
        /\ groups' \in [Group -> SUBSET Session]
    BY DEF removeClient, TypeOK, ServerTypeOK
  <1>2. users' \in [Name -> Session \cup {NoSession}]
    BY DEF removeClient, TypeOK, ServerTypeOK
  <1>3. PICK out \in Output : WriteFrom(pending, out)
    <2>1. broadcastUserList(clients', users') \in Output
      BY OutputTypes, UserListIsRaw DEF broadcastUserList
    <2> QED
      BY <2>1, OutputTypes DEF removeClient
  <1>4. ConnTypeOK
    BY DEF TypeOK
  <1> QED
    BY <1>1, <1>2, <1>3, <1>4, WriteType

LEMMA ErrorType ==
    ASSUME TypeOK, NEW s \in Session, ReadError(s) \/ WriteError(s)
    PROVE  ConnTypeOK' /\ ServerTypeOK'
  <1> USE DEF TypeOK, ConnTypeOK, ServerTypeOK, diskVars
  <1>1. CASE ReadError(s)
    <2>1. removeClient(s, failing) /\ failing \in [Session -> Nat]
      BY <1>1 DEF ReadError
    <2>2. /\ session' \in [Session -> Stage]
          /\ toServer' \in [Session -> Seq(ClientFrame)]
      BY <1>1 DEF ReadError, Stage
    <2> QED
      BY <1>1, <2>1, <2>2, RemoveType DEF ReadError
  <1>2. CASE WriteError(s)
    <2> DEFINE pending == [failing EXCEPT ![s] = @ - 1]
    <2>1. removeClient(s, pending) /\ pending \in [Session -> Nat]
      BY <1>2 DEF WriteError
    <2>2. session' \in [Session -> Stage]
      BY <1>2 DEF WriteError, Stage
    <2>3. toServer' \in [Session -> Seq(ClientFrame)]
      <3>1. toServer[s] # <<>> => <<Head(toServer[s])>> \in Seq(ClientFrame)
        BY HeadTailProperties, SMTT(40)
      <3> QED
        BY <1>2, <3>1, SMTT(40) DEF WriteError
    <2> HIDE DEF pending
    <2> QED
      BY <1>2, <2>1, <2>2, <2>3, RemoveType DEF WriteError
  <1> QED
    BY <1>1, <1>2

\* Every handler of a frame first takes it from the queue.
LEMMA HandleReads ==
    ASSUME NEW s \in Session, HandleFrame(s)
    PROVE  ReadFrame(s)
  BY DEF HandleFrame, HandleConnect, HandlePublicMessage,
         HandlePrivateMessage, HandleTyping, HandleJoinGroup,
         HandleGroupMessage, HandleAttachmentStart, HandleAttachmentEnd,
         HandleBinary, HandleUnknown, Received

LEMMA FrameType ==
    ASSUME TypeOK, NEW s \in Session, HandleFrame(s)
    PROVE  ConnTypeOK' /\ ServerTypeOK'
  <1> DEFINE raw == Head(toServer[s])
             g   == raw.groupId
  <1> USE DEF ServerTypeOK, diskVars, memoryVars, serverVars
  <1>a. ConnTypeOK /\ ServerTypeOK
    BY DEF TypeOK
  <1>b. raw \in ClientFrame /\ toServer' \in [Session -> Seq(ClientFrame)]
    BY HandleReads, HeadType
  <1>c. /\ raw \in Raw
        /\ raw.sender \in Name \cup {Empty}
        /\ g \in Group \cup {Empty}
        /\ raw.type \in GroupWord => g \in Group
    BY <1>b DEF ClientFrame, Raw
  <1>d. ASSUME NEW out \in Output, Write(out), UNCHANGED <<session, linkUp>>
        PROVE  ConnTypeOK'
    <2>1. failing \in [Session -> Nat]
      BY <1>a DEF ConnTypeOK
    <2> QED
      BY <1>a, <1>b, <1>d, <2>1, WriteType DEF Write, ConnTypeOK
  <1>e. ASSUME UNCHANGED <<session, linkUp, failing, toClient>>
        PROVE  ConnTypeOK'
    BY <1>a, <1>b, <1>e DEF ConnTypeOK
  <1>f. routes \subseteq Raw /\ routesWithout(raw) \subseteq Raw
    BY <1>a DEF routesWithout
  <1>1. CASE HandleConnect(s)
    <2>1. /\ username' \in [Session -> Name \cup {Empty}]
          /\ users' \in [Name -> Session \cup {NoSession}]
      BY <1>1, <1>a, <1>c DEF HandleConnect, register
    <2>2. Both(SendTo({s}, raw),
               Both(sendHistory(s, publicHistory),
                    broadcastUserList(clients, users'))) \in Output
      BY <1>a, <1>c, OutputTypes, UserListIsRaw DEF broadcastUserList
    <2> QED
      BY <1>1, <1>a, <1>d, <2>1, <2>2 DEF HandleConnect
  <1>2. CASE HandlePublicMessage(s)
    <2>1. broadcast(raw) \in Output
      BY <1>c, OutputTypes DEF broadcast
    <2>2. publicHistory' \in Seq(Raw) /\ publicFile' \in Seq(Raw)
      BY <1>2, <1>a, <1>c, AppendProperties DEF HandlePublicMessage
    <2> QED
      BY <1>2, <1>a, <1>d, <2>1, <2>2 DEF HandlePublicMessage
  <1>3. CASE HandlePrivateMessage(s)
    <2>1. Both(SendTo(RegisteredAs(raw.target), raw), SendTo({s}, raw))
            \in Output
      BY <1>c, OutputTypes
    <2> QED
      BY <1>3, <1>a, <1>d, <2>1 DEF HandlePrivateMessage
  <1>4. CASE HandleTyping(s)
    <2>1. RouteText(s, raw) \in Output
      BY <1>c, RouteTypes
    <2> QED
      BY <1>4, <1>a, <1>d, <2>1 DEF HandleTyping
  <1>5. CASE HandleJoinGroup(s)
    <2>0. g \in Group
      <3>1. /\ raw # Garbled
            /\ stringToMessageType(raw.type) \in {"CreateGroup", "JoinGroup"}
        BY <1>5 DEF HandleJoinGroup, Received, fromJson, NoMessage, NewMessage
      <3>2. raw.type \in {"create_group", "join_group"}
        BY <3>1 DEF stringToMessageType
      <3> QED
        BY <3>2, <1>c DEF GroupWord
    <2>1. groups' \in [Group -> SUBSET Session]
      BY <1>5, <1>a DEF HandleJoinGroup, addClientToGroup
    <2>2. groupHistory' \in [Group -> Seq(Raw)] /\ loadedGroups' \subseteq Group
      BY <1>5, <1>a, <2>0 DEF HandleJoinGroup, loadGroupHistory
    <2>3. Both(SendTo({s}, raw), sendHistory(s, groupHistory'[g])) \in Output
      BY <1>c, <2>0, <2>2, OutputTypes
    <2> QED
      BY <1>5, <1>a, <1>d, <2>1, <2>2, <2>3 DEF HandleJoinGroup
  <1>6. CASE HandleGroupMessage(s)
    <2>0. g \in Group
      <3>1. /\ raw # Garbled
            /\ stringToMessageType(raw.type) = "GroupMessage"
        BY <1>6 DEF HandleGroupMessage, Received, fromJson, NoMessage, NewMessage
      <3>2. raw.type = "group_message"
        BY <3>1 DEF stringToMessageType
      <3> QED
        BY <3>2, <1>c DEF GroupWord
    <2>1. /\ Append(groupHistory[g], raw) \in Seq(Raw)
          /\ Append(groupFile[g], raw) \in Seq(Raw)
      BY <1>a, <1>c, <2>0, AppendProperties
    <2>2. /\ groupHistory' \in [Group -> Seq(Raw)]
          /\ groupFile' \in [Group -> Seq(Raw)]
          /\ loadedGroups' \subseteq Group
      BY <1>6, <1>a, <2>0, <2>1 DEF HandleGroupMessage
    <2>3. sendToGroup(g, raw) \in Output
      BY <1>c, OutputTypes DEF sendToGroup
    <2> QED
      BY <1>6, <1>a, <1>d, <2>2, <2>3 DEF HandleGroupMessage
  <1>7. CASE HandleAttachmentStart(s)
    <2>1. RouteText(s, raw) \in Output
      BY <1>c, RouteTypes
    <2> QED
      BY <1>7, <1>a, <1>c, <1>d, <1>f, <2>1 DEF HandleAttachmentStart
  <1>8. CASE HandleAttachmentEnd(s)
    <2>1. RouteText(s, raw) \in Output
      BY <1>c, RouteTypes
    <2> QED
      BY <1>8, <1>a, <1>d, <1>f, <2>1 DEF HandleAttachmentEnd
  <1>9. CASE HandleBinary(s)
    <2>1. CASE UNCHANGED <<toClient, failing>>
      BY <1>9, <1>a, <1>e, <2>1 DEF HandleBinary
    <2>2. ASSUME NEW route \in routes, Write(RouteBinary(route, raw))
          PROVE  ConnTypeOK' /\ ServerTypeOK'
      <3>1. RouteBinary(route, raw) \in Output
        BY <1>c, <1>f, RouteTypes
      <3> QED
        BY <1>9, <1>a, <1>d, <2>2, <3>1 DEF HandleBinary
    <2> QED
      BY <1>9, <2>1, <2>2 DEF HandleBinary
  <1>10. CASE HandleUnknown(s)
    BY <1>10, <1>a, <1>e DEF HandleUnknown
  <1> QED
    BY <1>1, <1>2, <1>3, <1>4, <1>5, <1>6, <1>7, <1>8, <1>9, <1>10
       DEF HandleFrame

-----------------------------------------------------------------------------
(* Every variable keeps its type, whatever clients, links and crashes do:  *)
(* in particular no group is ever addressed that is not one, and the count *)
(* of failing writes never goes below zero.                                *)
THEOREM TypeCorrect == Spec => []TypeOK
  <1>1. Init => TypeOK
    BY DEF Init, ConnInit, ServerInit, ControllerInit, TypeOK, ConnTypeOK,
           ServerTypeOK, ControllerTypeOK, Stage
  <1>2. ASSUME TypeOK, [Next]_vars
        PROVE  TypeOK'
    <2> USE <1>2
    <2>0. ConnTypeOK /\ ServerTypeOK /\ ControllerTypeOK
      BY DEF TypeOK
    <2>1. ASSUME NEW s \in Session, NEW u \in Name, Connect(s, u)
          PROVE  TypeOK'
      <3>1. PICK raw \in connectMessage(u) :
              toServer' = [toServer EXCEPT ![s] = <<raw>>]
        BY <2>1 DEF Connect, ConnectUser
      <3>2. ConnTypeOK'
        <4>1. <<raw>> \in Seq(ClientFrame)
          BY ConnectIsClientFrame
        <4> QED
          BY <2>0, <2>1, <3>1, <4>1 DEF Connect, ConnectUser, ConnTypeOK, Stage
      <3>3. ServerTypeOK'
        BY <2>0, <2>1 DEF Connect, ServerTypeOK, serverVars, memoryVars, diskVars
      <3>4. ControllerTypeOK'
        BY <2>0, <2>1 DEF Connect, ConnectUser, ControllerTypeOK
      <3> QED
        BY <2>1, <3>2, <3>3, <3>4 DEF Connect, TypeOK
    <2>2. ASSUME NEW s \in Session, Operate(s)
          PROVE  TypeOK'
      <3>1. ConnTypeOK' /\ ControllerTypeOK'
        BY <2>2, UserStepType DEF Operate
      <3>2. ServerTypeOK'
        BY <2>0, <2>2 DEF Operate, ServerTypeOK, serverVars, memoryVars, diskVars
      <3> QED
        BY <2>2, <3>1, <3>2 DEF Operate, TypeOK
    <2>3. ASSUME NEW s \in Session, Receive(s)
          PROVE  TypeOK'
      <3>0. toClient[s] \in Seq(Raw) /\ toClient[s] # <<>>
        BY <2>0, <2>3 DEF Receive, ReceiveFrame, TakeFrame, ConnTypeOK
      <3>1. Head(toClient[s]) \in Raw /\ Tail(toClient[s]) \in Seq(Raw)
        BY <3>0, HeadTailProperties
      <3>2. ConnTypeOK'
        BY <2>0, <2>3, <3>1 DEF Receive, ReceiveFrame, TakeFrame, ConnTypeOK
      <3>3. ServerTypeOK'
        BY <2>0, <2>3 DEF Receive, ServerTypeOK, serverVars, memoryVars, diskVars
      <3>4. ControllerTypeOK'
        <4>1. Head(toClient[s]).groupId \in Group \cup {Empty}
          BY <3>1 DEF Raw
        <4>2. joinedGroups' \in [Session -> SUBSET Group]
          BY <2>0, <2>3, <4>1 DEF Receive, ReceiveFrame, ControllerTypeOK
        <4> QED
          BY <2>0, <2>3, <4>2 DEF Receive, ReceiveFrame, ControllerTypeOK
      <3> QED
        BY <2>3, <3>2, <3>3, <3>4 DEF Receive, TypeOK
    <2>4. ASSUME NEW s \in Session, ServerStep(s)
          PROVE  TypeOK'
      <3>1. ControllerTypeOK' /\ restarts' \in Nat /\ breaks' \in Nat
        BY <2>0, <2>4 DEF ServerStep, ControllerTypeOK, controllerVars, TypeOK
      <3>2. CASE Accept(s)
        BY <2>0, <3>1, <3>2 DEF Accept, TypeOK, ConnTypeOK, ServerTypeOK,
             Stage, diskVars
      <3>3. CASE HandleFrame(s)
        BY <3>1, <3>3, FrameType DEF TypeOK
      <3>4. CASE ReadError(s) \/ WriteError(s)
        BY <3>1, <3>4, ErrorType DEF TypeOK
      <3> QED
        BY <2>4, <3>2, <3>3, <3>4 DEF ServerStep
    <2>5. ASSUME NEW s \in Session, Break(s)
          PROVE  TypeOK'
      <3>0. PICK n \in 0 .. Len(toClient[s]) :
              /\ failing'  = [failing EXCEPT ![s] = n]
              /\ toClient' = [toClient EXCEPT ![s] = SubSeq(@, 1, Len(@) - n)]
        BY <2>5 DEF Break, Disconnect
      <3>1. toClient[s] \in Seq(Raw) /\ n \in Nat
        BY <2>0 DEF ConnTypeOK
      <3>2. SubSeq(toClient[s], 1, Len(toClient[s]) - n) \in Seq(Raw)
        BY <3>1, SubSeqProperties
      <3>3. ConnTypeOK'
        BY <2>0, <2>5, <3>0, <3>1, <3>2 DEF Break, Disconnect, ConnTypeOK
      <3>4. ServerTypeOK' /\ ControllerTypeOK'
        BY <2>0, <2>5 DEF Break, ServerTypeOK, serverVars, memoryVars, diskVars,
             ControllerTypeOK, controllerVars
      <3> QED
        BY <2>5, <3>3, <3>4 DEF Break, TypeOK
    <2>6. ASSUME NEW s \in Session, LoseWrite(s)
          PROVE  TypeOK'
      <3>1. ConnTypeOK'
        BY <2>0, <2>6 DEF LoseWrite, WriteLost, ConnTypeOK
      <3>2. ServerTypeOK' /\ ControllerTypeOK'
        BY <2>0, <2>6 DEF LoseWrite, ServerTypeOK, serverVars, memoryVars,
             diskVars, ControllerTypeOK, controllerVars
      <3> QED
        BY <2>6, <3>1, <3>2 DEF LoseWrite, TypeOK
    <2>7. ASSUME Crash
          PROVE  TypeOK'
      <3>1. ConnTypeOK'
        BY <2>0, <2>7 DEF Crash, Restart, ConnTypeOK, Stage
      <3>2. ServerTypeOK'
        BY <2>0, <2>7 DEF Crash, Restart, loadPublicHistory, ServerTypeOK, diskVars
      <3>3. ControllerTypeOK'
        BY <2>0, <2>7 DEF Crash, ControllerTypeOK, controllerVars
      <3> QED
        BY <2>7, <3>1, <3>2, <3>3 DEF Crash, TypeOK
    <2>8. CASE UNCHANGED vars
      BY <2>0, <2>8 DEF vars, TypeOK, ConnTypeOK, ServerTypeOK,
           ControllerTypeOK, connVars, serverVars, memoryVars, diskVars,
           controllerVars
    <2> QED
      BY <2>1, <2>2, <2>3, <2>4, <2>5, <2>6, <2>7, <2>8 DEF Next
  <1> QED
    BY <1>1, <1>2, PTL DEF Spec

-----------------------------------------------------------------------------
(* No container keeps a session whose read loop has ended.  The invariant  *)
(* that carries it: containers refer to sessions that still read, a name   *)
(* is held only by a session that knows itself by that name, so that       *)
(* removeClient finds it, and the frame that gives a session its name is   *)
(* the first one it reads.                                                 *)

Reading == {"active", "closed"}

ClientsRead   == \A s \in clients : session[s] = "active"
NamesRead     == \A u \in Name, s \in Session :
                   users[u] = s => session[s] \in Reading /\ username[s] = u
GroupsRead    == \A g \in Group : \A s \in groups[g] : session[s] \in Reading
ConnectFirst  == \A s \in Session : \A i \in 1 .. Len(toServer[s]) :
                   toServer[s][i].type = "connect" => i = 1 /\ username[s] = Empty
NamelessFirst == \A s \in Session : session[s] = "none" => username[s] = Empty

References == /\ ClientsRead
              /\ NamesRead
              /\ GroupsRead
              /\ ConnectFirst
              /\ NamelessFirst

\* A handler leaves the stages alone and shortens one queue.
LEMMA ReadKeeps ==
    ASSUME TypeOK, ConnectFirst, NEW s \in Session, ReadFrame(s)
    PROVE  /\ \A t \in Session \ {s} : toServer'[t] = toServer[t]
           /\ \A i \in 1 .. Len(toServer'[s]) : toServer'[s][i].type # "connect"
           /\ Head(toServer[s]).type = "connect" => username[s] = Empty
  <1>1. toServer[s] \in Seq(ClientFrame) /\ toServer[s] # <<>>
    BY DEF ReadFrame, TypeOK, ConnTypeOK
  <1>2. toServer' = [toServer EXCEPT ![s] = Tail(toServer[s])]
    BY DEF ReadFrame
  <1>3. /\ toServer'[s] = Tail(toServer[s])
        /\ \A t \in Session \ {s} : toServer'[t] = toServer[t]
    BY <1>2 DEF TypeOK, ConnTypeOK
  <1>4. /\ Len(Tail(toServer[s])) = Len(toServer[s]) - 1
        /\ \A i \in 1 .. Len(Tail(toServer[s])) :
             Tail(toServer[s])[i] = toServer[s][i + 1]
    BY <1>1, HeadTailProperties
  <1>5. ASSUME NEW i \in 1 .. Len(toServer'[s])
        PROVE  toServer'[s][i].type # "connect"
    <2>1. i + 1 \in 1 .. Len(toServer[s]) /\ i + 1 # 1
      BY <1>1, <1>3, <1>4
    <2>2. toServer'[s][i] = toServer[s][i + 1]
      BY <1>3, <1>4
    <2> QED
      BY <2>1, <2>2 DEF ConnectFirst
  <1>6. Head(toServer[s]).type = "connect" => username[s] = Empty
    <2>1. Head(toServer[s]) = toServer[s][1] /\ 1 \in 1 .. Len(toServer[s])
      BY <1>1
    <2> QED
      BY <2>1 DEF ConnectFirst
  <1> QED
    BY <1>3, <1>5, <1>6

LEMMA HandleKeepsReferences ==
    ASSUME TypeOK, References, NEW s \in Session, HandleFrame(s)
    PROVE  References'
  <1> DEFINE raw == Head(toServer[s])
  <1> USE DEF References
  <1>a. ReadFrame(s) /\ session[s] \in Reading
    BY HandleReads DEF ReadFrame, Reading
  <1>b. /\ \A t \in Session \ {s} : toServer'[t] = toServer[t]
        /\ \A i \in 1 .. Len(toServer'[s]) : toServer'[s][i].type # "connect"
        /\ raw.type = "connect" => username[s] = Empty
    BY <1>a, ReadKeeps, SMTT(40)
  <1>c. session' = session /\ clients' = clients
    BY DEF HandleFrame, HandleConnect, HandlePublicMessage,
           HandlePrivateMessage, HandleTyping, HandleJoinGroup,
           HandleGroupMessage, HandleAttachmentStart, HandleAttachmentEnd,
           HandleBinary, HandleUnknown, serverVars, memoryVars
  <1>d. ServerTypeOK
    BY DEF TypeOK
  <1>e. ASSUME username' = username
        PROVE  ConnectFirst' /\ NamelessFirst'
    BY <1>b, <1>c, <1>e DEF ConnectFirst, NamelessFirst
  <1>1. CASE HandleConnect(s)
    <2>1. /\ username' = [username EXCEPT ![s] = raw.sender]
          /\ users' = [users EXCEPT ![raw.sender] = s]
          /\ groups' = groups
      BY <1>1 DEF HandleConnect, register
    <2>2. raw.type = "connect"
      <3>1. raw # Garbled /\ stringToMessageType(raw.type) = "Connect"
        BY <1>1 DEF HandleConnect, Received, fromJson, NoMessage, NewMessage
      <3> QED
        BY <3>1 DEF stringToMessageType
    <2>3. raw.sender \in Name
      BY <1>a, <2>2, HeadType DEF ClientFrame
    <2>4. \A u \in Name : users[u] # s
      BY <1>b, <2>2, NameAssumption DEF NamesRead
    <2>5. NamesRead'
      BY <1>a, <1>c, <1>d, <2>1, <2>3, <2>4 DEF NamesRead, ServerTypeOK
    <2>6. ConnectFirst' /\ NamelessFirst'
      BY <1>a, <1>b, <1>c, <1>d, <2>1
         DEF ConnectFirst, NamelessFirst, ServerTypeOK, Reading
    <2> QED
      BY <1>c, <2>1, <2>5, <2>6 DEF ClientsRead, GroupsRead
  <1>2. CASE HandleJoinGroup(s)
    <2>1. /\ username' = username
          /\ users' = users
          /\ \A g \in Group : groups'[g] \subseteq groups[g] \cup {s}
      BY <1>2, <1>d DEF HandleJoinGroup, addClientToGroup, ServerTypeOK
    <2>2. GroupsRead'
      BY <1>a, <1>c, <2>1 DEF GroupsRead
    <2> QED
      BY <1>c, <1>e, <2>1, <2>2 DEF ClientsRead, NamesRead
  <1>3. CASE ~HandleConnect(s) /\ ~HandleJoinGroup(s)
    <2>1. username' = username /\ users' = users /\ groups' = groups
      BY <1>3 DEF HandleFrame, HandlePublicMessage,
           HandlePrivateMessage, HandleTyping, HandleGroupMessage,
           HandleAttachmentStart, HandleAttachmentEnd,
           HandleBinary, HandleUnknown, serverVars, memoryVars
    <2> QED
      BY <1>c, <1>e, <2>1, SMTT(40) DEF ClientsRead, NamesRead, GroupsRead
  <1> QED
    BY <1>1, <1>2, <1>3

\* removeClient leaves no reference to its session.
LEMMA RemoveForgets ==
    ASSUME TypeOK, References, NEW s \in Session, NEW pending,
           removeClient(s, pending)
    PROVE  /\ s \notin clients' /\ clients' \subseteq clients
           /\ \A u \in Name : /\ users'[u] # s
                              /\ users'[u] # NoSession => users'[u] = users[u]
           /\ \A g \in Group : s \notin groups'[g] /\ groups'[g] \subseteq groups[g]
  <1>1. clients' = clients \ {s} /\ groups' = [g \in Group |-> groups[g] \ {s}]
    BY DEF removeClient
  <1>2. ASSUME NEW u \in Name
        PROVE  /\ users'[u] # s
               /\ users'[u] # NoSession => users'[u] = users[u]
    <2>1. CASE username[s] # Empty
      <3>1. users' = [users EXCEPT ![username[s]] = NoSession]
        BY <2>1 DEF removeClient
      <3>2. users \in [Name -> Session \cup {NoSession}] /\ s # NoSession
        BY NoSessionAssumption DEF TypeOK, ServerTypeOK
      <3>3. users[u] = s => username[s] = u
        BY DEF References, NamesRead
      <3> QED
        BY <3>1, <3>2, <3>3
    <2>2. CASE username[s] = Empty
      <3>1. users' = users
        BY <2>2 DEF removeClient
      <3>2. users[u] # s
        BY <2>2, NameAssumption DEF References, NamesRead
      <3> QED
        BY <3>1, <3>2
    <2> QED
      BY <2>1, <2>2
  <1> QED
    BY <1>1, <1>2

\* The two error handlers: the session stops reading, or reads one frame more.
LEMMA ErrorKeepsReferences ==
    ASSUME TypeOK, References, NEW s \in Session, ReadError(s) \/ WriteError(s)
    PROVE  References'
  <1> USE DEF References
  <1>a. /\ session \in [Session -> Stage]
        /\ toServer \in [Session -> Seq(ClientFrame)]
        /\ username' = username
    BY DEF TypeOK, ConnTypeOK, ReadError, WriteError
  <1>b. PICK pending : removeClient(s, pending)
    BY DEF ReadError, WriteError
  <1>c. /\ s \notin clients' /\ clients' \subseteq clients
        /\ \A u \in Name : /\ users'[u] # s
                           /\ users'[u] # NoSession => users'[u] = users[u]
        /\ \A g \in Group : s \notin groups'[g] /\ groups'[g] \subseteq groups[g]
    BY <1>b, RemoveForgets
  <1>d. \A t \in Session \ {s} : session'[t] = session[t]
    BY <1>a DEF ReadError, WriteError
  <1>e. session'[s] = "none" => session[s] = "none"
    BY <1>a DEF ReadError, WriteError
  <1>f. ClientsRead' /\ NamesRead' /\ GroupsRead'
    <2>1. clients \subseteq Session /\ \A g \in Group : groups[g] \subseteq Session
      BY DEF TypeOK, ServerTypeOK
    <2>2. ClientsRead'
      BY <1>c, <1>d, <2>1 DEF ClientsRead
    <2>3. GroupsRead'
      BY <1>c, <1>d, <2>1 DEF GroupsRead
    <2>4. ASSUME NEW u \in Name, NEW t \in Session, users'[u] = t
          PROVE  session'[t] \in Reading /\ username'[t] = u
      <3>1. t # s /\ users[u] = t
        BY <1>c, <2>4, NoSessionAssumption
      <3> QED
        BY <1>a, <1>d, <3>1 DEF NamesRead
    <2> QED
      BY <2>2, <2>3, <2>4 DEF NamesRead
  <1>g. ConnectFirst'
    <2>1. \A t \in Session \ {s} : toServer'[t] = toServer[t]
      BY <1>a DEF ReadError, WriteError
    <2>2. \/ toServer'[s] = <<>>
          \/ toServer'[s] = toServer[s]
          \/ toServer'[s] = <<Head(toServer[s])>> /\ toServer[s] # <<>>
      BY <1>a DEF ReadError, WriteError
    <2>3. ASSUME NEW i \in 1 .. Len(toServer'[s]), toServer'[s][i].type = "connect"
          PROVE  i = 1 /\ username[s] = Empty
      <3>1. CASE toServer'[s] = <<>>
        BY <3>1, <2>3
      <3>2. CASE toServer'[s] = toServer[s]
        BY <3>2, <2>3 DEF ConnectFirst
      <3>3. CASE toServer'[s] = <<Head(toServer[s])>> /\ toServer[s] # <<>>
        <4>1. i = 1 /\ toServer'[s][i] = toServer[s][1]
          BY <1>a, <3>3, <2>3
        <4>2. 1 \in 1 .. Len(toServer[s])
          BY <1>a, <3>3
        <4> QED
          BY <2>3, <4>1, <4>2 DEF ConnectFirst
      <3> QED
        BY <2>2, <3>1, <3>2, <3>3
    <2> QED
      BY <1>a, <2>1, <2>3 DEF ConnectFirst
  <1> QED
    BY <1>a, <1>d, <1>e, <1>f, <1>g DEF NamelessFirst

\* That invariant, for any number of sessions.
THEOREM ReferencesHold == Spec => []References
  <1>1. Init => References
    BY NoSessionAssumption DEF Init, ConnInit, ServerInit, References,
         ClientsRead, NamesRead, GroupsRead, ConnectFirst, NamelessFirst
  <1>2. ASSUME TypeOK, References, [Next]_vars
        PROVE  References'
    <2> USE <1>2 DEF References
    <2>0. ConnTypeOK /\ ServerTypeOK /\ ControllerTypeOK
      BY DEF TypeOK
    <2>1. ASSUME NEW s \in Session, NEW u \in Name, Connect(s, u)
          PROVE  References'
      <3>1. PICK raw \in connectMessage(u) :
              /\ session[s] = "none"
              /\ session' = [session EXCEPT ![s] = "pending"]
              /\ toServer' = [toServer EXCEPT ![s] = <<raw>>]
              /\ UNCHANGED <<clients, users, groups, username>>
        BY <2>1 DEF Connect, ConnectUser, serverVars, memoryVars
      <3>2. ConnectFirst'
        BY <2>0, <3>1 DEF ConnectFirst, NamelessFirst, ConnTypeOK
      <3>3. ClientsRead' /\ NamesRead' /\ GroupsRead'
        BY <2>0, <3>1 DEF ClientsRead, NamesRead, GroupsRead, ConnTypeOK,
             ServerTypeOK, Reading
      <3> QED
        BY <2>0, <3>1, <3>2, <3>3 DEF NamelessFirst, ConnTypeOK
    <2>2. ASSUME NEW s \in Session, Operate(s)
          PROVE  References'
      <3>1. UNCHANGED <<session, clients, users, groups, username>>
        BY <2>2, UserStepFrames
           DEF Operate, serverVars, memoryVars, Operation
      <3>2. PICK frames \in Seq(UserFrame) :
              toServer' = toServer
              \/ toServer' = [toServer EXCEPT ![s] = toServer[s] \o frames]
        BY <2>2, UserStepFrames DEF Operate, Operation, SendFrames
      <3>3. ConnectFirst'
        <4>1. CASE toServer' = toServer
          BY <3>1, <4>1 DEF ConnectFirst
        <4>2. CASE toServer' = [toServer EXCEPT ![s] = toServer[s] \o frames]
          <5>1. /\ toServer'[s] = toServer[s] \o frames
                /\ \A t \in Session \ {s} : toServer'[t] = toServer[t]
                /\ toServer[s] \in Seq(ClientFrame)
            BY <2>0, <4>2 DEF ConnTypeOK
          <5>2. /\ Len(toServer'[s]) = Len(toServer[s]) + Len(frames)
                /\ \A i \in 1 .. Len(toServer'[s]) :
                     toServer'[s][i] = IF i <= Len(toServer[s])
                                         THEN toServer[s][i]
                                         ELSE frames[i - Len(toServer[s])]
            BY <5>1, ConcatProperties
          <5>3. ASSUME NEW i \in 1 .. Len(toServer'[s]),
                       toServer'[s][i].type = "connect"
                PROVE  i = 1 /\ username[s] = Empty
            <6>1. CASE i <= Len(toServer[s])
              BY <5>1, <5>2, <5>3, <6>1 DEF ConnectFirst
            <6>2. CASE ~(i <= Len(toServer[s]))
              <7>1. /\ i - Len(toServer[s]) \in 1 .. Len(frames)
                    /\ toServer'[s][i] = frames[i - Len(toServer[s])]
                BY <5>1, <5>2, <6>2
              <7>2. toServer'[s][i] \in UserFrame
                BY <7>1, ElementOfSeq
              <7> QED
                BY <5>3, <7>2 DEF UserFrame
            <6> QED
              BY <6>1, <6>2
          <5>4. ASSUME NEW t \in Session \ {s}, NEW i \in 1 .. Len(toServer'[t]),
                       toServer'[t][i].type = "connect"
                PROVE  i = 1 /\ username[t] = Empty
            BY <5>1, <5>4 DEF ConnectFirst
          <5>5. \A t \in Session : \A i \in 1 .. Len(toServer'[t]) :
                  toServer'[t][i].type = "connect" => i = 1 /\ username[t] = Empty
            BY <5>3, <5>4
          <5> QED
            BY <3>1, <5>5 DEF ConnectFirst
        <4> QED
          BY <3>2, <4>1, <4>2
      <3> QED
        BY <3>1, <3>3 DEF ClientsRead, NamesRead, GroupsRead, NamelessFirst
    <2>3. ASSUME NEW s \in Session,
                 Receive(s) \/ Break(s) \/ LoseWrite(s)
          PROVE  References'
      <3>1. UNCHANGED <<session, toServer, clients, users, groups, username>>
        BY <2>3 DEF Receive, ReceiveFrame, Break, Disconnect, LoseWrite,
             WriteLost, serverVars, memoryVars
      <3> QED
        BY <3>1 DEF ClientsRead, NamesRead, GroupsRead, ConnectFirst,
             NamelessFirst
    <2>4. ASSUME NEW s \in Session, ServerStep(s)
          PROVE  References'
      <3>1. CASE Accept(s)
        <4>1. /\ session[s] = "pending"
              /\ session' = [session EXCEPT ![s] = "active"]
              /\ clients' = clients \cup {s}
              /\ UNCHANGED <<toServer, users, groups, username>>
          BY <3>1 DEF Accept
        <4> QED
          BY <2>0, <4>1 DEF ClientsRead, NamesRead, GroupsRead, ConnectFirst,
               NamelessFirst, ConnTypeOK, ServerTypeOK, Reading
      <3>2. CASE HandleFrame(s)
        BY <3>2, HandleKeepsReferences
      <3>3. CASE ReadError(s) \/ WriteError(s)
        BY <3>3, ErrorKeepsReferences
      <3> QED
        BY <2>4, <3>1, <3>2, <3>3 DEF ServerStep
    <2>5. ASSUME Crash
          PROVE  References'
      BY <2>5, NoSessionAssumption DEF Crash, Restart, ClientsRead, NamesRead,
           GroupsRead, ConnectFirst, NamelessFirst
    <2>6. CASE UNCHANGED vars
      BY <2>6 DEF vars, connVars, serverVars, memoryVars, ClientsRead,
           NamesRead, GroupsRead, ConnectFirst, NamelessFirst
    <2> QED
      BY <2>1, <2>2, <2>3, <2>4, <2>5, <2>6 DEF Next
  <1> QED
    BY <1>1, <1>2, TypeCorrect, PTL DEF Spec

(* A session whose read loop has ended is in no container of the server:   *)
(* neither clients, users nor a group, for any number of sessions, however *)
(* reads, failed writes, breaks and restarts come together.                *)
THEOREM NoDanglingSessions == Spec => []NoDangling
  <1>1. References => NoDangling
    BY DEF References, ClientsRead, NamesRead, GroupsRead, NoDangling, Reading
  <1> QED
    BY <1>1, ReferencesHold, PTL
=============================================================================
