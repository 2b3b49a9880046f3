---------------------------- MODULE MembershipProofs ----------------------------
(***************************************************************************)
(* Who is a member of which group, what the histories hold, and that a     *)
(* chunk finds its route: theorems of ChatSystem, for every set of         *)
(* sessions, names and groups and for files of any length.                 *)
(*                                                                         *)
(* The window makes its user a member before the server has heard of it,   *)
(* and GroupMessage never loads the group's file.  Both are right for one  *)
(* reason, a statement about queues: of one client a request for a group   *)
(* is always in front of its messages to it.  Routes rest on another, at   *)
(* the end: which frames of one file are in which queue, in which order.   *)
(***************************************************************************)
EXTENDS ChatSystemProofs

JoinWord == {"create_group", "join_group"}

\* Among the first n frames of a queue there is a request for g.
JoinAmong(q, n, g) == \E j \in 1 .. n : IsJoin(q[j], g)

LinkStages == \A s \in Session :
                linkUp[s] => session[s] \in {"pending", "active"} /\ failing[s] = 0

Fresh == \A s \in Session : session[s] = "none" =>
           /\ failing[s] = 0
           /\ toClient[s] = <<>>
           /\ joinedGroups[s] = {}
           /\ currentUser[s] = Empty

FilesSay ==
    /\ \A i \in 1 .. Len(publicFile) : publicFile[i].type = "public_message"
    /\ \A g \in Group : \A i \in 1 .. Len(groupFile[g]) :
         groupFile[g][i].type = "group_message"

GroupsLoaded == \A g \in Group : groups[g] # {} => g \in loadedGroups

JoinFirst == \A s \in Session : \A i \in 1 .. Len(toServer[s]) :
               toServer[s][i].type = "group_message" =>
                 \/ toServer[s][i].groupId \in loadedGroups
                 \/ JoinAmong(toServer[s], i - 1, toServer[s][i].groupId)

EchoMember == \A s \in Session : \A i \in 1 .. Len(toClient[s]) : \A g \in Group :
                linkUp[s] /\ IsJoin(toClient[s][i], g) => s \in groups[g]

Routed == \A s \in Session, g \in Group :
            linkUp[s] /\ g \in joinedGroups[s] =>
              \/ s \in groups[g]
              \/ JoinAmong(toServer[s], Len(toServer[s]), g)

Membership == /\ LinkStages
              /\ Fresh
              /\ FilesSay
              /\ GroupsLoaded
              /\ JoinFirst
              /\ EchoMember
              /\ Routed
              /\ HistoryOnDisk

-----------------------------------------------------------------------------
(* The frames of one operation.                                            *)

LEMMA FrameFields ==
    ASSUME NEW s, NEW to, NEW g, NEW word, NEW t
    PROVE  /\ typingFrame(s, to, g, word).type = "typing"
           /\ textFrame(s, t, to, g).type = messageTypeToString(t)
           /\ textFrame(s, t, to, g).groupId = g
  <1>1. messageTypeToString("Typing") = "typing"
    BY DEF messageTypeToString
  <1> QED
    BY <1>1 DEF typingFrame, textFrame, toJson, NewMessage

(* A message to a group is written by one who thinks he is a member, and   *)
(* whoever comes to think so writes a request.                             *)
OperationGroups(s, frames) ==
    /\ \A i \in 1 .. Len(frames) :
         /\ frames[i].type = "group_message" => frames[i].groupId \in joinedGroups[s]
         /\ frames[i].type \in JoinWord => frames[i].groupId \in joinedGroups'[s]
    /\ \A t \in Session : joinedGroups[t] \subseteq joinedGroups'[t]
    /\ \A g \in Group : \A t \in Session :
         g \in joinedGroups'[t] =>
           \/ g \in joinedGroups[t]
           \/ t = s /\ JoinAmong(frames, Len(frames), g)

LEMMA AttachmentWords ==
    ASSUME NEW s \in Session, NEW to, NEW g,
           NEW i \in 1 .. Len(attachmentFrames(s, to, g))
    PROVE  attachmentFrames(s, to, g)[i].type
             \in {"attachment_start", "binary", "attachment_end"}
  <1> DEFINE start  == textFrame(s, "AttachmentStart", to, g)
             end    == textFrame(s, "AttachmentEnd", to, g)
             chunk  == chunkPacket(currentUser[s], ops + 1)
             chunks == [ c \in 1 .. Chunks |-> chunk ]
             S      == {start, chunk, end}
  <1>1. /\ start.type = "attachment_start"
        /\ end.type = "attachment_end"
        /\ chunk.type = "binary"
    BY FrameFields DEF messageTypeToString, chunkPacket, NewMessage
  <1> HIDE DEF start, end, chunk
  <1>2. chunks \in [1 .. Chunks -> S]
    OBVIOUS
  <1>3. chunks \in Seq(S)
    BY <1>2, ChunksAssumption, SeqDef
  <1>4. <<start>> \in Seq(S) /\ <<end>> \in Seq(S)
    OBVIOUS
  <1> HIDE DEF chunks, S
  <1>5. <<start>> \o chunks \o <<end>> \in Seq(S)
    BY <1>3, <1>4, ConcatProperties
  <1>6. attachmentFrames(s, to, g) = <<start>> \o chunks \o <<end>>
    BY DEF attachmentFrames, start, end, chunks, chunk
  <1>7. attachmentFrames(s, to, g)[i] \in S
    BY <1>5, <1>6, ElementOfSeq
  <1> QED
    BY <1>1, <1>7 DEF S

LEMMA UserStepGroups ==
    ASSUME TypeOK, NEW s \in Session, UserStep(s)
    PROVE  \E kind : \E frames \in Seq(UserFrame) :
             Operation(s, kind, frames) /\ OperationGroups(s, frames)
  <1> DEFINE Goal == \E kind : \E frames \in Seq(UserFrame) :
                       Operation(s, kind, frames) /\ OperationGroups(s, frames)
  <1>0. joinedGroups \in [Session -> SUBSET Group]
    BY DEF TypeOK, ControllerTypeOK
  <1>a. ASSUME NEW f1, NEW f2, joinedGroups' = joinedGroups,
               f1.type # "group_message", f1.type \notin JoinWord,
               f2.type = "group_message" => f2.groupId \in joinedGroups[s],
               f2.type \notin JoinWord
        PROVE  OperationGroups(s, <<f1, f2>>)
    BY <1>a DEF OperationGroups
  <1>b. ASSUME NEW f, joinedGroups' = joinedGroups, f.type # "group_message",
               f.type \notin JoinWord
        PROVE  OperationGroups(s, <<f>>)
    BY <1>b DEF OperationGroups
  <1>c. ASSUME NEW to, NEW g, joinedGroups' = joinedGroups
        PROVE  OperationGroups(s, attachmentFrames(s, to, g))
    BY <1>c, AttachmentWords DEF OperationGroups, JoinWord
  <1>2. ASSUME NEW word \in {"typing", "stopped"}, sendTypingStatus(s, word)
        PROVE  Goal
    BY <1>2, <1>b, FramesType, FrameFields DEF JoinWord, sendTypingStatus
  <1>3. CASE sendPublicMessage(s)
    <2>1. textFrame(s, "PublicMessage", Empty, Empty).type \notin JoinWord \cup {"group_message"}
      BY FrameFields DEF messageTypeToString, JoinWord
    <2> QED
      BY <1>3, <1>a, <2>1, FramesType, FrameFields DEF JoinWord, sendPublicMessage
  <1>4. CASE sendPublicAttachment(s)
    BY <1>4, <1>c, FramesType DEF sendPublicAttachment
  <1>5. ASSUME NEW u \in Name, sendPrivateMessage(s, u)
        PROVE  Goal
    <2>1. textFrame(s, "PrivateMessage", u, Empty).type \notin JoinWord \cup {"group_message"}
      BY FrameFields DEF messageTypeToString, JoinWord
    <2> QED
      BY <1>5, <1>a, <2>1, FramesType, FrameFields DEF JoinWord, sendPrivateMessage
  <1>6. ASSUME NEW u \in Name, sendPrivateAttachment(s, u)
        PROVE  Goal
    BY <1>6, <1>c, FramesType DEF sendPrivateAttachment
  <1>7. ASSUME NEW g \in Group, createGroup(s, g) \/ joinGroup(s, g)
        PROVE  Goal
    <2>1. PICK t \in {"CreateGroup", "JoinGroup"} :
            Operation(s, "group", << textFrame(s, t, Empty, g) >>)
      BY <1>7 DEF createGroup, joinGroup
    <2> DEFINE f == textFrame(s, t, Empty, g)
    <2>2. f.type \in JoinWord /\ f.groupId = g
      BY FrameFields DEF messageTypeToString, JoinWord
    <2>3. joinedGroups' = [joinedGroups EXCEPT ![s] = @ \cup {g}]
      BY <1>7 DEF createGroup, joinGroup
    <2>4. <<f>> \in Seq(UserFrame)
      BY FramesType
    <2> HIDE DEF f
    <2>5. JoinAmong(<<f>>, Len(<<f>>), g)
      BY <2>2 DEF JoinAmong, IsJoin, JoinWord
    <2>6. OperationGroups(s, <<f>>)
      BY <1>0, <2>2, <2>3, <2>5 DEF OperationGroups, JoinWord
    <2> QED
      BY <2>1, <2>4, <2>6 DEF f
  <1>8. ASSUME NEW g \in Group, sendGroupMessage(s, g)
        PROVE  Goal
    <2>1. /\ textFrame(s, "GroupMessage", Empty, g).groupId \in joinedGroups[s]
          /\ textFrame(s, "GroupMessage", Empty, g).type \notin JoinWord
      BY <1>8, FrameFields DEF sendGroupMessage, messageTypeToString, JoinWord
    <2> QED
      BY <1>8, <1>a, <2>1, FramesType, FrameFields DEF JoinWord, sendGroupMessage
  <1>9. ASSUME NEW g \in Group, sendGroupAttachment(s, g)
        PROVE  Goal
    BY <1>9, <1>c, FramesType DEF sendGroupAttachment
  <1>10. ASSUME NEW g \in Group, NEW word \in {"typing", "stopped"},
                sendGroupTypingStatus(s, g, word)
         PROVE  Goal
    BY <1>10, <1>b, FramesType, FrameFields DEF JoinWord, sendGroupTypingStatus
  <1> QED
    BY <1>2, <1>3, <1>4, <1>5, <1>6, <1>7, <1>8, <1>9, <1>10 DEF UserStep

-----------------------------------------------------------------------------
(* What the server's handlers write, and to whom.                          *)

LEMMA ConcatElement ==
    ASSUME NEW S, NEW a \in Seq(S), NEW b \in Seq(S), NEW i \in 1 .. Len(a \o b)
    PROVE  \/ i \in 1 .. Len(a) /\ (a \o b)[i] = a[i]
           \/ /\ i - Len(a) \in 1 .. Len(b)
              /\ (a \o b)[i] = b[i - Len(a)]
  <1>1. /\ Len(a) \in Nat /\ Len(b) \in Nat
        /\ Len(a \o b) = Len(a) + Len(b)
        /\ (a \o b)[i] = IF i <= Len(a) THEN a[i] ELSE b[i - Len(a)]
    BY ConcatProperties, LenProperties
  <1> QED
    BY <1>1

(* Only sessions that still read are written to, and of a request hear     *)
(* only members.                                                           *)
Heard(out, members) ==
    /\ out \in Output
    /\ \A t \in Session : out[t] # <<>> => session[t] \in Reading
    /\ \A t \in Session : \A i \in 1 .. Len(out[t]) : \A g \in Group :
         IsJoin(out[t][i], g) => t \in members[g]

LEMMA SendHeard ==
    ASSUME NEW S, NEW raw \in Raw, NEW members,
           \A t \in Session : t \in S => session[t] \in Reading,
           \A g \in Group : IsJoin(raw, g) => S \subseteq members[g]
    PROVE  Heard(SendTo(S, raw), members)
  <1>1. SendTo(S, raw) \in Output
    BY OutputTypes
  <1> QED
    BY <1>1 DEF Heard, SendTo

LEMMA BothHeard ==
    ASSUME NEW members, NEW out1, NEW out2,
           Heard(out1, members), Heard(out2, members)
    PROVE  Heard(Both(out1, out2), members)
  <1>1. Both(out1, out2) \in Output
    BY OutputTypes DEF Heard
  <1>2. ASSUME NEW t \in Session
        PROVE  /\ Both(out1, out2)[t] = out1[t] \o out2[t]
               /\ out1[t] \in Seq(Raw) /\ out2[t] \in Seq(Raw)
    BY DEF Both, Heard, Output
  <1>3. ASSUME NEW t \in Session, Both(out1, out2)[t] # <<>>
        PROVE  session[t] \in Reading
    <2>1. out1[t] # <<>> \/ out2[t] # <<>>
      <3>1. <<>> \o <<>> = <<>>
        OBVIOUS
      <3> QED
        BY <1>2, <1>3, <3>1
    <2> QED
      BY <2>1 DEF Heard
  <1>4. ASSUME NEW t \in Session, NEW i \in 1 .. Len(Both(out1, out2)[t]),
               NEW g \in Group, IsJoin(Both(out1, out2)[t][i], g)
        PROVE  t \in members[g]
    <2>0. /\ out1[t] \in Seq(Raw) /\ out2[t] \in Seq(Raw)
          /\ Both(out1, out2)[t] = out1[t] \o out2[t]
          /\ i \in 1 .. Len(out1[t] \o out2[t])
      BY <1>2
    <2>1. \/ i \in 1 .. Len(out1[t]) /\ Both(out1, out2)[t][i] = out1[t][i]
          \/ /\ i - Len(out1[t]) \in 1 .. Len(out2[t])
             /\ Both(out1, out2)[t][i] = out2[t][i - Len(out1[t])]
      BY <2>0, ConcatElement, ZenonT(60)
    <2> QED
      BY <1>4, <2>1 DEF Heard
  <1> QED
    BY <1>1, <1>3, <1>4 DEF Heard

LEMMA HistoryHeard ==
    ASSUME NEW s \in Session, NEW history \in Seq(Raw), NEW members,
           session[s] \in Reading,
           \A i \in 1 .. Len(history) : history[i].type \notin JoinWord
    PROVE  Heard(sendHistory(s, history), members)
  <1>1. sendHistory(s, history) \in Output
    BY OutputTypes
  <1>2. \A t \in Session :
          sendHistory(s, history)[t] = IF t = s THEN history ELSE <<>>
    BY DEF sendHistory, Silence
  <1> QED
    BY <1>1, <1>2 DEF Heard, JoinWord, IsJoin

\* The sessions in the server's containers read.
LEMMA ContainersRead ==
    ASSUME TypeOK, References
    PROVE  /\ \A t \in clients : t \in Session /\ session[t] \in Reading
           /\ \A u : \A t \in RegisteredAs(u) :
                t \in Session /\ session[t] \in Reading
           /\ \A g \in Group : \A t \in groups[g] :
                t \in Session /\ session[t] \in Reading
  BY DEF TypeOK, ServerTypeOK, References, ClientsRead, NamesRead, GroupsRead,
         RegisteredAs, Reading

LEMMA RouteHeard ==
    ASSUME TypeOK, References, NEW s \in Session, session[s] \in Reading,
           NEW raw \in Raw, raw.type \notin JoinWord, NEW route \in Raw,
           NEW members
    PROVE  /\ Heard(RouteText(s, raw), members)
           /\ Heard(RouteBinary(route, raw), members)
  <1>1. \A g \in Group : ~IsJoin(raw, g)
    BY DEF IsJoin, JoinWord
  <1>2. /\ Heard(broadcast(raw), members)
        /\ Heard(SendTo({s}, raw), members)
        /\ \A u : Heard(SendTo(RegisteredAs(u), raw), members)
    BY <1>1, ContainersRead, SendHeard DEF broadcast
  <1>3. \A g \in Group : Heard(sendToGroup(g, raw), members)
    BY <1>1, ContainersRead, SendHeard DEF sendToGroup
  <1>4. raw.groupId \in Group \cup {Empty} /\ route.groupId \in Group \cup {Empty}
    BY DEF Raw
  <1> QED
    BY <1>2, <1>3, <1>4, BothHeard DEF RouteText, RouteBinary

LEMMA UserListHeard ==
    ASSUME NEW S, NEW registered, NEW members,
           \A t \in Session : t \in S => session[t] \in Reading
    PROVE  Heard(broadcastUserList(S, registered), members)
  <1>1. userList(registered) \in Raw
    BY UserListIsRaw
  <1>2. userList(registered).type = "user_list"
    <2>1. messageTypeToString("UserList") = "user_list"
      BY DEF messageTypeToString
    <2> QED
      BY <2>1 DEF userList, toJson, NewMessage
  <1> QED
    BY <1>1, <1>2, SendHeard DEF broadcastUserList, IsJoin

\* What a handler leaves on the links.
LEMMA WriteKeeps ==
    ASSUME TypeOK, LinkStages, EchoMember, NEW out, NEW members,
           NEW pending \in [Session -> Nat],
           Heard(out, members), WriteFrom(pending, out),
           \A t \in Session :
             \/ pending[t] = failing[t]
             \/ session[t] # "none" /\ ~linkUp[t],
           \A t \in Session, g \in Group :
             linkUp[t] /\ t \in groups[g] => t \in members[g]
    PROVE  /\ \A t \in Session : linkUp[t] => failing'[t] = 0
           /\ \A t \in Session : session[t] = "none" =>
                failing'[t] = failing[t] /\ toClient'[t] = toClient[t]
           /\ \A t \in Session : \A i \in 1 .. Len(toClient'[t]) :
                \A g \in Group :
                  linkUp[t] /\ IsJoin(toClient'[t][i], g) => t \in members[g]
  <1>0. ConnTypeOK
    BY DEF TypeOK
  <1>1. \A t \in Session : linkUp[t] => failing'[t] = 0
    BY <1>0 DEF WriteFrom, LinkStages
  <1>2. ASSUME NEW t \in Session, session[t] = "none"
        PROVE  failing'[t] = failing[t] /\ toClient'[t] = toClient[t]
    <2>1. out[t] = <<>> /\ pending[t] = failing[t] /\ ~linkUp[t]
      BY <1>2 DEF Heard, Reading, LinkStages
    <2> QED
      BY <1>0, <2>1 DEF WriteFrom, ConnTypeOK
  <1>3. ASSUME NEW t \in Session, NEW i \in 1 .. Len(toClient'[t]),
               NEW g \in Group, linkUp[t], IsJoin(toClient'[t][i], g)
        PROVE  t \in members[g]
    <2>1. /\ toClient'[t] = toClient[t] \o out[t]
          /\ toClient[t] \in Seq(Raw) /\ out[t] \in Seq(Raw)
      BY <1>0, <1>3 DEF WriteFrom, ConnTypeOK, Heard, Output
    <2>a. i \in 1 .. Len(toClient[t] \o out[t])
      BY <2>1
    <2>2. \/ i \in 1 .. Len(toClient[t]) /\ toClient'[t][i] = toClient[t][i]
          \/ /\ i - Len(toClient[t]) \in 1 .. Len(out[t])
             /\ toClient'[t][i] = out[t][i - Len(toClient[t])]
      BY <2>1, <2>a, ConcatElement, ZenonT(60)
    <2> QED
      BY <1>3, <2>2 DEF Heard, EchoMember
  <1> QED
    BY <1>1, <1>2, <1>3

-----------------------------------------------------------------------------
(* One handler.                                                            *)

LEMMA ReceivedWord ==
    ASSUME NEW s, NEW t \in {"Connect", "PublicMessage", "PrivateMessage",
                             "Typing", "CreateGroup", "JoinGroup",
                             "GroupMessage", "AttachmentStart",
                             "AttachmentEnd"},
           Received(s, t)
    PROVE  Head(toServer[s]).type = messageTypeToString(t)
  <1>1. /\ Head(toServer[s]) # Garbled
        /\ stringToMessageType(Head(toServer[s]).type) = t
    BY DEF Received, fromJson, NoMessage, NewMessage
  <1> QED
    BY <1>1 DEF stringToMessageType, messageTypeToString

\* A request is handled as one, and only a message to a group as that.
LEMMA HandlerWords ==
    ASSUME NEW s \in Session, HandleFrame(s)
    PROVE  /\ Head(toServer[s]).type \in JoinWord <=> HandleJoinGroup(s)
           /\ HandleGroupMessage(s) => Head(toServer[s]).type = "group_message"
           /\ HandlePublicMessage(s) => Head(toServer[s]).type = "public_message"
  <1> DEFINE raw == Head(toServer[s])
  <1>1. HandleConnect(s) => raw.type = "connect"
    BY ReceivedWord DEF HandleConnect, messageTypeToString
  <1>2. HandlePublicMessage(s) => raw.type = "public_message"
    BY ReceivedWord DEF HandlePublicMessage, messageTypeToString
  <1>3. HandlePrivateMessage(s) => raw.type = "private_message"
    BY ReceivedWord DEF HandlePrivateMessage, messageTypeToString
  <1>4. HandleTyping(s) => raw.type = "typing"
    BY ReceivedWord DEF HandleTyping, messageTypeToString
  <1>5. HandleJoinGroup(s) => raw.type \in JoinWord
    BY ReceivedWord DEF HandleJoinGroup, messageTypeToString, JoinWord
  <1>6. HandleGroupMessage(s) => raw.type = "group_message"
    BY ReceivedWord DEF HandleGroupMessage, messageTypeToString
  <1>7. HandleAttachmentStart(s) => raw.type = "attachment_start"
    BY ReceivedWord DEF HandleAttachmentStart, messageTypeToString
  <1>8. HandleAttachmentEnd(s) => raw.type = "attachment_end"
    BY ReceivedWord DEF HandleAttachmentEnd, messageTypeToString
  <1>9. HandleBinary(s) => raw.type = "binary"
    BY DEF HandleBinary
  <1>10. HandleUnknown(s) => raw.type \notin JoinWord
    <2>1. ASSUME HandleUnknown(s), raw.type \in JoinWord
          PROVE  FALSE
      <3>1. raw # Garbled
        BY <2>1 DEF Garbled, NoMessage, NewMessage, JoinWord
      <3>2. fromJson(raw).type = stringToMessageType(raw.type)
        BY <3>1 DEF fromJson
      <3>3. stringToMessageType(raw.type) \in {"CreateGroup", "JoinGroup"}
        BY <2>1 DEF stringToMessageType, JoinWord
      <3> QED
        BY <2>1, <3>2, <3>3 DEF HandleUnknown, Received
    <2> QED
      BY <2>1
  <1> HIDE DEF raw
  <1> QED
    BY <1>1, <1>2, <1>3, <1>4, <1>5, <1>6, <1>7, <1>8, <1>9, <1>10
       DEF HandleFrame, JoinWord, raw

LEMMA ReadShifts ==
    ASSUME TypeOK, NEW s \in Session, ReadFrame(s)
    PROVE  /\ toServer[s] \in Seq(ClientFrame) /\ toServer'[s] \in Seq(ClientFrame)
           /\ 1 \in 1 .. Len(toServer[s]) /\ Head(toServer[s]) = toServer[s][1]
           /\ Len(toServer'[s]) = Len(toServer[s]) - 1
           /\ \A i \in 1 .. Len(toServer'[s]) : toServer'[s][i] = toServer[s][i + 1]
           /\ \A t \in Session \ {s} : toServer'[t] = toServer[t]
  <1>1. toServer[s] \in Seq(ClientFrame) /\ toServer[s] # <<>>
    BY DEF ReadFrame, TypeOK, ConnTypeOK
  <1>2. /\ toServer'[s] = Tail(toServer[s])
        /\ \A t \in Session \ {s} : toServer'[t] = toServer[t]
    BY DEF ReadFrame, TypeOK, ConnTypeOK
  <1>3. /\ Tail(toServer[s]) \in Seq(ClientFrame)
        /\ Len(Tail(toServer[s])) = Len(toServer[s]) - 1
        /\ \A i \in 1 .. Len(Tail(toServer[s])) :
             Tail(toServer[s])[i] = toServer[s][i + 1]
    BY <1>1, HeadTailProperties
  <1>4. 1 \in 1 .. Len(toServer[s]) /\ Head(toServer[s]) = toServer[s][1]
    BY <1>1
  <1> QED
    BY <1>1, <1>2, <1>3, <1>4

\* What a handler writes, when everybody is heard by members only.
LEMMA HandlerHeard ==
    ASSUME TypeOK, References, Membership, NEW s \in Session, HandleFrame(s)
    PROVE  \/ UNCHANGED <<toClient, failing>>
           \/ \E out : Heard(out, groups') /\ Write(out)
  <1> DEFINE raw == Head(toServer[s])
  <1>a. ReadFrame(s) /\ session[s] \in Reading /\ ServerTypeOK
    BY HandleReads DEF ReadFrame, Reading, TypeOK
  <1>b. raw \in Raw
    BY <1>a, HeadType DEF ClientFrame
  <1>c. raw.type \in GroupWord => raw.groupId \in Group
    BY <1>a, HeadType DEF ClientFrame
  <1>d. ASSUME raw.type \notin JoinWord
        PROVE  /\ Heard(SendTo({s}, raw), groups')
               /\ Heard(broadcast(raw), groups')
               /\ \A u : Heard(SendTo(RegisteredAs(u), raw), groups')
               /\ \A g \in Group : Heard(sendToGroup(g, raw), groups')
    <2>1. \A g \in Group : ~IsJoin(raw, g)
      BY <1>d DEF IsJoin, JoinWord
    <2> QED
      BY <1>a, <1>b, <2>1, ContainersRead, SendHeard DEF broadcast, sendToGroup
  <1> HIDE DEF raw
  <1>1. CASE HandleConnect(s)
    <2>1. raw.type \notin JoinWord /\ raw.type = "connect"
      BY <1>1, ReceivedWord DEF HandleConnect, messageTypeToString, JoinWord, raw
    <2>2. Heard(sendHistory(s, publicHistory), groups')
      <3>1. /\ publicHistory \in Seq(Raw)
            /\ \A i \in 1 .. Len(publicHistory) :
                 publicHistory[i].type \notin JoinWord
        BY <1>a DEF ServerTypeOK, Membership, FilesSay, HistoryOnDisk, JoinWord
      <3> QED
        BY <1>a, <3>1, HistoryHeard
    <2>3. Heard(broadcastUserList(clients, users'), groups')
      BY ContainersRead, UserListHeard
    <2>4. Heard(Both(SendTo({s}, raw), Both(sendHistory(s, publicHistory),
                     broadcastUserList(clients, users'))), groups')
      BY <1>d, <2>1, <2>2, <2>3, BothHeard
    <2> QED
      BY <1>1, <2>4 DEF HandleConnect, raw
  <1>2. CASE HandleJoinGroup(s)
    <2> DEFINE g == raw.groupId
    <2>1. raw.type \in JoinWord /\ g \in Group
      BY <1>2, <1>c, HandlerWords DEF raw, JoinWord, GroupWord
    <2>2. groups' = [groups EXCEPT ![g] = @ \cup {s}]
      BY <1>2, <2>1, GroupAssumption DEF HandleJoinGroup, addClientToGroup, raw
    <2>3. s \in groups'[g]
      BY <1>a, <2>1, <2>2 DEF ServerTypeOK
    <2>4. Heard(SendTo({s}, raw), groups')
      BY <1>a, <1>b, <2>3, SendHeard DEF IsJoin
    <2>5. groupHistory'[g] = groupFile[g]
      BY <1>2, <1>a, <2>1
         DEF HandleJoinGroup, loadGroupHistory, raw, Membership, HistoryOnDisk,
             ServerTypeOK
    <2>6. Heard(sendHistory(s, groupHistory'[g]), groups')
      <3>1. /\ groupFile[g] \in Seq(Raw)
            /\ \A i \in 1 .. Len(groupFile[g]) : groupFile[g][i].type \notin JoinWord
        BY <1>a, <2>1 DEF ServerTypeOK, Membership, FilesSay, JoinWord
      <3> QED
        BY <1>a, <2>5, <3>1, HistoryHeard
    <2>7. Heard(Both(SendTo({s}, raw), sendHistory(s, groupHistory'[g])), groups')
      BY <2>4, <2>6, BothHeard
    <2> QED
      BY <1>2, <2>7 DEF HandleJoinGroup, raw
  <1>3. CASE ~HandleJoinGroup(s)
    <2>1. raw.type \notin JoinWord
      BY <1>3, HandlerWords DEF raw
    <2>2. /\ Heard(RouteText(s, raw), groups')
          /\ \A route \in routes : Heard(RouteBinary(route, raw), groups')
      BY <1>a, <1>b, <2>1, RouteHeard DEF ServerTypeOK
    <2>3. CASE HandlePublicMessage(s)
      BY <1>d, <2>1, <2>3 DEF HandlePublicMessage, raw
    <2>4. CASE HandlePrivateMessage(s)
      <3>1. Heard(Both(SendTo(RegisteredAs(raw.target), raw), SendTo({s}, raw)),
                  groups')
        BY <1>d, <2>1, BothHeard
      <3> QED
        BY <2>4, <3>1 DEF HandlePrivateMessage, raw
    <2>5. CASE HandleTyping(s)
      BY <2>2, <2>5 DEF HandleTyping, raw
    <2>6. CASE HandleGroupMessage(s)
      <3>1. raw.groupId \in Group
        BY <1>c, <2>6, HandlerWords DEF raw, GroupWord
      <3> QED
        BY <1>d, <2>1, <2>6, <3>1 DEF HandleGroupMessage, raw
    <2>7. CASE HandleAttachmentStart(s)
      BY <2>2, <2>7 DEF HandleAttachmentStart, raw
    <2>8. CASE HandleAttachmentEnd(s)
      BY <2>2, <2>8 DEF HandleAttachmentEnd, raw
    <2>9. CASE HandleBinary(s)
      BY <2>2, <2>9 DEF HandleBinary, raw
    <2>10. CASE HandleUnknown(s)
      BY <2>10 DEF HandleUnknown
    <2> QED
      BY <1>1, <1>3, <2>3, <2>4, <2>5, <2>6, <2>7, <2>8, <2>9, <2>10
         DEF HandleFrame
  <1> QED
    BY <1>2, <1>3

\* How a handler changes members and histories.
LEMMA HandlerGroups ==
    ASSUME TypeOK, Membership, NEW s \in Session, HandleFrame(s)
    PROVE  /\ \A g \in Group : groups[g] \subseteq groups'[g]
           /\ loadedGroups \subseteq loadedGroups'
           /\ \A g \in Group : IsJoin(Head(toServer[s]), g) =>
                s \in groups'[g] /\ g \in loadedGroups'
           /\ GroupsLoaded'
           /\ FilesSay' /\ HistoryOnDisk'
  <1> DEFINE raw == Head(toServer[s])
             g   == raw.groupId
  <1> USE DEF Membership
  <1>a. ServerTypeOK /\ raw \in ClientFrame
    BY HandleReads, HeadType DEF TypeOK
  <1>b. raw.type \in GroupWord => g \in Group
    BY <1>a DEF ClientFrame
  <1>c. raw \in Raw
    BY <1>a DEF ClientFrame
  <1> HIDE DEF raw
  <1>1. CASE HandleJoinGroup(s)
    <2>1. raw.type \in JoinWord /\ g \in Group
      BY <1>1, <1>b, HandlerWords DEF raw, JoinWord, GroupWord
    <2>2. /\ groups' = [groups EXCEPT ![g] = @ \cup {s}]
          /\ loadedGroups' = loadedGroups \cup {g}
          /\ UNCHANGED <<publicHistory, publicFile, groupFile>>
          /\ groupHistory' = IF g \in loadedGroups THEN groupHistory
                             ELSE [groupHistory EXCEPT ![g] = groupFile[g]]
      BY <1>1, <2>1, GroupAssumption
         DEF HandleJoinGroup, addClientToGroup, loadGroupHistory, raw, diskVars
    <2>3. s \in groups'[g] /\ \A h \in Group : groups[h] \subseteq groups'[h]
      BY <1>a, <2>1, <2>2 DEF ServerTypeOK
    <2>4. GroupsLoaded'
      BY <1>a, <2>1, <2>2 DEF GroupsLoaded, ServerTypeOK
    <2>5. HistoryOnDisk'
      BY <1>a, <2>1, <2>2 DEF HistoryOnDisk, ServerTypeOK
    <2>6. FilesSay'
      BY <2>2 DEF FilesSay
    <2>7. \A h \in Group : IsJoin(raw, h) => h = g
      BY DEF IsJoin
    <2> QED
      BY <2>2, <2>3, <2>4, <2>5, <2>6, <2>7 DEF raw
  <1>2. CASE ~HandleJoinGroup(s)
    <2>1. \A h \in Group : ~IsJoin(raw, h)
      BY <1>2, HandlerWords, SMTT(40) DEF IsJoin, JoinWord, raw
    <2>2. groups' = groups
      BY <1>2 DEF HandleFrame, HandleConnect, HandlePublicMessage,
         HandlePrivateMessage, HandleTyping, HandleGroupMessage,
         HandleAttachmentStart, HandleAttachmentEnd, HandleBinary,
         HandleUnknown, serverVars, memoryVars
    <2>3. CASE HandleGroupMessage(s)
      <3>1. raw.type = "group_message" /\ g \in Group
        BY <2>3, <1>b, HandlerWords DEF raw, GroupWord
      <3>2. g \in loadedGroups
        <4>1. /\ 1 \in 1 .. Len(toServer[s]) /\ raw = toServer[s][1]
          BY HandleReads, ReadShifts DEF raw
        <4>2. ~JoinAmong(toServer[s], 1 - 1, g)
          BY DEF JoinAmong
        <4> QED
          BY <3>1, <4>1, <4>2 DEF JoinFirst
      <3>3. /\ loadedGroups' = loadedGroups \cup {g}
            /\ groupHistory' = [groupHistory EXCEPT ![g] = Append(@, raw)]
            /\ groupFile'    = [groupFile EXCEPT ![g] = Append(@, raw)]
            /\ UNCHANGED <<publicHistory, publicFile>>
        BY <2>3 DEF HandleGroupMessage, raw
      <3>4. GroupsLoaded'
        BY <2>2, <3>3 DEF GroupsLoaded
      <3>5. HistoryOnDisk'
        BY <1>a, <3>1, <3>2, <3>3 DEF HistoryOnDisk, ServerTypeOK
      <3>6. FilesSay'
        <4>1. ASSUME NEW h \in Group, NEW i \in 1 .. Len(groupFile'[h])
              PROVE  groupFile'[h][i].type = "group_message"
          <5>1. CASE h = g
            <6>1. /\ groupFile'[h] = Append(groupFile[h], raw)
                  /\ groupFile[h] \in Seq(Raw)
              BY <1>a, <3>1, <3>3, <5>1 DEF ServerTypeOK
            <6>2. \/ i \in 1 .. Len(groupFile[h])
                       /\ groupFile'[h][i] = groupFile[h][i]
                  \/ groupFile'[h][i] = raw
              BY <1>c, <6>1, AppendProperties
            <6> QED
              BY <3>1, <6>2 DEF FilesSay
          <5>2. CASE h # g
            BY <1>a, <3>3, <5>2 DEF FilesSay, ServerTypeOK
          <5> QED
            BY <5>1, <5>2
        <4> QED
          BY <3>3, <4>1 DEF FilesSay
      <3> QED
        BY <2>1, <2>2, <3>3, <3>4, <3>5, <3>6 DEF raw
    <2>4. CASE HandlePublicMessage(s)
      <3>1. raw.type = "public_message"
        BY <2>4, HandlerWords DEF raw
      <3>2. /\ publicHistory' = Append(publicHistory, raw)
            /\ publicFile' = Append(publicFile, raw)
            /\ UNCHANGED <<loadedGroups, groupHistory, groupFile>>
        BY <2>4 DEF HandlePublicMessage, raw
      <3>3. GroupsLoaded' /\ HistoryOnDisk'
        BY <2>2, <3>2 DEF GroupsLoaded, HistoryOnDisk
      <3>4. FilesSay'
        <4>1. ASSUME NEW i \in 1 .. Len(publicFile')
              PROVE  publicFile'[i].type = "public_message"
          <5>1. \/ i \in 1 .. Len(publicFile) /\ publicFile'[i] = publicFile[i]
                \/ publicFile'[i] = raw
            BY <1>a, <1>c, <3>2, AppendProperties DEF ServerTypeOK
          <5> QED
            BY <3>1, <5>1 DEF FilesSay
        <4> QED
          BY <3>2, <4>1 DEF FilesSay
      <3> QED
        BY <2>1, <2>2, <3>2, <3>3, <3>4 DEF raw
    <2>5. CASE ~HandleGroupMessage(s) /\ ~HandlePublicMessage(s)
      <3>1. UNCHANGED <<loadedGroups, groupHistory, groupFile, publicHistory,
                        publicFile>>
        BY <1>2, <2>5 DEF HandleFrame, HandleConnect, HandlePrivateMessage,
           HandleTyping, HandleAttachmentStart, HandleAttachmentEnd,
           HandleBinary, HandleUnknown, serverVars, memoryVars, diskVars
      <3> QED
        BY <2>1, <2>2, <3>1 DEF GroupsLoaded, HistoryOnDisk, FilesSay, raw
    <2> QED
      BY <2>3, <2>4, <2>5
  <1> QED
    BY <1>1, <1>2

LEMMA HandleKeepsMembership ==
    ASSUME TypeOK, References, Membership, NEW s \in Session, HandleFrame(s),
           UNCHANGED controllerVars
    PROVE  Membership'
  <1> DEFINE raw == Head(toServer[s])
  <1>a. ReadFrame(s) /\ ConnTypeOK /\ session[s] \in Reading
    BY HandleReads, SMTT(40) DEF TypeOK, ReadFrame, Reading
  <1>b. /\ UNCHANGED <<session, linkUp>>
        /\ UNCHANGED <<joinedGroups, currentUser>>
    BY DEF HandleFrame, HandleConnect, HandlePublicMessage,
           HandlePrivateMessage, HandleTyping, HandleJoinGroup,
           HandleGroupMessage, HandleAttachmentStart, HandleAttachmentEnd,
           HandleBinary, HandleUnknown, controllerVars
  <1>c. /\ \A g \in Group : groups[g] \subseteq groups'[g]
        /\ loadedGroups \subseteq loadedGroups'
        /\ \A g \in Group : IsJoin(raw, g) => s \in groups'[g] /\ g \in loadedGroups'
        /\ GroupsLoaded' /\ FilesSay' /\ HistoryOnDisk'
    BY HandlerGroups
  <1>d. /\ toServer[s] \in Seq(ClientFrame) /\ toServer'[s] \in Seq(ClientFrame)
        /\ 1 \in 1 .. Len(toServer[s]) /\ raw = toServer[s][1]
        /\ Len(toServer'[s]) = Len(toServer[s]) - 1
        /\ \A i \in 1 .. Len(toServer'[s]) : toServer'[s][i] = toServer[s][i + 1]
        /\ \A t \in Session \ {s} : toServer'[t] = toServer[t]
    BY <1>a, ReadShifts
  <1> HIDE DEF raw
  <1> USE DEF Membership
  <1>1. LinkStages' /\ Fresh' /\ EchoMember'
    <2>1. CASE UNCHANGED <<toClient, failing>>
      BY <1>b, <1>c, <2>1 DEF LinkStages, Fresh, EchoMember
    <2>2. ASSUME NEW out, Heard(out, groups'), Write(out)
          PROVE  LinkStages' /\ Fresh' /\ EchoMember'
      <3>1. failing \in [Session -> Nat] /\ WriteFrom(failing, out)
        BY <1>a, <2>2 DEF ConnTypeOK, Write
      <3>2. /\ \A t \in Session : linkUp[t] => failing'[t] = 0
            /\ \A t \in Session : session[t] = "none" =>
                 failing'[t] = failing[t] /\ toClient'[t] = toClient[t]
            /\ \A t \in Session : \A i \in 1 .. Len(toClient'[t]) :
                 \A g \in Group :
                   linkUp[t] /\ IsJoin(toClient'[t][i], g) => t \in groups'[g]
        BY <1>c, <2>2, <3>1, WriteKeeps
      <3> QED
        BY <1>b, <3>2 DEF LinkStages, Fresh, EchoMember
    <2> QED
      BY <2>1, <2>2, HandlerHeard
  <1>2. ASSUME NEW n \in Nat, NEW g \in Group, n < Len(toServer[s]),
               JoinAmong(toServer[s], n + 1, g)
        PROVE  \/ s \in groups'[g] /\ g \in loadedGroups'
               \/ JoinAmong(toServer'[s], n, g)
    <2>1. PICK j \in 1 .. n + 1 : IsJoin(toServer[s][j], g)
      BY <1>2 DEF JoinAmong
    <2>2. CASE j = 1
      BY <1>c, <1>d, <2>1, <2>2
    <2>3. CASE j # 1
      <3>1. j - 1 \in 1 .. n /\ j - 1 \in 1 .. Len(toServer'[s])
        BY <1>2, <1>d, <2>1, <2>3
      <3>2. toServer'[s][j - 1] = toServer[s][j]
        BY <1>d, <3>1
      <3> QED
        BY <2>1, <3>1, <3>2 DEF JoinAmong
    <2> QED
      BY <2>2, <2>3
  <1>3. JoinFirst'
    <2>1. ASSUME NEW i \in 1 .. Len(toServer'[s]),
                 toServer'[s][i].type = "group_message"
          PROVE  \/ toServer'[s][i].groupId \in loadedGroups'
                 \/ JoinAmong(toServer'[s], i - 1, toServer'[s][i].groupId)
      <3> DEFINE g == toServer'[s][i].groupId
      <3>1. g \in Group
        <4>1. toServer'[s][i] \in ClientFrame
          BY <1>d, ElementOfSeq
        <4> QED
          BY <2>1, <4>1 DEF ClientFrame, GroupWord
      <3>2. /\ i + 1 \in 1 .. Len(toServer[s]) /\ i - 1 \in Nat
            /\ (i - 1) + 1 = (i + 1) - 1 /\ i - 1 < Len(toServer[s])
            /\ toServer'[s][i] = toServer[s][i + 1]
        BY <1>d
      <3>3. g \in loadedGroups \/ JoinAmong(toServer[s], (i + 1) - 1, g)
        BY <2>1, <3>2 DEF JoinFirst
      <3> HIDE DEF g
      <3>4. g \in loadedGroups' \/ JoinAmong(toServer'[s], i - 1, g)
        BY <1>2, <1>c, <3>1, <3>2, <3>3
      <3> QED
        BY <3>4 DEF g
    <2>2. ASSUME NEW t \in Session \ {s}, NEW i \in 1 .. Len(toServer'[t]),
                 toServer'[t][i].type = "group_message"
          PROVE  \/ toServer'[t][i].groupId \in loadedGroups'
                 \/ JoinAmong(toServer'[t], i - 1, toServer'[t][i].groupId)
      BY <1>c, <1>d, <2>2 DEF JoinFirst
    <2> QED
      BY <2>1, <2>2 DEF JoinFirst
  <1>4. Routed'
    <2>1. ASSUME NEW g \in Group, linkUp'[s], g \in joinedGroups'[s]
          PROVE  \/ s \in groups'[g]
                 \/ JoinAmong(toServer'[s], Len(toServer'[s]), g)
      <3>1. s \in groups[g] \/ JoinAmong(toServer[s], Len(toServer[s]), g)
        BY <1>b, <2>1 DEF Routed
      <3>2. /\ Len(toServer'[s]) \in Nat /\ Len(toServer'[s]) < Len(toServer[s])
            /\ Len(toServer'[s]) + 1 = Len(toServer[s])
        BY <1>d
      <3> QED
        BY <1>2, <1>c, <3>1, <3>2
    <2>2. ASSUME NEW t \in Session \ {s}, NEW g \in Group,
                 linkUp'[t], g \in joinedGroups'[t]
          PROVE  \/ t \in groups'[g]
                 \/ JoinAmong(toServer'[t], Len(toServer'[t]), g)
      BY <1>b, <1>c, <1>d, <2>2 DEF Routed
    <2> QED
      BY <2>1, <2>2 DEF Routed
  <1> QED
    BY <1>1, <1>3, <1>4, <1>c

-----------------------------------------------------------------------------
(* The steps of links and clients.                                         *)

\* Removing s, whose link is down, from what the server has.
LEMMA RemovalKeeps ==
    ASSUME TypeOK, References, Membership, NEW s \in Session,
           NEW pending \in [Session -> Nat], removeClient(s, pending),
           ~linkUp[s], session[s] # "none",
           \A t \in Session : t # s => pending[t] = failing[t]
    PROVE  /\ \A t \in Session : linkUp[t] => failing'[t] = 0
           /\ \A t \in Session : session[t] = "none" =>
                failing'[t] = failing[t] /\ toClient'[t] = toClient[t]
           /\ \A t \in Session : \A i \in 1 .. Len(toClient'[t]) :
                \A g \in Group :
                  linkUp[t] /\ IsJoin(toClient'[t][i], g) => t \in groups'[g]
           /\ groups' = [g \in Group |-> groups[g] \ {s}]
  <1> USE DEF Membership
  <1>1. clients' = clients \ {s} /\ groups' = [g \in Group |-> groups[g] \ {s}]
    BY DEF removeClient
  <1>2. PICK out : WriteFrom(pending, out) /\ Heard(out, groups')
    <2>1. Heard(broadcastUserList(clients', users'), groups')
      BY <1>1, ContainersRead, UserListHeard
    <2>2. Heard(Silence, groups')
      BY OutputTypes DEF Heard, Silence
    <2> QED
      BY <2>1, <2>2 DEF removeClient
  <1>3. /\ \A t \in Session :
             \/ pending[t] = failing[t]
             \/ session[t] # "none" /\ ~linkUp[t]
        /\ \A t \in Session, g \in Group :
             linkUp[t] /\ t \in groups[g] => t \in groups'[g]
    BY <1>1
  <1> QED
    BY <1>1, <1>2, <1>3, WriteKeeps

LEMMA ErrorKeepsMembership ==
    ASSUME TypeOK, References, Membership, NEW s \in Session,
           ReadError(s) \/ WriteError(s), UNCHANGED controllerVars
    PROVE  Membership'
  <1> USE DEF Membership
  <1>a. ConnTypeOK
    BY DEF TypeOK
  <1>b. /\ UNCHANGED <<linkUp, loadedGroups, publicHistory, groupHistory>>
        /\ UNCHANGED <<publicFile, groupFile, joinedGroups, currentUser>>
    BY DEF ReadError, WriteError, diskVars, controllerVars
  <1>c. ~linkUp[s] /\ session[s] # "none"
    <2>1. CASE ReadError(s)
      BY <2>1 DEF ReadError
    <2>2. CASE WriteError(s)
      BY <2>2 DEF WriteError, LinkStages, Fresh
    <2> QED
      BY <2>1, <2>2
  <1>d. /\ \A t \in Session \ {s} : session'[t] = session[t]
        /\ \A t \in Session \ {s} : toServer'[t] = toServer[t]
        /\ session'[s] # "none"
    BY <1>a, <1>c DEF ReadError, WriteError, ConnTypeOK
  <1>e. PICK pending \in [Session -> Nat] :
          /\ removeClient(s, pending)
          /\ \A t \in Session : t # s => pending[t] = failing[t]
    <2>1. CASE ReadError(s)
      BY <1>a, <2>1 DEF ReadError, ConnTypeOK
    <2>2. CASE WriteError(s)
      <3> DEFINE less == [failing EXCEPT ![s] = @ - 1]
      <3>1. /\ removeClient(s, less)
            /\ less \in [Session -> Nat]
            /\ \A t \in Session : t # s => less[t] = failing[t]
        BY <1>a, <2>2 DEF WriteError, ConnTypeOK
      <3> HIDE DEF less
      <3> QED
        BY <3>1
    <2> QED
      BY <2>1, <2>2
  <1>f. /\ \A t \in Session : linkUp[t] => failing'[t] = 0
        /\ \A t \in Session : session[t] = "none" =>
             failing'[t] = failing[t] /\ toClient'[t] = toClient[t]
        /\ \A t \in Session : \A i \in 1 .. Len(toClient'[t]) :
             \A g \in Group :
               linkUp[t] /\ IsJoin(toClient'[t][i], g) => t \in groups'[g]
        /\ groups' = [g \in Group |-> groups[g] \ {s}]
    BY <1>c, <1>e, RemovalKeeps
  <1>1. LinkStages' /\ Fresh' /\ EchoMember'
    BY <1>b, <1>c, <1>d, <1>f DEF LinkStages, Fresh, EchoMember
  <1>2. GroupsLoaded' /\ FilesSay' /\ HistoryOnDisk'
    BY <1>b, <1>f DEF GroupsLoaded, FilesSay, HistoryOnDisk
  <1>3. Routed'
    BY <1>b, <1>c, <1>d, <1>f DEF Routed
  <1>4. JoinFirst'
    <2>1. \/ toServer'[s] = <<>>
          \/ toServer'[s] = toServer[s]
          \/ toServer'[s] = <<Head(toServer[s])>> /\ toServer[s] # <<>>
      BY <1>a DEF ReadError, WriteError, ConnTypeOK
    <2>2. ASSUME NEW i \in 1 .. Len(toServer'[s]),
                 toServer'[s][i].type = "group_message"
          PROVE  \/ toServer'[s][i].groupId \in loadedGroups
                 \/ JoinAmong(toServer'[s], i - 1, toServer'[s][i].groupId)
      <3>1. CASE toServer'[s] = <<>>
        BY <2>2, <3>1
      <3>2. CASE toServer'[s] = toServer[s]
        BY <2>2, <3>2 DEF JoinFirst
      <3>3. CASE toServer'[s] = <<Head(toServer[s])>> /\ toServer[s] # <<>>
        <4>1. /\ i = 1 /\ toServer'[s][i] = toServer[s][1]
              /\ 1 \in 1 .. Len(toServer[s])
          BY <1>a, <2>2, <3>3 DEF ConnTypeOK
        <4>2. ~JoinAmong(toServer[s], 1 - 1, toServer[s][1].groupId)
          BY DEF JoinAmong
        <4> QED
          BY <2>2, <4>1, <4>2 DEF JoinFirst
      <3> QED
        BY <2>1, <3>1, <3>2, <3>3
    <2>3. ASSUME NEW t \in Session \ {s}, NEW i \in 1 .. Len(toServer'[t]),
                 toServer'[t][i].type = "group_message"
          PROVE  \/ toServer'[t][i].groupId \in loadedGroups
                 \/ JoinAmong(toServer'[t], i - 1, toServer'[t][i].groupId)
      BY <1>d, <2>3 DEF JoinFirst
    <2> QED
      BY <1>b, <2>2, <2>3 DEF JoinFirst
  <1> QED
    BY <1>1, <1>2, <1>3, <1>4

LEMMA OperateKeepsMembership ==
    ASSUME TypeOK, Membership, NEW s \in Session, Operate(s)
    PROVE  Membership'
  <1> USE DEF Membership
  <1>a. ConnTypeOK
    BY DEF TypeOK
  <1>0. PICK kind : \E frames \in Seq(UserFrame) :
          Operation(s, kind, frames) /\ OperationGroups(s, frames)
    BY UserStepGroups DEF Operate
  <1>b. PICK frames \in Seq(UserFrame) :
          Operation(s, kind, frames) /\ OperationGroups(s, frames)
    BY <1>0
  <1>c. /\ UNCHANGED <<session, linkUp, failing, toClient, currentUser>>
        /\ UNCHANGED <<groups, loadedGroups, publicHistory, groupHistory>>
        /\ UNCHANGED <<publicFile, groupFile>>
        /\ currentUser[s] # Empty
    BY <1>b DEF Operate, Operation, serverVars, memoryVars, diskVars
  <1>d. session[s] # "none"
    BY <1>c DEF Fresh
  <1>e. joinedGroups' \in [Session -> SUBSET Group]
    BY UserStepFrames DEF Operate
  <1>f. \A t \in Session : t # s => \A g \in Group :
          g \in joinedGroups'[t] => g \in joinedGroups[t]
    BY <1>b DEF OperationGroups
  <1>1. LinkStages' /\ EchoMember' /\ GroupsLoaded' /\ FilesSay' /\ HistoryOnDisk'
    BY <1>c DEF LinkStages, EchoMember, GroupsLoaded, FilesSay, HistoryOnDisk
  <1>2. Fresh'
    BY <1>c, <1>d, <1>e, <1>f DEF Fresh
  <1>3. CASE toServer' = toServer
    <2>1. ~linkUp[s] \/ frames = <<>>
      <3>1. CASE linkUp[s]
        <4>1. toServer[s] = toServer[s] \o frames /\ toServer[s] \in Seq(ClientFrame)
          BY <1>a, <1>b, <1>3, <3>1 DEF Operation, SendFrames, ConnTypeOK
        <4>2. Len(toServer[s]) = Len(toServer[s]) + Len(frames)
          BY <4>1
        <4> QED
          BY <4>1, <4>2
      <3> QED
        BY <3>1
    <2>2. linkUp[s] => \A g \in Group : g \in joinedGroups'[s] => g \in joinedGroups[s]
      BY <1>b, <2>1 DEF OperationGroups, JoinAmong
    <2>3. Routed'
      BY <1>c, <1>f, <1>3, <2>2 DEF Routed
    <2>4. JoinFirst'
      BY <1>c, <1>3 DEF JoinFirst
    <2> QED
      BY <1>1, <1>2, <2>3, <2>4
  <1>4. CASE toServer' # toServer
    <2>1. /\ linkUp[s]
          /\ toServer' = [toServer EXCEPT ![s] = @ \o frames]
      BY <1>b, <1>4 DEF Operation, SendFrames
    <2>2. /\ toServer[s] \in Seq(ClientFrame)
          /\ toServer'[s] = toServer[s] \o frames
          /\ \A t \in Session \ {s} : toServer'[t] = toServer[t]
      BY <1>a, <2>1 DEF ConnTypeOK
    <2> DEFINE n == Len(toServer[s])
    <2>3. /\ n \in Nat /\ Len(frames) \in Nat
          /\ Len(toServer'[s]) = n + Len(frames)
          /\ \A i \in 1 .. n : toServer'[s][i] = toServer[s][i]
          /\ \A i \in 1 .. Len(frames) : toServer'[s][n + i] = frames[i]
      <3>1. /\ Len(toServer[s] \o frames) = n + Len(frames)
            /\ \A i \in 1 .. n + Len(frames) :
                 (toServer[s] \o frames)[i] = IF i <= n THEN toServer[s][i]
                                                        ELSE frames[i - n]
        BY <2>2, ConcatProperties
      <3> QED
        BY <2>2, <3>1
    <2> HIDE DEF n
    <2>4. ASSUME NEW g \in Group, g \in joinedGroups[s]
          PROVE  g \in loadedGroups \/ JoinAmong(toServer[s], n, g)
      <3>1. s \in groups[g] \/ JoinAmong(toServer[s], n, g)
        BY <2>1, <2>4 DEF Routed, n
      <3> QED
        BY <3>1 DEF GroupsLoaded
    <2>5. \A g, k : k \in Nat /\ k >= n /\ JoinAmong(toServer[s], n, g)
                      => JoinAmong(toServer'[s], k, g)
      BY <2>3 DEF JoinAmong
    <2>6. JoinFirst'
      <3>1. ASSUME NEW i \in 1 .. Len(toServer'[s]),
                   toServer'[s][i].type = "group_message"
            PROVE  \/ toServer'[s][i].groupId \in loadedGroups
                   \/ JoinAmong(toServer'[s], i - 1, toServer'[s][i].groupId)
        <4> DEFINE g == toServer'[s][i].groupId
        <4>1. CASE i <= n
          <5>1. /\ i \in 1 .. n /\ toServer'[s][i] = toServer[s][i]
                /\ \A j \in 1 .. i - 1 : toServer'[s][j] = toServer[s][j]
            BY <2>3, <4>1
          <5>2. g \in loadedGroups \/ JoinAmong(toServer[s], i - 1, g)
            BY <3>1, <5>1 DEF JoinFirst, n
          <5> QED
            BY <5>1, <5>2 DEF JoinAmong
        <4>2. CASE ~(i <= n)
          <5>1. /\ i - n \in 1 .. Len(frames) /\ n + (i - n) = i
                /\ i - 1 \in Nat /\ i - 1 >= n
            BY <2>3, <4>2
          <5>2. toServer'[s][i] = frames[i - n]
            BY <2>3, <5>1
          <5>3. g \in joinedGroups[s]
            BY <1>b, <3>1, <5>1, <5>2 DEF OperationGroups
          <5>4. g \in Group
            BY <5>3 DEF TypeOK, ControllerTypeOK
          <5> HIDE DEF g
          <5>5. g \in loadedGroups \/ JoinAmong(toServer'[s], i - 1, g)
            BY <2>4, <2>5, <5>1, <5>3, <5>4
          <5> QED
            BY <5>5 DEF g
        <4> QED
          BY <4>1, <4>2
      <3>2. ASSUME NEW t \in Session \ {s}, NEW i \in 1 .. Len(toServer'[t]),
                   toServer'[t][i].type = "group_message"
            PROVE  \/ toServer'[t][i].groupId \in loadedGroups
                   \/ JoinAmong(toServer'[t], i - 1, toServer'[t][i].groupId)
        BY <2>2, <3>2 DEF JoinFirst
      <3> QED
        BY <1>c, <3>1, <3>2 DEF JoinFirst
    <2>7. Routed'
      <3>1. ASSUME NEW g \in Group, g \in joinedGroups'[s]
            PROVE  s \in groups[g] \/ JoinAmong(toServer'[s], Len(toServer'[s]), g)
        <4>1. CASE g \in joinedGroups[s]
          <5>1. s \in groups[g] \/ JoinAmong(toServer[s], n, g)
            BY <2>1, <4>1 DEF Routed, n
          <5>2. Len(toServer'[s]) \in Nat /\ Len(toServer'[s]) >= n
            BY <2>3
          <5> QED
            BY <2>5, <5>1, <5>2
        <4>2. CASE g \notin joinedGroups[s]
          <5>1. PICK j \in 1 .. Len(frames) : IsJoin(frames[j], g)
            BY <1>b, <3>1, <4>2 DEF OperationGroups, JoinAmong
          <5>2. /\ n + j \in 1 .. Len(toServer'[s])
                /\ IsJoin(toServer'[s][n + j], g)
            BY <2>3, <5>1
          <5> QED
            BY <5>2 DEF JoinAmong
        <4> QED
          BY <4>1, <4>2
      <3>2. ASSUME NEW t \in Session \ {s}, NEW g \in Group,
                   linkUp[t], g \in joinedGroups'[t]
            PROVE  t \in groups[g] \/ JoinAmong(toServer'[t], Len(toServer'[t]), g)
        BY <1>f, <2>2, <3>2 DEF Routed
      <3> QED
        BY <1>c, <3>1, <3>2 DEF Routed
    <2> QED
      BY <1>1, <1>2, <2>6, <2>7
  <1> QED
    BY <1>3, <1>4

-----------------------------------------------------------------------------
(* The invariant, for every set of sessions, names and groups: one step    *)
(* for each group of actions, each resting on the lemmas above.            *)
THEOREM MembershipHolds == Spec => []Membership
  <1>1. Init => Membership
    BY DEF Init, ConnInit, ServerInit, ControllerInit, Membership, LinkStages,
         Fresh, FilesSay, GroupsLoaded, JoinFirst, EchoMember, Routed,
         HistoryOnDisk
  <1>2. ASSUME TypeOK, References, Membership, [Next]_vars
        PROVE  Membership'
    <2> USE <1>2 DEF Membership
    <2>0. ConnTypeOK /\ ServerTypeOK /\ ControllerTypeOK
      BY DEF TypeOK
    <2>1. ASSUME NEW s \in Session, NEW u \in Name, Connect(s, u)
          PROVE  Membership'
      <3>1. PICK raw \in connectMessage(u) :
              /\ session[s] = "none"
              /\ session' = [session EXCEPT ![s] = "pending"]
              /\ linkUp' = [linkUp EXCEPT ![s] = TRUE]
              /\ toServer' = [toServer EXCEPT ![s] = <<raw>>]
              /\ currentUser' = [currentUser EXCEPT ![s] = u]
              /\ UNCHANGED <<failing, toClient, joinedGroups>>
              /\ UNCHANGED <<groups, loadedGroups, publicHistory, groupHistory>>
              /\ UNCHANGED <<publicFile, groupFile>>
        BY <2>1 DEF Connect, ConnectUser, serverVars, memoryVars, diskVars
      <3>2. failing[s] = 0 /\ toClient[s] = <<>> /\ joinedGroups[s] = {}
        BY <3>1 DEF Fresh
      <3>3. LinkStages' /\ Fresh'
        BY <2>0, <3>1, <3>2 DEF LinkStages, Fresh, ConnTypeOK, ControllerTypeOK
      <3>4. EchoMember'
        BY <2>0, <3>1, <3>2 DEF EchoMember, ConnTypeOK
      <3>5. JoinFirst'
        <4>1. raw.type # "group_message"
          BY <3>1, ConnectIsClientFrame
        <4>2. /\ toServer'[s] = <<raw>>
              /\ \A t \in Session \ {s} : toServer'[t] = toServer[t]
          BY <2>0, <3>1 DEF ConnTypeOK
        <4>3. \A i \in 1 .. Len(toServer'[s]) :
                toServer'[s][i].type # "group_message"
          BY <4>1, <4>2
        <4> QED
          BY <3>1, <4>2, <4>3 DEF JoinFirst
      <3>6. Routed'
        BY <2>0, <3>1, <3>2 DEF Routed, ConnTypeOK
      <3> QED
        BY <3>1, <3>3, <3>4, <3>5, <3>6 DEF GroupsLoaded, FilesSay, HistoryOnDisk
    <2>2. ASSUME NEW s \in Session, Operate(s)
          PROVE  Membership'
      BY <2>2, OperateKeepsMembership
    <2>3. ASSUME NEW s \in Session, Receive(s)
          PROVE  Membership'
      <3> DEFINE raw == Head(toClient[s])
      <3>1. /\ toClient[s] \in Seq(Raw) /\ toClient[s] # <<>>
            /\ toClient' = [toClient EXCEPT ![s] = Tail(@)]
            /\ UNCHANGED <<session, linkUp, failing, toServer, currentUser>>
            /\ UNCHANGED <<groups, loadedGroups, publicHistory, groupHistory>>
            /\ UNCHANGED <<publicFile, groupFile>>
        BY <2>0, <2>3 DEF Receive, ReceiveFrame, TakeFrame, ConnTypeOK,
             serverVars, memoryVars, diskVars
      <3>2. /\ raw = toClient[s][1] /\ 1 \in 1 .. Len(toClient[s])
            /\ Len(Tail(toClient[s])) = Len(toClient[s]) - 1
            /\ \A i \in 1 .. Len(Tail(toClient[s])) :
                 Tail(toClient[s])[i] = toClient[s][i + 1]
        BY <3>1, HeadTailProperties
      <3>3. EchoMember'
        <4>1. ASSUME NEW i \in 1 .. Len(toClient'[s]), NEW g \in Group,
                     linkUp[s], IsJoin(toClient'[s][i], g)
              PROVE  s \in groups[g]
          <5>1. toClient'[s] = Tail(toClient[s])
            BY <2>0, <3>1 DEF ConnTypeOK
          <5>2. /\ i + 1 \in 1 .. Len(toClient[s])
                /\ toClient'[s][i] = toClient[s][i + 1]
            <6>1. i \in 1 .. Len(Tail(toClient[s]))
              BY <5>1
            <6>2. toClient'[s][i] = toClient[s][i + 1]
              BY <3>2, <5>1, <6>1
            <6>3. i + 1 \in 1 .. Len(toClient[s])
              <7>1. Len(toClient[s]) \in Nat
                BY <3>1
              <7> QED
                BY <3>2, <6>1, <7>1
            <6> QED
              BY <6>2, <6>3
          <5> QED
            BY <4>1, <5>2 DEF EchoMember
        <4>2. \A t \in Session \ {s} : toClient'[t] = toClient[t]
          BY <2>0, <3>1 DEF ConnTypeOK
        <4> QED
          BY <3>1, <4>1, <4>2 DEF EchoMember
      <3>4. \A t \in Session, g \in Group : g \in joinedGroups'[t] =>
              g \in joinedGroups[t] \/ (t = s /\ IsJoin(raw, g))
        <4>1. CASE /\ fromJson(raw).type \in {"CreateGroup", "JoinGroup"}
                   /\ raw.groupId # Empty
          <5>1. raw # Garbled
                /\ stringToMessageType(raw.type) \in {"CreateGroup", "JoinGroup"}
            BY <4>1 DEF fromJson, NoMessage, NewMessage
          <5>2. raw.type \in JoinWord
            BY <5>1 DEF stringToMessageType, JoinWord
          <5>3. joinedGroups' = [joinedGroups EXCEPT ![s] = @ \cup {raw.groupId}]
            BY <2>3, <4>1 DEF Receive, ReceiveFrame
          <5> HIDE DEF raw
          <5> QED
            BY <2>0, <5>2, <5>3 DEF ControllerTypeOK, IsJoin, JoinWord
        <4>2. CASE ~ /\ fromJson(raw).type \in {"CreateGroup", "JoinGroup"}
                     /\ raw.groupId # Empty
          BY <2>3, <4>2 DEF Receive, ReceiveFrame
        <4> QED
          BY <4>1, <4>2
      <3>5. Routed'
        <4>1. \A g \in Group : linkUp[s] /\ IsJoin(raw, g) => s \in groups[g]
          BY <3>2 DEF EchoMember
        <4> HIDE DEF raw
        <4> QED
          BY <3>1, <3>4, <4>1 DEF Routed
      <3>6. Fresh'
        <4>1. session[s] # "none"
          BY <3>1 DEF Fresh
        <4>2. \A t \in Session \ {s} : toClient'[t] = toClient[t]
          BY <2>0, <3>1 DEF ConnTypeOK
        <4>3. \A t \in Session \ {s} : joinedGroups'[t] = joinedGroups[t]
          BY <2>0, <2>3 DEF Receive, ReceiveFrame, ControllerTypeOK
        <4> QED
          BY <3>1, <4>1, <4>2, <4>3 DEF Fresh
      <3> QED
        BY <3>1, <3>3, <3>5, <3>6
           DEF LinkStages, GroupsLoaded, FilesSay, JoinFirst, HistoryOnDisk
    <2>4. ASSUME NEW s \in Session, ServerStep(s)
          PROVE  Membership'
      <3>0. UNCHANGED controllerVars
        BY <2>4 DEF ServerStep
      <3>1. CASE Accept(s)
        <4>1. /\ session[s] = "pending"
              /\ session' = [session EXCEPT ![s] = "active"]
              /\ UNCHANGED <<linkUp, failing, toServer, toClient>>
              /\ UNCHANGED <<groups, loadedGroups, publicHistory, groupHistory>>
              /\ UNCHANGED <<publicFile, groupFile, joinedGroups, currentUser>>
          BY <3>0, <3>1 DEF Accept, diskVars, controllerVars
        <4>2. LinkStages' /\ Fresh'
          BY <2>0, <4>1 DEF LinkStages, Fresh, ConnTypeOK
        <4> QED
          BY <4>1, <4>2
             DEF FilesSay, GroupsLoaded, JoinFirst, EchoMember, Routed,
                 HistoryOnDisk
      <3>2. CASE HandleFrame(s)
        BY <3>0, <3>2, HandleKeepsMembership
      <3>3. CASE ReadError(s) \/ WriteError(s)
        BY <3>0, <3>3, ErrorKeepsMembership
      <3> QED
        BY <2>4, <3>1, <3>2, <3>3 DEF ServerStep
    <2>5. ASSUME NEW s \in Session, Break(s) \/ LoseWrite(s)
          PROVE  Membership'
      <3>1. /\ UNCHANGED <<session, toServer, joinedGroups, currentUser>>
            /\ UNCHANGED <<groups, loadedGroups, publicHistory, groupHistory>>
            /\ UNCHANGED <<publicFile, groupFile>>
        BY <2>5 DEF Break, Disconnect, LoseWrite, WriteLost, serverVars,
             memoryVars, diskVars, controllerVars
      <3>2. /\ session[s] # "none"
            /\ ~linkUp'[s]
            /\ \A t \in Session \ {s} : /\ linkUp'[t] = linkUp[t]
                                        /\ failing'[t] = failing[t]
                                        /\ toClient'[t] = toClient[t]
        <4>1. CASE Break(s)
          BY <2>0, <4>1 DEF Break, Disconnect, LinkStages, ConnTypeOK
        <4>2. CASE LoseWrite(s)
          BY <2>0, <4>2 DEF LoseWrite, WriteLost, LinkStages, ConnTypeOK
        <4> QED
          BY <2>5, <4>1, <4>2
      <3>3. LinkStages' /\ Fresh' /\ EchoMember' /\ Routed'
        BY <3>1, <3>2 DEF LinkStages, Fresh, EchoMember, Routed
      <3> QED
        BY <3>1, <3>3 DEF GroupsLoaded, FilesSay, JoinFirst, HistoryOnDisk
    <2>6. ASSUME Crash
          PROVE  Membership'
      <3>1. /\ \A s \in Session : ~linkUp'[s] /\ toServer'[s] = <<>>
            /\ \A s \in Session : failing'[s] = 0
            /\ \A s \in Session : session'[s] = "none" => session[s] = "none"
            /\ groups' = [g \in Group |-> {}] /\ loadedGroups' = {}
            /\ publicHistory' = publicFile
            /\ UNCHANGED <<toClient, publicFile, groupFile, joinedGroups,
                           currentUser>>
        BY <2>6 DEF Crash, Restart, loadPublicHistory, diskVars, controllerVars
      <3> QED
        BY <3>1 DEF LinkStages, Fresh, FilesSay, GroupsLoaded, JoinFirst,
             EchoMember, Routed, HistoryOnDisk
    <2>7. CASE UNCHANGED vars
      <3>1. /\ UNCHANGED connVars /\ UNCHANGED controllerVars
            /\ UNCHANGED <<groups, loadedGroups, publicHistory, groupHistory>>
            /\ UNCHANGED <<publicFile, groupFile>>
        BY <2>7 DEF vars, serverVars, memoryVars, diskVars
      <3> QED
        BY <3>1 DEF connVars, controllerVars, LinkStages, Fresh, FilesSay,
             GroupsLoaded, JoinFirst, EchoMember, Routed, HistoryOnDisk
    <2> QED
      BY <2>1, <2>2, <2>3, <2>4, <2>5, <2>6, <2>7 DEF Next
  <1> QED
    BY <1>1, <1>2, TypeCorrect, ReferencesHold, PTL DEF Spec

(* What the server replays is what it would reload: no order of joins,     *)
(* messages, broken links and restarts loses or repeats a line of a        *)
(* history, although GroupMessage never loads the file.                    *)
THEOREM HistoriesOnDisk == Spec => []HistoryOnDisk
  <1>1. Membership => HistoryOnDisk
    BY DEF Membership
  <1> QED
    BY <1>1, MembershipHolds, PTL

(* Whoever the server serves and the window calls a member is one for the  *)
(* server, or his request is on its way.                                   *)
THEOREM MembersRouted == Spec => []MembersAreRouted
  <1>1. Membership => MembersAreRouted
    BY DEF Membership, Routed, JoinAmong, MembersAreRouted, Served
  <1> QED
    BY <1>1, MembershipHolds, PTL

-----------------------------------------------------------------------------
(* That a chunk finds its route.  A chunk names its file and nothing else; *)
(* who is to get it is in the start message, whose route the end message   *)
(* erases.  So what has to be known is which frames of one file id are     *)
(* where: all of them are in one client's queue, and no chunk is behind    *)
(* its end message.                                                        *)

TransferWord == {"attachment_start", "binary", "attachment_end"}

\* The ids of transfers are readings of a clock that has gone on since.
IdsUsed == \A s \in Session : \A i \in 1 .. Len(toServer[s]) :
             toServer[s][i].type \in TransferWord => toServer[s][i].id <= ops

\* The frames of one transfer are all in one client's queue.
OneSender ==
    \A s, t \in Session : \A i \in 1 .. Len(toServer[s]) : \A j \in 1 .. Len(toServer[t]) :
       ( /\ toServer[s][i].type \in TransferWord
         /\ toServer[t][j].type \in TransferWord
         /\ toServer[s][i].id = toServer[t][j].id ) => s = t

\* The end of a transfer is behind all of its chunks.
EndLast ==
    \A s \in Session : \A i, j \in 1 .. Len(toServer[s]) :
       ( /\ toServer[s][i].type = "binary"
         /\ toServer[s][j].type = "attachment_end"
         /\ toServer[s][i].id = toServer[s][j].id ) => i < j

\* Among the first n frames of a queue there is the start of the chunk's file.
StartAmong(q, n, chunk) == \E j \in 1 .. n : /\ q[j].type = "attachment_start"
                                             /\ fileId(q[j]) = fileId(chunk)

HasRoute(chunk) == \E r \in routes : fileId(r) = fileId(chunk)

ChunkRoute ==
    \A s \in Session : \A i \in 1 .. Len(toServer[s]) :
       toServer[s][i].type = "binary" =>
         \/ HasRoute(toServer[s][i])
         \/ StartAmong(toServer[s], i - 1, toServer[s][i])

Transfers == IdsUsed /\ OneSender /\ EndLast

LEMMA FrameIds ==
    ASSUME NEW raw, raw \in ClientFrame \/ raw \in UserFrame
    PROVE  raw.id \in Nat
  BY DEF UserFrame, ClientFrame, Raw

-----------------------------------------------------------------------------
(* Queues that lose frames at their ends.                                  *)

\* The frames of q, without the first k and perhaps some at the end.
Window(q, k, w) == /\ Len(w) + k <= Len(q)
                   /\ \A i \in 1 .. Len(w) : w[i] = q[i + k]

LEMMA WindowsKeep ==
    ASSUME TypeOK, TypeOK', Transfers, ops' = ops,
           \A s \in Session : \E k \in Nat : Window(toServer[s], k, toServer'[s])
    PROVE  Transfers'
  <1>1. PICK shift \in [Session -> Nat] :
          \A s \in Session : Window(toServer[s], shift[s], toServer'[s])
    <2> DEFINE shift == [s \in Session |->
                 CHOOSE k \in Nat : Window(toServer[s], k, toServer'[s])]
    <2>1. shift \in [Session -> Nat]
      OBVIOUS
    <2>2. \A s \in Session : Window(toServer[s], shift[s], toServer'[s])
      OBVIOUS
    <2> QED
      BY <2>1, <2>2
  <1>2. \A s \in Session : Len(toServer[s]) \in Nat /\ Len(toServer'[s]) \in Nat
    BY LenProperties DEF TypeOK, ConnTypeOK
  <1>3. ASSUME NEW s \in Session, NEW i \in 1 .. Len(toServer'[s])
        PROVE  /\ i + shift[s] \in 1 .. Len(toServer[s])
               /\ toServer'[s][i] = toServer[s][i + shift[s]]
    BY <1>1, <1>2, SMTT(40) DEF Window
  <1>4. IdsUsed'
    <2>1. ASSUME NEW s \in Session, NEW i \in 1 .. Len(toServer'[s]),
                 toServer'[s][i].type \in TransferWord
          PROVE  toServer'[s][i].id <= ops'
      BY <1>3, <2>1 DEF Transfers, IdsUsed
    <2> QED
      BY <2>1 DEF IdsUsed
  <1>5. OneSender'
    <2>1. ASSUME NEW s \in Session, NEW t \in Session,
                 NEW i \in 1 .. Len(toServer'[s]), NEW j \in 1 .. Len(toServer'[t]),
                 toServer'[s][i].type \in TransferWord,
                 toServer'[t][j].type \in TransferWord,
                 toServer'[s][i].id = toServer'[t][j].id
          PROVE  s = t
      <3>1. /\ i + shift[s] \in 1 .. Len(toServer[s])
            /\ j + shift[t] \in 1 .. Len(toServer[t])
            /\ toServer'[s][i] = toServer[s][i + shift[s]]
            /\ toServer'[t][j] = toServer[t][j + shift[t]]
        BY <1>3
      <3> QED
        BY <2>1, <3>1 DEF Transfers, OneSender
    <2> QED
      BY <2>1 DEF OneSender
  <1>6. EndLast'
    <2>1. ASSUME NEW s \in Session,
                 NEW i \in 1 .. Len(toServer'[s]), NEW j \in 1 .. Len(toServer'[s]),
                 toServer'[s][i].type = "binary",
                 toServer'[s][j].type = "attachment_end",
                 toServer'[s][i].id = toServer'[s][j].id
          PROVE  i < j
      <3>1. /\ i + shift[s] \in 1 .. Len(toServer[s])
            /\ j + shift[s] \in 1 .. Len(toServer[s])
            /\ toServer'[s][i] = toServer[s][i + shift[s]]
            /\ toServer'[s][j] = toServer[s][j + shift[s]]
        BY <1>3
      <3>2. i + shift[s] < j + shift[s]
        BY <2>1, <3>1 DEF Transfers, EndLast
      <3> QED
        BY <1>1, <1>2, <3>2
    <2> QED
      BY <2>1 DEF EndLast
  <1> QED
    BY <1>4, <1>5, <1>6 DEF Transfers

-----------------------------------------------------------------------------
(* The frames of one operation.                                            *)

(* Either none of them belongs to a transfer, or all do, with the clock's  *)
(* reading as their id: a start, chunks, and an end.                       *)
OperationTransfer(frames) ==
    \/ \A i \in 1 .. Len(frames) : frames[i].type \notin TransferWord
    \/ /\ \A i \in 1 .. Len(frames) : frames[i].id = ops + 1
       /\ \A i \in 1 .. Len(frames) :
            frames[i].type = "binary" => 1 < i /\ i < Len(frames)
       /\ \A i \in 1 .. Len(frames) :
            frames[i].type = "attachment_end" => i = Len(frames)
       /\ \A i \in 1 .. Len(frames) :
            frames[i].type = "binary" => StartAmong(frames, i - 1, frames[i])

LEMMA AttachmentFields ==
    ASSUME NEW s, NEW to, NEW g,
           NEW start, start = textFrame(s, "AttachmentStart", to, g),
           NEW end, end = textFrame(s, "AttachmentEnd", to, g),
           NEW chunk, chunk = chunkPacket(currentUser[s], ops + 1)
    PROVE  /\ start.type = "attachment_start" /\ end.type = "attachment_end"
           /\ chunk.type = "binary"
           /\ start.id = ops + 1 /\ end.id = ops + 1 /\ chunk.id = ops + 1
           /\ start.sender = currentUser[s] /\ end.sender = currentUser[s]
           /\ chunk.sender = currentUser[s]
           /\ start.target = to /\ end.target = to /\ chunk.target = Empty
           /\ start.groupId = g /\ end.groupId = g
  <1>1. /\ messageTypeToString("AttachmentStart") = "attachment_start"
        /\ messageTypeToString("AttachmentEnd") = "attachment_end"
    BY DEF messageTypeToString
  <1> QED
    BY <1>1 DEF textFrame, toJson, chunkPacket, NewMessage

LEMMA AttachmentShape ==
    ASSUME NEW s, NEW to, NEW g,
           NEW frames, frames = attachmentFrames(s, to, g)
    PROVE  /\ Len(frames) = Chunks + 2
           /\ \A i \in 1 .. Chunks + 2 : frames[i] =
                IF i = 1 THEN textFrame(s, "AttachmentStart", to, g)
                ELSE IF i = Chunks + 2 THEN textFrame(s, "AttachmentEnd", to, g)
                ELSE chunkPacket(currentUser[s], ops + 1)
  <1> DEFINE start  == textFrame(s, "AttachmentStart", to, g)
             end    == textFrame(s, "AttachmentEnd", to, g)
             chunk  == chunkPacket(currentUser[s], ops + 1)
             chunks == [ c \in 1 .. Chunks |-> chunk ]
             S      == {start, chunk, end}
  <1>2. frames = <<start>> \o chunks \o <<end>>
    BY DEF attachmentFrames
  <1> HIDE DEF start, end, chunk
  <1>3. chunks \in Seq(S) /\ Len(chunks) = Chunks
    <2>1. chunks \in [1 .. Chunks -> S]
      OBVIOUS
    <2> QED
      BY <2>1, ChunksAssumption, SeqDef, LenProperties
  <1>4. \A c \in 1 .. Chunks : chunks[c] = chunk
    OBVIOUS
  <1>5. /\ <<start>> \in Seq(S) /\ Len(<<start>>) = 1 /\ <<start>>[1] = start
        /\ <<end>> \in Seq(S) /\ Len(<<end>>) = 1 /\ <<end>>[1] = end
    OBVIOUS
  <1> HIDE DEF chunks, S
  <1>6. /\ <<start>> \o chunks \in Seq(S)
        /\ Len(<<start>> \o chunks) = 1 + Chunks
        /\ \A i \in 1 .. 1 + Chunks :
             (<<start>> \o chunks)[i] = IF i = 1 THEN start ELSE chunk
    <2>1. /\ <<start>> \o chunks \in Seq(S)
          /\ Len(<<start>> \o chunks) = 1 + Chunks
          /\ \A i \in 1 .. 1 + Chunks : (<<start>> \o chunks)[i] =
               IF i <= 1 THEN <<start>>[i] ELSE chunks[i - 1]
      BY <1>3, <1>5, ConcatProperties
    <2> QED
      BY <1>4, <1>5, <2>1, ChunksAssumption
  <1> DEFINE front == <<start>> \o chunks
  <1>7. front \in Seq(S) /\ Len(front) = 1 + Chunks
    BY <1>6
  <1> HIDE DEF front
  <1>8. /\ Len(front \o <<end>>) = 1 + Chunks + 1
        /\ \A i \in 1 .. 1 + Chunks + 1 : (front \o <<end>>)[i] =
             IF i <= 1 + Chunks THEN front[i] ELSE <<end>>[i - (1 + Chunks)]
    BY <1>5, <1>7, ConcatProperties
  <1>9. frames = front \o <<end>>
    BY <1>2 DEF front
  <1>10. \A i \in 1 .. 1 + Chunks : front[i] = IF i = 1 THEN start ELSE chunk
    BY <1>6 DEF front
  <1>11. /\ Len(frames) = Chunks + 2
         /\ \A i \in 1 .. Chunks + 2 : frames[i] =
              IF i = 1 THEN start ELSE IF i = Chunks + 2 THEN end ELSE chunk
    BY <1>5, <1>8, <1>9, <1>10, ChunksAssumption
  <1> QED
    BY <1>11 DEF start, end, chunk

LEMMA AttachmentTransfer ==
    ASSUME NEW s, NEW to, NEW g
    PROVE  OperationTransfer(attachmentFrames(s, to, g))
  <1> DEFINE start  == textFrame(s, "AttachmentStart", to, g)
             end    == textFrame(s, "AttachmentEnd", to, g)
             chunk  == chunkPacket(currentUser[s], ops + 1)
             frames == attachmentFrames(s, to, g)
  <1>1. /\ start.type = "attachment_start" /\ start.id = ops + 1
        /\ end.type = "attachment_end" /\ end.id = ops + 1
        /\ chunk.type = "binary" /\ chunk.id = ops + 1
        /\ start.sender = chunk.sender
    BY AttachmentFields
  <1>2. /\ Len(frames) = Chunks + 2
        /\ \A i \in 1 .. Chunks + 2 : frames[i] =
             IF i = 1 THEN start ELSE IF i = Chunks + 2 THEN end ELSE chunk
    BY AttachmentShape
  <1> HIDE DEF start, end, chunk, frames
  <1>3. \A i \in 1 .. Len(frames) : frames[i].type = "binary" =>
          StartAmong(frames, i - 1, frames[i])
    <2>1. ASSUME NEW i \in 1 .. Len(frames), frames[i].type = "binary"
          PROVE  StartAmong(frames, i - 1, frames[i])
      <3>1. i # 1 /\ frames[i] = chunk /\ frames[1] = start
        BY <1>1, <1>2, <2>1, ChunksAssumption
      <3>2. 1 \in 1 .. i - 1
        BY <1>2, <3>1, ChunksAssumption
      <3> QED
        BY <1>1, <3>1, <3>2 DEF StartAmong, fileId
    <2> QED
      BY <2>1
  <1>4. /\ \A i \in 1 .. Len(frames) : frames[i].id = ops + 1
        /\ \A i \in 1 .. Len(frames) :
             frames[i].type = "binary" => 1 < i /\ i < Len(frames)
        /\ \A i \in 1 .. Len(frames) :
             frames[i].type = "attachment_end" => i = Len(frames)
    BY <1>1, <1>2, ChunksAssumption
  <1> QED
    BY <1>3, <1>4 DEF OperationTransfer, frames

Mute(q) == \A i \in 1 .. Len(q) : q[i].type \notin TransferWord

\* An operation sends one file to others, or none.
SendsFile(s, frames) ==
    \/ Mute(frames)
    \/ \E to \in Name \cup {Empty}, g \in Group \cup {Empty} :
         to # currentUser[s] /\ frames = attachmentFrames(s, to, g)

LEMMA UserStepSends ==
    ASSUME TypeOK, NEW s \in Session, UserStep(s)
    PROVE  \E kind : \E frames \in Seq(UserFrame) :
             Operation(s, kind, frames) /\ SendsFile(s, frames)
  <1> DEFINE Goal == \E kind : \E frames \in Seq(UserFrame) :
                       Operation(s, kind, frames) /\ SendsFile(s, frames)
  <1>a. ASSUME NEW f1, NEW f2, f1.type \notin TransferWord,
               f2.type \notin TransferWord
        PROVE  SendsFile(s, <<f1, f2>>)
    BY <1>a DEF SendsFile, Mute
  <1>b. ASSUME NEW f, f.type \notin TransferWord
        PROVE  SendsFile(s, <<f>>)
    BY <1>b DEF SendsFile, Mute
  <1>c. /\ \A to, g, word : typingFrame(s, to, g, word).type \notin TransferWord
        /\ \A t \in {"PublicMessage", "PrivateMessage", "CreateGroup",
                     "JoinGroup", "GroupMessage"} :
             \A to, g : textFrame(s, t, to, g).type \notin TransferWord
    <2>1. \A t \in {"PublicMessage", "PrivateMessage", "CreateGroup",
                    "JoinGroup", "GroupMessage"} :
            messageTypeToString(t) \notin TransferWord
      BY DEF messageTypeToString, TransferWord
    <2>2. ASSUME NEW to, NEW g, NEW word
          PROVE  typingFrame(s, to, g, word).type \notin TransferWord
      BY FrameFields DEF TransferWord
    <2>3. ASSUME NEW to, NEW g,
                 NEW t \in {"PublicMessage", "PrivateMessage", "CreateGroup",
                            "JoinGroup", "GroupMessage"}
          PROVE  textFrame(s, t, to, g).type \notin TransferWord
      <3>1. textFrame(s, t, to, g).type = messageTypeToString(t)
        BY FrameFields
      <3> QED
        BY <2>1, <3>1
    <2> QED
      BY <2>2, <2>3
  <1>d. ASSUME NEW to \in Name \cup {Empty}, NEW g \in Group \cup {Empty},
               to # currentUser[s]
        PROVE  SendsFile(s, attachmentFrames(s, to, g))
    BY <1>d DEF SendsFile
  <1>e. \A kind, frames : Operation(s, kind, frames) => Empty # currentUser[s]
    BY DEF Operation
  <1>3. CASE sendPublicMessage(s)
    BY <1>3, <1>a, <1>c, FramesType DEF sendPublicMessage
  <1>4. CASE sendPublicAttachment(s)
    BY <1>4, FramesType, <1>d, <1>e DEF sendPublicAttachment
  <1>2. ASSUME NEW word \in {"typing", "stopped"}, sendTypingStatus(s, word)
        PROVE  Goal
    BY <1>2, <1>b, <1>c, FramesType DEF sendTypingStatus
  <1>5. ASSUME NEW u \in Name, sendPrivateMessage(s, u)
        PROVE  Goal
    BY <1>5, <1>a, <1>c, FramesType DEF sendPrivateMessage
  <1>6. ASSUME NEW u \in Name, sendPrivateAttachment(s, u)
        PROVE  Goal
    BY <1>6, FramesType, <1>d DEF sendPrivateAttachment
  <1>7. ASSUME NEW g \in Group, createGroup(s, g) \/ joinGroup(s, g)
        PROVE  Goal
    BY <1>7, <1>b, <1>c, FramesType DEF createGroup, joinGroup
  <1>8. ASSUME NEW g \in Group, sendGroupMessage(s, g)
        PROVE  Goal
    BY <1>8, <1>a, <1>c, FramesType DEF sendGroupMessage
  <1>9. ASSUME NEW g \in Group, sendGroupAttachment(s, g)
        PROVE  Goal
    BY <1>9, FramesType, <1>d, <1>e DEF sendGroupAttachment
  <1>10. ASSUME NEW g \in Group, NEW word \in {"typing", "stopped"},
                sendGroupTypingStatus(s, g, word)
         PROVE  Goal
    BY <1>10, <1>b, <1>c, FramesType DEF sendGroupTypingStatus
  <1> QED
    BY <1>2, <1>3, <1>4, <1>5, <1>6, <1>7, <1>8, <1>9, <1>10 DEF UserStep

LEMMA UserStepTransfer ==
    ASSUME TypeOK, NEW s \in Session, UserStep(s)
    PROVE  \E kind : \E frames \in Seq(UserFrame) :
             Operation(s, kind, frames) /\ OperationTransfer(frames)
  <1>1. ASSUME NEW frames, SendsFile(s, frames)
        PROVE  OperationTransfer(frames)
    BY <1>1, AttachmentTransfer DEF SendsFile, Mute, OperationTransfer
  <1> QED
    BY <1>1, UserStepSends

LEMMA OperateKeepsTransfers ==
    ASSUME TypeOK, Transfers, ChunkRoute, NEW s \in Session, Operate(s)
    PROVE  Transfers' /\ ChunkRoute'
  <1> USE DEF Transfers
  <1>0. /\ \A t \in Session : /\ toServer[t] \in Seq(ClientFrame)
                              /\ Len(toServer[t]) \in Nat
        /\ ops \in Nat
    BY LenProperties DEF TypeOK, ConnTypeOK, ControllerTypeOK
  <1>a. PICK kind : \E frames \in Seq(UserFrame) :
          Operation(s, kind, frames) /\ OperationTransfer(frames)
    BY UserStepTransfer DEF Operate
  <1>b. PICK frames \in Seq(UserFrame) :
          Operation(s, kind, frames) /\ OperationTransfer(frames)
    BY <1>a
  <1>c. ops' = ops + 1 /\ UNCHANGED <<linkUp, routes>>
    BY <1>b DEF Operate, Operation, serverVars, memoryVars
  <1>1. CASE toServer' = toServer
    <2>1. IdsUsed'
      <3>1. \A t \in Session : \A i \in 1 .. Len(toServer[t]) :
              toServer[t][i].id \in Nat
        BY <1>0, FrameIds, ElementOfSeq
      <3> QED
        BY <1>0, <1>1, <1>c, <3>1 DEF IdsUsed
    <2>2. OneSender' /\ EndLast'
      BY <1>1 DEF OneSender, EndLast
    <2>3. ChunkRoute'
      BY <1>1, <1>c DEF ChunkRoute, HasRoute
    <2> QED
      BY <2>1, <2>2, <2>3
  <1>2. CASE toServer' = [toServer EXCEPT ![s] = toServer[s] \o frames]
    <2> DEFINE len == Len(toServer[s])
               New(i) == i > len
    <2>1. /\ toServer'[s] = toServer[s] \o frames
          /\ \A t \in Session : t # s => toServer'[t] = toServer[t]
      BY <1>2 DEF TypeOK, ConnTypeOK
    <2>2. /\ Len(frames) \in Nat /\ len \in Nat
          /\ Len(toServer'[s]) = len + Len(frames)
          /\ \A i \in 1 .. len + Len(frames) :
               toServer'[s][i] = IF i <= len THEN toServer[s][i] ELSE frames[i - len]
      <3>1. frames \in Seq(ClientFrame)
        BY SeqMonotonic DEF UserFrame
      <3> QED
        BY <1>0, <2>1, <3>1, ConcatProperties, LenProperties
    \* A frame is an old one, or one of the operation's.
    <2>3. ASSUME NEW t \in Session, NEW i \in 1 .. Len(toServer'[t]),
                 ~(t = s /\ New(i))
          PROVE  i \in 1 .. Len(toServer[t]) /\ toServer'[t][i] = toServer[t][i]
      BY <2>1, <2>2, <2>3
    <2>4. ASSUME NEW i \in 1 .. Len(toServer'[s]), New(i)
          PROVE  i - len \in 1 .. Len(frames) /\ toServer'[s][i] = frames[i - len]
      BY <2>2, <2>4
    <2> HIDE DEF len
    <2>5. ASSUME NEW t \in Session, NEW i \in 1 .. Len(toServer'[t]),
                 toServer'[t][i].type \in TransferWord
          PROVE  IF t = s /\ New(i) THEN toServer'[t][i].id = ops + 1
                                    ELSE toServer'[t][i].id <= ops
      <3>1. CASE t = s /\ New(i)
        BY <1>b, <2>4, <2>5, <3>1 DEF OperationTransfer
      <3>2. CASE ~(t = s /\ New(i))
        BY <2>3, <2>5, <3>2 DEF IdsUsed
      <3> QED
        BY <3>1, <3>2
    <2>6. ASSUME NEW t \in Session, NEW i \in 1 .. Len(toServer'[t])
          PROVE  toServer'[t][i].id \in Nat
      <3>1. CASE t = s /\ New(i)
        BY <2>4, <2>6, <3>1, FrameIds, ElementOfSeq
      <3>2. CASE ~(t = s /\ New(i))
        BY <1>0, <2>3, <2>6, <3>2, FrameIds, ElementOfSeq
      <3> QED
        BY <3>1, <3>2
    <2>7. IdsUsed'
      BY <1>0, <1>c, <2>5, <2>6 DEF IdsUsed
    <2>8. OneSender'
      <3>1. ASSUME NEW a \in Session, NEW b \in Session,
                   NEW i \in 1 .. Len(toServer'[a]), NEW j \in 1 .. Len(toServer'[b]),
                   toServer'[a][i].type \in TransferWord,
                   toServer'[b][j].type \in TransferWord,
                   toServer'[a][i].id = toServer'[b][j].id
            PROVE  a = b
        <4>1. (a = s /\ New(i)) <=> (b = s /\ New(j))
          BY <1>0, <2>5, <3>1
        <4>2. CASE ~(a = s /\ New(i)) /\ ~(b = s /\ New(j))
          <5>1. /\ i \in 1 .. Len(toServer[a]) /\ toServer'[a][i] = toServer[a][i]
                /\ j \in 1 .. Len(toServer[b]) /\ toServer'[b][j] = toServer[b][j]
            BY <2>3, <4>2
          <5> QED
            BY <3>1, <5>1 DEF OneSender
        <4> QED
          BY <4>1, <4>2
      <3> QED
        BY <3>1 DEF OneSender
    <2>9. EndLast'
      <3>1. ASSUME NEW t \in Session,
                   NEW i \in 1 .. Len(toServer'[t]), NEW j \in 1 .. Len(toServer'[t]),
                   toServer'[t][i].type = "binary",
                   toServer'[t][j].type = "attachment_end",
                   toServer'[t][i].id = toServer'[t][j].id
            PROVE  i < j
        <4>1. (t = s /\ New(i)) <=> (t = s /\ New(j))
          BY <1>0, <2>5, <3>1 DEF TransferWord
        <4>2. CASE ~(t = s /\ New(i))
          <5>1. /\ i \in 1 .. Len(toServer[t]) /\ toServer'[t][i] = toServer[t][i]
                /\ j \in 1 .. Len(toServer[t]) /\ toServer'[t][j] = toServer[t][j]
            BY <2>3, <4>1, <4>2
          <5> QED
            BY <3>1, <5>1 DEF EndLast
        <4>3. CASE t = s /\ New(i)
          <5>1. /\ i - len \in 1 .. Len(frames)
                /\ frames[i - len].type = "binary"
                /\ j - len \in 1 .. Len(frames)
                /\ frames[j - len].type = "attachment_end"
            BY <2>4, <3>1, <4>1, <4>3
          <5>2. i - len < Len(frames) /\ j - len = Len(frames)
            BY <1>b, <5>1 DEF OperationTransfer, TransferWord
          <5> QED
            BY <2>2, <4>3, <5>2
        <4> QED
          BY <4>2, <4>3
      <3> QED
        BY <3>1 DEF EndLast
    <2>10. ChunkRoute'
      <3>1. ASSUME NEW t \in Session, NEW i \in 1 .. Len(toServer'[t]),
                   toServer'[t][i].type = "binary"
            PROVE  HasRoute(toServer'[t][i])
                   \/ StartAmong(toServer'[t], i - 1, toServer'[t][i])
        <4>1. CASE ~(t = s /\ New(i))
          <5>1. i \in 1 .. Len(toServer[t]) /\ toServer'[t][i] = toServer[t][i]
            BY <2>3, <4>1
          <5>2. CASE HasRoute(toServer[t][i])
            BY <5>1, <5>2
          <5>3. CASE StartAmong(toServer[t], i - 1, toServer[t][i])
            <6>1. PICK j \in 1 .. i - 1 :
                    /\ toServer[t][j].type = "attachment_start"
                    /\ fileId(toServer[t][j]) = fileId(toServer[t][i])
              BY <5>3 DEF StartAmong
            <6>2. toServer'[t][j] = toServer[t][j]
              <7>1. j \in 1 .. Len(toServer'[t]) /\ ~(t = s /\ New(j))
                BY <1>0, <2>1, <2>2, <4>1, <5>1
              <7> QED
                BY <2>3, <7>1
            <6> QED
              BY <5>1, <6>1, <6>2 DEF StartAmong
          <5> QED
            BY <3>1, <5>1, <5>2, <5>3 DEF ChunkRoute
        <4>2. CASE t = s /\ New(i)
          <5>1. i - len \in 1 .. Len(frames) /\ toServer'[s][i] = frames[i - len]
            BY <2>4, <4>2
          <5>2. StartAmong(frames, (i - len) - 1, frames[i - len])
            BY <1>b, <3>1, <4>2, <5>1 DEF OperationTransfer, TransferWord
          <5>3. PICK j \in 1 .. (i - len) - 1 :
                  /\ frames[j].type = "attachment_start"
                  /\ fileId(frames[j]) = fileId(frames[i - len])
            BY <5>2 DEF StartAmong
          <5>4. j + len \in 1 .. i - 1 /\ toServer'[s][j + len] = frames[j]
            <6>1. /\ j + len \in 1 .. Len(toServer'[s]) /\ New(j + len)
                  /\ j + len \in 1 .. i - 1 /\ (j + len) - len = j
              BY <2>2, <5>1
            <6> QED
              BY <2>4, <6>1
          <5> QED
            BY <4>2, <5>1, <5>3, <5>4 DEF StartAmong
        <4> QED
          BY <4>1, <4>2
      <3>2. \A chunk : HasRoute(chunk)' <=> HasRoute(chunk)
        BY <1>c DEF HasRoute
      <3> QED
        BY <3>1, <3>2 DEF ChunkRoute
    <2> QED
      BY <2>7, <2>8, <2>9, <2>10
  <1> QED
    BY <1>1, <1>2, <1>b DEF Operation, SendFrames

-----------------------------------------------------------------------------
(* The server's handlers.                                                  *)

LEMMA RoutesHandled ==
    ASSUME NEW s \in Session, HandleFrame(s)
    PROVE  LET raw == Head(toServer[s]) IN
           \/ raw.type = "attachment_start" /\ routes' = routesWithout(raw) \cup {raw}
           \/ raw.type = "attachment_end"   /\ routes' = routesWithout(raw)
           \/ raw.type # "attachment_start" /\ routes' = routes
  <1> DEFINE raw == Head(toServer[s])
  <1>1. CASE HandleAttachmentStart(s)
    <2>1. raw.type = "attachment_start"
      BY <1>1, ReceivedWord DEF HandleAttachmentStart, messageTypeToString
    <2> QED
      BY <1>1, <2>1 DEF HandleAttachmentStart
  <1>2. CASE HandleAttachmentEnd(s)
    <2>1. raw.type = "attachment_end"
      BY <1>2, ReceivedWord DEF HandleAttachmentEnd, messageTypeToString
    <2> QED
      BY <1>2, <2>1 DEF HandleAttachmentEnd
  <1>3. ASSUME ~HandleAttachmentStart(s), ~HandleAttachmentEnd(s)
        PROVE  raw.type # "attachment_start" /\ routes' = routes
    <2>1. routes' = routes
      BY <1>3 DEF HandleFrame, HandleConnect, HandlePublicMessage,
           HandlePrivateMessage, HandleTyping, HandleJoinGroup,
           HandleGroupMessage, HandleBinary, HandleUnknown, serverVars,
           memoryVars
    <2>2. HandleConnect(s) => raw.type = "connect"
      BY ReceivedWord DEF HandleConnect, messageTypeToString
    <2>3. HandlePublicMessage(s) => raw.type = "public_message"
      BY ReceivedWord DEF HandlePublicMessage, messageTypeToString
    <2>4. HandlePrivateMessage(s) => raw.type = "private_message"
      BY ReceivedWord DEF HandlePrivateMessage, messageTypeToString
    <2>5. HandleTyping(s) => raw.type = "typing"
      BY ReceivedWord DEF HandleTyping, messageTypeToString
    <2>6. HandleJoinGroup(s) => raw.type \in JoinWord
      BY HandlerWords
    <2>7. HandleGroupMessage(s) => raw.type = "group_message"
      BY HandlerWords
    <2>8. HandleBinary(s) => raw.type = "binary"
      BY DEF HandleBinary
    <2>9. HandleUnknown(s) => raw.type # "attachment_start"
      <3>1. ASSUME HandleUnknown(s), raw.type = "attachment_start"
            PROVE  FALSE
        <4>1. raw # Garbled
          BY <3>1 DEF Garbled, NoMessage, NewMessage
        <4>2. fromJson(raw).type = stringToMessageType(raw.type)
          BY <4>1 DEF fromJson
        <4>3. stringToMessageType(raw.type) = "AttachmentStart"
          BY <3>1 DEF stringToMessageType
        <4> QED
          BY <3>1, <4>2, <4>3 DEF HandleUnknown, Received
      <3> QED
        BY <3>1
    <2> HIDE DEF raw
    <2> QED
      BY <1>3, <2>1, <2>2, <2>3, <2>4, <2>5, <2>6, <2>7, <2>8, <2>9, SMTT(40)
         DEF HandleFrame, JoinWord
  <1> QED
    BY <1>1, <1>2, <1>3

LEMMA HandleKeepsTransfers ==
    ASSUME TypeOK, TypeOK', Transfers, ChunkRoute, NEW s \in Session,
           HandleFrame(s), UNCHANGED controllerVars
    PROVE  Transfers' /\ ChunkRoute'
  <1> DEFINE raw == Head(toServer[s])
             q   == toServer[s]
  <1>a. /\ q \in Seq(ClientFrame) /\ toServer'[s] \in Seq(ClientFrame)
        /\ 1 \in 1 .. Len(q) /\ raw = q[1]
        /\ Len(toServer'[s]) = Len(q) - 1
        /\ \A i \in 1 .. Len(toServer'[s]) : toServer'[s][i] = q[i + 1]
        /\ \A t \in Session \ {s} : toServer'[t] = toServer[t]
    BY ReadShifts, HandleReads, SMTT(40)
  <1>b. \A t \in Session : Len(toServer[t]) \in Nat
    BY LenProperties, SMTT(40) DEF TypeOK, ConnTypeOK
  <1>c. linkUp' = linkUp
    BY DEF HandleFrame, HandleConnect, HandlePublicMessage,
           HandlePrivateMessage, HandleTyping, HandleJoinGroup,
           HandleGroupMessage, HandleAttachmentStart, HandleAttachmentEnd,
           HandleBinary, HandleUnknown
  <1>1. Transfers'
    <2>1. ASSUME NEW t \in Session
          PROVE  \E k \in Nat : Window(toServer[t], k, toServer'[t])
      <3>1. CASE t = s
        <4>1. Window(toServer[t], 1, toServer'[t])
          BY <1>a, <1>b, <3>1 DEF Window
        <4> QED
          BY <4>1
      <3>2. CASE t # s
        <4>1. Window(toServer[t], 0, toServer'[t])
          BY <1>a, <1>b, <3>2 DEF Window
        <4> QED
          BY <4>1
      <3> QED
        BY <3>1, <3>2
    <2> QED
      BY <2>1, WindowsKeep DEF controllerVars
  \* Where each frame that is left has been.
  <1> DEFINE Old(t, i) == IF t = s THEN i + 1 ELSE i
  <1>2. ASSUME NEW t \in Session, NEW i \in 1 .. Len(toServer'[t])
        PROVE  /\ Old(t, i) \in 1 .. Len(toServer[t])
               /\ toServer'[t][i] = toServer[t][Old(t, i)]
    BY <1>a, <1>b, <1>2
  \* The end of a transfer erases no route that a chunk still needs.
  <1>3. ASSUME NEW t \in Session, NEW i \in 1 .. Len(toServer[t]),
               toServer[t][i].type = "binary",
               raw.type = "attachment_end"
        PROVE  fileId(raw) # fileId(toServer[t][i])
    <2>1. SUFFICES ASSUME raw.id = toServer[t][i].id PROVE FALSE
      BY DEF fileId
    <2>2. t = s
      BY <1>3, <1>a, <2>1 DEF Transfers, OneSender, TransferWord
    <2>3. i < 1
      BY <1>3, <1>a, <2>1, <2>2 DEF Transfers, EndLast
    <2> QED
      BY <1>b, <2>3
  <1>4. ASSUME NEW t \in Session, NEW i \in 1 .. Len(toServer[t]),
               toServer[t][i].type = "binary", HasRoute(toServer[t][i])
        PROVE  \E r \in routes' : fileId(r) = fileId(toServer[t][i])
    <2>1. PICK r \in routes : fileId(r) = fileId(toServer[t][i])
      BY <1>4 DEF HasRoute
    <2> HIDE DEF raw
    <2>2. CASE routes' = routes
      BY <2>1, <2>2
    <2>3. CASE routes' = routesWithout(raw) \cup {raw}
      BY <2>1, <2>3 DEF routesWithout
    <2>4. CASE raw.type = "attachment_end" /\ routes' = routesWithout(raw)
      BY <1>3, <1>4, <2>1, <2>4 DEF routesWithout
    <2> QED
      BY <2>2, <2>3, <2>4, RoutesHandled DEF raw
  <1>5. ASSUME NEW t \in Session, NEW i \in 1 .. Len(toServer'[t]),
               toServer'[t][i].type = "binary"
        PROVE  \/ \E r \in routes' : fileId(r) = fileId(toServer'[t][i])
               \/ StartAmong(toServer'[t], i - 1, toServer'[t][i])
    <2> DEFINE chunk == toServer'[t][i]
               old   == Old(t, i)
    <2>1. old \in 1 .. Len(toServer[t]) /\ chunk = toServer[t][old]
      BY <1>2
    <2>2. CASE \E r \in routes : fileId(r) = fileId(chunk)
      BY <1>4, <1>5, <2>1, <2>2 DEF HasRoute
    <2>3. CASE StartAmong(toServer[t], old - 1, chunk)
      <3>1. PICK j \in 1 .. old - 1 :
              /\ toServer[t][j].type = "attachment_start"
              /\ fileId(toServer[t][j]) = fileId(chunk)
        BY <2>3 DEF StartAmong
      <3>2. CASE t = s /\ j = 1
        BY <1>a, <3>1, <3>2, RoutesHandled
      <3>3. CASE t = s /\ j # 1
        <4>1. j - 1 \in 1 .. i - 1 /\ j - 1 \in 1 .. Len(toServer'[s])
          BY <1>a, <1>b, <3>1, <3>3
        <4>2. toServer'[t][j - 1] = toServer[t][j]
          BY <1>2, <3>3, <4>1
        <4> QED
          BY <3>1, <4>1, <4>2 DEF StartAmong
      <3>4. CASE t # s
        BY <1>a, <3>1, <3>4 DEF StartAmong
      <3> QED
        BY <3>2, <3>3, <3>4
    <2> QED
      BY <1>5, <2>1, <2>2, <2>3 DEF ChunkRoute, HasRoute
  <1>6. ChunkRoute'
    BY <1>c, <1>5 DEF ChunkRoute, HasRoute
  <1> QED
    BY <1>1, <1>6

(* Which frames of a transfer are where, and with which routes.            *)
THEOREM TransfersHold == Spec => [](Transfers /\ ChunkRoute)
  <1>1. Init => Transfers /\ ChunkRoute
    BY DEF Init, ConnInit, Transfers, IdsUsed, OneSender, EndLast, ChunkRoute
  <1>2. ASSUME TypeOK, TypeOK', Membership, Transfers, ChunkRoute, [Next]_vars
        PROVE  Transfers' /\ ChunkRoute'
    <2> USE <1>2
    <2>0. ConnTypeOK /\ ControllerTypeOK
      BY DEF TypeOK
    <2>a. \A t \in Session : Len(toServer[t]) \in Nat /\ Len(toServer'[t]) \in Nat
      BY LenProperties DEF TypeOK, ConnTypeOK
    <2>b. \A t \in Session : /\ Window(toServer[t], 0, toServer[t])
                              /\ Window(toServer[t], 0, <<>>)
      BY <2>a DEF Window
    <2>1. ASSUME NEW s \in Session, NEW u \in Name, Connect(s, u)
          PROVE  Transfers' /\ ChunkRoute'
      <3>1. PICK raw \in connectMessage(u) :
              /\ toServer'[s] = <<raw>>
              /\ \A t \in Session \ {s} : /\ toServer'[t] = toServer[t]
                                          /\ linkUp'[t] = linkUp[t]
              /\ UNCHANGED <<routes, ops>>
        BY <2>0, <2>1 DEF Connect, ConnectUser, serverVars, memoryVars, ConnTypeOK
      <3>2. raw.type \notin TransferWord
        BY <3>1, ConnectIsClientFrame DEF TransferWord
      <3>3. \A i \in 1 .. Len(toServer'[s]) :
              toServer'[s][i].type \notin TransferWord
        BY <3>1, <3>2
      <3>4. IdsUsed' /\ OneSender' /\ EndLast'
        BY <3>1, <3>3, SMTT(40) DEF Transfers, IdsUsed, OneSender, EndLast, TransferWord
      <3>5. ChunkRoute'
        BY <3>1, <3>3 DEF ChunkRoute, HasRoute, TransferWord
      <3> QED
        BY <3>4, <3>5 DEF Transfers
    <2>2. ASSUME NEW s \in Session, Operate(s)
          PROVE  Transfers' /\ ChunkRoute'
      BY <2>2, OperateKeepsTransfers
    <2>3. ASSUME NEW s \in Session, Receive(s) \/ Break(s) \/ LoseWrite(s)
          PROVE  Transfers' /\ ChunkRoute'
      <3>1. /\ UNCHANGED <<toServer, routes, ops>>
            /\ \A t \in Session : linkUp'[t] => linkUp[t]
        BY <2>0, <2>3 DEF Receive, ReceiveFrame, Break, Disconnect, LoseWrite,
           WriteLost, serverVars, memoryVars, controllerVars, ConnTypeOK
      <3> QED
        BY <3>1 DEF Transfers, IdsUsed, OneSender, EndLast, ChunkRoute, HasRoute
    <2>4. ASSUME NEW s \in Session, ServerStep(s)
          PROVE  Transfers' /\ ChunkRoute'
      <3>0. UNCHANGED controllerVars
        BY <2>4 DEF ServerStep
      <3>1. CASE Accept(s)
        <4>1. UNCHANGED <<linkUp, toServer, routes, ops>>
          BY <3>0, <3>1 DEF Accept, controllerVars
        <4> QED
          BY <4>1 DEF Transfers, IdsUsed, OneSender, EndLast, ChunkRoute, HasRoute
      <3>2. CASE HandleFrame(s)
        BY <3>0, <3>2, HandleKeepsTransfers
      <3>3. CASE ReadError(s) \/ WriteError(s)
        <4>1. /\ ~linkUp[s] /\ UNCHANGED <<linkUp, routes, ops>>
              /\ \A t \in Session \ {s} : toServer'[t] = toServer[t]
          BY <2>0, <3>0, <3>3 DEF ReadError, WriteError, ConnTypeOK, Membership,
             LinkStages, controllerVars
        <4>2. \/ toServer'[s] = <<>>
              \/ toServer'[s] = toServer[s]
              \/ toServer[s] # <<>> /\ toServer'[s] = <<Head(toServer[s])>>
          BY <2>0, <3>3 DEF ReadError, WriteError, ConnTypeOK
        <4>3. Window(toServer[s], 0, toServer'[s])
          <5>1. CASE toServer[s] # <<>> /\ toServer'[s] = <<Head(toServer[s])>>
            <6>1. toServer[s] \in Seq(ClientFrame)
              BY <2>0 DEF ConnTypeOK
            <6>2. /\ Len(toServer'[s]) = 1 /\ Len(toServer[s]) >= 1
                  /\ toServer'[s][1] = toServer[s][1]
              BY <5>1, <6>1
            <6> QED
              BY <2>a, <6>2 DEF Window
          <5> QED
            BY <2>b, <4>2, <5>1
        <4>4. Transfers'
          BY <2>b, <4>1, <4>3, WindowsKeep
        \* What is left of the queue is in front of it.
        <4>5. \A i \in 1 .. Len(toServer'[s]) :
                /\ i \in 1 .. Len(toServer[s])
                /\ \A j \in 1 .. i : toServer'[s][j] = toServer[s][j]
          BY <2>a, <4>3, SMTT(40) DEF Window
        <4>6. ChunkRoute'
          <5>1. ASSUME NEW t \in Session, NEW i \in 1 .. Len(toServer'[t]),
                       toServer'[t][i].type = "binary"
                PROVE  HasRoute(toServer'[t][i])
                       \/ StartAmong(toServer'[t], i - 1, toServer'[t][i])
            <6>1. CASE t = s
              <7>1. /\ i \in 1 .. Len(toServer[s])
                    /\ \A j \in 1 .. i : toServer'[s][j] = toServer[s][j]
                BY <4>5, <6>1
              <7>2. HasRoute(toServer[s][i]) \/ StartAmong(toServer[s], i - 1, toServer[s][i])
                BY <5>1, <6>1, <7>1 DEF ChunkRoute
              <7> QED
                BY <6>1, <7>1, <7>2 DEF StartAmong
            <6>2. CASE t # s
              BY <4>1, <5>1, <6>2 DEF ChunkRoute
            <6> QED
              BY <6>1, <6>2
          <5>2. \A chunk : HasRoute(chunk)' <=> HasRoute(chunk)
            BY <4>1 DEF HasRoute
          <5> QED
            BY <5>1, <5>2 DEF ChunkRoute
        <4> QED
          BY <4>4, <4>6
      <3> QED
        BY <2>4, <3>1, <3>2, <3>3 DEF ServerStep
    <2>5. ASSUME Crash
          PROVE  Transfers' /\ ChunkRoute'
      <3>1. \A t \in Session : toServer'[t] = <<>>
        BY <2>5 DEF Crash, Restart
      <3> QED
        BY <3>1 DEF Transfers, IdsUsed, OneSender, EndLast, ChunkRoute
    <2>6. CASE UNCHANGED vars
      <3>1. UNCHANGED <<linkUp, toServer, routes, ops>>
        BY <2>6 DEF vars, connVars, serverVars, memoryVars, controllerVars
      <3> QED
        BY <3>1 DEF Transfers, IdsUsed, OneSender, EndLast, ChunkRoute, HasRoute
    <2> QED
      BY <2>1, <2>2, <2>3, <2>4, <2>5, <2>6 DEF Next
  <1> QED
    BY <1>1, <1>2, TypeCorrect, MembershipHolds, PTL DEF Spec

(* A chunk on its way to the server always finds its route, or is behind   *)
(* the start message that makes it, however other transfers and other      *)
(* sessions end meanwhile.                                                 *)
THEOREM ChunksRouted == Spec => []ChunksHaveRoute
  <1>1. ChunkRoute => ChunksHaveRoute
    BY DEF ChunkRoute, HasRoute, StartAmong, ChunksHaveRoute, Served
  <1> QED
    BY <1>1, TransfersHold, PTL
=============================================================================
