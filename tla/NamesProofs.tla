------------------------------ MODULE NamesProofs ------------------------------
(***************************************************************************)
(* Who the server knows, and under which name: theorems of ChatSystem, for *)
(* every set of sessions, names and groups.                                *)
(*                                                                         *)
(* A client is known by its name if its first frame can be read, which it  *)
(* can unless its name holds a quote, and reads as that name, which it     *)
(* does unless it holds an escape; and it stays registered under it if     *)
(* nobody takes the name before its session is gone.  These are the        *)
(* assumptions QuotedNames = {}, EscapedNames = {} and ExclusiveNames, and *)
(* the theorems fail without (runs system_quoted and system_reconnect).    *)
(***************************************************************************)
EXTENDS MembershipProofs

\* A session is nameless or has the name its client logged in with.
NamedAs == \A s \in Session : username[s] \in {Empty, currentUser[s]}

\* What a connect frame on its way says.
ConnectNames == \A s \in Session : \A i \in 1 .. Len(toServer[s]) :
                  toServer[s][i].type = "connect" =>
                    toServer[s][i].sender = currentUser[s]

\* Who has no name yet is about to be asked for it.
Introduced == \A s \in Session : linkUp[s] =>
                \/ username[s] = currentUser[s]
                \/ Len(toServer[s]) > 0 /\ toServer[s][1].type = "connect"

\* Of two sessions of one user, one is past every step.
OneUser == \A s, t \in Session :
             s # t /\ currentUser[s] = currentUser[t] /\ currentUser[s] # Empty =>
               Gone(s) \/ Gone(t)

\* A connected session holds the entry of its name.
Listed == \A s \in Session :
            linkUp[s] /\ username[s] # Empty => users[username[s]] = s

Names == /\ NamedAs
         /\ ConnectNames
         /\ QuotedNames = {} => Introduced
         /\ ExclusiveNames => OneUser /\ Listed

-----------------------------------------------------------------------------
\* A session that is gone stays gone: nothing is written to it any more.
LEMMA GoneStays ==
    ASSUME TypeOK, References, Membership, [Next]_vars,
           NEW t \in Session, Gone(t)
    PROVE  Gone(t)'
  <1> USE DEF Gone
  <1>0. /\ ConnTypeOK /\ session[t] = "retired" /\ failing[t] = 0
        /\ ~linkUp[t] /\ session[t] \notin Reading
    BY DEF TypeOK, Membership, LinkStages, Reading
  <1>1. ASSUME NEW s \in Session, NEW u \in Name, Connect(s, u)
        PROVE  Gone(t)'
    BY <1>0, <1>1 DEF Connect, ConnectUser, ConnTypeOK
  <1>2. ASSUME NEW s \in Session, Operate(s)
        PROVE  Gone(t)'
    BY <1>0, <1>2, UserStepFrames DEF Operate, Operation
  <1>3. ASSUME NEW s \in Session, Receive(s)
        PROVE  Gone(t)'
    BY <1>0, <1>3 DEF Receive, ReceiveFrame
  <1>4. ASSUME NEW out, NEW members, NEW pending \in [Session -> Nat],
               Heard(out, members), WriteFrom(pending, out),
               pending[t] = failing[t]
        PROVE  failing'[t] = 0
    <2>1. out[t] = <<>>
      BY <1>0, <1>4 DEF Heard
    <2> QED
      BY <1>0, <1>4, <2>1 DEF WriteFrom
  <1>5. ASSUME NEW s \in Session, ServerStep(s)
        PROVE  Gone(t)'
    <2>1. CASE Accept(s)
      BY <1>0, <2>1 DEF Accept, ConnTypeOK
    <2>2. CASE HandleFrame(s)
      <3>1. session' = session
        BY <2>2 DEF HandleFrame, HandleConnect, HandlePublicMessage,
           HandlePrivateMessage, HandleTyping, HandleJoinGroup,
           HandleGroupMessage, HandleAttachmentStart, HandleAttachmentEnd,
           HandleBinary, HandleUnknown
      <3>2. CASE UNCHANGED <<toClient, failing>>
        BY <1>0, <3>1, <3>2
      <3>3. ASSUME NEW out, Heard(out, groups'), Write(out)
            PROVE  failing'[t] = 0
        BY <1>0, <1>4, <3>3 DEF Write, ConnTypeOK
      <3> QED
        BY <1>0, <2>2, <3>1, <3>2, <3>3, HandlerHeard, SMTT(40)
    <2>3. CASE ReadError(s) \/ WriteError(s)
      <3>1. /\ t # s /\ session'[t] = session[t]
        BY <1>0, <2>3 DEF ReadError, WriteError, ConnTypeOK
      <3>2. PICK pending \in [Session -> Nat] :
              removeClient(s, pending) /\ pending[t] = failing[t]
        <4> DEFINE less == [failing EXCEPT ![s] = @ - 1]
        <4>1. CASE ReadError(s)
          BY <1>0, <4>1 DEF ReadError, ConnTypeOK
        <4>2. CASE WriteError(s)
          <5>1. /\ removeClient(s, less)
                /\ less \in [Session -> Nat] /\ less[t] = failing[t]
            BY <1>0, <3>1, <4>2 DEF WriteError, ConnTypeOK
          <5> HIDE DEF less
          <5> QED
            BY <5>1
        <4> QED
          BY <2>3, <4>1, <4>2
      <3>3. PICK out : WriteFrom(pending, out) /\ Heard(out, groups')
        <4>1. Heard(broadcastUserList(clients', users'), groups')
          BY <3>2, ContainersRead, UserListHeard DEF removeClient
        <4>2. Heard(Silence, groups')
          BY OutputTypes DEF Heard, Silence
        <4> QED
          BY <3>2, <4>1, <4>2 DEF removeClient
      <3> QED
        BY <1>0, <1>4, <3>1, <3>2, <3>3
    <2> QED
      BY <1>5, <2>1, <2>2, <2>3 DEF ServerStep
  <1>6. ASSUME NEW s \in Session, Break(s) \/ LoseWrite(s)
        PROVE  Gone(t)'
    BY <1>0, <1>6 DEF Break, Disconnect, LoseWrite, WriteLost, ConnTypeOK
  <1>7. CASE Crash
    BY <1>0, <1>7 DEF Crash, Restart
  <1>8. CASE UNCHANGED vars
    BY <1>0, <1>8 DEF vars, connVars
  <1> QED
    BY <1>1, <1>2, <1>3, <1>5, <1>6, <1>7, <1>8 DEF Next

LEMMA NotGone ==
    ASSUME TypeOK, Membership, NEW s \in Session,
           linkUp[s] \/ session[s] \in Reading \/ failing[s] > 0
    PROVE  ~Gone(s)
  <1>1. CASE linkUp[s]
    BY <1>1 DEF Gone, Membership, LinkStages
  <1>2. CASE session[s] \in Reading
    BY <1>2 DEF Gone, Reading
  <1>3. CASE failing[s] > 0
    BY <1>3 DEF Gone
  <1> QED
    BY <1>1, <1>2, <1>3

\* What a user's operation does to the queues.
LEMMA OperateQueue ==
    ASSUME TypeOK, NEW s \in Session, Operate(s)
    PROVE  \A t \in Session :
             /\ Len(toServer'[t]) >= Len(toServer[t])
             /\ \A i \in 1 .. Len(toServer[t]) : toServer'[t][i] = toServer[t][i]
             /\ \A i \in 1 .. Len(toServer'[t]) :
                  i > Len(toServer[t]) => t = s /\ toServer'[t][i] \in UserFrame
  <1>0. \A t \in Session : /\ toServer[t] \in Seq(ClientFrame)
                            /\ Len(toServer[t]) \in Nat
    BY LenProperties DEF TypeOK, ConnTypeOK
  <1>1. PICK frames \in Seq(UserFrame) :
          toServer' = toServer
          \/ toServer' = [toServer EXCEPT ![s] = toServer[s] \o frames]
    BY UserStepFrames DEF Operate, Operation, SendFrames
  <1>2. CASE toServer' = toServer
    BY <1>0, <1>2
  <1>3. CASE toServer' = [toServer EXCEPT ![s] = toServer[s] \o frames]
    <2>1. /\ toServer'[s] = toServer[s] \o frames
          /\ \A t \in Session \ {s} : toServer'[t] = toServer[t]
      BY <1>3 DEF TypeOK, ConnTypeOK
    <2>2. /\ Len(toServer[s]) \in Nat /\ Len(frames) \in Nat
          /\ Len(toServer'[s]) = Len(toServer[s]) + Len(frames)
          /\ \A i \in 1 .. Len(toServer[s]) + Len(frames) :
               toServer'[s][i] = IF i <= Len(toServer[s]) THEN toServer[s][i]
                                   ELSE frames[i - Len(toServer[s])]
      BY <1>0, <2>1, ConcatProperties, LenProperties
    <2>3. ASSUME NEW i \in 1 .. Len(toServer'[s]), i > Len(toServer[s])
          PROVE  toServer'[s][i] \in UserFrame
      <3>1. /\ i - Len(toServer[s]) \in 1 .. Len(frames)
            /\ toServer'[s][i] = frames[i - Len(toServer[s])]
        BY <2>2, <2>3
      <3> QED
        BY <3>1, ElementOfSeq
    <2>4. ASSUME NEW i \in 1 .. Len(toServer[s])
          PROVE  toServer'[s][i] = toServer[s][i]
      <3>1. i \in 1 .. Len(toServer[s]) + Len(frames) /\ i <= Len(toServer[s])
        BY <2>2
      <3> QED
        BY <2>2, <3>1
    <2>5. Len(toServer'[s]) >= Len(toServer[s])
      BY <2>2
    <2>6. ASSUME NEW t \in Session \ {s}
          PROVE  /\ Len(toServer'[t]) >= Len(toServer[t])
                 /\ \A i \in 1 .. Len(toServer[t]) :
                      toServer'[t][i] = toServer[t][i]
                 /\ \A i \in 1 .. Len(toServer'[t]) : ~(i > Len(toServer[t]))
      BY <1>0, <2>1
    <2> QED
      BY <2>3, <2>4, <2>5, <2>6
  <1> QED
    BY <1>1, <1>2, <1>3

LEMMA OperateLengths ==
    ASSUME TypeOK, NEW s \in Session, Operate(s), NEW t \in Session
    PROVE  Len(toServer'[t]) \in Nat
  BY UserStepType, LenProperties DEF Operate, ConnTypeOK

-----------------------------------------------------------------------------
LEMMA ConnectHandled ==
    ASSUME NEW s \in Session, HandleFrame(s)
    PROVE  Head(toServer[s]).type = "connect" <=> HandleConnect(s)
  <1> DEFINE raw == Head(toServer[s])
  <1>1. HandleConnect(s) => raw.type = "connect"
    BY ReceivedWord, SMTT(40) DEF HandleConnect, messageTypeToString
  <1>2. ASSUME raw.type = "connect", ~HandleConnect(s)
        PROVE  FALSE
    <2>1. raw # Garbled
      BY <1>2 DEF Garbled, NoMessage, NewMessage
    <2>2. fromJson(raw).type = "Connect"
      <3>1. stringToMessageType("connect") = "Connect"
        BY DEF stringToMessageType
      <3> QED
        BY <1>2, <2>1, <3>1 DEF fromJson
    <2>3. \A t : Received(s, t) => t = "Connect"
      BY <2>2 DEF Received
    <2> HIDE DEF raw
    <2> QED
      BY <1>2, <2>3 DEF HandleFrame, HandlePublicMessage, HandlePrivateMessage,
         HandleTyping, HandleJoinGroup, HandleGroupMessage,
         HandleAttachmentStart, HandleAttachmentEnd, HandleBinary,
         HandleUnknown, raw
  <1> QED
    BY <1>1, <1>2

LEMMA HandleKeepsNames ==
    ASSUME TypeOK, References, Membership, Names, NEW s \in Session,
           HandleFrame(s), UNCHANGED controllerVars,
           \A t \in Session : Gone(t) => Gone(t)'
    PROVE  Names'
  <1> DEFINE raw == Head(toServer[s])
  <1> USE DEF Names
  <1>a. ReadFrame(s) /\ ServerTypeOK /\ session[s] \in Reading
    BY HandleReads DEF TypeOK, ReadFrame, Reading
  <1>b. /\ UNCHANGED <<session, linkUp, currentUser>>
        /\ ExclusiveNames => OneUser'
    <2>1. UNCHANGED <<session, linkUp, currentUser>>
      BY DEF HandleFrame, HandleConnect, HandlePublicMessage,
           HandlePrivateMessage, HandleTyping, HandleJoinGroup,
           HandleGroupMessage, HandleAttachmentStart, HandleAttachmentEnd,
           HandleBinary, HandleUnknown, controllerVars
    <2> QED
      BY <2>1, SMTT(40) DEF OneUser
  <1>c. /\ toServer[s] \in Seq(ClientFrame) /\ toServer'[s] \in Seq(ClientFrame)
        /\ 1 \in 1 .. Len(toServer[s]) /\ raw = toServer[s][1]
        /\ Len(toServer'[s]) = Len(toServer[s]) - 1
        /\ \A i \in 1 .. Len(toServer'[s]) : toServer'[s][i] = toServer[s][i + 1]
        /\ \A t \in Session \ {s} : toServer'[t] = toServer[t]
    BY <1>a, ReadShifts
  <1>1. ConnectNames'
    <2>1. \A i \in 1 .. Len(toServer'[s]) : toServer'[s][i].type # "connect"
      BY <1>a, ReadKeeps DEF References
    <2> QED
      BY <1>b, <1>c, <2>1 DEF ConnectNames
  <1> HIDE DEF raw
  <1>2. CASE HandleConnect(s)
    <2>1. raw.type = "connect" /\ raw.sender = currentUser[s]
      BY <1>2, <1>c, ConnectHandled DEF ConnectNames, raw
    <2>2. raw.sender \in Name
      BY <1>a, <2>1, HeadType DEF ClientFrame, raw
    <2>3. /\ username' = [username EXCEPT ![s] = raw.sender]
          /\ users' = [users EXCEPT ![raw.sender] = s]
      BY <1>2 DEF HandleConnect, register, raw
    <2>4. NamedAs'
      BY <1>a, <1>b, <2>1, <2>3 DEF NamedAs, ServerTypeOK
    <2>5. QuotedNames = {} => Introduced'
      BY <1>a, <1>b, <1>c, <2>1, <2>3 DEF Introduced, ServerTypeOK
    <2>6. ASSUME ExclusiveNames, NEW t \in Session, linkUp[t],
                 username'[t] # Empty
          PROVE  users'[username'[t]] = t
      <3>1. CASE t = s
        BY <1>a, <2>2, <2>3, <3>1 DEF ServerTypeOK
      <3>2. CASE t # s
        <4>1. username'[t] = username[t] /\ username[t] = currentUser[t]
          BY <1>a, <2>3, <2>6, <3>2 DEF NamedAs, ServerTypeOK
        <4>2. ~Gone(t) /\ ~Gone(s)
          BY <1>a, <2>6, NotGone
        <4>3. username[t] # raw.sender
          BY <2>1, <2>6, <3>2, <4>1, <4>2 DEF OneUser
        <4>4. users[username[t]] = t
          BY <2>6, <4>1 DEF Listed
        <4> QED
          BY <1>a, <2>3, <4>1, <4>3, <4>4 DEF ServerTypeOK
      <3> QED
        BY <3>1, <3>2
    <2>7. ExclusiveNames => Listed'
      BY <1>b, <2>6 DEF Listed
    <2> QED
      BY <1>1, <1>b, <2>4, <2>5, <2>7
  <1>3. CASE ~HandleConnect(s)
    <2>1. UNCHANGED <<username, users>>
      BY <1>3 DEF HandleFrame, HandlePublicMessage,
           HandlePrivateMessage, HandleTyping, HandleJoinGroup,
           HandleGroupMessage, HandleAttachmentStart, HandleAttachmentEnd,
           HandleBinary, HandleUnknown, serverVars, memoryVars
    <2>2. raw.type # "connect"
      BY <1>3, ConnectHandled DEF raw
    <2>3. QuotedNames = {} => Introduced'
      BY <1>b, <1>c, <2>1, <2>2 DEF Introduced
    <2>4. NamedAs' /\ (ExclusiveNames => Listed')
      BY <1>b, <2>1 DEF NamedAs, Listed
    <2> QED
      BY <1>1, <1>b, <2>3, <2>4, SMTT(40)
  <1> QED
    BY <1>2, <1>3

LEMMA ErrorKeepsNames ==
    ASSUME TypeOK, References, Membership, Names, NEW s \in Session,
           ReadError(s) \/ WriteError(s), UNCHANGED controllerVars,
           \A t \in Session : Gone(t) => Gone(t)'
    PROVE  Names'
  <1> USE DEF Names
  <1>a. ConnTypeOK /\ ServerTypeOK
    BY DEF TypeOK
  <1>b. UNCHANGED <<linkUp, username, currentUser>>
    BY DEF ReadError, WriteError, controllerVars
  <1>c. ~linkUp[s] /\ ~Gone(s)
    <2>1. CASE ReadError(s)
      BY <2>1, NotGone DEF ReadError, Reading
    <2>2. CASE WriteError(s)
      BY <1>a, <2>2, NotGone DEF WriteError, Membership, LinkStages
    <2> QED
      BY <2>1, <2>2
  <1>1. NamedAs' /\ (ExclusiveNames => OneUser')
    BY <1>b DEF NamedAs, OneUser
  <1>2. \A t \in Session \ {s} : toServer'[t] = toServer[t]
    BY <1>a DEF ReadError, WriteError, ConnTypeOK
  <1>3. QuotedNames = {} => Introduced'
    BY <1>b, <1>c, <1>2 DEF Introduced
  <1>4. ConnectNames'
    <2>1. \/ toServer'[s] = <<>>
          \/ toServer'[s] = toServer[s]
          \/ toServer'[s] = <<Head(toServer[s])>> /\ toServer[s] # <<>>
      BY <1>a DEF ReadError, WriteError, ConnTypeOK
    <2>2. ASSUME NEW i \in 1 .. Len(toServer'[s])
          PROVE  \E j \in 1 .. Len(toServer[s]) : toServer'[s][i] = toServer[s][j]
      <3>1. CASE toServer'[s] = <<>>
        BY <2>2, <3>1
      <3>2. CASE toServer'[s] = toServer[s]
        BY <2>2, <3>2
      <3>3. CASE toServer'[s] = <<Head(toServer[s])>> /\ toServer[s] # <<>>
        <4>1. /\ toServer'[s][i] = toServer[s][1]
              /\ 1 \in 1 .. Len(toServer[s])
          BY <1>a, <2>2, <3>3 DEF ConnTypeOK
        <4> QED
          BY <4>1
      <3> QED
        BY <2>1, <3>1, <3>2, <3>3
    <2> QED
      BY <1>b, <1>2, <2>2 DEF ConnectNames
  <1>5. ASSUME ExclusiveNames, NEW t \in Session, linkUp[t], username[t] # Empty
        PROVE  users'[username[t]] = t
    <2>1. t # s /\ users[username[t]] = t /\ ~Gone(t) /\ username[t] = currentUser[t]
      BY <1>5, <1>c, NotGone DEF Listed, NamedAs
    <2>2. username[t] # username[s]
      <3>1. CASE username[s] = Empty
        BY <1>5, <3>1
      <3>2. CASE username[s] # Empty
        BY <1>5, <1>c, <2>1, <3>2 DEF NamedAs, OneUser
      <3> QED
        BY <3>1, <3>2
    <2>3. users' = users \/ users' = [users EXCEPT ![username[s]] = NoSession]
      BY DEF ReadError, WriteError, removeClient
    <2>4. username[t] \in DOMAIN users
      BY <1>5, <1>a DEF ServerTypeOK
    <2> QED
      BY <2>1, <2>2, <2>3, <2>4
  <1>6. ExclusiveNames => Listed'
    BY <1>b, <1>5 DEF Listed
  <1> QED
    BY <1>1, <1>3, <1>4, <1>6

-----------------------------------------------------------------------------
(* The invariant about names, with the parts that need an assumption under *)
(* it.                                                                     *)
THEOREM NamesHold == EscapedNames = {} => (Spec => []Names)
  <1> SUFFICES ASSUME EscapedNames = {} PROVE Spec => []Names
    OBVIOUS
  <1>1. Init => Names
    BY DEF Init, ConnInit, ServerInit, ControllerInit, Names, NamedAs,
         ConnectNames, Introduced, OneUser, Listed
  <1>2. ASSUME TypeOK, References, Membership, Names, [Next]_vars
        PROVE  Names'
    <2> USE <1>2 DEF Names
    <2>0. ConnTypeOK /\ ServerTypeOK /\ ControllerTypeOK
      BY DEF TypeOK
    <2>a. \A t \in Session : Gone(t) => Gone(t)'
      BY GoneStays
    <2>1. ASSUME NEW s \in Session, NEW u \in Name, Connect(s, u)
          PROVE  Names'
      <3>1. PICK raw \in connectMessage(u) :
              /\ session[s] = "none"
              /\ linkUp' = [linkUp EXCEPT ![s] = TRUE]
              /\ toServer' = [toServer EXCEPT ![s] = <<raw>>]
              /\ currentUser' = [currentUser EXCEPT ![s] = u]
              /\ UNCHANGED <<users, username>>
              /\ ExclusiveNames =>
                   \A t \in Session : currentUser[t] = u => Gone(t)
        BY <2>1 DEF Connect, ConnectUser, serverVars, memoryVars
      <3>2. username[s] = Empty
        BY <3>1 DEF References, NamelessFirst
      <3>3. NamedAs'
        BY <2>0, <3>1, <3>2 DEF NamedAs, ControllerTypeOK
      <3>4. /\ toServer'[s] = <<raw>> /\ currentUser'[s] = u
            /\ \A t \in Session \ {s} : /\ toServer'[t] = toServer[t]
                                        /\ currentUser'[t] = currentUser[t]
                                        /\ linkUp'[t] = linkUp[t]
        BY <2>0, <3>1 DEF ConnTypeOK, ControllerTypeOK
      <3>5. /\ raw.type = "connect" => raw.sender = u
            /\ u \notin QuotedNames => raw.type = "connect"
        <4>1. messageTypeToString("Connect") = "connect"
          BY DEF messageTypeToString
        <4> QED
          BY <3>1, <4>1 DEF connectMessage, ReadAs, toJson, NewMessage, Garbled,
             NoMessage
      <3>6. ConnectNames'
        <4>1. \A i \in 1 .. Len(toServer'[s]) : toServer'[s][i] = raw
          BY <3>4
        <4> QED
          BY <3>4, <3>5, <4>1 DEF ConnectNames
      <3>7. QuotedNames = {} => Introduced'
        <4>1. Len(toServer'[s]) > 0 /\ toServer'[s][1] = raw
          BY <3>4
        <4> QED
          BY <3>1, <3>4, <3>5, <4>1 DEF Introduced
      <3>8. ExclusiveNames => OneUser' /\ Listed'
        BY <2>a, <3>1, <3>2, <3>4 DEF OneUser, Listed
      <3> QED
        BY <3>3, <3>6, <3>7, <3>8
    <2>2. ASSUME NEW s \in Session, Operate(s)
          PROVE  Names'
      <3>1. UNCHANGED <<linkUp, users, username, currentUser>>
        BY <2>2, UserStepFrames
           DEF Operate, serverVars, memoryVars, Operation
      <3>2. \A t \in Session : toServer[t] \in Seq(ClientFrame)
        BY <2>0 DEF ConnTypeOK
      <3>3. ASSUME NEW t \in Session, NEW i \in 1 .. Len(toServer'[t]),
                   toServer'[t][i].type = "connect"
            PROVE  i \in 1 .. Len(toServer[t]) /\ toServer'[t][i] = toServer[t][i]
        <4>1. ~(i > Len(toServer[t]))
          BY <2>2, <3>3, OperateQueue DEF UserFrame
        <4>2. i \in 1 .. Len(toServer[t])
          <5>1. Len(toServer[t]) \in Nat
            BY <3>2
          <5> QED
            BY <4>1, <5>1
        <4> QED
          BY <2>2, <4>2, OperateQueue
      <3>4. ConnectNames'
        BY <3>1, <3>3 DEF ConnectNames
      <3>5. QuotedNames = {} => Introduced'
        <4>1. ASSUME NEW t \in Session, Len(toServer[t]) > 0
              PROVE  Len(toServer'[t]) > 0 /\ toServer'[t][1] = toServer[t][1]
          <5>1. /\ 1 \in 1 .. Len(toServer[t]) /\ Len(toServer[t]) \in Nat
                /\ Len(toServer'[t]) \in Nat
            BY <2>2, <3>2, <4>1, OperateLengths
          <5> QED
            BY <2>2, <4>1, <5>1, OperateQueue
        <4> QED
          BY <3>1, <4>1 DEF Introduced
      <3> QED
        BY <2>a, <3>1, <3>4, <3>5 DEF NamedAs, OneUser, Listed
    <2>3. ASSUME NEW s \in Session, Receive(s) \/ Break(s) \/ LoseWrite(s)
          PROVE  Names'
      <3>1. /\ UNCHANGED <<toServer, users, username, currentUser>>
            /\ \A t \in Session : linkUp'[t] => linkUp[t]
        BY <2>0, <2>3 DEF Receive, ReceiveFrame, Break, Disconnect, LoseWrite,
           WriteLost, serverVars, memoryVars, controllerVars, ConnTypeOK
      <3> QED
        BY <2>a, <3>1
           DEF NamedAs, ConnectNames, Introduced, OneUser, Listed
    <2>4. ASSUME NEW s \in Session, ServerStep(s)
          PROVE  Names'
      <3>0. UNCHANGED controllerVars
        BY <2>4 DEF ServerStep
      <3>1. CASE Accept(s)
        <4>1. UNCHANGED <<linkUp, toServer, users, username, currentUser>>
          BY <3>0, <3>1 DEF Accept, controllerVars
        <4> QED
          BY <2>a, <4>1 DEF NamedAs, ConnectNames, Introduced, OneUser, Listed
      <3>2. CASE HandleFrame(s)
        BY <2>a, <3>0, <3>2, HandleKeepsNames
      <3>3. CASE ReadError(s) \/ WriteError(s)
        BY <2>a, <3>0, <3>3, ErrorKeepsNames
      <3> QED
        BY <2>4, <3>1, <3>2, <3>3 DEF ServerStep
    <2>5. ASSUME Crash
          PROVE  Names'
      <3>1. /\ \A s \in Session : /\ ~linkUp'[s] /\ toServer'[s] = <<>>
                                  /\ username'[s] = Empty
            /\ currentUser' = currentUser
        BY <2>5 DEF Crash, Restart, controllerVars
      <3> QED
        BY <2>a, <3>1 DEF NamedAs, ConnectNames, Introduced, OneUser, Listed
    <2>6. CASE UNCHANGED vars
      <3>1. UNCHANGED <<linkUp, toServer, users, username, currentUser>>
        BY <2>6 DEF vars, connVars, serverVars, memoryVars, controllerVars
      <3> QED
        BY <2>a, <3>1 DEF NamedAs, ConnectNames, Introduced, OneUser, Listed
    <2> QED
      BY <2>1, <2>2, <2>3, <2>4, <2>5, <2>6 DEF Next
  <1> QED
    BY <1>1, <1>2, TypeCorrect, ReferencesHold, MembershipHolds, PTL DEF Spec

(* Once its first frame has been read, the server knows each client it     *)
(* serves under the name the client shows its user, if no name holds a     *)
(* quote or an escape.                                                     *)
THEOREM UsersKnown ==
    QuotedNames = {} /\ EscapedNames = {} => (Spec => []SessionKnowsItsUser)
  <1> SUFFICES ASSUME QuotedNames = {}, EscapedNames = {}
               PROVE  Spec => []SessionKnowsItsUser
    OBVIOUS
  <1>1. Names => SessionKnowsItsUser
    BY DEF Names, Introduced, SessionKnowsItsUser, Served
  <1> QED
    BY <1>1, NamesHold, PTL

(* If names are exclusive in time and none is read as another, whoever the *)
(* server serves and knows is registered under his name: no removal of     *)
(* another session erases it.                                              *)
THEOREM UsersListed ==
    ExclusiveNames /\ EscapedNames = {} => (Spec => []OnlineSessionsListed)
  <1> SUFFICES ASSUME ExclusiveNames, EscapedNames = {}
               PROVE  Spec => []OnlineSessionsListed
    OBVIOUS
  <1>1. Names => OnlineSessionsListed
    BY DEF Names, Listed, OnlineSessionsListed, Served
  <1> QED
    BY <1>1, NamesHold, PTL
=============================================================================
