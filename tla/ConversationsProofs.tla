-------------------------- MODULE ConversationsProofs --------------------------
(***************************************************************************)
(* Two people see one conversation: a theorem of the whole application,    *)
(* for every set of sessions, names and groups.                            *)
(*                                                                         *)
(* A private message is written to whoever is registered under the target  *)
(* and back to the session it came from; nothing is kept of it.  That both *)
(* are the two who see the conversation takes names that belong to one     *)
(* person at a time (ExclusiveNames): then both views grow by the same     *)
(* messages in the same order, and whoever has come later starts with      *)
(* nothing, because nobody can have written to it before the server knew   *)
(* its name.                                                               *)
(***************************************************************************)
EXTENDS NamesProofs, RoomsProofs

Private == Said("PrivateMessage")

\* What t shows or is about to show of S.
Talk(t, S) == View(privateMessages[t], toClient[t], S)

\* The messages between two people.
Between(a, b) == { m \in Private : \/ m.sender = a /\ m.target = b
                                   \/ m.sender = b /\ m.target = a }

\* The server has not read yet who t is.
Asking(t) == \E i \in 1 .. Len(toServer[t]) : toServer[t][i].type = "connect"

\* Who has written a private message.
Authored == \A s \in Session : \A i \in 1 .. Len(toServer[s]) :
              toServer[s][i].type = "private_message" =>
                toServer[s][i].sender = currentUser[s]

Unopened == \A s \in Session : session[s] = "none" => privateMessages[s] = <<>>

\* Nobody has spoken to a client that the server does not know.
Unspoken == \A t \in Session : linkUp[t] /\ Asking(t) =>
              \A S \in SUBSET Private : Talk(t, S) = <<>>

OneEndsOther(p, q) == IsSuffix(p, q) \/ IsSuffix(q, p)

Agreed == \A s, t \in Session :
            s # t /\ Member(s) /\ Member(t) =>
              \A S : S = Between(username[s], username[t]) =>
                OneEndsOther(Talk(s, S), Talk(t, S))

Talks == Authored /\ Unopened /\ Unspoken /\ Agreed

-----------------------------------------------------------------------------
(* What frames say of private messages, and what a screen shows of them.   *)

LEMMA NotPrivate ==
    ASSUME NEW S \in SUBSET Private, NEW q \in Seq(Raw),
           \A i \in 1 .. Len(q) : fromJson(q[i]).type # "PrivateMessage"
    PROVE  Of(q, S) = <<>>
  <1>1. ASSUME NEW i \in 1 .. Len(q)
        PROVE  fromJson(q[i]) \notin S
    <2>1. q[i] \in Raw
      BY ElementOfSeq
    <2>2. fromJson(q[i]) \notin Private
      BY <2>1, FrameSays DEF Private
    <2> QED
      BY <2>2
  <1> QED
    BY <1>1, OfFrames

LEMMA OneNotPrivate ==
    ASSUME NEW S \in SUBSET Private, NEW raw \in Raw,
           fromJson(raw).type # "PrivateMessage"
    PROVE  Of(<<raw>>, S) = <<>>
  <1>1. fromJson(raw) \notin S
    BY FrameSays DEF Private
  <1> QED
    BY <1>1, OfFrames

LEMMA AddTalks ==
    ASSUME StateTypeOK, NEW s \in Session, NEW m \in Shown, addMessage(s, m),
           NEW S \in SUBSET Private
    PROVE  /\ Kept(privateMessages'[s], S)
                = IF m \in S THEN Append(Kept(privateMessages[s], S), m)
                             ELSE Kept(privateMessages[s], S)
           /\ \A t \in Session \ {s} : privateMessages'[t] = privateMessages[t]
  <1>1. /\ privateMessages[s] \in Seq(Shown)
        /\ privateMessages \in [Session -> Seq(Shown)]
    BY DEF StateTypeOK
  <1>2. Kept(Append(privateMessages[s], m), S)
          = IF m \in S THEN Append(Kept(privateMessages[s], S), m)
                       ELSE Kept(privateMessages[s], S)
    BY <1>1, KeptAppend
  <1>3. m \in S => m.type = "PrivateMessage"
    BY DEF Private, Said
  <1>4. CASE m.type = "PrivateMessage" /\ addPrivateMessage(s, m)
    <2>1. /\ privateMessages'[s] = Append(privateMessages[s], m)
          /\ \A t \in Session \ {s} : privateMessages'[t] = privateMessages[t]
      BY <1>1, <1>4 DEF addPrivateMessage
    <2> QED
      BY <1>2, <2>1
  <1>5. CASE m.type = "PublicMessage" /\ addPublicMessage(s, m)
    BY <1>3, <1>5 DEF addPublicMessage
  <1>6. CASE m.type = "GroupMessage" /\ addGroupMessage(s, m)
    BY <1>3, <1>6 DEF addGroupMessage
  <1> QED
    BY <1>4, <1>5, <1>6 DEF addMessage

LEMMA FrameTalks ==
    ASSUME StateTypeOK, NEW s \in Session, NEW raw \in Raw, ShowFrame(s, raw),
           NEW S \in SUBSET Private
    PROVE  /\ Kept(privateMessages'[s], S)
                = Kept(privateMessages[s], S) \o Of(<<raw>>, S)
           /\ \A t \in Session \ {s} : privateMessages'[t] = privateMessages[t]
  <1> DEFINE m == fromJson(raw)
             k == Kept(privateMessages[s], S)
  <1>1. k \in Seq(S)
    <2>1. privateMessages[s] \in Seq(Shown)
      BY DEF StateTypeOK
    <2> QED
      BY <2>1, KeptType
  <1>2. Of(<<raw>>, S) = IF m \in S THEN <<m>> ELSE <<>>
    BY OfFrames
  <1>3. k \o <<>> = k /\ (m \in S => k \o <<m>> = Append(k, m))
    BY <1>1
  <1>4. m \in S => m.type = "PrivateMessage"
    BY FrameSays DEF Private
  <1> HIDE DEF m, k
  <1>5. CASE ShowMessage(s, m)
    <2>1. addMessage(s, m)
      BY <1>5 DEF ShowMessage
    <2>2. m.type \in {"PublicMessage", "PrivateMessage", "GroupMessage"}
      BY <2>1 DEF addMessage
    <2>3. m \in Shown
      BY <2>2, ParsedType DEF m
    <2>4. /\ Kept(privateMessages'[s], S) = IF m \in S THEN Append(k, m) ELSE k
          /\ \A t \in Session \ {s} : privateMessages'[t] = privateMessages[t]
      BY <2>1, <2>3, AddTalks DEF k
    <2> QED
      BY <1>2, <1>3, <2>4 DEF k
  <1>6. CASE m.type # "PrivateMessage" /\ UNCHANGED privateMessages
    BY <1>2, <1>3, <1>4, <1>6 DEF k
  <1>7. CASE /\ m.type = "AttachmentEnd" /\ ~UNCHANGED stateVars
             /\ finishIncomingAttachment(s, raw)
    <2>1. PICK file \in Incoming(s, raw) : addMessage(s, fileLink(file.start))
      BY <1>7 DEF finishIncomingAttachment
    <2>2. file.start \in Raw
      BY <2>1 DEF Incoming, StateTypeOK, ReceivedFile
    <2>3. fileLink(file.start) \in Shown
      BY <2>2, FileLinkType
    <2>4. fileLink(file.start).content = "file"
      BY <2>2 DEF fileLink, Raw
    <2>5. fileLink(file.start) \notin S
      BY <2>4 DEF Said, Private
    <2>6. /\ Kept(privateMessages'[s], S) = k
          /\ \A t \in Session \ {s} : privateMessages'[t] = privateMessages[t]
      BY <2>1, <2>3, <2>5, AddTalks DEF k
    <2> QED
      BY <1>2, <1>3, <1>4, <1>7, <2>6 DEF k
  <1>8. writeChunk(s, raw) => m.type = "Unknown"
    BY DEF writeChunk, m, fromJson, NoMessage, NewMessage, stringToMessageType
  <1> QED
    <2>1. CASE writeChunk(s, raw)
      BY <1>6, <1>8, <2>1 DEF writeChunk
    <2>2. CASE startIncomingAttachment(s, raw)
      BY <1>6, <2>2 DEF startIncomingAttachment, m
    <2>3. CASE finishIncomingAttachment(s, raw)
      BY <1>6, <1>7, <2>3 DEF finishIncomingAttachment, m, stateVars
    <2>4. CASE m.type \in Ignored /\ UNCHANGED stateVars
      BY <1>6, <2>4 DEF Ignored, stateVars
    <2>5. CASE setOnlineUsers(s, m)
      BY <1>6, <2>5 DEF setOnlineUsers
    <2> QED
      BY <1>5, <2>1, <2>2, <2>3, <2>4, <2>5 DEF ShowFrame, m

-----------------------------------------------------------------------------
(* The steps in which nobody is told a private message.                    *)

\* The step leaves what t shows or is about to show.
Carried(t) == \A S \in SUBSET Private :
    View(privateMessages'[t], toClient'[t], S) = Talk(t, S)

LEMMA HearsCarried ==
    ASSUME TypeOK, StateTypeOK, UNCHANGED stateVars, NEW t \in Session,
           \A S \in SUBSET Private : Hears(t, S, <<>>)
    PROVE  Carried(t)
  <1> SUFFICES ASSUME NEW S \in SUBSET Private
               PROVE  View(privateMessages'[t], toClient'[t], S) = Talk(t, S)
    BY DEF Carried
  <1>1. PICK screen \in Seq(Shown) : screen = privateMessages[t]
    BY DEF StateTypeOK
  <1>2. privateMessages' = privateMessages
    BY DEF stateVars
  <1>3. View(screen, toClient'[t], S) = View(screen, toClient[t], S) \o <<>>
    BY <1>1, ViewHears
  <1>4. View(screen, toClient[t], S) \in Seq(S)
    <2>1. toClient[t] \in Seq(Raw)
      BY DEF TypeOK, ConnTypeOK
    <2> QED
      BY <2>1, ViewSplits
  <1> QED
    BY <1>1, <1>2, <1>3, <1>4, ConcatEmptySeq DEF Talk

LEMMA ShowCarried ==
    ASSUME TypeOK, StateTypeOK, NEW s \in Session, Show(s), NEW t \in Session
    PROVE  Carried(t)
  <1> DEFINE raw == Head(toClient[s])
             rest == toClient'[s]
  <1>1. Receive(s) /\ ShowFrame(s, raw)
    BY DEF Show
  <1>2. /\ raw \in Raw /\ rest \in Seq(Raw)
        /\ toClient[s] = <<raw>> \o rest
        /\ \A x \in Session \ {s} : toClient'[x] = toClient[x]
    BY <1>1, Taken
  <1>3. StateTypeOK'
    BY <1>1, <1>2, ShowFrameType
  <1> HIDE DEF raw, rest
  <1> SUFFICES ASSUME NEW S \in SUBSET Private
               PROVE  View(privateMessages'[t], toClient'[t], S) = Talk(t, S)
    BY DEF Carried
  <1>4. /\ Kept(privateMessages'[s], S) = Kept(privateMessages[s], S) \o Of(<<raw>>, S)
        /\ \A x \in Session \ {s} : privateMessages'[x] = privateMessages[x]
    BY <1>1, <1>2, FrameTalks
  <1>5. CASE t # s
    BY <1>2, <1>4, <1>5 DEF Talk
  <1>6. CASE t = s
    <2>1. PICK before \in Seq(Shown), after \in Seq(Shown) :
            before = privateMessages[s] /\ after = privateMessages'[s]
      BY <1>3 DEF StateTypeOK
    <2>2. PICK one \in Seq(Raw), q \in Seq(Raw) : one = <<raw>> /\ q = rest
      <3>1. <<raw>> \in Seq(Raw)
        BY <1>2
      <3> QED
        BY <1>2, <3>1
    <2>3. Adds(before, after, one, S)
      BY <1>4, <2>1, <2>2 DEF Adds
    <2>4. View(after, q, S) = View(before, one \o q, S)
      BY <2>3, ViewKeeps
    <2> QED
      BY <1>2, <1>6, <2>1, <2>2, <2>4 DEF Talk, rest
  <1> QED
    BY <1>5, <1>6

LEMMA ErrorCarried ==
    ASSUME TypeOK, StateTypeOK, Membership, NEW s \in Session,
           ReadError(s) \/ WriteError(s), UNCHANGED stateVars,
           NEW t \in Session, linkUp'[t]
    PROVE  Carried(t)
  <1>1. linkUp' = linkUp /\ \E pending : removeClient(s, pending)
    BY ErrorRemoves
  <1>2. PICK pending : removeClient(s, pending)
    BY <1>1
  <1>3. ASSUME NEW S \in SUBSET Private
        PROVE  Hears(t, S, <<>>)
    <2>1. PICK list \in Raw : list = userList(users') /\ fromJson(list).type = "UserList"
      BY ListSays
    <2>2. Of(<<list>>, S) = <<>>
      BY <2>1, OneNotPrivate
    <2>3. Hears(t, S, IF username[s] # Empty /\ t \in clients'
                        THEN Of(<<userList(users')>>, S) ELSE <<>>)
      BY <1>1, <1>2, RemovalSays
    <2> QED
      BY <2>1, <2>2, <2>3
  <1> QED
    BY <1>3, HearsCarried

LEMMA HandleCarried ==
    ASSUME TypeOK, StateTypeOK, Membership, NEW s \in Session, HandleFrame(s),
           ~HandlePrivateMessage(s), UNCHANGED stateVars,
           NEW t \in Session, linkUp'[t]
    PROVE  Carried(t)
  <1> DEFINE raw == Head(toServer[s])
  <1>0. raw \in Raw /\ linkUp[t]
    BY HeadIsRaw, HandlerShape
  <1> HIDE DEF raw
  <1> SUFFICES ASSUME NEW S \in SUBSET Private
               PROVE  Hears(t, S, <<>>)
    BY HearsCarried
  <1>a. S \subseteq Said("PublicMessage") \cup Said("GroupMessage")
                      \cup Said("UserList") \cup Said("PrivateMessage")
    BY DEF Private
  <1>1. CASE HandleConnect(s)
    <2>1. Of(publicHistory, S) = <<>>
      <3>1. /\ publicHistory \in Seq(Raw)
            /\ \A i \in 1 .. Len(publicHistory) : publicHistory[i].type = "public_message"
        BY DEF TypeOK, ServerTypeOK, Membership, FilesSay, HistoryOnDisk
      <3>2. ASSUME NEW i \in 1 .. Len(publicHistory)
            PROVE  fromJson(publicHistory[i]).type # "PrivateMessage"
        <4>1. publicHistory[i] \in Raw /\ publicHistory[i].type = "public_message"
          BY <3>1, ElementOfSeq
        <4> QED
          BY <4>1, WordSays
      <3> QED
        BY <3>1, <3>2, NotPrivate
    <2>2. PICK list \in Raw : list = userList(users') /\ fromJson(list).type = "UserList"
      BY ListSays
    <2>3. Of(<<list>>, S) = <<>>
      BY <2>2, OneNotPrivate
    <2>4. Hears(t, S, (IF t = s THEN Of(publicHistory, S) ELSE <<>>)
                        \o (IF t \in clients THEN Of(<<userList(users')>>, S) ELSE <<>>))
      BY <1>0, <1>1, <1>a, ConnectSays
    <2>5. <<>> \o <<>> = <<>>
      OBVIOUS
    <2> QED
      BY <2>1, <2>2, <2>3, <2>4, <2>5
  <1>2. CASE HandlePublicMessage(s)
    <2>1. fromJson(raw).type = "PublicMessage"
      BY <1>2 DEF HandlePublicMessage, Received, raw
    <2>2. Of(<<raw>>, S) = <<>>
      BY <1>0, <2>1, OneNotPrivate
    <2>3. Hears(t, S, IF t \in clients THEN Of(<<raw>>, S) ELSE <<>>)
      BY <1>0, <1>2, PublicSays DEF raw
    <2> QED
      BY <2>2, <2>3
  <1>3. CASE HandleGroupMessage(s)
    <2>1. fromJson(raw).type = "GroupMessage"
      BY <1>3 DEF HandleGroupMessage, Received, raw
    <2>2. Of(<<raw>>, S) = <<>>
      BY <1>0, <2>1, OneNotPrivate
    <2>3. Hears(t, S, IF t \in groups[raw.groupId] THEN Of(<<raw>>, S) ELSE <<>>)
      BY <1>0, <1>3, GroupSays DEF raw
    <2> QED
      BY <2>2, <2>3
  <1>4. CASE HandleJoinGroup(s)
    <2>1. Hears(t, S, IF t = s THEN Of(groupHistory'[raw.groupId], S) ELSE <<>>)
      BY <1>0, <1>4, <1>a, JoinSays DEF raw
    <2>2. raw.groupId \in loadedGroups' /\ raw.groupId \in Group
      BY <1>4, HandlerShape, HandlerWords, HandleReads, HeadType
         DEF raw, HandleJoinGroup, ClientFrame, JoinWord, GroupWord, TypeOK
    <2>3. PICK h \in Seq(Raw) : h = groupHistory'[raw.groupId]
      BY <2>2, FrameType DEF ServerTypeOK
    <2>4. \A i \in 1 .. Len(h) : h[i].type = "group_message"
      BY <2>2, <2>3, HandlerGroups DEF FilesSay, HistoryOnDisk
    <2>5. ASSUME NEW i \in 1 .. Len(h)
          PROVE  fromJson(h[i]).type # "PrivateMessage"
      <3>1. h[i] \in Raw
        BY ElementOfSeq
      <3> QED
        BY <2>4, <3>1, WordSays
    <2>6. Of(h, S) = <<>>
      BY <2>5, NotPrivate
    <2> QED
      BY <2>1, <2>3, <2>6
  <1>5. CASE HandleRest(s)
    BY <1>0, <1>5, <1>a, RestSays
  <1> QED
    BY <1>1, <1>2, <1>3, <1>4, <1>5 DEF HandleFrame, HandleRest

\* Of who is linked after a step, that step writes nothing.
LEMMA QuietLinks ==
    ASSUME TypeOK, Quiet, NEW t \in Session, linkUp'[t]
    PROVE  /\ toClient'[t] = toClient[t]
           /\ Asking(t)' => session[t] = "none" \/ (linkUp[t] /\ Asking(t))
  <1>0. ConnTypeOK
    BY DEF TypeOK
  <1>1. ASSUME NEW s \in Session, NEW u \in Name, Connect(s, u)
        PROVE  /\ toClient'[t] = toClient[t]
               /\ session[t] = "none"
                    \/ (toServer'[t] = toServer[t] /\ linkUp'[t] = linkUp[t])
    BY <1>0, <1>1 DEF Connect, ConnectUser, ConnTypeOK
  <1>2. ASSUME NEW s \in Session, Operate(s)
        PROVE  /\ toClient'[t] = toClient[t] /\ linkUp'[t] = linkUp[t]
               /\ Asking(t)' => Asking(t)
    <2>1. UNCHANGED <<linkUp, toClient>>
      BY <1>2, UserStepFrames DEF Operate, Operation
    <2>2. ASSUME NEW i \in 1 .. Len(toServer'[t]), toServer'[t][i].type = "connect"
          PROVE  i \in 1 .. Len(toServer[t]) /\ toServer'[t][i] = toServer[t][i]
      <3>1. ~(i > Len(toServer[t]))
        BY <1>2, <2>2, OperateQueue DEF UserFrame
      <3>2. i \in 1 .. Len(toServer[t])
        <4>1. Len(toServer[t]) \in Nat
          BY <1>0, LenProperties DEF ConnTypeOK
        <4> QED
          BY <3>1, <4>1
      <3> QED
        BY <1>2, <3>2, OperateQueue
    <2> QED
      BY <2>1, <2>2 DEF Asking
  <1>3. ASSUME NEW s \in Session, Accept(s) \/ LoseWrite(s)
        PROVE  UNCHANGED <<linkUp, toServer, toClient>>
    BY <1>3 DEF Accept, LoseWrite, WriteLost
  <1>4. ASSUME NEW s \in Session, Break(s)
        PROVE  /\ toClient'[t] = toClient[t] /\ linkUp[t]
               /\ toServer' = toServer
    <2>1. /\ linkUp' = [linkUp EXCEPT ![s] = FALSE] /\ toServer' = toServer
          /\ \E q : toClient' = [toClient EXCEPT ![s] = q]
      BY <1>4 DEF Break, Disconnect
    <2>2. t # s
      BY <1>0, <2>1 DEF ConnTypeOK
    <2> QED
      BY <1>0, <2>1, <2>2 DEF ConnTypeOK
  <1>5. ~Crash
    BY DEF Crash, Restart
  <1>6. CASE UNCHANGED vars
    BY <1>6 DEF vars, connVars, Asking
  <1> QED
    BY <1>1, <1>2, <1>3, <1>4, <1>5, <1>6 DEF Quiet, Asking

\* Every step but one carries the views of whoever is linked after it.
LEMMA StepCarried ==
    ASSUME Ground, [AppNext]_appVars, NEW t \in Session, linkUp'[t]
    PROVE  \/ Carried(t)
           \/ \E s \in Session : /\ HandleFrame(s) /\ HandlePrivateMessage(s)
                                 /\ UNCHANGED controllerVars /\ UNCHANGED stateVars
  <1>0. TypeOK /\ StateTypeOK /\ Membership
    BY DEF Ground
  <1>1. ASSUME NEW s \in Session, Show(s)
        PROVE  Carried(t)
    BY <1>0, <1>1, ShowCarried
  <1>2. CASE UNCHANGED stateVars /\ Quiet
    <2>1. privateMessages' = privateMessages
      BY <1>2 DEF stateVars
    <2>2. toClient'[t] = toClient[t]
      BY <1>0, <1>2, QuietLinks
    <2> QED
      BY <2>1, <2>2 DEF Carried, Talk
  <1>3. ASSUME NEW s \in Session, ReadError(s) \/ WriteError(s), UNCHANGED stateVars
        PROVE  Carried(t)
    BY <1>0, <1>3, ErrorCarried
  <1>4. ASSUME NEW s \in Session, HandleFrame(s), ~HandlePrivateMessage(s),
               UNCHANGED stateVars
        PROVE  Carried(t)
    BY <1>0, <1>4, HandleCarried
  <1> QED
    BY <1>1, <1>2, <1>3, <1>4, StepKinds

LEMMA StepAsks ==
    ASSUME Ground, [AppNext]_appVars, NEW t \in Session, linkUp'[t], Asking(t)'
    PROVE  session[t] = "none" \/ (linkUp[t] /\ Asking(t))
  <1>0. TypeOK /\ Membership /\ References
    BY DEF Ground
  <1>1. ASSUME NEW s \in Session, Show(s)
        PROVE  linkUp[t] /\ Asking(t)
    <2>1. linkUp' = linkUp /\ toServer' = toServer
      BY <1>0, <1>1, Taken DEF Show
    <2> QED
      BY <2>1 DEF Asking
  <1>2. ASSUME NEW s \in Session, ReadError(s) \/ WriteError(s)
        PROVE  linkUp[t] /\ Asking(t)
    <2>1. /\ ~linkUp[s] /\ linkUp' = linkUp
          /\ \A x \in Session \ {s} : toServer'[x] = toServer[x]
      BY <1>0, <1>2, ErrorRemoves
    <2> QED
      BY <2>1 DEF Asking
  <1>3. ASSUME NEW s \in Session, HandleFrame(s)
        PROVE  linkUp[t] /\ Asking(t) /\ t # s
    <2>1. /\ linkUp' = linkUp
          /\ \A x \in Session \ {s} : toServer'[x] = toServer[x]
          /\ \A i \in 1 .. Len(toServer'[s]) : toServer'[s][i].type # "connect"
      BY <1>0, <1>3, HandlerShape, HandleReads, ReadKeeps, SMTT(40) DEF References
    <2> QED
      BY <2>1 DEF Asking
  <1> QED
    BY <1>0, <1>1, <1>2, <1>3, QuietLinks, StepKinds

-----------------------------------------------------------------------------
(* A private message.                                                      *)

LEMMA PrivateHears ==
    ASSUME TypeOK, NEW s \in Session, HandleFrame(s), HandlePrivateMessage(s),
           NEW S, NEW t \in Session, linkUp[t]
    PROVE  Hears(t, S,
             (IF t \in RegisteredAs(Head(toServer[s]).target)
                THEN Of(<<Head(toServer[s])>>, S) ELSE <<>>)
               \o (IF t = s THEN Of(<<Head(toServer[s])>>, S) ELSE <<>>))
  <1> DEFINE raw == Head(toServer[s])
             T   == RegisteredAs(raw.target)
  <1>1. raw \in Raw
    BY HeadIsRaw
  <1>2. Write(Both(SendTo(T, raw), SendTo({s}, raw)))
    BY DEF HandlePrivateMessage
  <1> HIDE DEF raw, T
  <1>3. SendTo(T, raw) \in Output /\ SendTo({s}, raw) \in Output
    BY <1>1, OutputTypes
  <1>3a. Of(SendTo(T, raw)[t], S) = IF t \in T THEN Of(<<raw>>, S) ELSE <<>>
    BY <1>1, SendSays
  <1>4. Of(SendTo({s}, raw)[t], S) = IF t = s THEN Of(<<raw>>, S) ELSE <<>>
    <2>1. t \in {s} <=> t = s
      OBVIOUS
    <2>2. Of(SendTo({s}, raw)[t], S) = IF t \in {s} THEN Of(<<raw>>, S) ELSE <<>>
      BY <1>1, SendSays
    <2> QED
      BY <2>1, <2>2
  <1> DEFINE o1 == SendTo(T, raw)
             o2 == SendTo({s}, raw)
  <1> HIDE DEF o1, o2
  <1>5. Hears(t, S, Of(Both(o1, o2)[t], S))
    BY <1>2, <1>3, WriteHears, OutputTypes DEF Write, o1, o2
  <1>6. Of(Both(o1, o2)[t], S) = Of(o1[t], S) \o Of(o2[t], S)
    BY <1>3, BothSay DEF o1, o2
  <1> QED
    BY <1>3a, <1>4, <1>5, <1>6 DEF o1, o2, raw, T

LEMMA TalkHears ==
    ASSUME TypeOK, StateTypeOK, UNCHANGED stateVars, NEW t \in Session, NEW S,
           NEW said, Hears(t, S, said)
    PROVE  View(privateMessages'[t], toClient'[t], S) = Talk(t, S) \o said
  <1>1. PICK screen \in Seq(Shown) : screen = privateMessages[t]
    BY DEF StateTypeOK
  <1>2. privateMessages' = privateMessages
    BY DEF stateVars
  <1>3. View(screen, toClient'[t], S) = View(screen, toClient[t], S) \o said
    BY <1>1, ViewHears
  <1> QED
    BY <1>1, <1>2, <1>3 DEF Talk

LEMMA TalkType ==
    ASSUME TypeOK, StateTypeOK, NEW t \in Session, NEW S
    PROVE  Talk(t, S) \in Seq(S)
  <1>1. PICK screen \in Seq(Shown), q \in Seq(Raw) :
          screen = privateMessages[t] /\ q = toClient[t]
    BY DEF StateTypeOK, TypeOK, ConnTypeOK
  <1>2. View(screen, q, S) \in Seq(S)
    BY ViewSplits
  <1> QED
    BY <1>1, <1>2 DEF Talk

\* Nobody has written to a client that the server does not know.
LEMMA PrivateCarried ==
    ASSUME Ground, NEW s \in Session, HandleFrame(s), HandlePrivateMessage(s),
           UNCHANGED stateVars,
           NEW t \in Session, t # s, linkUp[t], username[t] = Empty
    PROVE  Carried(t)
  <1> DEFINE raw == Head(toServer[s])
  <1>0. TypeOK /\ StateTypeOK /\ References
    BY DEF Ground
  <1>1. raw \in Raw
    BY <1>0, HeadIsRaw
  <1>2. t \notin RegisteredAs(raw.target)
    BY <1>0, NameAssumption DEF RegisteredAs, References, NamesRead
  <1> HIDE DEF raw
  <1>3. ASSUME NEW S \in SUBSET Private
        PROVE  Hears(t, S, <<>>)
    <2>1. Hears(t, S, (IF t \in RegisteredAs(raw.target) THEN Of(<<raw>>, S) ELSE <<>>)
                        \o (IF t = s THEN Of(<<raw>>, S) ELSE <<>>))
      BY <1>0, PrivateHears DEF raw
    <2>2. <<>> \o <<>> = <<>>
      OBVIOUS
    <2> QED
      BY <1>2, <2>1, <2>2
  <1> QED
    BY <1>0, <1>3, HearsCarried

LEMMA UnspokenKept ==
    ASSUME Ground, Unopened, Unspoken, [AppNext]_appVars
    PROVE  Unspoken'
  <1> SUFFICES ASSUME NEW t \in Session, linkUp'[t], Asking(t)',
                      NEW S \in SUBSET Private
               PROVE  View(privateMessages'[t], toClient'[t], S) = <<>>
    BY DEF Unspoken, Talk
  <1>0. TypeOK /\ StateTypeOK /\ References /\ Membership
    BY DEF Ground
  <1>1. session[t] = "none" \/ (linkUp[t] /\ Asking(t))
    BY StepAsks
  <1>2. Talk(t, S) = <<>>
    <2>1. CASE session[t] = "none"
      <3>1. privateMessages[t] = <<>> /\ toClient[t] = <<>>
        BY <1>0, <2>1 DEF Unopened, Membership, Fresh
      <3>2. <<>> \in Seq(Shown) /\ <<>> \in Seq(Raw)
        OBVIOUS
      <3>3. View(<<>>, <<>>, S) = Kept(<<>>, S) \o Of(<<>>, S)
        BY <3>2, ViewSplits
      <3>4. Kept(<<>>, S) = <<>> /\ Of(<<>>, S) = <<>>
        BY KeptEmpty, OfFrames
      <3> QED
        BY <3>1, <3>3, <3>4 DEF Talk
    <2>2. CASE linkUp[t] /\ Asking(t)
      BY <2>2 DEF Unspoken
    <2> QED
      BY <1>1, <2>1, <2>2
  <1>3. Carried(t)
    <2>1. ASSUME NEW s \in Session, HandleFrame(s), HandlePrivateMessage(s),
                 UNCHANGED stateVars
          PROVE  Carried(t)
      <3>1. /\ linkUp' = linkUp
            /\ \A x \in Session \ {s} : toServer'[x] = toServer[x]
            /\ \A i \in 1 .. Len(toServer'[s]) : toServer'[s][i].type # "connect"
        BY <1>0, <2>1, HandlerShape, HandleReads, ReadKeeps DEF References
      <3>2. t # s /\ Asking(t)
        BY <3>1 DEF Asking
      <3>3. username[t] = Empty
        BY <1>0, <3>2 DEF Asking, References, ConnectFirst
      <3> QED
        BY <2>1, <3>1, <3>2, <3>3, PrivateCarried
    <2> QED
      BY <2>1, StepCarried
  <1> QED
    BY <1>2, <1>3 DEF Carried


LEMMA UnopenedKept ==
    ASSUME Ground, Unopened, [AppNext]_appVars
    PROVE  Unopened'
  <1>0. TypeOK /\ StateTypeOK /\ Membership
    BY DEF Ground
  <1> SUFFICES ASSUME NEW t \in Session, session'[t] = "none"
               PROVE  privateMessages'[t] = <<>>
    BY DEF Unopened
  <1>1. session[t] = "none"
    BY <1>0, UnusedBefore
  <1>2. privateMessages[t] = <<>> /\ toClient[t] = <<>>
    BY <1>0, <1>1 DEF Unopened, Membership, Fresh
  <1>3. ASSUME NEW s \in Session, Show(s)
        PROVE  privateMessages'[t] = privateMessages[t]
    <2>1. t # s /\ Head(toClient[s]) \in Raw
      BY <1>0, <1>2, <1>3, Taken DEF Show
    <2>2. ShowFrame(s, Head(toClient[s])) /\ {} \in SUBSET Private
      BY <1>3 DEF Show
    <2> QED
      BY <1>0, <2>1, <2>2, FrameTalks
  <1>4. UNCHANGED stateVars => privateMessages' = privateMessages
    BY DEF stateVars
  <1> QED
    BY <1>2, <1>3, <1>4, StepKinds

-----------------------------------------------------------------------------
(* Who has written what is on its way to the server.                       *)

\* The private messages of one operation name the user who performs it.
Signed(s, frames) ==
    \A i \in 1 .. Len(frames) :
      frames[i].type = "private_message" => frames[i].sender = currentUser[s]

LEMMA UserStepSigns ==
    ASSUME TypeOK, NEW s \in Session, UserStep(s)
    PROVE  \E kind : \E frames \in Seq(UserFrame) :
             Operation(s, kind, frames) /\ Signed(s, frames)
  <1> DEFINE Goal == \E kind : \E frames \in Seq(UserFrame) :
                       Operation(s, kind, frames) /\ Signed(s, frames)
             Mine(f) == f.sender = currentUser[s]
  <1>a. ASSUME NEW f1, NEW f2, Mine(f1), Mine(f2)
        PROVE  Signed(s, <<f1, f2>>)
    BY <1>a DEF Signed
  <1>b. ASSUME NEW f, Mine(f)
        PROVE  Signed(s, <<f>>)
    BY <1>b DEF Signed
  <1>c. /\ \A to, g, word : Mine(typingFrame(s, to, g, word))
        /\ \A t, to, g : Mine(textFrame(s, t, to, g))
    BY DEF typingFrame, textFrame, toJson, NewMessage
  <1>d. ASSUME NEW to, NEW g
        PROVE  Signed(s, attachmentFrames(s, to, g))
    BY AttachmentWords DEF Signed
  <1> HIDE DEF Mine
  <1>1. CASE sendPublicMessage(s)
    BY <1>1, <1>a, <1>c, FramesType DEF sendPublicMessage
  <1>2. CASE sendPublicAttachment(s)
    BY <1>2, <1>d, FramesType DEF sendPublicAttachment
  <1>3. ASSUME NEW word \in {"typing", "stopped"}, sendTypingStatus(s, word)
        PROVE  Goal
    BY <1>3, <1>b, <1>c, FramesType DEF sendTypingStatus
  <1>4. ASSUME NEW u \in Name, sendPrivateMessage(s, u)
        PROVE  Goal
    BY <1>4, <1>a, <1>c, FramesType DEF sendPrivateMessage
  <1>5. ASSUME NEW u \in Name, sendPrivateAttachment(s, u)
        PROVE  Goal
    BY <1>5, <1>d, FramesType DEF sendPrivateAttachment
  <1>6. ASSUME NEW g \in Group, createGroup(s, g) \/ joinGroup(s, g)
        PROVE  Goal
    BY <1>6, <1>b, <1>c, FramesType DEF createGroup, joinGroup
  <1>7. ASSUME NEW g \in Group, sendGroupMessage(s, g)
        PROVE  Goal
    BY <1>7, <1>a, <1>c, FramesType DEF sendGroupMessage
  <1>8. ASSUME NEW g \in Group, sendGroupAttachment(s, g)
        PROVE  Goal
    BY <1>8, <1>d, FramesType DEF sendGroupAttachment
  <1>9. ASSUME NEW g \in Group, NEW word \in {"typing", "stopped"},
               sendGroupTypingStatus(s, g, word)
        PROVE  Goal
    BY <1>9, <1>b, <1>c, FramesType DEF sendGroupTypingStatus
  <1> QED
    BY <1>1, <1>2, <1>3, <1>4, <1>5, <1>6, <1>7, <1>8, <1>9 DEF UserStep

\* The queues of one step say only what was said before it.
LEMMA AuthoredFrom ==
    ASSUME Authored, UNCHANGED currentUser,
           \A t \in Session : \A i \in 1 .. Len(toServer'[t]) :
             \E j \in 1 .. Len(toServer[t]) : toServer'[t][i] = toServer[t][j]
    PROVE  Authored'
  BY DEF Authored

LEMMA OperateAuthored ==
    ASSUME TypeOK, Authored, NEW s \in Session, Operate(s)
    PROVE  Authored'
  <1>1. PICK kind : \E frames \in Seq(UserFrame) :
          Operation(s, kind, frames) /\ Signed(s, frames)
    BY UserStepSigns DEF Operate
  <1>2. PICK frames \in Seq(UserFrame) :
          Operation(s, kind, frames) /\ Signed(s, frames)
    BY <1>1
  <1>3. currentUser' = currentUser /\ SendFrames(s, frames)
    BY <1>2 DEF Operation
  <1>4. CASE toServer' = toServer
    BY <1>3, <1>4 DEF Authored
  <1>5. CASE toServer' = [toServer EXCEPT ![s] = toServer[s] \o frames]
    <2>1. PICK q \in Seq(ClientFrame) : q = toServer[s]
      BY DEF TypeOK, ConnTypeOK
    <2>2. /\ toServer'[s] = q \o frames
          /\ \A t \in Session \ {s} : toServer'[t] = toServer[t]
      BY <1>5, <2>1 DEF TypeOK, ConnTypeOK
    <2>3. /\ Len(q) \in Nat /\ Len(frames) \in Nat
          /\ Len(q \o frames) = Len(q) + Len(frames)
          /\ \A i \in 1 .. Len(q) + Len(frames) :
               (q \o frames)[i] = IF i <= Len(q) THEN q[i] ELSE frames[i - Len(q)]
      BY ConcatProperties, LenProperties
    <2>4. ASSUME NEW i \in 1 .. Len(q \o frames),
                 (q \o frames)[i].type = "private_message"
          PROVE  (q \o frames)[i].sender = currentUser[s]
      <3>1. CASE i <= Len(q)
        <4>1. i \in 1 .. Len(q) /\ (q \o frames)[i] = q[i]
          BY <2>3, <3>1
        <4> QED
          BY <2>1, <2>4, <4>1 DEF Authored
      <3>2. CASE ~(i <= Len(q))
        <4>1. i - Len(q) \in 1 .. Len(frames) /\ (q \o frames)[i] = frames[i - Len(q)]
          BY <2>3, <3>2
        <4> QED
          BY <1>2, <2>4, <4>1 DEF Signed
      <3> QED
        BY <3>1, <3>2
    <2>5. ASSUME NEW t \in Session, NEW i \in 1 .. Len(toServer'[t]),
                 toServer'[t][i].type = "private_message"
          PROVE  toServer'[t][i].sender = currentUser[t]
      <3>1. CASE t = s
        BY <2>2, <2>4, <2>5, <3>1
      <3>2. CASE t # s
        BY <2>2, <2>5, <3>2 DEF Authored
      <3> QED
        BY <3>1, <3>2
    <2> QED
      BY <1>3, <2>5 DEF Authored
  <1> QED
    BY <1>3, <1>4, <1>5 DEF SendFrames

LEMMA AuthoredKept ==
    ASSUME TypeOK, Membership, Authored, [AppNext]_appVars
    PROVE  Authored'
  <1>0. ConnTypeOK /\ ControllerTypeOK
    BY DEF TypeOK
  <1>1. ASSUME NEW s \in Session, Show(s)
        PROVE  Authored'
    <2>1. UNCHANGED <<toServer, currentUser>>
      BY <1>1 DEF Show, Receive, ReceiveFrame
    <2> QED
      BY <2>1 DEF Authored
  <1>2. ASSUME NEW s \in Session, NEW u \in Name, Connect(s, u)
        PROVE  Authored'
    <2>1. PICK raw \in connectMessage(u) :
            /\ toServer'[s] = <<raw>>
            /\ \A t \in Session \ {s} : /\ toServer'[t] = toServer[t]
                                        /\ currentUser'[t] = currentUser[t]
      BY <1>0, <1>2 DEF Connect, ConnectUser, ConnTypeOK, ControllerTypeOK
    <2>2. raw.type # "private_message"
      BY <2>1, ConnectIsClientFrame
    <2>3. \A i \in 1 .. Len(toServer'[s]) : toServer'[s][i] = raw
      BY <2>1
    <2> QED
      BY <2>1, <2>2, <2>3 DEF Authored
  <1>3. ASSUME NEW s \in Session, Operate(s)
        PROVE  Authored'
    BY <1>3, OperateAuthored
  <1>4. ASSUME NEW s \in Session,
               (Accept(s) /\ UNCHANGED controllerVars) \/ Break(s) \/ LoseWrite(s)
        PROVE  Authored'
    <2>1. UNCHANGED <<toServer, currentUser>>
      BY <1>4 DEF Accept, Break, Disconnect, LoseWrite, WriteLost, controllerVars
    <2> QED
      BY <2>1 DEF Authored
  <1>5. CASE Crash
    <2>1. /\ \A t \in Session : toServer'[t] = <<>>
          /\ currentUser' = currentUser
      BY <1>5 DEF Crash, Restart, controllerVars
    <2> QED
      BY <2>1 DEF Authored
  <1>6. CASE UNCHANGED vars
    BY <1>6 DEF vars, connVars, controllerVars, Authored
  <1>7. ASSUME NEW s \in Session, ReadError(s) \/ WriteError(s),
               UNCHANGED controllerVars
        PROVE  Authored'
    <2>1. /\ \A t \in Session \ {s} : toServer'[t] = toServer[t]
          /\ \/ toServer'[s] = <<>>
             \/ toServer'[s] = toServer[s]
             \/ toServer'[s] = <<Head(toServer[s])>> /\ toServer[s] # <<>>
      BY <1>7, ErrorRemoves
    <2>2. ASSUME NEW i \in 1 .. Len(toServer'[s])
          PROVE  \E j \in 1 .. Len(toServer[s]) : toServer'[s][i] = toServer[s][j]
      <3>1. CASE toServer'[s] = <<>>
        BY <2>2, <3>1
      <3>2. CASE toServer'[s] = toServer[s]
        BY <2>2, <3>2
      <3>3. CASE toServer'[s] = <<Head(toServer[s])>> /\ toServer[s] # <<>>
        <4>1. toServer'[s][i] = toServer[s][1] /\ 1 \in 1 .. Len(toServer[s])
          BY <1>0, <2>2, <3>3 DEF ConnTypeOK
        <4> QED
          BY <4>1
      <3> QED
        BY <2>1, <3>1, <3>2, <3>3
    <2>3. UNCHANGED currentUser
      BY <1>7 DEF controllerVars
    <2>4. \A t \in Session : \A i \in 1 .. Len(toServer'[t]) :
            \E j \in 1 .. Len(toServer[t]) : toServer'[t][i] = toServer[t][j]
      BY <2>1, <2>2
    <2> QED
      BY <2>3, <2>4, AuthoredFrom
  <1>8. ASSUME NEW s \in Session, HandleFrame(s), UNCHANGED controllerVars
        PROVE  Authored'
    <2>1. /\ Len(toServer[s]) \in Nat /\ Len(toServer'[s]) = Len(toServer[s]) - 1
          /\ \A i \in 1 .. Len(toServer'[s]) : toServer'[s][i] = toServer[s][i + 1]
          /\ \A t \in Session \ {s} : toServer'[t] = toServer[t]
      BY <1>8, HandleReads, ReadShifts, LenProperties
    <2>2. ASSUME NEW i \in 1 .. Len(toServer'[s])
          PROVE  i + 1 \in 1 .. Len(toServer[s])
      BY <2>1
    <2>3. UNCHANGED currentUser
      BY <1>8 DEF controllerVars
    <2>4. \A t \in Session : \A i \in 1 .. Len(toServer'[t]) :
            \E j \in 1 .. Len(toServer[t]) : toServer'[t][i] = toServer[t][j]
      BY <2>1, <2>2
    <2> QED
      BY <2>3, <2>4, AuthoredFrom
  <1> QED
    BY <1>1, <1>2, <1>3, <1>4, <1>5, <1>6, <1>7, <1>8, StepKinds DEF Quiet


-----------------------------------------------------------------------------
(* Who comes, and who is told.                                             *)

\* Whoever becomes a member does so when its connect frame is read.
LEMMA MemberSteps ==
    ASSUME Ground, [AppNext]_appVars, NEW t \in Session, Member(t)'
    PROVE  /\ linkUp[t] /\ linkUp'[t]
           /\ \/ Member(t) /\ username'[t] = username[t]
              \/ HandleConnect(t) /\ Asking(t)
  <1>0. TypeOK /\ Membership /\ References /\ Rooms /\ ConnTypeOK /\ ServerTypeOK
    BY DEF Ground, TypeOK
  <1>1. linkUp'[t] /\ session'[t] = "active" /\ username'[t] # Empty
    BY DEF Member, Served
  <1>2. ASSUME UNCHANGED <<linkUp, username>>, session'[t] = session[t]
        PROVE  linkUp[t] /\ Member(t) /\ username'[t] = username[t]
    BY <1>1, <1>2 DEF Member, Served
  <1>3. ASSUME NEW s \in Session, Show(s)
        PROVE  linkUp[t] /\ Member(t) /\ username'[t] = username[t]
    <2>1. UNCHANGED <<session, linkUp, username>>
      BY <1>0, <1>3, Taken DEF Show
    <2> QED
      BY <1>2, <2>1
  <1>4. CASE Quiet
    <2>1. /\ linkUp[t] /\ session[t] \in {"pending", "active"}
          /\ username'[t] = username[t]
      BY <1>0, <1>1, <1>4, QuietKeeps
    <2>2. session[t] # "pending"
      BY <1>0, <1>1, <2>1 DEF Rooms, Seated
    <2> QED
      BY <1>1, <2>1, <2>2 DEF Member, Served
  <1>5. ASSUME NEW s \in Session, ReadError(s) \/ WriteError(s)
        PROVE  linkUp[t] /\ Member(t) /\ username'[t] = username[t]
    <2>1. /\ linkUp' = linkUp /\ session'[s] # "active" /\ username' = username
          /\ \A x \in Session \ {s} : session'[x] = session[x]
      BY <1>0, <1>5, ErrorRemoves
    <2> QED
      BY <1>1, <1>2, <2>1
  <1>6. ASSUME NEW s \in Session, HandleFrame(s)
        PROVE  /\ linkUp[t]
               /\ \/ Member(t) /\ username'[t] = username[t]
                  \/ HandleConnect(t) /\ Asking(t)
    <2>1. session' = session /\ linkUp' = linkUp
      BY <1>0, <1>6, HandlerShape
    <2>2. CASE username' = username
      BY <1>2, <2>1, <2>2
    <2>3. CASE /\ HandleConnect(s)
               /\ username' = [username EXCEPT ![s] = Head(toServer[s]).sender]
      <3>1. CASE t = s
        <4>1. Head(toServer[s]).type = "connect"
          BY <1>6, <2>3, ConnectHandled
        <4>2. Head(toServer[s]) = toServer[s][1] /\ 1 \in 1 .. Len(toServer[s])
          BY <1>0, <1>6, HandleReads, ReadShifts
        <4> QED
          BY <1>1, <2>1, <2>3, <3>1, <4>1, <4>2 DEF Asking
      <3>2. CASE t # s
        <4>1. username'[t] = username[t]
          BY <1>0, <2>3, <3>2 DEF ServerTypeOK
        <4> QED
          BY <1>1, <2>1, <4>1 DEF Member, Served
      <3> QED
        BY <3>1, <3>2
    <2> QED
      BY <1>0, <1>6, <2>2, <2>3, HandlerShape
  <1> QED
    BY <1>1, <1>3, <1>4, <1>5, <1>6, StepKinds

\* A private message between two members reaches both, once each.
LEMMA PrivateReaches ==
    ASSUME Ground, Names, ExclusiveNames, Authored,
           NEW y \in Session, HandleFrame(y), HandlePrivateMessage(y),
           NEW p \in Session, NEW o \in Session, p # o, Member(p), Member(o),
           NEW raw \in Raw, raw = Head(toServer[y]),
           raw.sender = username[p], raw.target = username[o],
           NEW S, NEW said \in Seq(S), said = Of(<<raw>>, S)
    PROVE  Hears(p, S, said) /\ Hears(o, S, said)
  <1>0. TypeOK /\ Membership /\ ServerTypeOK
    BY DEF Ground, TypeOK
  <1>1. /\ linkUp[p] /\ username[p] # Empty
        /\ linkUp[o] /\ username[o] # Empty
    BY DEF Member, Served
  <1>2. username[p] = currentUser[p] /\ users[username[o]] = o
    BY <1>1 DEF Names, NamedAs, Listed
  <1>3. raw.type = "private_message"
    BY ReceivedWord DEF HandlePrivateMessage, messageTypeToString
  <1>4. raw.sender = currentUser[y]
    <2>1. raw = toServer[y][1] /\ 1 \in 1 .. Len(toServer[y])
      BY <1>0, HandleReads, ReadShifts
    <2> QED
      BY <1>3, <2>1 DEF Authored
  <1>5. y = p
    <2>1. ~Gone(p) /\ ~Gone(y)
      BY <1>0, <1>1, HandlerShape, NotGone
    <2> QED
      BY <1>1, <1>2, <1>4, <2>1 DEF Names, OneUser
  <1>6. RegisteredAs(raw.target) = {o}
    <2>1. username[o] \in Name /\ o # NoSession
      BY <1>0, <1>1, NoSessionAssumption DEF ServerTypeOK
    <2> QED
      BY <1>2, <2>1 DEF RegisteredAs
  <1>7. ASSUME NEW x \in Session, linkUp[x]
        PROVE  Hears(x, S, (IF x \in RegisteredAs(raw.target) THEN said ELSE <<>>)
                             \o (IF x = y THEN said ELSE <<>>))
    BY <1>0, <1>7, PrivateHears
  <1>8. said \o <<>> = said /\ <<>> \o said = said
    BY ConcatEmptySeq
  <1>9. Hears(p, S, <<>> \o said)
    BY <1>1, <1>5, <1>6, <1>7
  <1>10. Hears(o, S, said \o <<>>)
    BY <1>1, <1>5, <1>6, <1>7
  <1> QED
    BY <1>8, <1>9, <1>10

LEMMA EndsKept ==
    ASSUME NEW S, NEW p \in Seq(S), NEW q \in Seq(S), OneEndsOther(p, q),
           NEW m, NEW said, said = <<>> \/ (m \in S /\ said = <<m>>)
    PROVE  OneEndsOther(p \o said, q \o said)
  <1>1. CASE said = <<>>
    BY <1>1, ConcatEmptySeq
  <1>2. CASE m \in S /\ said = <<m>>
    <2>1. p \o <<m>> = Append(p, m) /\ q \o <<m>> = Append(q, m)
      BY <1>2
    <2>2. \/ IsSuffix(Append(p, m), Append(q, m))
          \/ IsSuffix(Append(q, m), Append(p, m))
      BY <1>2, SuffixAppend DEF OneEndsOther
    <2> QED
      BY <1>2, <2>1, <2>2 DEF OneEndsOther
  <1> QED
    BY <1>1, <1>2

\* Both of two members hear what is said between them, and no more.
LEMMA PrivateAgrees ==
    ASSUME Ground, Names, ExclusiveNames, Authored, UNCHANGED stateVars,
           NEW y \in Session, HandleFrame(y), HandlePrivateMessage(y),
           NEW s \in Session, NEW t \in Session, s # t, Member(s), Member(t),
           NEW S, S = Between(username[s], username[t]),
           OneEndsOther(Talk(s, S), Talk(t, S))
    PROVE  OneEndsOther(View(privateMessages'[s], toClient'[s], S),
                        View(privateMessages'[t], toClient'[t], S))
  <1>0. TypeOK /\ StateTypeOK
    BY DEF Ground
  <1>1. PICK raw \in Raw : raw = Head(toServer[y])
    BY <1>0, HeadIsRaw
  <1>2. PICK said : said = Of(<<raw>>, S)
    OBVIOUS
  <1>3. PICK m : m = fromJson(raw)
    OBVIOUS
  <1>4. said = <<>> \/ (m \in S /\ said = <<m>>)
    BY <1>2, <1>3, OfFrames
  <1>5. said \in Seq(S)
    <2>1. <<>> \in Seq(S) /\ (m \in S => <<m>> \in Seq(S))
      OBVIOUS
    <2> QED
      BY <1>4, <2>1
  <1>6. Hears(s, S, said) /\ Hears(t, S, said)
    <2>1. CASE m \in S
      <3>1. /\ m.sender = raw.sender /\ m.target = raw.target
        BY <1>3, <2>1 DEF Between, Private, Said, fromJson, NoMessage, NewMessage
      <3>2. \/ raw.sender = username[s] /\ raw.target = username[t]
            \/ raw.sender = username[t] /\ raw.target = username[s]
        BY <2>1, <3>1 DEF Between
      <3> QED
        BY <1>1, <1>2, <1>5, <3>2, PrivateReaches
    <2>2. CASE said = <<>>
      <3>1. ASSUME NEW x \in Session, linkUp[x]
            PROVE  Hears(x, S, <<>>)
        <4>1. Hears(x, S, (IF x \in RegisteredAs(raw.target) THEN <<>> ELSE <<>>)
                            \o (IF x = y THEN <<>> ELSE <<>>))
          BY <1>0, <1>1, <1>2, <2>2, <3>1, PrivateHears
        <4>2. <<>> \o <<>> = <<>>
          OBVIOUS
        <4> QED
          BY <4>1, <4>2
      <3> QED
        BY <2>2, <3>1 DEF Member, Served
    <2> QED
      BY <1>4, <2>1, <2>2
  <1>7. PICK p \in Seq(S), q \in Seq(S) : p = Talk(s, S) /\ q = Talk(t, S)
    BY <1>0, TalkType
  <1>8. /\ View(privateMessages'[s], toClient'[s], S) = p \o said
        /\ View(privateMessages'[t], toClient'[t], S) = q \o said
    BY <1>0, <1>6, <1>7, TalkHears
  <1>9. OneEndsOther(p \o said, q \o said)
    BY <1>4, <1>7, EndsKept
  <1> QED
    BY <1>8, <1>9

LEMMA NewcomerHearsNothing ==
    ASSUME Ground, Unspoken, [AppNext]_appVars, NEW t \in Session,
           Member(t)', HandleConnect(t), Asking(t),
           NEW S \in SUBSET Private
    PROVE  View(privateMessages'[t], toClient'[t], S) = <<>>
  <1>0. TypeOK
    BY DEF Ground
  <1>1. linkUp[t] /\ linkUp'[t]
    BY MemberSteps
  <1>2. Carried(t)
    <2>1. ASSUME NEW s \in Session, HandleFrame(s), HandlePrivateMessage(s)
          PROVE  FALSE
      <3>1. HandleFrame(t) /\ Head(toServer[t]).type = "connect"
        BY ConnectHandled DEF HandleFrame
      <3>2. t = s
        <4>1. ReadFrame(t) /\ \A x \in Session \ {s} : toServer'[x] = toServer[x]
          BY <1>0, <2>1, <3>1, HandleReads, ReadShifts
        <4>2. toServer'[t] # toServer[t]
          <5>1. /\ Len(toServer[t]) \in Nat
                /\ Len(toServer'[t]) = Len(toServer[t]) - 1
            BY <1>0, <4>1, ReadShifts, LenProperties
          <5> QED
            BY <5>1
        <4> QED
          BY <4>1, <4>2
      <3>3. Head(toServer[s]).type = "private_message"
        BY <2>1, ReceivedWord DEF HandlePrivateMessage, messageTypeToString
      <3> QED
        BY <3>1, <3>2, <3>3
    <2> QED
      BY <1>1, <2>1, StepCarried
  <1>3. Talk(t, S) = <<>>
    BY <1>1 DEF Unspoken
  <1> QED
    BY <1>2, <1>3 DEF Carried

LEMMA NothingEnds ==
    ASSUME NEW S, NEW q \in Seq(S)
    PROVE  OneEndsOther(<<>>, q) /\ OneEndsOther(q, <<>>)
  <1>1. <<>> \in Seq(S) /\ q \o <<>> = q
    BY ConcatEmptySeq
  <1>2. IsSuffix(<<>>, q \o <<>>)
    BY <1>1, SuffixConcat
  <1> QED
    BY <1>1, <1>2 DEF OneEndsOther

LEMMA AgreedKept ==
    ASSUME Ground, Ground', Names, ExclusiveNames, Talks, [AppNext]_appVars
    PROVE  Agreed'
  <1> SUFFICES ASSUME NEW s \in Session, NEW t \in Session, s # t,
                      Member(s)', Member(t)',
                      NEW S, S = Between(username'[s], username'[t])
               PROVE  OneEndsOther(View(privateMessages'[s], toClient'[s], S),
                                   View(privateMessages'[t], toClient'[t], S))
    BY DEF Agreed, Talk
  <1>0. TypeOK /\ StateTypeOK /\ TypeOK' /\ StateTypeOK'
    BY DEF Ground
  <1>1. S \in SUBSET Private
    BY DEF Between
  <1>2. \A x \in Session : View(privateMessages'[x], toClient'[x], S) \in Seq(S)
    <2> TAKE x \in Session
    <2>1. PICK screen \in Seq(Shown), q \in Seq(Raw) :
            screen = privateMessages'[x] /\ q = toClient'[x]
      BY <1>0 DEF StateTypeOK, TypeOK, ConnTypeOK
    <2>2. View(screen, q, S) \in Seq(S)
      BY ViewSplits
    <2> QED
      BY <2>1, <2>2
  <1>3. ASSUME NEW x \in Session, Member(x)', HandleConnect(x), Asking(x)
        PROVE  View(privateMessages'[x], toClient'[x], S) = <<>>
    BY <1>1, <1>3, NewcomerHearsNothing DEF Talks
  <1>4. CASE HandleConnect(s) /\ Asking(s)
    BY <1>2, <1>3, <1>4, NothingEnds
  <1>5. CASE HandleConnect(t) /\ Asking(t)
    BY <1>2, <1>3, <1>5, NothingEnds
  <1>6. CASE /\ Member(s) /\ username'[s] = username[s]
             /\ Member(t) /\ username'[t] = username[t]
    <2>1. S = Between(username[s], username[t])
      BY <1>6
    <2>2. OneEndsOther(Talk(s, S), Talk(t, S))
      BY <1>6, <2>1 DEF Talks, Agreed
    <2>3. CASE Carried(s) /\ Carried(t)
      <3>1. /\ View(privateMessages'[s], toClient'[s], S) = Talk(s, S)
            /\ View(privateMessages'[t], toClient'[t], S) = Talk(t, S)
        BY <1>1, <2>3 DEF Carried
      <3> QED
        BY <2>2, <3>1
    <2>4. ASSUME NEW y \in Session, HandleFrame(y), HandlePrivateMessage(y),
                 UNCHANGED stateVars
          PROVE  OneEndsOther(View(privateMessages'[s], toClient'[s], S),
                              View(privateMessages'[t], toClient'[t], S))
      BY <1>6, <2>1, <2>2, <2>4, PrivateAgrees DEF Talks
    <2> QED
      BY <2>3, <2>4, MemberSteps, StepCarried
  <1> QED
    BY <1>4, <1>5, <1>6, MemberSteps

-----------------------------------------------------------------------------
LEMMA TalksHold ==
    ExclusiveNames /\ EscapedNames = {} => (AppSpec => []Talks)
  <1> SUFFICES ASSUME ExclusiveNames, EscapedNames = {} PROVE AppSpec => []Talks
    OBVIOUS
  <1>1. AppInit => Talks
    <2> SUFFICES ASSUME AppInit PROVE Talks
      OBVIOUS
    <2>1. \A s \in Session : toServer[s] = <<>> /\ ~linkUp[s]
      BY DEF AppInit, Init, ConnInit
    <2>2. \A s \in Session : privateMessages[s] = <<>>
      BY DEF AppInit, StateInit
    <2> QED
      BY <2>1, <2>2 DEF Talks, Authored, Unopened, Unspoken, Agreed, Member, Served
  <1>2. ASSUME Ground, Ground', Names, Talks, [AppNext]_appVars
        PROVE  Talks'
    <2>1. Authored' /\ Unopened' /\ Unspoken'
      BY <1>2, AuthoredKept, UnopenedKept, UnspokenKept DEF Talks, Ground
    <2>2. Agreed'
      BY <1>2, AgreedKept
    <2> QED
      BY <2>1, <2>2 DEF Talks
  <1>3. AppSpec => []Names
    BY ApplicationIsSystem, NamesHold, PTL
  <1> QED
    BY <1>1, <1>2, <1>3, GroundHolds, PTL DEF AppSpec

(* If names are exclusive in time and none is read as another, two people  *)
(* who are both connected see one conversation once what is on its way has *)
(* arrived: whichever of them                                              *)
(* came later sees the end of what the other one sees, in the same order,  *)
(* whatever both write at the same time and whoever else breaks off.       *)
THEOREM ConversationsSame ==
    ExclusiveNames /\ EscapedNames = {} => (AppSpec => []ConversationsAgree)
  <1> SUFFICES ASSUME ExclusiveNames, EscapedNames = {}
               PROVE  AppSpec => []ConversationsAgree
    OBVIOUS
  <1>1. ASSUME Ground, Names, Talks
        PROVE  ConversationsAgree
    <2> SUFFICES ASSUME NEW s \in Session, NEW t \in Session, Member(s), Member(t)
                 PROVE  OneEndsOther(Conversation(s, username[t]),
                                     Conversation(t, username[s]))
      BY DEF ConversationsAgree, OneEndsOther
    <2>1. username[s] = currentUser[s] /\ username[t] = currentUser[t]
      BY <1>1 DEF Names, NamedAs, Member
    <2>2. PICK S : S = Between(username[s], username[t])
      OBVIOUS
    <2>3. PrivatelySaid(s, username[t]) = S /\ PrivatelySaid(t, username[s]) = S
      BY <2>1, <2>2 DEF PrivatelySaid, Between, Private, isPrivateWith
    <2>4. /\ Conversation(s, username[t]) = Talk(s, S)
          /\ Conversation(t, username[s]) = Talk(t, S)
      BY <2>3 DEF Conversation, Talk, View
    <2>5. CASE s = t
      <3>1. PICK q \in Seq(S) : q = Talk(s, S)
        BY <1>1, TalkType DEF Ground
      <3>2. <<>> \in Seq(S) /\ <<>> \o q = q
        BY ConcatEmptySeq
      <3>3. IsSuffix(q, <<>> \o q)
        BY <3>2, SuffixConcat
      <3> QED
        BY <2>4, <2>5, <3>1, <3>2, <3>3 DEF OneEndsOther
    <2>6. CASE s # t
      BY <1>1, <2>2, <2>4, <2>6 DEF Talks, Agreed
    <2> QED
      BY <2>5, <2>6
  <1>2. AppSpec => []Names
    BY ApplicationIsSystem, NamesHold, PTL
  <1> QED
    BY <1>1, <1>2, GroundHolds, TalksHold, PTL
=============================================================================
