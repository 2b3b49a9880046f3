------------------------------- MODULE ChatState -------------------------------
(***************************************************************************)
(* What each client shows: logic/ChatState.cpp, and the receiving half of  *)
(* logic/ChatController.cpp that fills it.  The windows only read it, by   *)
(* a timer, so a frame is shown when its handler has run.                  *)
(*                                                                         *)
(* The typing users are left to a model of their own.  What the operating  *)
(* system may refuse a client is the file of an incoming attachment; that  *)
(* a write to an open file fails, which the code does not notice, is left  *)
(* out.                                                                    *)
(***************************************************************************)
EXTENDS ChatController, FiniteSets

VARIABLES
    publicMessages, privateMessages, groupMessages,
    onlineUsers,
    incomingAttachments,    \* the files that are open, with their chunks
    receivedFiles           \* the files that have been closed and shown

stateVars == <<publicMessages, privateMessages, groupMessages, onlineUsers,
               incomingAttachments, receivedFiles>>

\* A message on the screen; of an attachment, "file" stands for its link.
Shown == [ type    : {"PublicMessage", "PrivateMessage", "GroupMessage"},
           sender  : Name \cup {Empty},
           target  : Name \cup {Empty},
           groupId : Group \cup {Empty},
           content : {"", "typing", "stopped", "file"},
           id      : Nat,
           users   : SUBSET Name ]

ReceivedFile == [ start : Raw, written : Nat ]

StateTypeOK ==
    /\ publicMessages  \in [Session -> Seq(Shown)]
    /\ privateMessages \in [Session -> Seq(Shown)]
    /\ groupMessages   \in [Session -> Seq(Shown)]
    /\ onlineUsers     \in [Session -> SUBSET Name]
    /\ incomingAttachments \in [Session -> SUBSET ReceivedFile]
    /\ receivedFiles       \in [Session -> SUBSET ReceivedFile]

StateInit ==
    /\ publicMessages      = [s \in Session |-> <<>>]
    /\ privateMessages     = [s \in Session |-> <<>>]
    /\ groupMessages       = [s \in Session |-> <<>>]
    /\ onlineUsers         = [s \in Session |-> {}]
    /\ incomingAttachments = [s \in Session |-> {}]
    /\ receivedFiles       = [s \in Session |-> {}]

-----------------------------------------------------------------------------
addPublicMessage(s, m) ==
    /\ publicMessages' = [publicMessages EXCEPT ![s] = Append(@, m)]
    /\ UNCHANGED <<privateMessages, groupMessages>>

addPrivateMessage(s, m) ==
    /\ privateMessages' = [privateMessages EXCEPT ![s] = Append(@, m)]
    /\ UNCHANGED <<publicMessages, groupMessages>>

\* Faulty: what one has said oneself is taken to be there already.
addGroupMessageOfOthers(s, m) ==
    /\ groupMessages' = IF /\ m.groupId \in joinedGroups[s]
                           /\ m.sender # currentUser[s]
                          THEN [groupMessages EXCEPT ![s] = Append(@, m)]
                          ELSE groupMessages
    /\ UNCHANGED <<publicMessages, privateMessages>>

\* Only what is said in a group one has joined is kept.
addGroupMessage(s, m) ==
    /\ groupMessages' = IF m.groupId \in joinedGroups[s]
                          THEN [groupMessages EXCEPT ![s] = Append(@, m)]
                          ELSE groupMessages
    /\ UNCHANGED <<publicMessages, privateMessages>>

isPrivateWith(s, u, m) ==
    \/ m.sender = u /\ m.target = currentUser[s]
    \/ m.sender = currentUser[s] /\ m.target = u

-----------------------------------------------------------------------------
(* handleIncomingMessage and handleIncomingBinary.                         *)

\* The entries of incomingAttachments that the frame speaks of: one or none.
Incoming(s, raw) ==
    { file \in incomingAttachments[s] : fileId(file.start) = fileId(raw) }

addMessage(s, m) ==
    \/ m.type = "PublicMessage"  /\ addPublicMessage(s, m)
    \/ m.type = "PrivateMessage" /\ addPrivateMessage(s, m)
    \/ m.type = "GroupMessage"   /\ addGroupMessage(s, m)

ShowMessage(s, m) ==
    /\ addMessage(s, m)
    /\ UNCHANGED <<onlineUsers, incomingAttachments, receivedFiles>>

setOnlineUsers(s, m) ==
    /\ m.type = "UserList"
    /\ onlineUsers' = [onlineUsers EXCEPT ![s] = m.users]
    /\ UNCHANGED <<publicMessages, privateMessages, groupMessages,
                   incomingAttachments, receivedFiles>>

openFile(s, raw) ==
    incomingAttachments' = [incomingAttachments EXCEPT
                              ![s] = (@ \ Incoming(s, raw))
                                       \cup {[start |-> raw, written |-> 0]}]

(* The start message opens a file under a name that is still free.  If it  *)
(* cannot be opened, its chunks and its end will find no entry.            *)
startIncomingAttachment(s, raw) ==
    /\ fromJson(raw).type = "AttachmentStart"
    /\ openFile(s, raw) \/ UNCHANGED incomingAttachments
    /\ UNCHANGED <<publicMessages, privateMessages, groupMessages,
                   onlineUsers, receivedFiles>>

writeChunk(s, raw) ==
    /\ raw.type = "binary"
    /\ incomingAttachments' = [incomingAttachments EXCEPT
          ![s] = (@ \ Incoming(s, raw))
                   \cup { [file EXCEPT !.written = @ + 1] :
                            file \in Incoming(s, raw) }]
    /\ UNCHANGED <<publicMessages, privateMessages, groupMessages,
                   onlineUsers, receivedFiles>>

\* The link to a file, as a message of its sender to the same audience.
fileLink(start) ==
    LET to(t) == [start EXCEPT !.type = t, !.content = "file"] IN
    IF start.groupId # Empty     THEN to("GroupMessage")
    ELSE IF start.target # Empty THEN to("PrivateMessage")
    ELSE to("PublicMessage")

finishIncomingAttachment(s, raw) ==
    /\ fromJson(raw).type = "AttachmentEnd"
    /\ IF Incoming(s, raw) = {}
         THEN UNCHANGED stateVars
         ELSE \E file \in Incoming(s, raw) :
                /\ incomingAttachments' =
                     [incomingAttachments EXCEPT ![s] = @ \ {file}]
                /\ receivedFiles' = [receivedFiles EXCEPT ![s] = @ \cup {file}]
                /\ addMessage(s, fileLink(file.start))
                /\ UNCHANGED onlineUsers

Ignored == {"Connect", "CreateGroup", "JoinGroup", "Typing", "ConnectAck",
            "Error", "History", "AIRequest", "AIResponse", "Unknown"}

\* What the frame shows; the groups it joins are ChatController's.
ShowFrame(s, raw) ==
    \/ writeChunk(s, raw)
    \/ /\ raw.type # "binary"
       /\ \/ ShowMessage(s, fromJson(raw))
          \/ setOnlineUsers(s, fromJson(raw))
          \/ startIncomingAttachment(s, raw)
          \/ finishIncomingAttachment(s, raw)
          \/ fromJson(raw).type \in Ignored /\ UNCHANGED stateVars
=============================================================================
