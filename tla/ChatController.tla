---------------------------- MODULE ChatController ----------------------------
(***************************************************************************)
(* The sending half of logic/ChatController.cpp and of the windows that    *)
(* call it: which frames each operation of the user writes, in which       *)
(* order, and under which checks.  One client process for each session,    *)
(* with the two parts of its ChatState the checks read: currentUser and    *)
(* joinedGroups.                                                           *)
(*                                                                         *)
(* Every operation returns true once its checks pass; whether the socket   *)
(* is still connected is not among them (SendFrames drops the frames).     *)
(*                                                                         *)
(* Of each operation one "stopped" frame is kept.  The windows repeat it   *)
(* after a message and on selecting a group; the server keeps nothing of   *)
(* it, and what the windows show of it is left to a model of its own.      *)
(***************************************************************************)
EXTENDS Connection

CONSTANTS Operations,       \* the kinds of operation the users perform
          Chunks,           \* 32 KB chunks in an attached file
          MaxOps            \* bound: operations of all users together

OperationKinds == {"public", "private", "group", "typing", "attachment"}

ASSUME OperationsAssumption == Operations \subseteq OperationKinds
ASSUME ChunksAssumption == Chunks \in Nat \ {0}
ASSUME MaxOpsAssumption == MaxOps \in Nat

VARIABLES
    currentUser,    \* ChatState::currentUser, "" before connectUser
    joinedGroups,   \* ChatState::joinedGroups
    ops             \* operations so far: the next text, or the clock

controllerVars == <<currentUser, joinedGroups, ops>>

ControllerTypeOK ==
    /\ currentUser  \in [Session -> Name \cup {Empty}]
    /\ joinedGroups \in [Session -> SUBSET Group]
    /\ ops          \in Nat

ControllerInit ==
    /\ currentUser  = [s \in Session |-> Empty]
    /\ joinedGroups = [s \in Session |-> {}]
    /\ ops          = 0

-----------------------------------------------------------------------------
(* connectUser: TcpNetworkClient::connectToServer connects and writes the  *)
(* connect frame, then the name is kept.                                   *)
ConnectUser(s, u) ==
    /\ session[s] = "none"
    /\ session'     = [session EXCEPT ![s] = "pending"]
    /\ linkUp'      = [linkUp EXCEPT ![s] = TRUE]
    /\ \E raw \in connectMessage(u) :
         toServer' = [toServer EXCEPT ![s] = <<raw>>]
    /\ currentUser' = [currentUser EXCEPT ![s] = u]
    /\ UNCHANGED <<failing, toClient, joinedGroups, ops>>

\* One operation of a connected user, writing the given frames.
Operation(s, kind, frames) ==
    /\ kind \in Operations
    /\ ops < MaxOps
    /\ currentUser[s] # Empty
    /\ ops' = ops + 1
    /\ SendFrames(s, frames)
    /\ UNCHANGED <<session, linkUp, failing, toClient, currentUser>>

typingFrame(s, to, g, word) ==
    toJson(NewMessage("Typing", currentUser[s], to, g, word, 0, {}))

textFrame(s, t, to, g) ==
    toJson(NewMessage(t, currentUser[s], to, g, "", ops + 1, {}))

sendPublicMessage(s) ==
    /\ Operation(s, "public", << typingFrame(s, Empty, Empty, "stopped"),
                                 textFrame(s, "PublicMessage", Empty, Empty) >>)
    /\ UNCHANGED joinedGroups

\* The user list opens no private window with oneself.
sendPrivateMessage(s, u) ==
    /\ u # currentUser[s]
    /\ Operation(s, "private", << typingFrame(s, u, Empty, "stopped"),
                                  textFrame(s, "PrivateMessage", u, Empty) >>)
    /\ UNCHANGED joinedGroups

(* GroupWindow::onCreateClicked and onJoinClicked: the request, and at     *)
(* once ChatState::joinGroup, without waiting for the server's echo.       *)
createGroup(s, g) ==
    /\ Operation(s, "group", << textFrame(s, "CreateGroup", Empty, g) >>)
    /\ joinedGroups' = [joinedGroups EXCEPT ![s] = @ \cup {g}]

joinGroup(s, g) ==
    /\ Operation(s, "group", << textFrame(s, "JoinGroup", Empty, g) >>)
    /\ joinedGroups' = [joinedGroups EXCEPT ![s] = @ \cup {g}]

sendGroupMessage(s, g) ==
    /\ g \in joinedGroups[s]
    /\ Operation(s, "group", << typingFrame(s, Empty, g, "stopped"),
                                textFrame(s, "GroupMessage", Empty, g) >>)
    /\ UNCHANGED joinedGroups

(* The text of an input field changed, or another group was selected.  No  *)
(* window calls sendPrivateTypingStatus; its only frame is the "stopped"   *)
(* of sendPrivateMessage.                                                  *)
sendTypingStatus(s, word) ==
    /\ Operation(s, "typing", << typingFrame(s, Empty, Empty, word) >>)
    /\ UNCHANGED joinedGroups

sendGroupTypingStatus(s, g, word) ==
    /\ "group" \in Operations
    /\ g \in joinedGroups[s]
    /\ Operation(s, "typing", << typingFrame(s, Empty, g, word) >>)
    /\ UNCHANGED joinedGroups

(* sendAttachmentFile, with its three callers: the whole file is written   *)
(* in one call, between a start and an end message.                        *)
attachmentFrames(s, to, g) ==
    << textFrame(s, "AttachmentStart", to, g) >>
    \o [ c \in 1 .. Chunks |-> chunkPacket(currentUser[s], ops + 1) ]
    \o << textFrame(s, "AttachmentEnd", to, g) >>

sendPublicAttachment(s) ==
    /\ "public" \in Operations
    /\ Operation(s, "attachment", attachmentFrames(s, Empty, Empty))
    /\ UNCHANGED joinedGroups

sendPrivateAttachment(s, u) ==
    /\ "private" \in Operations
    /\ u # currentUser[s]
    /\ Operation(s, "attachment", attachmentFrames(s, u, Empty))
    /\ UNCHANGED joinedGroups

sendGroupAttachment(s, g) ==
    /\ g \in joinedGroups[s]
    /\ Operation(s, "attachment", attachmentFrames(s, Empty, g))
    /\ UNCHANGED joinedGroups

UserStep(s) ==
    \/ sendPublicMessage(s)
    \/ sendPublicAttachment(s)
    \/ \E word \in {"typing", "stopped"} : sendTypingStatus(s, word)
    \/ \E u \in Name : \/ sendPrivateMessage(s, u)
                       \/ sendPrivateAttachment(s, u)
    \/ \E g \in Group : \/ createGroup(s, g)
                        \/ joinGroup(s, g)
                        \/ sendGroupMessage(s, g)
                        \/ sendGroupAttachment(s, g)
                        \/ \E word \in {"typing", "stopped"} :
                             sendGroupTypingStatus(s, g, word)

-----------------------------------------------------------------------------
(* handleIncomingMessage and handleIncomingBinary, as far as the sending   *)
(* half sees them: the echo of a request makes the user a member (again).  *)
ReceiveFrame(s) ==
    LET raw == Head(toClient[s]) IN
    /\ TakeFrame(s)
    /\ joinedGroups' =
         IF /\ fromJson(raw).type \in {"CreateGroup", "JoinGroup"}
            /\ raw.groupId # Empty
           THEN [joinedGroups EXCEPT ![s] = @ \cup {raw.groupId}]
           ELSE joinedGroups
    /\ UNCHANGED <<session, linkUp, failing, toServer, currentUser, ops>>
=============================================================================
