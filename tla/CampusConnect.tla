---------------------------- MODULE CampusConnect ----------------------------
(***************************************************************************)
(* The whole application: ChatSystem, with what every client shows.  Each  *)
(* step is a step of ChatSystem; the step in which a client takes a frame  *)
(* also runs the receiving half of its ChatController.                     *)
(***************************************************************************)
EXTENDS ChatSystem, ChatState, SequencesExt

appVars == <<vars, stateVars>>

AppTypeOK == TypeOK /\ StateTypeOK

AppInit == Init /\ StateInit

Show(s) ==
    /\ Receive(s)
    /\ ShowFrame(s, Head(toClient[s]))

\* Every step of ChatSystem but the one Show completes.
Elsewhere ==
    /\ \/ \E s \in Session :
            \/ \E u \in Name : Connect(s, u)
            \/ Operate(s)
            \/ ServerStep(s)
            \/ Break(s)
            \/ LoseWrite(s)
       \/ Crash
    /\ UNCHANGED stateVars

AppNext == (\E s \in Session : Show(s)) \/ Elsewhere

AppSpec == AppInit /\ [][AppNext]_appVars

-----------------------------------------------------------------------------
(* What a client shows when everything on its way has arrived.             *)

Parsed(frames) == [i \in DOMAIN frames |-> fromJson(frames[i])]

\* The messages of type t, without the links to files.
Said(t) == [ type    : {t},
             sender  : Name \cup {Empty},
             target  : Name \cup {Empty},
             groupId : Group \cup {Empty},
             content : {"", "typing", "stopped"},
             id      : Nat,
             users   : SUBSET Name ]

PrivatelySaid(s, u) == { m \in Said("PrivateMessage") : isPrivateWith(s, u, m) }

SaidIn(g) == { m \in Said("GroupMessage") : m.groupId = g }

\* The elements of q that are in S, in their order.
Kept(q, S) ==
    LET kept[n \in 0 .. Len(q)] ==
          IF n = 0 THEN <<>>
          ELSE IF q[n] \in S THEN Append(kept[n - 1], q[n])
          ELSE kept[n - 1]
    IN  kept[Len(q)]

PublicView(s) ==
    Kept(publicMessages[s] \o Parsed(toClient[s]), Said("PublicMessage"))

GroupView(s, g) ==
    Kept(groupMessages[s] \o Parsed(toClient[s]), SaidIn(g))

Conversation(s, u) ==
    Kept(privateMessages[s] \o Parsed(toClient[s]), PrivatelySaid(s, u))

UserListView(s) ==
    LET lists == Kept(Parsed(toClient[s]), Said("UserList")) IN
    IF lists = <<>> THEN onlineUsers[s] ELSE Last(lists).users

\* The server serves s and has read its connect frame.
Member(s) == Served(s) /\ username[s] # Empty

Registered == { u \in Name : users[u] # NoSession }

(* Every connected client shows the whole public history in the server's   *)
(* order, once what is on its way has arrived.  Only before it may there   *)
(* be messages twice: a session is among the clients from the moment it    *)
(* is accepted, and gets what is said then again with the history.         *)
PublicViewComplete ==
    \A s \in Session : Member(s) => IsSuffix(Parsed(publicHistory), PublicView(s))

(* The same for a group, after each join: an echo, the whole history as    *)
(* the server has it, then everything said since, with nothing lost        *)
(* between the two and all of it kept by the window.                       *)
GroupViewComplete ==
    \A s \in Session, g \in Group :
        Served(s) /\ s \in groups[g] =>
            IsSuffix(Parsed(groupHistory[g]), GroupView(s, g))

(* The last user list a connected client has, or is about to get, names    *)
(* exactly those whom a private message can reach.                         *)
UserListFresh ==
    \A s \in Session : Member(s) => UserListView(s) = Registered

(* Two people who are both connected see one conversation: whichever of    *)
(* them has been connected for less long sees the end of what the other    *)
(* one sees, in the same order, although both write at the same time.      *)
ConversationsAgree ==
    \A s, t \in Session :
        Member(s) /\ Member(t) =>
            LET ofS == Conversation(s, username[t])
                ofT == Conversation(t, username[s])
            IN  IsSuffix(ofS, ofT) \/ IsSuffix(ofT, ofS)

(* A file that a client shows has every chunk of the one that was sent,    *)
(* however the transfers of several people overlap and whoever comes or    *)
(* goes meanwhile.  Nothing checks it: the size in the start message is    *)
(* never compared with what was written.                                   *)
CompletedAttachmentIsWhole ==
    \A s \in Session : \A file \in receivedFiles[s] : file.written = Chunks
=============================================================================
