------------------------------ MODULE ChatSystem ------------------------------
(***************************************************************************)
(* The server and its clients together: ServerController and one           *)
(* ChatController for each session, over the links of Connection.  What    *)
(* the clients display is left to CampusConnect; here are the server's     *)
(* registers, its histories and their files, and what the clients do to    *)
(* them in every order that links, failed writes and restarts allow.       *)
(***************************************************************************)
EXTENDS ServerController, ChatController

CONSTANTS
    ExclusiveNames,  \* TRUE: people reuse a name only once its old session
                     \* is gone from the server; the server checks nothing
    MaxRestarts,     \* bound: crashes of the server
    MaxBreaks,       \* bound: links that break while the server runs
    MaxBacklog       \* bound: frames a linked client may have left unread
                     \* when the server runs its next handler

ASSUME ExclusiveNamesAssumption == ExclusiveNames \in BOOLEAN
ASSUME BoundsAssumption == {MaxRestarts, MaxBreaks, MaxBacklog} \subseteq Nat

VARIABLES restarts, breaks

vars == <<connVars, serverVars, controllerVars, restarts, breaks>>

TypeOK ==
    /\ ConnTypeOK
    /\ ServerTypeOK
    /\ ControllerTypeOK
    /\ restarts \in Nat
    /\ breaks \in Nat

Init ==
    /\ ConnInit
    /\ ServerInit
    /\ ControllerInit
    /\ restarts = 0
    /\ breaks = 0

-----------------------------------------------------------------------------
Gone(s) == session[s] = "retired" /\ failing[s] = 0

Connect(s, u) ==
    /\ ExclusiveNames => \A t \in Session : currentUser[t] = u => Gone(t)
    /\ ConnectUser(s, u)
    /\ UNCHANGED <<serverVars, restarts, breaks>>

Operate(s) ==
    /\ UserStep(s)
    /\ UNCHANGED <<serverVars, restarts, breaks>>

Receive(s) ==
    /\ ReceiveFrame(s)
    /\ UNCHANGED <<serverVars, restarts, breaks>>

BacklogBounded ==
    \A s \in Session : linkUp[s] => Len(toClient[s]) <= MaxBacklog

ServerStep(s) ==
    /\ BacklogBounded
    /\ \/ Accept(s)
       \/ HandleFrame(s)
       \/ ReadError(s)
       \/ WriteError(s)
    /\ UNCHANGED <<controllerVars, restarts, breaks>>

Break(s) ==
    /\ breaks < MaxBreaks
    /\ breaks' = breaks + 1
    /\ Disconnect(s)
    /\ UNCHANGED <<serverVars, controllerVars, restarts>>

LoseWrite(s) ==
    /\ WriteLost(s)
    /\ UNCHANGED <<serverVars, controllerVars, restarts, breaks>>

Crash ==
    /\ restarts < MaxRestarts
    /\ restarts' = restarts + 1
    /\ Restart
    /\ UNCHANGED <<controllerVars, breaks>>

Next ==
    \/ \E s \in Session :
         \/ \E u \in Name : Connect(s, u)
         \/ Operate(s)
         \/ Receive(s)
         \/ ServerStep(s)
         \/ Break(s)
         \/ LoseWrite(s)
    \/ Crash

Spec == Init /\ [][Next]_vars

-----------------------------------------------------------------------------
(* What the properties speak of.                                           *)

\* The requests for membership in g among frames.
IsJoin(raw, g) ==
    /\ raw.type \in {"create_group", "join_group"}
    /\ raw.groupId = g

\* The server still serves s: the link is up and its read loop runs.
Served(s) == linkUp[s] /\ session[s] = "active"

(* A session whose read loop has ended is in no container of the server,   *)
(* whatever write completions came before or are still to come: nothing is *)
(* ever routed to a dead connection for good.  Against removeClient being  *)
(* run by reads, writes and handlers of one session in any order.          *)
NoDangling ==
    \A s \in Session : session[s] = "retired" =>
        /\ s \notin clients
        /\ \A u \in Name : users[u] # s
        /\ \A g \in Group : s \notin groups[g]

(* A join after a restart, a message to a group nobody has loaded, a       *)
(* reload: in every order the histories the server replays are the files   *)
(* it would reload, so a restart loses and repeats nothing.  The code      *)
(* relies on its clients here: GroupMessage never loads the file.          *)
HistoryOnDisk ==
    /\ publicHistory = publicFile
    /\ \A g \in loadedGroups : groupHistory[g] = groupFile[g]

(* Whoever the server serves and the window calls a member of g is in the  *)
(* server's group, or the request is on its way: a member misses nothing   *)
(* that is said after its request has been read.                           *)
MembersAreRouted ==
    \A s \in Session, g \in Group :
        Served(s) /\ g \in joinedGroups[s] =>
            \/ s \in groups[g]
            \/ \E i \in 1 .. Len(toServer[s]) : IsJoin(toServer[s][i], g)

(* The server knows each client it serves, once its first frame has been   *)
(* read, under the name the client shows its user.                         *)
SessionKnowsItsUser ==
    \A s \in Session :
        Served(s) /\ toServer[s] = <<>> => username[s] = currentUser[s]

(* A connected client is registered under its name: it is in the user list *)
(* and gets the private messages for that name.  removeClient erases a     *)
(* name without asking whose session holds it, so this needs names to be   *)
(* exclusive in time.                                                      *)
OnlineSessionsListed ==
    \A s \in Session :
        Served(s) /\ username[s] # Empty => users[username[s]] = s

(* A chunk always finds its route: a binary frame on its way is behind its *)
(* own start message, or the server has the route already, however other   *)
(* transfers and other sessions end meanwhile.  The chunk itself names     *)
(* neither sender nor target, and without a route it is dropped.           *)
ChunksHaveRoute ==
    \A s \in Session : \A i \in 1 .. Len(toServer[s]) :
        (Served(s) /\ toServer[s][i].type = "binary") =>
            \/ \E r \in routes : fileId(r) = fileId(toServer[s][i])
            \/ \E j \in 1 .. i - 1 :
                 /\ toServer[s][j].type = "attachment_start"
                 /\ fileId(toServer[s][j]) = fileId(toServer[s][i])
=============================================================================
