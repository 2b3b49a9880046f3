----------------------------- MODULE TypingStatus -----------------------------
(***************************************************************************)
(* Who is shown as typing: the text fields of ChatWindow.cpp and           *)
(* GroupWindow.cpp, the selector of groups, the typing users of            *)
(* ChatState.cpp, and every "stopped" frame the windows write, over the    *)
(* server and the links of ChatSystem.  A message of the same sender       *)
(* clears the mark as well; an attachment does too, and is left out.  The  *)
(* private window neither shows nor announces who types.                   *)
(*                                                                         *)
(* A field keeps its text when its user selects another group, and a       *)
(* group window that is closed takes the text with it, without a word to   *)
(* anybody.  A client has one chat window and at most one group window.    *)
(***************************************************************************)
EXTENDS ChatSystem, SequencesExt

VARIABLES
    publicDraft,    \* there is text in the field of the chat window
    groupWindow,    \* the group window is open
    groupDraft,     \* there is text in its field
    groupSelector,  \* the items of its selector, in their order, which is
                    \* that of ChatState::joinedGroups
    selected,       \* the one that is selected
    publicTyping,   \* publicTypingUsers
    groupTyping,    \* groupTypingUsers
    leftTyping      \* history: groups left in the middle of a text

fieldVars  == <<publicDraft, groupWindow, groupDraft, groupSelector, selected,
                leftTyping>>
typingVars == <<vars, fieldVars, publicTyping, groupTyping>>

TypingTypeOK ==
    /\ TypeOK
    /\ publicDraft   \in [Session -> BOOLEAN]
    /\ groupWindow   \in [Session -> BOOLEAN]
    /\ groupDraft    \in [Session -> BOOLEAN]
    /\ groupSelector \in [Session -> Seq(Group)]
    /\ \A s \in Session : IsInjective(groupSelector[s])
    /\ selected      \in [Session -> Group \cup {Empty}]
    /\ publicTyping  \in [Session -> SUBSET Name]
    /\ groupTyping   \in [Session -> [Group -> SUBSET Name]]
    /\ leftTyping    \in [Session -> SUBSET Group]

TypingInit ==
    /\ Init
    /\ publicDraft   = [s \in Session |-> FALSE]
    /\ groupWindow   = [s \in Session |-> FALSE]
    /\ groupDraft    = [s \in Session |-> FALSE]
    /\ groupSelector = [s \in Session |-> <<>>]
    /\ selected      = [s \in Session |-> Empty]
    /\ publicTyping  = [s \in Session |-> {}]
    /\ groupTyping   = [s \in Session |-> [g \in Group |-> {}]]
    /\ leftTyping    = [s \in Session |-> {}]

-----------------------------------------------------------------------------
(* The chat window.                                                        *)

Word(text) == IF text THEN "typing" ELSE "stopped"

publicStatus(s, text) == typingFrame(s, Empty, Empty, Word(text))

Types(s, frames) ==
    /\ Operation(s, "typing", frames)
    /\ UNCHANGED <<joinedGroups, publicTyping, groupTyping>>

\* textChanged of messageInput: the text after a change is empty or not.
editMessageInput(s, text) ==
    /\ publicDraft[s] \/ text
    /\ Types(s, <<publicStatus(s, text)>>)
    /\ publicDraft' = [publicDraft EXCEPT ![s] = text]
    /\ UNCHANGED <<groupWindow, groupDraft, groupSelector, selected,
                   leftTyping>>

\* sendTextMessage, with sendPublicMessage in it, and the field is cleared.
sendPublicText(s) ==
    /\ publicDraft[s]
    /\ Types(s, << publicStatus(s, FALSE),
                   textFrame(s, "PublicMessage", Empty, Empty),
                   publicStatus(s, FALSE), publicStatus(s, FALSE) >>)
    /\ publicDraft' = [publicDraft EXCEPT ![s] = FALSE]
    /\ UNCHANGED <<groupWindow, groupDraft, groupSelector, selected,
                   leftTyping>>

-----------------------------------------------------------------------------
(* The group window, whose actions need it open.                           *)

groupStatus(s, g, text) == typingFrame(s, Empty, g, Word(text))

\* Faulty: nobody looks whether a group is selected.
SelectedToldAlways(s, text) == <<groupStatus(s, selected[s], text)>>

\* Faulty: an empty field is not worth a frame.
SelectedToldOfText(s, text) ==
    IF selected[s] # Empty /\ text THEN <<groupStatus(s, selected[s], text)>>
                                   ELSE <<>>

SelectedTold(s, text) ==
    IF selected[s] # Empty THEN <<groupStatus(s, selected[s], text)>>
                           ELSE <<>>

\* textChanged of groupMessageInput.
editGroupMessageInput(s, text) ==
    /\ groupWindow[s]
    /\ groupDraft[s] \/ text
    /\ Types(s, SelectedTold(s, text))
    /\ groupDraft' = [groupDraft EXCEPT ![s] = text]
    /\ UNCHANGED <<publicDraft, groupWindow, groupSelector, selected,
                   leftTyping>>

sendGroupText(s) ==
    LET g == selected[s] IN
    /\ groupWindow[s]
    /\ g # Empty
    /\ groupDraft[s]
    /\ Types(s, << groupStatus(s, g, FALSE), groupStatus(s, g, FALSE),
                   textFrame(s, "GroupMessage", Empty, g),
                   groupStatus(s, g, FALSE) >>)
    /\ groupDraft' = [groupDraft EXCEPT ![s] = FALSE]
    /\ UNCHANGED <<publicDraft, groupWindow, groupSelector, selected,
                   leftTyping>>

\* The group that is left in the middle of a text, if one is left now.
MidText(s) == IF groupDraft[s] THEN {selected[s]} \ {Empty} ELSE {}

(* currentTextChanged of groupSelector: each group that becomes the        *)
(* selected one, `told', hears "stopped"; the one that was, does not.      *)
Selects(s, told) ==
    /\ selected' = [selected EXCEPT ![s] = Last(told)]
    /\ leftTyping' =
         [leftTyping EXCEPT ![s] = (@ \cup MidText(s)) \ ToSet(told)]
    /\ UNCHANGED publicDraft

Stopped(s, told) == [i \in DOMAIN told |-> groupStatus(s, told[i], FALSE)]

selectGroup(s, g) ==
    /\ groupWindow[s]
    /\ g \in ToSet(groupSelector[s]) \ {selected[s]}
    /\ Types(s, Stopped(s, <<g>>))
    /\ Selects(s, <<g>>)
    /\ UNCHANGED <<groupWindow, groupDraft, groupSelector>>

\* Faulty: the name is not looked for.
withGroupAgain(items, g) == Append(items, g)

\* ChatState::joinGroup and refreshGroups: an item for each group joined.
withGroup(items, g) == IF g \in ToSet(items) THEN items ELSE Append(items, g)

(* refreshGroups, as the creation or the joining of g runs it: a new item   *)
(* makes the selector anew, whose first item is selected before g is.      *)
Reselected(s, g) ==
    LET items == withGroup(groupSelector[s], g) IN
    IF items = groupSelector[s]
      THEN IF selected[s] = g THEN <<>> ELSE <<g>>
      ELSE IF Head(items) = g THEN <<g>> ELSE <<Head(items), g>>

createOrJoin(s, t, g) ==
    LET told == Reselected(s, g) IN
    /\ groupWindow[s]
    /\ Operation(s, "group",
                 <<textFrame(s, t, Empty, g)>> \o Stopped(s, told))
    /\ joinedGroups' = [joinedGroups EXCEPT ![s] = @ \cup {g}]
    /\ groupSelector' = [groupSelector EXCEPT ![s] = withGroup(@, g)]
    /\ IF told = <<>> THEN UNCHANGED <<selected, leftTyping, publicDraft>>
                      ELSE Selects(s, told)
    /\ UNCHANGED <<groupWindow, groupDraft, publicTyping, groupTyping>>

\* The constructor fills the selector, whose first item becomes selected.
openGroupWindow(s) ==
    LET told == <<Head(groupSelector[s])>> IN
    /\ currentUser[s] # Empty
    /\ ~groupWindow[s]
    /\ groupWindow' = [groupWindow EXCEPT ![s] = TRUE]
    /\ \/ /\ groupSelector[s] # <<>>
          /\ Types(s, Stopped(s, told))
          /\ Selects(s, told)
       \/ /\ groupSelector[s] = <<>>
          /\ UNCHANGED <<connVars, controllerVars, publicDraft, selected,
                         leftTyping, publicTyping, groupTyping>>
    /\ UNCHANGED <<groupDraft, groupSelector>>

(* WA_DeleteOnClose: the window goes with its field and its selection, and *)
(* writes nothing; whoever saw its user typing goes on seeing it.          *)
closeGroupWindow(s) ==
    /\ groupWindow[s]
    /\ groupWindow' = [groupWindow EXCEPT ![s] = FALSE]
    /\ groupDraft' = [groupDraft EXCEPT ![s] = FALSE]
    /\ selected' = [selected EXCEPT ![s] = Empty]
    /\ leftTyping' = [leftTyping EXCEPT ![s] = @ \cup MidText(s)]
    /\ UNCHANGED <<connVars, controllerVars, publicDraft, groupSelector,
                   publicTyping, groupTyping>>

Edit(s) ==
    \/ \E text \in BOOLEAN : \/ editMessageInput(s, text)
                             \/ editGroupMessageInput(s, text)
    \/ sendPublicText(s)
    \/ sendGroupText(s)
    \/ \E g \in Group : \/ selectGroup(s, g)
                        \/ createOrJoin(s, "CreateGroup", g)
                        \/ createOrJoin(s, "JoinGroup", g)
    \/ openGroupWindow(s)
    \/ closeGroupWindow(s)

-----------------------------------------------------------------------------
(* What the receiving client shows.                                        *)

\* A mark for the user himself is ignored.
Marked(s, marked, u, isTyping) ==
    IF u \in {Empty, currentUser[s]} THEN marked
    ELSE IF isTyping THEN marked \cup {u} ELSE marked \ {u}

setPublicUserTyping(s, u, isTyping) ==
    /\ publicTyping' = [publicTyping EXCEPT ![s] = Marked(s, @, u, isTyping)]
    /\ UNCHANGED groupTyping

setGroupUserTyping(s, g, u, isTyping) ==
    /\ groupTyping' = [groupTyping EXCEPT ![s][g] = Marked(s, @, u, isTyping)]
    /\ UNCHANGED publicTyping

handleTyping(s, m) ==
    IF m.groupId # Empty
      THEN setGroupUserTyping(s, m.groupId, m.sender, m.content = "typing")
      ELSE setPublicUserTyping(s, m.sender, m.content = "typing")

ShowTyping(s) ==
    LET m == fromJson(Head(toClient[s])) IN
    /\ Receive(s)
    /\ \/ m.type = "Typing" /\ handleTyping(s, m)
       \/ m.type = "PublicMessage" /\ setPublicUserTyping(s, m.sender, FALSE)
       \/ /\ m.type = "GroupMessage"
          /\ setGroupUserTyping(s, m.groupId, m.sender, FALSE)
       \/ /\ m.type \notin {"Typing", "PublicMessage", "GroupMessage"}
          /\ UNCHANGED <<publicTyping, groupTyping>>
    /\ UNCHANGED fieldVars

\* Links do not break here: of whoever is cut off nothing is promised.
TypingNext ==
    \E s \in Session :
        \/ Edit(s) /\ UNCHANGED <<serverVars, restarts, breaks>>
        \/ ShowTyping(s)
        \/ /\ (\E u \in Name : Connect(s, u)) \/ ServerStep(s)
           /\ UNCHANGED <<fieldVars, publicTyping, groupTyping>>

TypingSpec == TypingInit /\ [][TypingNext]_typingVars

-----------------------------------------------------------------------------
\* The marks of t's user for the audience g, "" for all, that s will get.
OnItsWay(s, t, g) ==
    { raw \in ToSet(toServer[t]) \cup ToSet(toClient[s]) :
        raw.type = "typing" /\ raw.sender = currentUser[t] /\ raw.groupId = g }

\* Nobody else has ever used the name of t's user.
OnlyOne(t) ==
    \A r \in Session \ {t} : currentUser[r] # currentUser[t]

(* Whoever is shown as typing to all, has text in his field, or the news   *)
(* that he has not is on its way; however his edits and messages, the      *)
(* histories others are sent and his own reading of them come together.    *)
(* After a user has gone this fails: nothing clears his mark.              *)
TypingHasText ==
    \A s, t \in Session :
        ( /\ Served(s) /\ Served(t) /\ OnlyOne(t)
          /\ OnItsWay(s, t, Empty) = {} )
        => (currentUser[t] \in publicTyping[s] => publicDraft[t])

\* s shows t's user typing in g, and nothing that changes it is on its way.
ShownTyping(s, t, g) ==
    /\ Served(s) /\ Served(t) /\ OnlyOne(t)
    /\ OnItsWay(s, t, g) = {}
    /\ currentUser[t] \in groupTyping[s][g]

(* The same in a group, for the group that is selected in his window: on   *)
(* every change of it but the one that leaves a text unfinished, the mark  *)
(* goes.  What is left that way, by another choice or by closing the       *)
(* window, stays marked until the group is selected again.                 *)
GroupTypingHasText ==
    \A s, t \in Session, g \in Group :
        ShownTyping(s, t, g) =>
            \/ groupDraft[t] /\ selected[t] = g
            \/ g \in leftTyping[t]

(* The same without the exception: in no group is anybody shown as typing  *)
(* who has no text for it.  Another choice in the selector and the end of  *)
(* the window both leave a text without a word to the group it was for.    *)
GroupTypingOnlyWithText ==
    \A s, t \in Session, g \in Group :
        ShownTyping(s, t, g) => groupDraft[t] /\ selected[t] = g
=============================================================================
