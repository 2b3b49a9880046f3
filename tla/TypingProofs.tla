----------------------------- MODULE TypingProofs -----------------------------
(***************************************************************************)
(* Theorems of TypingStatus, for every set of sessions, names and groups.  *)
(*                                                                         *)
(* A mark goes from its sender's queue to the queues of those who may see  *)
(* it, and from there onto their screens.  The properties speak of the     *)
(* end, when nothing is on its way any more; the invariant (Agree) says of *)
(* each stage that the last mark on it tells the truth about the sender's  *)
(* field, if no later one is on a stage before it.                         *)
(***************************************************************************)
EXTENDS TypingStatus, ChatSystemProofs

Audiences == Group \cup {Empty}

\* Who gets the marks for an audience, and what a session shows of it.
Audience(g) == IF g = Empty THEN clients ELSE groups[g]

ShownIn(s, g) == IF g = Empty THEN publicTyping[s] ELSE groupTyping[s][g]

\* There is text of t's user for the audience g, or was when he left it.
Text(t, g) ==
    IF g = Empty THEN publicDraft[t]
    ELSE (groupDraft[t] /\ selected[t] = g) \/ g \in leftTyping[t]

Mark(raw, u, g) == raw.type = "typing" /\ raw.sender = u /\ raw.groupId = g

HasMark(q, u, g) == \E i \in 1 .. Len(q) : Mark(q[i], u, g)

\* The last mark of q says "typing" only if there is text.
LastTells(q, u, g, text) ==
    \A i \in 1 .. Len(q) :
        Mark(q[i], u, g) /\ q[i].content = "typing" =>
            text \/ \E j \in i + 1 .. Len(q) : Mark(q[j], u, g)

Agree(up, down, shown, u, g, text) ==
    /\ LastTells(up, u, g, text)
    /\ ~HasMark(up, u, g) => LastTells(down, u, g, text)
    /\ ~HasMark(up, u, g) /\ ~HasMark(down, u, g) => (shown => text)

\* Links do not break, and nobody but the sessions accepted is written to.
LinksStand ==
    /\ \A s \in Session :
         /\ session[s] \in {"none", "pending", "active"}
         /\ failing[s] = 0
         /\ linkUp[s] = (session[s] # "none")
         /\ (currentUser[s] = Empty) = (session[s] = "none")
    /\ \A s \in clients : session[s] = "active"
    /\ \A g \in Group : \A s \in groups[g] : session[s] = "active"
    /\ \A u \in Name : users[u] \in Session => session[users[u]] = "active"

\* No mark is kept, neither in memory nor on disk.
Unmarked(h) == \A i \in 1 .. Len(h) : h[i].type # "typing"

HistoriesUnmarked ==
    /\ Unmarked(publicHistory)
    /\ \A g \in Group : Unmarked(groupHistory[g]) /\ Unmarked(groupFile[g])

MarksSigned ==
    \A s \in Session : \A i \in 1 .. Len(toServer[s]) :
        toServer[s][i].type = "typing" =>
            toServer[s][i].sender = currentUser[s] /\ toServer[s][i].target = Empty

Used(u) == \E r \in Session : u = currentUser[r]

MarksAddressed ==
    \A s \in Session : \A i \in 1 .. Len(toClient[s]) :
        toClient[s][i].type = "typing" =>
            /\ toClient[s][i].sender # Empty
            /\ Used(toClient[s][i].sender)
            /\ s \in Audience(toClient[s][i].groupId)

ShownAddressed ==
    \A s \in Session, g \in Audiences : \A u \in ShownIn(s, g) :
        /\ u # currentUser[s]
        /\ Used(u)
        /\ s \in Audience(g)

StagesAgree ==
    \A s, t \in Session, g \in Audiences :
        currentUser[t] # Empty /\ OnlyOne(t) =>
            Agree(toServer[t], toClient[s], currentUser[t] \in ShownIn(s, g),
                  currentUser[t], g, Text(t, g))

TypingInv ==
    /\ TypingTypeOK
    /\ LinksStand
    /\ HistoriesUnmarked
    /\ MarksSigned
    /\ MarksAddressed
    /\ ShownAddressed
    /\ StagesAgree

-----------------------------------------------------------------------------
(* What becomes of the marks of a queue as it grows and shrinks.           *)

LEMMA Joined ==
  ASSUME NEW p \in Seq(Raw), NEW q \in Seq(Raw)
  PROVE  /\ p \o q \in Seq(Raw)
         /\ Len(p \o q) = Len(p) + Len(q)
         /\ \A i \in 1 .. Len(p) : (p \o q)[i] = p[i]
         /\ \A i \in 1 .. Len(q) : (p \o q)[Len(p) + i] = q[i]
  <1>1. ASSUME NEW i \in 1 .. Len(q)
        PROVE  (p \o q)[Len(p) + i] = q[i]
    BY Z3
  <1> QED
    BY <1>1

LEMMA JoinedMark ==
  ASSUME NEW p \in Seq(Raw), NEW q \in Seq(Raw), NEW u, NEW g
  PROVE  HasMark(p \o q, u, g) <=> HasMark(p, u, g) \/ HasMark(q, u, g)
  <1>0. /\ Len(p \o q) = Len(p) + Len(q) /\ Len(p) \in Nat /\ Len(q) \in Nat
        /\ \A i \in 1 .. Len(p) : (p \o q)[i] = p[i]
        /\ \A i \in 1 .. Len(q) : (p \o q)[Len(p) + i] = q[i]
    BY Joined
  <1>1. ASSUME NEW i \in 1 .. Len(p), Mark(p[i], u, g)
        PROVE  HasMark(p \o q, u, g)
    <2>1. i \in 1 .. Len(p \o q) /\ (p \o q)[i] = p[i]
      BY <1>0
    <2> QED
      BY <1>1, <2>1 DEF HasMark
  <1>2. ASSUME NEW i \in 1 .. Len(q), Mark(q[i], u, g)
        PROVE  HasMark(p \o q, u, g)
    <2>1. Len(p) + i \in 1 .. Len(p \o q) /\ (p \o q)[Len(p) + i] = q[i]
      BY <1>0
    <2> QED
      BY <1>2, <2>1 DEF HasMark
  <1>3. ASSUME NEW i \in 1 .. Len(p \o q), Mark((p \o q)[i], u, g)
        PROVE  HasMark(p, u, g) \/ HasMark(q, u, g)
    <2>1. CASE i <= Len(p)
      <3>1. i \in 1 .. Len(p) /\ (p \o q)[i] = p[i]
        BY <1>0, <2>1
      <3> QED
        BY <1>3, <3>1 DEF HasMark
    <2>2. CASE i > Len(p)
      <3>1. i - Len(p) \in 1 .. Len(q) /\ Len(p) + (i - Len(p)) = i
        BY <1>0, <2>2
      <3>2. (p \o q)[i] = q[i - Len(p)]
        BY <1>0, <3>1
      <3> QED
        BY <1>3, <3>1, <3>2 DEF HasMark
    <2> QED
      BY <1>0, <2>1, <2>2
  <1> QED
    BY <1>1, <1>2, <1>3 DEF HasMark

LEMMA JoinedTells ==
  ASSUME NEW p \in Seq(Raw), NEW q \in Seq(Raw), NEW u, NEW g,
         NEW text \in BOOLEAN,
         LastTells(q, u, g, text),
         HasMark(q, u, g) \/ LastTells(p, u, g, text)
  PROVE  LastTells(p \o q, u, g, text)
  <1> DEFINE r == p \o q
  <1>0. /\ Len(r) = Len(p) + Len(q) /\ Len(p) \in Nat /\ Len(q) \in Nat
        /\ \A i \in 1 .. Len(p) : r[i] = p[i]
        /\ \A i \in 1 .. Len(q) : r[Len(p) + i] = q[i]
    BY Joined
  <1> HIDE DEF r
  <1> SUFFICES ASSUME NEW i \in 1 .. Len(r), Mark(r[i], u, g),
                      r[i].content = "typing", ~text
               PROVE  \E j \in i + 1 .. Len(r) : Mark(r[j], u, g)
    BY DEF LastTells, r
  <1>1. CASE i > Len(p)
    <2>1. i - Len(p) \in 1 .. Len(q) /\ Len(p) + (i - Len(p)) = i
      BY <1>0, <1>1
    <2>2. r[i] = q[i - Len(p)]
      BY <1>0, <2>1
    <2>3. PICK j \in (i - Len(p)) + 1 .. Len(q) : Mark(q[j], u, g)
      BY <2>1, <2>2 DEF LastTells
    <2>4. /\ j \in 1 .. Len(q)
          /\ Len(p) + j \in i + 1 .. Len(r)
      BY <1>0, <2>1, <2>3
    <2> QED
      BY <1>0, <2>3, <2>4
  <1>2. CASE i <= Len(p) /\ HasMark(q, u, g)
    <2>1. PICK j \in 1 .. Len(q) : Mark(q[j], u, g)
      BY <1>2 DEF HasMark
    <2>2. Len(p) + j \in i + 1 .. Len(r) /\ r[Len(p) + j] = q[j]
      BY <1>0, <1>2, <2>1
    <2> QED
      BY <2>1, <2>2
  <1>3. CASE i <= Len(p) /\ LastTells(p, u, g, text)
    <2>1. i \in 1 .. Len(p) /\ r[i] = p[i]
      BY <1>0, <1>3
    <2>2. PICK j \in i + 1 .. Len(p) : Mark(p[j], u, g)
      BY <1>3, <2>1 DEF LastTells
    <2>3. j \in i + 1 .. Len(r) /\ r[j] = p[j]
      BY <1>0, <2>1, <2>2
    <2> QED
      BY <2>2, <2>3
  <1> QED
    BY <1>0, <1>1, <1>2, <1>3

LEMMA TailMarks ==
  ASSUME NEW q \in Seq(Raw), q # <<>>, NEW u, NEW g
  PROVE  /\ HasMark(q, u, g) <=> Mark(Head(q), u, g) \/ HasMark(Tail(q), u, g)
         /\ \A text \in BOOLEAN : LastTells(q, u, g, text) =>
              /\ LastTells(Tail(q), u, g, text)
              /\ Mark(Head(q), u, g) /\ Head(q).content = "typing"
                   => text \/ HasMark(Tail(q), u, g)
  <1> DEFINE p == Tail(q)
  <1>0. /\ Len(q) \in Nat /\ Len(q) > 0
        /\ p \in Seq(Raw) /\ Len(p) = Len(q) - 1
        /\ \A i \in 1 .. Len(p) : p[i] = q[i + 1]
        /\ Head(q) = q[1]
    BY HeadTailProperties
  <1> HIDE DEF p
  <1>1. ASSUME NEW i \in 1 .. Len(p)
        PROVE  i + 1 \in 1 .. Len(q) /\ p[i] = q[i + 1]
    BY <1>0
  <1>2. ASSUME NEW i \in 1 .. Len(q), i # 1
        PROVE  i - 1 \in 1 .. Len(p) /\ p[i - 1] = q[i]
    <2>1. i - 1 \in 1 .. Len(p) /\ (i - 1) + 1 = i
      BY <1>0, <1>2
    <2> QED
      BY <1>0, <2>1
  <1>3. HasMark(q, u, g) <=> Mark(Head(q), u, g) \/ HasMark(p, u, g)
    BY <1>0, <1>1, <1>2 DEF HasMark
  <1>4. ASSUME NEW text \in BOOLEAN, LastTells(q, u, g, text)
        PROVE  /\ LastTells(p, u, g, text)
               /\ Mark(Head(q), u, g) /\ Head(q).content = "typing"
                    => text \/ HasMark(p, u, g)
    <2>1. ASSUME NEW i \in 1 .. Len(q), NEW j \in i + 1 .. Len(q), Mark(q[j], u, g)
          PROVE  j - 1 \in i .. Len(p) /\ Mark(p[j - 1], u, g)
      BY <1>0, <1>2, <2>1
    <2>2. LastTells(p, u, g, text)
      <3> SUFFICES ASSUME NEW i \in 1 .. Len(p), Mark(p[i], u, g),
                          p[i].content = "typing", ~text
                   PROVE  \E j \in i + 1 .. Len(p) : Mark(p[j], u, g)
        BY DEF LastTells
      <3>1. PICK j \in (i + 1) + 1 .. Len(q) : Mark(q[j], u, g)
        BY <1>1, <1>4 DEF LastTells
      <3> QED
        BY <1>1, <2>1, <3>1
    <2>3. ASSUME Mark(Head(q), u, g), Head(q).content = "typing", ~text
          PROVE  HasMark(p, u, g)
      <3>1. 1 \in 1 .. Len(q)
        BY <1>0
      <3>2. PICK j \in 1 + 1 .. Len(q) : Mark(q[j], u, g)
        BY <1>0, <1>4, <2>3, <3>1 DEF LastTells
      <3> QED
        BY <2>1, <3>1, <3>2 DEF HasMark
    <2> QED
      BY <2>2, <2>3
  <1> QED
    BY <1>3, <1>4 DEF p

-----------------------------------------------------------------------------
(* The stages of one user's marks for one audience.                        *)

\* He writes: whatever of his text goes, a later mark tells of.
LEMMA AgreeWritten ==
  ASSUME NEW up \in Seq(Raw), NEW down \in Seq(Raw), NEW frames \in Seq(Raw),
         NEW shown \in BOOLEAN, NEW u, NEW g,
         NEW text \in BOOLEAN, NEW new \in BOOLEAN,
         Agree(up, down, shown, u, g, text),
         LastTells(frames, u, g, new),
         HasMark(frames, u, g) \/ (text => new)
  PROVE  Agree(up \o frames, down, shown, u, g, new)
  <1>1. HasMark(up \o frames, u, g) <=> HasMark(up, u, g) \/ HasMark(frames, u, g)
    BY JoinedMark
  <1>2. CASE HasMark(frames, u, g)
    BY <1>1, <1>2, JoinedTells DEF Agree
  <1>3. CASE ~HasMark(frames, u, g) /\ (text => new)
    <2>1. \A q : LastTells(q, u, g, text) => LastTells(q, u, g, new)
      BY <1>3 DEF LastTells
    <2>2. LastTells(up \o frames, u, g, new)
      BY <2>1, JoinedTells DEF Agree
    <2> QED
      BY <1>1, <1>3, <2>1, <2>2 DEF Agree
  <1> QED
    BY <1>2, <1>3

\* The server writes what is no mark of his.
LEMMA AgreeQuiet ==
  ASSUME NEW up \in Seq(Raw), NEW down \in Seq(Raw), NEW out \in Seq(Raw),
         NEW shown \in BOOLEAN, NEW u, NEW g, NEW text \in BOOLEAN,
         Agree(up, down, shown, u, g, text), ~HasMark(out, u, g)
  PROVE  Agree(up, down \o out, shown, u, g, text)
  <1>1. LastTells(out, u, g, text)
    BY DEF LastTells, HasMark
  <1> QED
    BY <1>1, JoinedMark, JoinedTells DEF Agree

\* The server takes a frame from the one queue and puts it into the other.
LEMMA AgreePassed ==
  ASSUME NEW up \in Seq(Raw), up # <<>>, NEW down \in Seq(Raw),
         NEW shown \in BOOLEAN, NEW u, NEW g, NEW text \in BOOLEAN,
         Agree(up, down, shown, u, g, text)
  PROVE  Agree(Tail(up), down \o <<Head(up)>>, shown, u, g, text)
  <1> DEFINE raw == Head(up)
  <1>1. raw \in Raw /\ Tail(up) \in Seq(Raw) /\ <<raw>> \in Seq(Raw)
    BY HeadTailProperties
  <1>2. HasMark(up, u, g) <=> Mark(raw, u, g) \/ HasMark(Tail(up), u, g)
    BY TailMarks
  <1>3. /\ LastTells(Tail(up), u, g, text)
        /\ Mark(raw, u, g) /\ raw.content = "typing"
             => text \/ HasMark(Tail(up), u, g)
    BY TailMarks DEF Agree
  <1>4. HasMark(<<raw>>, u, g) <=> Mark(raw, u, g)
    BY DEF HasMark
  <1> HIDE DEF raw
  <1>5. HasMark(down \o <<raw>>, u, g) <=> HasMark(down, u, g) \/ Mark(raw, u, g)
    BY <1>1, <1>4, JoinedMark, ZenonT(60)
  <1>6. ~HasMark(Tail(up), u, g) => LastTells(down \o <<raw>>, u, g, text)
    <2> SUFFICES ASSUME ~HasMark(Tail(up), u, g)
                 PROVE  LastTells(down \o <<raw>>, u, g, text)
      OBVIOUS
    <2>1. LastTells(<<raw>>, u, g, text)
      BY <1>3 DEF LastTells
    <2>2. HasMark(<<raw>>, u, g) \/ LastTells(down, u, g, text)
      BY <1>2, <1>4 DEF Agree
    <2> QED
      BY <1>1, <2>1, <2>2, JoinedTells
  <1> QED
    BY <1>2, <1>3, <1>5, <1>6 DEF Agree, raw

\* The server takes a frame that is no such mark, or whose audience the
\* other is not in.
LEMMA AgreeDropped ==
  ASSUME NEW up \in Seq(Raw), up # <<>>, NEW down \in Seq(Raw),
         NEW shown \in BOOLEAN, NEW u, NEW g, NEW text \in BOOLEAN,
         Agree(up, down, shown, u, g, text),
         Mark(Head(up), u, g) => ~shown /\ ~HasMark(down, u, g)
  PROVE  Agree(Tail(up), down, shown, u, g, text)
  <1>1. HasMark(up, u, g) <=> Mark(Head(up), u, g) \/ HasMark(Tail(up), u, g)
    BY TailMarks
  <1>2. LastTells(Tail(up), u, g, text)
    BY TailMarks DEF Agree
  <1>3. ~HasMark(down, u, g) => LastTells(down, u, g, text)
    BY DEF LastTells, HasMark
  <1> QED
    BY <1>1, <1>2, <1>3 DEF Agree

\* The other reads a frame.
LEMMA AgreeRead ==
  ASSUME NEW up \in Seq(Raw), NEW down \in Seq(Raw), down # <<>>,
         NEW shown \in BOOLEAN, NEW new \in BOOLEAN, NEW u, NEW g,
         NEW text \in BOOLEAN,
         Agree(up, down, shown, u, g, text),
         new => \/ Mark(Head(down), u, g) /\ Head(down).content = "typing"
                \/ ~Mark(Head(down), u, g) /\ shown
  PROVE  Agree(up, Tail(down), new, u, g, text)
  <1>1. HasMark(down, u, g) <=> Mark(Head(down), u, g) \/ HasMark(Tail(down), u, g)
    BY TailMarks
  <1>2. LastTells(down, u, g, text) =>
          /\ LastTells(Tail(down), u, g, text)
          /\ Mark(Head(down), u, g) /\ Head(down).content = "typing"
               => text \/ HasMark(Tail(down), u, g)
    BY TailMarks
  <1> QED
    BY <1>1, <1>2 DEF Agree

-----------------------------------------------------------------------------
(* The state's types.                                                      *)

FieldsOK ==
    /\ publicDraft   \in [Session -> BOOLEAN]
    /\ groupWindow   \in [Session -> BOOLEAN]
    /\ groupDraft    \in [Session -> BOOLEAN]
    /\ groupSelector \in [Session -> Seq(Group)]
    /\ \A s \in Session : IsInjective(groupSelector[s])
    /\ selected      \in [Session -> Group \cup {Empty}]
    /\ leftTyping    \in [Session -> SUBSET Group]

ShownOK ==
    /\ publicTyping  \in [Session -> SUBSET Name]
    /\ groupTyping   \in [Session -> [Group -> SUBSET Name]]

LEMMA TypesSplit == TypingTypeOK <=> TypeOK /\ FieldsOK /\ ShownOK
  BY DEF TypingTypeOK, FieldsOK, ShownOK

LEMMA TextType ==
  ASSUME FieldsOK, NEW t \in Session, NEW g \in Audiences
  PROVE  Text(t, g) \in BOOLEAN
  <1>1. publicDraft[t] \in BOOLEAN
    BY DEF FieldsOK
  <1> QED
    BY <1>1 DEF Text

LEMMA QueueTypes ==
  ASSUME TypeOK, NEW s \in Session
  PROVE  toServer[s] \in Seq(Raw) /\ toClient[s] \in Seq(Raw)
  <1>1. toServer[s] \in Seq(ClientFrame) /\ toClient[s] \in Seq(Raw)
    BY DEF TypeOK, ConnTypeOK
  <1> QED
    BY <1>1, SeqMonotonic DEF ClientFrame

LEMMA TypingInitInv == TypingInit => TypingInv
  <1> SUFFICES ASSUME TypingInit PROVE TypingInv
    OBVIOUS
  <1> USE DEF TypingInit
  <1>1. TypeOK
    BY DEF Init, ConnInit, ServerInit, ControllerInit, TypeOK, ConnTypeOK,
           ServerTypeOK, ControllerTypeOK, Stage
  <1>2. FieldsOK /\ ShownOK
    <2>1. <<>> \in Seq(Group) /\ IsInjective(<<>>)
      BY DEF IsInjective
    <2> QED
      BY <2>1 DEF FieldsOK, ShownOK
  <1>3. LinksStand
    BY NoSessionAssumption
    DEF Init, ConnInit, ServerInit, ControllerInit, LinksStand
  <1>4. HistoriesUnmarked
    BY DEF Init, ServerInit, HistoriesUnmarked, Unmarked
  <1>5. MarksSigned /\ MarksAddressed
    BY DEF Init, ConnInit, MarksSigned, MarksAddressed
  <1>6. ShownAddressed
    BY DEF ShownAddressed, ShownIn, Audiences
  <1>7. StagesAgree
    BY DEF Init, ControllerInit, StagesAgree
  <1> QED
    BY <1>1, <1>2, <1>3, <1>4, <1>5, <1>6, <1>7, TypesSplit DEF TypingInv

-----------------------------------------------------------------------------
(* What a user does.                                                       *)

(* An operation keeps the invariant if the marks it writes are his, and    *)
(* tell of the texts that it ends.                                         *)
LEMMA WritesInv ==
  ASSUME TypingInv, NEW s \in Session, NEW kind, NEW frames \in Seq(UserFrame),
         Operation(s, kind, frames),
         FieldsOK', joinedGroups' \in [Session -> SUBSET Group],
         UNCHANGED <<serverVars, publicTyping, groupTyping, restarts, breaks>>,
         \A i \in 1 .. Len(frames) : frames[i].type = "typing" =>
           frames[i].sender = currentUser[s] /\ frames[i].target = Empty,
         \A g \in Audiences :
           /\ LastTells(frames, currentUser[s], g, Text(s, g)')
           /\ HasMark(frames, currentUser[s], g) \/ (Text(s, g) => Text(s, g)'),
         \A t \in Session \ {s}, g \in Audiences : Text(t, g)' = Text(t, g)
  PROVE  TypingInv'
  <1>1. TypeOK /\ FieldsOK /\ ShownOK /\ LinksStand
    BY TypesSplit DEF TypingInv
  <1>2. currentUser[s] # Empty /\ linkUp[s]
    BY <1>1 DEF Operation, LinksStand
  <1>3. toServer' = [toServer EXCEPT ![s] = @ \o frames]
    BY <1>2 DEF Operation, SendFrames
  <1>4. /\ toServer'[s] = toServer[s] \o frames
        /\ \A t \in Session \ {s} : toServer'[t] = toServer[t]
    BY <1>1, <1>3 DEF TypeOK, ConnTypeOK
  <1>5. UNCHANGED <<session, linkUp, failing, toClient, currentUser>>
    BY DEF Operation
  <1>6. frames \in Seq(Raw)
    BY SeqMonotonic DEF UserFrame, ClientFrame
  <1>7. TypingTypeOK'
    <2>1. ConnTypeOK' /\ ops' \in Nat /\ currentUser' = currentUser
      BY <1>1, OperationType
    <2>2. ServerTypeOK' /\ ControllerTypeOK'
      BY <1>1, <2>1
      DEF TypeOK, ServerTypeOK, ControllerTypeOK, serverVars, memoryVars, diskVars
    <2>3. TypeOK' /\ ShownOK'
      BY <1>1, <2>1, <2>2 DEF TypeOK, ShownOK
    <2> QED
      BY <2>3, TypesSplit DEF TypingTypeOK, FieldsOK, ShownOK
  <1>8. LinksStand' /\ HistoriesUnmarked'
    BY <1>5
    DEF TypingInv, LinksStand, HistoriesUnmarked, serverVars, memoryVars, diskVars
  <1>9. MarksSigned'
    <2> SUFFICES ASSUME NEW t \in Session, NEW i \in 1 .. Len(toServer'[t]),
                        toServer'[t][i].type = "typing"
                 PROVE  /\ toServer'[t][i].sender = currentUser[t]
                        /\ toServer'[t][i].target = Empty
      BY <1>5 DEF MarksSigned
    <2>1. CASE t # s
      BY <1>4, <2>1 DEF TypingInv, MarksSigned
    <2>2. CASE t = s
      <3>1. toServer[s] \in Seq(Raw) /\ Len(toServer[s]) \in Nat /\ Len(frames) \in Nat
        BY <1>1, <1>6, QueueTypes
      <3>2. /\ Len(toServer'[s]) = Len(toServer[s]) + Len(frames)
            /\ \A j \in 1 .. Len(toServer[s]) : toServer'[s][j] = toServer[s][j]
            /\ \A j \in 1 .. Len(frames) : toServer'[s][Len(toServer[s]) + j] = frames[j]
        BY <1>4, <1>6, <3>1, Joined
      <3>3. CASE i <= Len(toServer[s])
        <4>1. i \in 1 .. Len(toServer[s])
          BY <2>2, <3>1, <3>2, <3>3
        <4> QED
          BY <2>2, <3>2, <4>1 DEF TypingInv, MarksSigned
      <3>4. CASE i > Len(toServer[s])
        <4>1. /\ i - Len(toServer[s]) \in 1 .. Len(frames)
              /\ Len(toServer[s]) + (i - Len(toServer[s])) = i
          BY <2>2, <3>1, <3>2, <3>4
        <4>2. toServer'[s][i] = frames[i - Len(toServer[s])]
          BY <3>2, <4>1
        <4> QED
          BY <2>2, <4>1, <4>2
      <3> QED
        BY <3>1, <3>3, <3>4, <2>2, <3>2
    <2> QED
      BY <2>1, <2>2
  <1>10. MarksAddressed'
    BY <1>5
    DEF TypingInv, MarksAddressed, Used, Audience, serverVars, memoryVars
  <1>11. ShownAddressed'
    BY <1>5
    DEF TypingInv, ShownAddressed, Used, Audience, ShownIn, serverVars, memoryVars
  <1>12. StagesAgree'
    <2> SUFFICES ASSUME NEW r \in Session, NEW t \in Session, NEW g \in Audiences,
                        currentUser[t] # Empty, OnlyOne(t)
                 PROVE  Agree(toServer'[t], toClient[r],
                              currentUser[t] \in ShownIn(r, g),
                              currentUser[t], g, Text(t, g)')
      BY <1>5 DEF StagesAgree, OnlyOne, ShownIn
    <2>1. Agree(toServer[t], toClient[r], currentUser[t] \in ShownIn(r, g),
                currentUser[t], g, Text(t, g))
      BY DEF TypingInv, StagesAgree
    <2>2. CASE t # s
      BY <1>4, <2>1, <2>2
    <2>3. CASE t = s
      <3>1. Text(t, g) \in BOOLEAN /\ Text(t, g)' \in BOOLEAN
        BY <1>1, TextType DEF Text, FieldsOK
      <3>2. toServer[t] \in Seq(Raw) /\ toClient[r] \in Seq(Raw)
        BY <1>1, QueueTypes
      <3>3. /\ LastTells(frames, currentUser[t], g, Text(t, g)')
            /\ HasMark(frames, currentUser[t], g) \/ (Text(t, g) => Text(t, g)')
        BY <2>3
      <3>4. toServer'[t] = toServer[t] \o frames
        BY <1>4, <2>3
      <3>5. (currentUser[t] \in ShownIn(r, g)) \in BOOLEAN
        OBVIOUS
      <3> DEFINE shown == currentUser[t] \in ShownIn(r, g)
                 new   == Text(t, g)'
                 text  == Text(t, g)
      <3> HIDE DEF shown, new, text
      <3>6. /\ Agree(toServer[t], toClient[r], shown, currentUser[t], g, text)
            /\ shown \in BOOLEAN /\ new \in BOOLEAN /\ text \in BOOLEAN
            /\ LastTells(frames, currentUser[t], g, new)
            /\ HasMark(frames, currentUser[t], g) \/ (text => new)
        BY <2>1, <3>1, <3>3, <3>5 DEF shown, new, text
      <3>7. Agree(toServer[t] \o frames, toClient[r], shown, currentUser[t], g, new)
        BY <1>6, <3>2, <3>6, AgreeWritten
      <3> QED
        BY <3>4, <3>7 DEF shown, new
    <2> QED
      BY <2>2, <2>3
  <1> QED
    BY <1>7, <1>8, <1>9, <1>10, <1>11, <1>12 DEF TypingInv

-----------------------------------------------------------------------------
LEMMA StatusFrame ==
  ASSUME TypeOK, NEW s \in Session, currentUser[s] # Empty, NEW g \in Audiences,
         NEW word \in {"typing", "stopped"}
  PROVE  /\ typingFrame(s, Empty, g, word) \in UserFrame
         /\ typingFrame(s, Empty, g, word).type = "typing"
         /\ typingFrame(s, Empty, g, word).sender = currentUser[s]
         /\ typingFrame(s, Empty, g, word).target = Empty
         /\ typingFrame(s, Empty, g, word).groupId = g
         /\ typingFrame(s, Empty, g, word).content = word
  <1>1. currentUser[s] \in Name \cup {Empty}
    BY DEF TypeOK, ControllerTypeOK
  <1>2. typingFrame(s, Empty, g, word) \in UserFrame
    BY <1>1, MessageIsUserFrame DEF typingFrame, MessageType, Audiences
  <1> QED
    BY <1>2 DEF typingFrame, toJson, NewMessage, messageTypeToString

LEMMA SpokenFrame ==
  ASSUME TypeOK, NEW s \in Session, NEW g \in Audiences,
         NEW t \in {"PublicMessage", "GroupMessage", "CreateGroup", "JoinGroup"},
         t # "PublicMessage" => g \in Group
  PROVE  /\ textFrame(s, t, Empty, g) \in UserFrame
         /\ textFrame(s, t, Empty, g).type # "typing"
         /\ textFrame(s, t, Empty, g).content # "typing"
  <1>1. currentUser[s] \in Name \cup {Empty} /\ ops + 1 \in Nat
    BY DEF TypeOK, ControllerTypeOK
  <1>2. textFrame(s, t, Empty, g) \in UserFrame
    BY <1>1, MessageIsUserFrame DEF textFrame, MessageType, Audiences
  <1> QED
    BY <1>2 DEF textFrame, toJson, NewMessage, messageTypeToString

(* The frames of an operation that ends texts and begins none.             *)
Stops(s, frames) ==
    \A i \in 1 .. Len(frames) :
        /\ frames[i].content # "typing"
        /\ frames[i].type = "typing" =>
             frames[i].sender = currentUser[s] /\ frames[i].target = Empty

LEMMA StopsInv ==
  ASSUME TypingInv, NEW s \in Session, NEW kind, NEW frames \in Seq(UserFrame),
         Operation(s, kind, frames), Stops(s, frames),
         FieldsOK', joinedGroups' \in [Session -> SUBSET Group],
         UNCHANGED <<serverVars, publicTyping, groupTyping, restarts, breaks>>,
         \A g \in Audiences :
           HasMark(frames, currentUser[s], g) \/ (Text(s, g) => Text(s, g)'),
         \A t \in Session \ {s}, g \in Audiences : Text(t, g)' = Text(t, g)
  PROVE  TypingInv'
  <1>1. \A g \in Audiences : LastTells(frames, currentUser[s], g, Text(s, g)')
    BY DEF Stops, LastTells
  <1>2. \A i \in 1 .. Len(frames) : frames[i].type = "typing" =>
          frames[i].sender = currentUser[s] /\ frames[i].target = Empty
    BY DEF Stops
  <1> QED
    BY <1>1, <1>2, WritesInv

LEMMA EditPublic ==
  ASSUME TypingInv, NEW s \in Session, NEW text \in BOOLEAN,
         editMessageInput(s, text) \/ sendPublicText(s),
         UNCHANGED <<serverVars, restarts, breaks>>
  PROVE  TypingInv'
  <1>1. TypeOK /\ FieldsOK /\ joinedGroups \in [Session -> SUBSET Group]
    BY TypesSplit DEF TypingInv, TypeOK, ControllerTypeOK
  <1>2. Empty \in Audiences
    BY DEF Audiences
  <1>3. /\ UNCHANGED <<joinedGroups, publicTyping, groupTyping, groupWindow,
                       groupDraft, groupSelector, selected, leftTyping>>
        /\ currentUser[s] # Empty
    BY DEF editMessageInput, sendPublicText, Types, Operation
  <1>4. PICK new \in BOOLEAN : publicDraft' = [publicDraft EXCEPT ![s] = new]
    BY DEF editMessageInput, sendPublicText
  <1>5. /\ FieldsOK'
        /\ \A t \in Session \ {s}, g \in Audiences : Text(t, g)' = Text(t, g)
        /\ \A g \in Audiences \ {Empty} : Text(s, g)' = Text(s, g)
        /\ Text(s, Empty)' = new
    BY <1>1, <1>3, <1>4 DEF FieldsOK, Text
  <1>6. CASE editMessageInput(s, text)
    <2> DEFINE raw == publicStatus(s, text)
    <2>1. Word(text) \in {"typing", "stopped"} /\ (Word(text) = "typing" <=> text)
      BY DEF Word
    <2>2. /\ raw \in UserFrame /\ raw.type = "typing" /\ raw.sender = currentUser[s]
          /\ raw.target = Empty /\ raw.groupId = Empty /\ raw.content = Word(text)
      BY <1>1, <1>2, <1>3, <2>1, StatusFrame DEF publicStatus
    <2>3. Operation(s, "typing", <<raw>>)
      BY <1>6 DEF editMessageInput, Types
    <2>4. new = text
      BY <1>1, <1>4, <1>6 DEF editMessageInput, FieldsOK
    <2> HIDE DEF raw
    <2>5. <<raw>> \in Seq(UserFrame)
      BY <2>2
    <2>6. \A g \in Audiences :
            /\ LastTells(<<raw>>, currentUser[s], g, Text(s, g)')
            /\ HasMark(<<raw>>, currentUser[s], g) \/ (Text(s, g) => Text(s, g)')
      <3> SUFFICES ASSUME NEW g \in Audiences
                   PROVE  /\ LastTells(<<raw>>, currentUser[s], g, Text(s, g)')
                          /\ HasMark(<<raw>>, currentUser[s], g)
                               \/ (Text(s, g) => Text(s, g)')
        OBVIOUS
      <3>1. CASE g = Empty
        BY <1>5, <2>1, <2>2, <2>4, <3>1 DEF LastTells, HasMark, Mark
      <3>2. CASE g # Empty
        BY <1>5, <2>2, <3>2 DEF LastTells, Mark
      <3> QED
        BY <3>1, <3>2
    <2>7. \A i \in 1 .. Len(<<raw>>) : <<raw>>[i].type = "typing" =>
            <<raw>>[i].sender = currentUser[s] /\ <<raw>>[i].target = Empty
      BY <2>2
    <2>8. joinedGroups' \in [Session -> SUBSET Group]
      BY <1>1, <1>3
    <2> QED
      BY <1>3, <1>5, <2>3, <2>5, <2>6, <2>7, <2>8, WritesInv
  <1>7. CASE sendPublicText(s)
    <2> DEFINE raw == publicStatus(s, FALSE)
               msg == textFrame(s, "PublicMessage", Empty, Empty)
               frames == <<raw, msg, raw, raw>>
    <2>1. /\ raw \in UserFrame /\ raw.type = "typing" /\ raw.sender = currentUser[s]
          /\ raw.target = Empty /\ raw.groupId = Empty /\ raw.content = "stopped"
      BY <1>1, <1>2, <1>3, StatusFrame DEF publicStatus, Word
    <2>2. msg \in UserFrame /\ msg.type # "typing" /\ msg.content # "typing"
      BY <1>1, <1>2, SpokenFrame
    <2>3. Operation(s, "typing", frames)
      BY <1>7 DEF sendPublicText, Types
    <2> HIDE DEF raw, msg
    <2>4. frames \in Seq(UserFrame) /\ Len(frames) = 4
          /\ frames[1] = raw /\ frames[2] = msg /\ frames[3] = raw /\ frames[4] = raw
      BY <2>1, <2>2
    <2> HIDE DEF frames
    <2>5. Stops(s, frames)
      <3> SUFFICES ASSUME NEW i \in 1 .. 4
                   PROVE  frames[i] \in {raw, msg}
        BY <2>1, <2>2, <2>4 DEF Stops
      <3>1. i = 1 \/ i = 2 \/ i = 3 \/ i = 4
        OBVIOUS
      <3> QED
        BY <2>4, <3>1
    <2>6. HasMark(frames, currentUser[s], Empty)
      BY <2>1, <2>4 DEF HasMark, Mark
    <2>7. \A g \in Audiences :
            HasMark(frames, currentUser[s], g) \/ (Text(s, g) => Text(s, g)')
      BY <1>5, <2>6
    <2>8. joinedGroups' \in [Session -> SUBSET Group]
      BY <1>1, <1>3
    <2> QED
      BY <1>3, <1>5, <2>3, <2>4, <2>5, <2>7, <2>8, StopsInv
  <1> QED
    BY <1>6, <1>7

LEMMA EditGroup ==
  ASSUME TypingInv, NEW s \in Session, NEW text \in BOOLEAN,
         editGroupMessageInput(s, text) \/ sendGroupText(s),
         UNCHANGED <<serverVars, restarts, breaks>>
  PROVE  TypingInv'
  <1>1. TypeOK /\ FieldsOK /\ joinedGroups \in [Session -> SUBSET Group]
    BY TypesSplit DEF TypingInv, TypeOK, ControllerTypeOK
  <1>2. PICK h \in Audiences : h = selected[s]
    BY <1>1 DEF Audiences, FieldsOK
  <1>3. /\ UNCHANGED <<joinedGroups, publicTyping, groupTyping, publicDraft,
                       groupWindow, groupSelector, selected, leftTyping>>
        /\ currentUser[s] # Empty
    BY DEF editGroupMessageInput, sendGroupText, Types, Operation
  <1>4. PICK new \in BOOLEAN : groupDraft' = [groupDraft EXCEPT ![s] = new]
    BY DEF editGroupMessageInput, sendGroupText
  <1>5. /\ FieldsOK'
        /\ \A t \in Session \ {s}, g \in Audiences : Text(t, g)' = Text(t, g)
        /\ \A g \in Audiences \ {h} : Text(s, g)' = Text(s, g)
        /\ h # Empty => (new => Text(s, h)')
        /\ h = Empty => Text(s, h)' = Text(s, h)
    BY <1>1, <1>2, <1>3, <1>4 DEF FieldsOK, Text, Audiences
  <1>6. joinedGroups' \in [Session -> SUBSET Group]
    BY <1>1, <1>3
  <1>7. CASE editGroupMessageInput(s, text) /\ h # Empty
    <2> DEFINE raw == groupStatus(s, h, text)
    <2>1. Word(text) \in {"typing", "stopped"} /\ (Word(text) = "typing" <=> text)
      BY DEF Word
    <2>2. /\ raw \in UserFrame /\ raw.type = "typing" /\ raw.sender = currentUser[s]
          /\ raw.target = Empty /\ raw.groupId = h /\ raw.content = Word(text)
      BY <1>1, <1>2, <1>3, <2>1, StatusFrame DEF groupStatus
    <2>3. Operation(s, "typing", <<raw>>)
      BY <1>2, <1>7 DEF editGroupMessageInput, Types, SelectedTold
    <2>4. new = text
      BY <1>1, <1>4, <1>7 DEF editGroupMessageInput, FieldsOK
    <2> HIDE DEF raw
    <2>5. <<raw>> \in Seq(UserFrame)
      BY <2>2
    <2>6. ASSUME NEW g \in Audiences
          PROVE  /\ LastTells(<<raw>>, currentUser[s], g, Text(s, g)')
                 /\ HasMark(<<raw>>, currentUser[s], g)
                      \/ (Text(s, g) => Text(s, g)')
      <3>1. CASE g = h
        BY <1>5, <1>7, <2>1, <2>2, <2>4, <3>1 DEF LastTells, HasMark, Mark
      <3>2. CASE g # h
        BY <1>5, <2>2, <3>2 DEF LastTells, Mark
      <3> QED
        BY <3>1, <3>2
    <2>7. \A i \in 1 .. Len(<<raw>>) : <<raw>>[i].type = "typing" =>
            <<raw>>[i].sender = currentUser[s] /\ <<raw>>[i].target = Empty
      BY <2>2
    <2> QED
      BY <1>3, <1>5, <1>6, <2>3, <2>5, <2>6, <2>7, WritesInv
  <1>8. CASE editGroupMessageInput(s, text) /\ h = Empty
    <2>1. Operation(s, "typing", <<>>)
      BY <1>2, <1>8 DEF editGroupMessageInput, Types, SelectedTold
    <2>2. <<>> \in Seq(UserFrame) /\ Stops(s, <<>>)
      BY DEF Stops
    <2>3. \A g \in Audiences : Text(s, g) => Text(s, g)'
      BY <1>5, <1>8
    <2> QED
      BY <1>3, <1>5, <1>6, <2>1, <2>2, <2>3, StopsInv
  <1>9. CASE sendGroupText(s)
    <2> DEFINE raw == groupStatus(s, h, FALSE)
               msg == textFrame(s, "GroupMessage", Empty, h)
               frames == <<raw, raw, msg, raw>>
    <2>0. h \in Group
      BY <1>2, <1>9 DEF sendGroupText, Audiences
    <2>1. /\ raw \in UserFrame /\ raw.type = "typing" /\ raw.sender = currentUser[s]
          /\ raw.target = Empty /\ raw.groupId = h /\ raw.content = "stopped"
      BY <1>1, <1>2, <1>3, StatusFrame DEF groupStatus, Word
    <2>2. msg \in UserFrame /\ msg.type # "typing" /\ msg.content # "typing"
      BY <1>1, <1>2, <2>0, SpokenFrame
    <2>3. Operation(s, "typing", frames)
      BY <1>2, <1>9 DEF sendGroupText, Types
    <2> HIDE DEF raw, msg
    <2>4. frames \in Seq(UserFrame) /\ Len(frames) = 4
          /\ frames[1] = raw /\ frames[2] = raw /\ frames[3] = msg /\ frames[4] = raw
      BY <2>1, <2>2
    <2> HIDE DEF frames
    <2>5. Stops(s, frames)
      <3> SUFFICES ASSUME NEW i \in 1 .. 4
                   PROVE  frames[i] \in {raw, msg}
        BY <2>1, <2>2, <2>4 DEF Stops
      <3>1. i = 1 \/ i = 2 \/ i = 3 \/ i = 4
        OBVIOUS
      <3> QED
        BY <2>4, <3>1
    <2>6. HasMark(frames, currentUser[s], h)
      BY <2>1, <2>4 DEF HasMark, Mark
    <2>7. \A g \in Audiences :
            HasMark(frames, currentUser[s], g) \/ (Text(s, g) => Text(s, g)')
      BY <1>5, <2>6
    <2> QED
      BY <1>3, <1>5, <1>6, <2>3, <2>4, <2>5, <2>7, StopsInv
  <1> QED
    BY <1>7, <1>8, <1>9

-----------------------------------------------------------------------------
(* The selector.                                                           *)

LEMMA StoppedFrames ==
  ASSUME TypeOK, NEW s \in Session, currentUser[s] # Empty, NEW told \in Seq(Group)
  PROVE  /\ Stopped(s, told) \in Seq(UserFrame)
         /\ Stops(s, Stopped(s, told))
         /\ \A g \in ToSet(told) : HasMark(Stopped(s, told), currentUser[s], g)
  <1> DEFINE frames == Stopped(s, told)
             Status(g) == groupStatus(s, g, FALSE)
  <1>1. ASSUME NEW g \in Group
        PROVE  /\ Status(g) \in UserFrame
               /\ Status(g).type = "typing"
               /\ Status(g).sender = currentUser[s]
               /\ Status(g).target = Empty
               /\ Status(g).groupId = g
               /\ Status(g).content = "stopped"
    <2>1. g \in Audiences
      BY DEF Audiences
    <2> QED
      BY <2>1, StatusFrame DEF groupStatus, Word
  <1>2. DOMAIN told = 1 .. Len(told) /\ Len(told) \in Nat
        /\ \A i \in 1 .. Len(told) : told[i] \in Group
    OBVIOUS
  <1>3. frames = [i \in 1 .. Len(told) |-> Status(told[i])]
    BY <1>2 DEF Stopped
  <1> HIDE DEF frames, Status
  <1>4. ASSUME NEW i \in 1 .. Len(told)
        PROVE  /\ frames[i] \in UserFrame
               /\ frames[i].type = "typing"
               /\ frames[i].sender = currentUser[s]
               /\ frames[i].target = Empty
               /\ frames[i].groupId = told[i]
               /\ frames[i].content = "stopped"
    <2>1. PICK g \in Group : g = told[i]
      BY <1>2
    <2>2. frames[i] = Status(g)
      BY <1>3, <2>1
    <2> QED
      BY <1>1, <2>1, <2>2
  <1>5. frames \in [1 .. Len(told) -> UserFrame]
    BY <1>1, <1>2, <1>3
  <1>6. frames \in Seq(UserFrame) /\ Len(frames) = Len(told)
    BY <1>2, <1>5
  <1>7. Stops(s, frames)
    BY <1>4, <1>6 DEF Stops
  <1>8. ASSUME NEW g \in ToSet(told)
        PROVE  HasMark(frames, currentUser[s], g)
    <2>1. PICK i \in 1 .. Len(told) : told[i] = g
      BY <1>2 DEF ToSet
    <2> QED
      BY <1>4, <1>6, <2>1 DEF HasMark, Mark
  <1> QED
    BY <1>6, <1>7, <1>8 DEF frames

(* Whatever groups hear, the texts for the others are there still, or were *)
(* left.                                                                   *)
LEMMA SelectsTexts ==
  ASSUME FieldsOK, NEW s \in Session, NEW told \in Seq(Group), told # <<>>,
         Selects(s, told),
         \/ UNCHANGED groupDraft
         \/ groupDraft' = [groupDraft EXCEPT ![s] = FALSE]
  PROVE  /\ selected' \in [Session -> Group \cup {Empty}]
         /\ leftTyping' \in [Session -> SUBSET Group]
         /\ groupDraft' \in [Session -> BOOLEAN]
         /\ \A g \in Audiences \ ToSet(told) : Text(s, g) => Text(s, g)'
         /\ \A t \in Session \ {s}, g \in Audiences : Text(t, g)' = Text(t, g)
  <1> USE DEF FieldsOK
  <1>1. Last(told) \in Group
    BY DEF Last
  <1>2. selected' = [selected EXCEPT ![s] = Last(told)]
        /\ UNCHANGED publicDraft
    BY DEF Selects
  <1>3. selected[s] \in Group \cup {Empty}
    OBVIOUS
  <1> USE DEF MidText
  <1> DEFINE left == (leftTyping[s] \cup MidText(s)) \ ToSet(told)
  <1>4. leftTyping' = [leftTyping EXCEPT ![s] = left]
    BY DEF Selects
  <1>5. left \in SUBSET Group
    BY <1>3
  <1>6. \A g \in Group \ ToSet(told) :
          (groupDraft[s] /\ selected[s] = g) \/ g \in leftTyping[s] => g \in left
    BY GroupAssumption
  <1> HIDE DEF left
  <1>7. leftTyping' \in [Session -> SUBSET Group]
        /\ leftTyping'[s] = left
        /\ \A t \in Session \ {s} : leftTyping'[t] = leftTyping[t]
    BY <1>4, <1>5
  <1>8. groupDraft' \in [Session -> BOOLEAN]
        /\ \A t \in Session \ {s} : groupDraft'[t] = groupDraft[t]
    OBVIOUS
  <1>9. \A t \in Session \ {s} : selected'[t] = selected[t]
    BY <1>2
  <1> QED
    BY <1>1, <1>2, <1>6, <1>7, <1>8, <1>9 DEF Text, Audiences

LEMMA SelectsInv ==
  ASSUME TypingInv, NEW s \in Session, NEW kind,
         NEW first \in Seq(UserFrame), Stops(s, first),
         NEW told \in Seq(Group), told # <<>>,
         Operation(s, kind, first \o Stopped(s, told)),
         Selects(s, told),
         \/ UNCHANGED groupDraft
         \/ groupDraft' = [groupDraft EXCEPT ![s] = FALSE],
         groupWindow' \in [Session -> BOOLEAN],
         groupSelector' \in [Session -> Seq(Group)],
         \A r \in Session : IsInjective(groupSelector'[r]),
         joinedGroups' \in [Session -> SUBSET Group],
         UNCHANGED <<serverVars, publicTyping, groupTyping, restarts, breaks>>
  PROVE  TypingInv'
  <1> DEFINE second == Stopped(s, told)
             frames == first \o second
  <1>1. TypeOK /\ FieldsOK /\ currentUser[s] # Empty
    BY TypesSplit DEF TypingInv, Operation
  <1>2. /\ second \in Seq(UserFrame)
        /\ Stops(s, second)
        /\ \A g \in ToSet(told) : HasMark(second, currentUser[s], g)
    BY <1>1, StoppedFrames
  <1>3. Operation(s, kind, frames)
    OBVIOUS
  <1> HIDE DEF second
  <1>4. first \in Seq(Raw) /\ second \in Seq(Raw) /\ frames \in Seq(UserFrame)
    BY <1>2, SeqMonotonic DEF UserFrame, ClientFrame
  <1>5. /\ Len(frames) = Len(first) + Len(second)
        /\ Len(first) \in Nat /\ Len(second) \in Nat
        /\ \A i \in 1 .. Len(first) : frames[i] = first[i]
        /\ \A i \in 1 .. Len(second) : frames[Len(first) + i] = second[i]
    BY <1>4, Joined
  <1>6. \A g : HasMark(second, currentUser[s], g) => HasMark(frames, currentUser[s], g)
    BY <1>4, JoinedMark
  <1> HIDE DEF frames
  <1>7. Stops(s, frames)
    <2> SUFFICES ASSUME NEW i \in 1 .. Len(frames)
                 PROVE  /\ frames[i].content # "typing"
                        /\ frames[i].type = "typing" =>
                             /\ frames[i].sender = currentUser[s]
                             /\ frames[i].target = Empty
      BY DEF Stops
    <2>1. CASE i <= Len(first)
      <3>1. i \in 1 .. Len(first)
        BY <1>5, <2>1
      <3>2. frames[i] = first[i]
        BY <1>5, <3>1
      <3> QED
        BY <3>1, <3>2 DEF Stops
    <2>2. CASE i > Len(first)
      <3>1. /\ i - Len(first) \in 1 .. Len(second)
            /\ Len(first) + (i - Len(first)) = i
        BY <1>5, <2>2
      <3>2. frames[i] = second[i - Len(first)]
        BY <1>5, <3>1
      <3> QED
        BY <1>2, <3>1, <3>2 DEF Stops
    <2> QED
      BY <1>5, <2>1, <2>2
  <1>8. /\ selected' \in [Session -> Group \cup {Empty}]
        /\ leftTyping' \in [Session -> SUBSET Group]
        /\ groupDraft' \in [Session -> BOOLEAN]
        /\ \A g \in Audiences \ ToSet(told) : Text(s, g) => Text(s, g)'
        /\ \A t \in Session \ {s}, g \in Audiences : Text(t, g)' = Text(t, g)
    BY <1>1, SelectsTexts
  <1>9. FieldsOK'
    BY <1>1, <1>8 DEF FieldsOK, Selects
  <1>10. \A g \in Audiences :
           HasMark(frames, currentUser[s], g) \/ (Text(s, g) => Text(s, g)')
    BY <1>2, <1>6, <1>8
  <1> QED
    BY <1>3, <1>4, <1>7, <1>8, <1>9, <1>10, StopsInv

LEMMA EditSelection ==
  ASSUME TypingInv, NEW s \in Session, NEW g \in Group,
         NEW t \in {"CreateGroup", "JoinGroup"},
         selectGroup(s, g) \/ createOrJoin(s, t, g),
         UNCHANGED <<serverVars, restarts, breaks>>
  PROVE  TypingInv'
  <1>1. /\ TypeOK /\ FieldsOK /\ joinedGroups \in [Session -> SUBSET Group]
        /\ currentUser[s] # Empty
    BY TypesSplit
    DEF TypingInv, TypeOK, ControllerTypeOK, selectGroup, createOrJoin, Types,
        Operation
  <1>2. groupSelector[s] \in Seq(Group) /\ IsInjective(groupSelector[s])
    BY <1>1 DEF FieldsOK
  <1>3. <<>> \in Seq(UserFrame) /\ Stops(s, <<>>)
    BY DEF Stops
  <1>4. ASSUME NEW told \in Seq(Group)
        PROVE  <<>> \o Stopped(s, told) = Stopped(s, told)
    <2>1. Stopped(s, told) \in Seq(UserFrame)
      BY <1>1, StoppedFrames
    <2> QED
      BY <2>1
  <1>5. CASE selectGroup(s, g)
    <2>1. <<g>> \in Seq(Group) /\ <<g>> # <<>>
      OBVIOUS
    <2>2. Operation(s, "typing", <<>> \o Stopped(s, <<g>>)) /\ Selects(s, <<g>>)
      BY <1>4, <1>5, <2>1 DEF selectGroup, Types
    <2>3. UNCHANGED <<groupWindow, groupDraft, groupSelector, joinedGroups,
                      publicTyping, groupTyping>>
      BY <1>5 DEF selectGroup, Types
    <2>4. /\ groupWindow' \in [Session -> BOOLEAN]
          /\ groupSelector' \in [Session -> Seq(Group)]
          /\ \A r \in Session : IsInjective(groupSelector'[r])
          /\ joinedGroups' \in [Session -> SUBSET Group]
      BY <1>1, <2>3 DEF FieldsOK
    <2> QED
      BY <1>3, <2>1, <2>2, <2>3, <2>4, SelectsInv
  <1>6. CASE createOrJoin(s, t, g)
    <2> DEFINE told  == Reselected(s, g)
               raw   == textFrame(s, t, Empty, g)
               items == withGroup(groupSelector[s], g)
    <2>1. /\ items \in Seq(Group) /\ items # <<>> /\ IsInjective(items)
      <3>1. CASE g \in ToSet(groupSelector[s])
        BY <1>2, <3>1 DEF withGroup, ToSet
      <3>2. CASE g \notin ToSet(groupSelector[s])
        <4>1. /\ items = Append(groupSelector[s], g)
              /\ Len(groupSelector[s]) \in Nat
              /\ DOMAIN groupSelector[s] = 1 .. Len(groupSelector[s])
          BY <1>2, <3>2 DEF withGroup
        <4>2. /\ items \in Seq(Group) /\ Len(items) = Len(groupSelector[s]) + 1
              /\ items[Len(items)] = g
              /\ \A i \in 1 .. Len(groupSelector[s]) : items[i] = groupSelector[s][i]
              /\ DOMAIN items = 1 .. Len(items)
          BY <1>2, <4>1, AppendProperties
        <4> HIDE DEF items
        <4>3. ASSUME NEW a \in DOMAIN items, NEW b \in DOMAIN items, items[a] = items[b]
              PROVE  a = b
          <5>1. /\ a = Len(items) \/ a \in 1 .. Len(groupSelector[s])
                /\ b = Len(items) \/ b \in 1 .. Len(groupSelector[s])
            BY <4>1, <4>2
          <5>2. \A i \in 1 .. Len(groupSelector[s]) : groupSelector[s][i] # g
            BY <3>2, <4>1 DEF ToSet
          <5> QED
            BY <1>2, <4>1, <4>2, <4>3, <5>1, <5>2 DEF IsInjective
        <4> QED
          BY <4>1, <4>2, <4>3 DEF IsInjective
      <3> QED
        BY <3>1, <3>2
    <2>2. told \in Seq(Group)
      <3>1. Head(items) \in Group
        BY <2>1, HeadTailProperties
      <3> QED
        BY <3>1 DEF Reselected
    <2>3. raw \in UserFrame /\ raw.type # "typing" /\ raw.content # "typing"
      <3>1. g \in Audiences
        BY DEF Audiences
      <3> QED
        BY <1>1, <3>1, SpokenFrame
    <2>4. /\ Operation(s, "group", <<raw>> \o Stopped(s, told))
          /\ joinedGroups' = [joinedGroups EXCEPT ![s] = @ \cup {g}]
          /\ groupSelector' = [groupSelector EXCEPT ![s] = items]
          /\ UNCHANGED <<groupWindow, groupDraft, publicTyping, groupTyping>>
          /\ told = <<>> => UNCHANGED <<selected, leftTyping, publicDraft>>
          /\ told # <<>> => Selects(s, told)
      BY <1>1, <1>6 DEF createOrJoin, FieldsOK
    <2> HIDE DEF told, raw, items
    <2>5. <<raw>> \in Seq(UserFrame) /\ Stops(s, <<raw>>)
      BY <2>3 DEF Stops
    <2>6. /\ groupWindow' \in [Session -> BOOLEAN]
          /\ groupSelector' \in [Session -> Seq(Group)]
          /\ \A r \in Session : IsInjective(groupSelector'[r])
          /\ joinedGroups' \in [Session -> SUBSET Group]
      BY <1>1, <2>1, <2>4 DEF FieldsOK
    <2>7. CASE told # <<>>
      BY <2>2, <2>4, <2>5, <2>6, <2>7, SelectsInv
    <2>8. CASE told = <<>>
      <3>1. <<raw>> \o Stopped(s, told) = <<raw>>
        <4>1. Stopped(s, told) = <<>>
          BY <2>8 DEF Stopped
        <4> QED
          BY <2>5, <4>1
      <3>2. Operation(s, "group", <<raw>>)
        BY <2>4, <3>1
      <3>3. FieldsOK'
        BY <1>1, <2>4, <2>6, <2>8 DEF FieldsOK
      <3>4. \A r \in Session, h \in Audiences : Text(r, h)' = Text(r, h)
        BY <2>4, <2>8 DEF Text
      <3> QED
        BY <2>4, <2>5, <2>6, <3>2, <3>3, <3>4, StopsInv
    <2> QED
      BY <2>7, <2>8
  <1> QED
    BY <1>5, <1>6

(* A window that comes or goes without a frame.                            *)
LEMMA SilentFieldsInv ==
  ASSUME TypingInv, FieldsOK',
         UNCHANGED <<connVars, controllerVars, serverVars, restarts, breaks,
                     publicTyping, groupTyping>>,
         \A t \in Session, g \in Audiences : Text(t, g) => Text(t, g)'
  PROVE  TypingInv'
  <1>1. TypeOK /\ ShownOK
    BY TypesSplit DEF TypingInv
  <1>2. /\ UNCHANGED <<session, linkUp, failing, toServer, toClient, currentUser,
                       joinedGroups, ops, clients, users, groups, publicHistory,
                       groupHistory, loadedGroups, routes, username, publicFile,
                       groupFile, restarts, breaks, publicTyping, groupTyping>>
    BY DEF connVars, controllerVars, serverVars, memoryVars, diskVars
  <1>3. TypingTypeOK'
    <2>1. TypeOK' /\ ShownOK'
      BY <1>1, <1>2
      DEF TypeOK, ConnTypeOK, ServerTypeOK, ControllerTypeOK, ShownOK
    <2> QED
      BY <2>1 DEF TypingTypeOK, FieldsOK, ShownOK
  <1>4. /\ \A g : Audience(g)' = Audience(g)
        /\ \A r, g : ShownIn(r, g)' = ShownIn(r, g)
        /\ \A u : Used(u)' = Used(u)
        /\ \A r : OnlyOne(r)' = OnlyOne(r)
    BY <1>2 DEF Audience, ShownIn, Used, OnlyOne
  <1>5. LinksStand' /\ HistoriesUnmarked' /\ MarksSigned'
    BY <1>2 DEF TypingInv, LinksStand, HistoriesUnmarked, MarksSigned
  <1>6. MarksAddressed' /\ ShownAddressed'
    BY <1>2, <1>4 DEF TypingInv, MarksAddressed, ShownAddressed
  <1>7. StagesAgree'
    BY <1>2, <1>4 DEF TypingInv, StagesAgree, Agree, LastTells
  <1> QED
    BY <1>3, <1>5, <1>6, <1>7 DEF TypingInv

LEMMA OpenCloseInv ==
  ASSUME TypingInv, NEW s \in Session,
         openGroupWindow(s) \/ closeGroupWindow(s),
         UNCHANGED <<serverVars, restarts, breaks>>
  PROVE  TypingInv'
  <1>1. /\ TypeOK /\ FieldsOK /\ joinedGroups \in [Session -> SUBSET Group]
    BY TypesSplit DEF TypingInv, TypeOK, ControllerTypeOK
  <1>2. groupSelector[s] \in Seq(Group)
    BY <1>1 DEF FieldsOK
  <1>3. CASE openGroupWindow(s) /\ groupSelector[s] # <<>>
    <2> DEFINE told == <<Head(groupSelector[s])>>
    <2>1. told \in Seq(Group) /\ told # <<>>
      <3>1. Head(groupSelector[s]) \in Group
        BY <1>2, <1>3, HeadTailProperties
      <3> QED
        BY <3>1
    <2>2. <<>> \o Stopped(s, told) = Stopped(s, told)
      <3>1. Stopped(s, told) \in Seq(UserFrame)
        BY <1>1, <1>3, <2>1, StoppedFrames DEF openGroupWindow
      <3> QED
        BY <3>1
    <2>3. Operation(s, "typing", <<>> \o Stopped(s, told)) /\ Selects(s, told)
      BY <1>3, <2>2 DEF openGroupWindow, Types
    <2>4. /\ UNCHANGED <<groupDraft, groupSelector, joinedGroups, publicTyping,
                         groupTyping>>
          /\ groupWindow' = [groupWindow EXCEPT ![s] = TRUE]
      BY <1>3 DEF openGroupWindow, Types
    <2>5. /\ groupWindow' \in [Session -> BOOLEAN]
          /\ groupSelector' \in [Session -> Seq(Group)]
          /\ \A r \in Session : IsInjective(groupSelector'[r])
          /\ joinedGroups' \in [Session -> SUBSET Group]
      BY <1>1, <2>4 DEF FieldsOK
    <2>6. <<>> \in Seq(UserFrame) /\ Stops(s, <<>>)
      BY DEF Stops
    <2> HIDE DEF told
    <2> QED
      BY <2>1, <2>3, <2>4, <2>5, <2>6, SelectsInv
  <1>4. CASE openGroupWindow(s) /\ groupSelector[s] = <<>>
    <2>1. /\ UNCHANGED <<connVars, controllerVars, publicDraft, groupDraft,
                         groupSelector, selected, leftTyping, publicTyping,
                         groupTyping>>
          /\ groupWindow' = [groupWindow EXCEPT ![s] = TRUE]
      BY <1>4 DEF openGroupWindow
    <2>2. FieldsOK'
      BY <1>1, <2>1 DEF FieldsOK
    <2>3. \A t \in Session, g \in Audiences : Text(t, g)' = Text(t, g)
      BY <2>1 DEF Text
    <2> QED
      BY <2>1, <2>2, <2>3, SilentFieldsInv
  <1>5. CASE closeGroupWindow(s)
    <2> DEFINE left == leftTyping[s] \cup MidText(s)
    <2>1. /\ UNCHANGED <<connVars, controllerVars, publicDraft, groupSelector,
                         publicTyping, groupTyping>>
          /\ groupWindow' = [groupWindow EXCEPT ![s] = FALSE]
          /\ groupDraft' = [groupDraft EXCEPT ![s] = FALSE]
          /\ selected' = [selected EXCEPT ![s] = Empty]
          /\ leftTyping' = [leftTyping EXCEPT ![s] = left]
      BY <1>5 DEF closeGroupWindow
    <2>2. /\ left \in SUBSET Group
          /\ \A g \in Group :
               (groupDraft[s] /\ selected[s] = g) \/ g \in leftTyping[s] => g \in left
      BY <1>1, GroupAssumption DEF MidText, FieldsOK
    <2> HIDE DEF left
    <2>3. FieldsOK'
      BY <1>1, <2>1, <2>2 DEF FieldsOK
    <2>4. ASSUME NEW t \in Session, NEW g \in Audiences, Text(t, g)
          PROVE  Text(t, g)'
      BY <1>1, <2>1, <2>2, <2>4 DEF Text, Audiences, FieldsOK
    <2> QED
      BY <2>1, <2>3, <2>4, SilentFieldsInv
  <1> QED
    BY <1>3, <1>4, <1>5

LEMMA EditInv ==
  ASSUME TypingInv, NEW s \in Session, Edit(s), UNCHANGED <<serverVars, restarts, breaks>>
  PROVE  TypingInv'
  <1>1. ASSUME NEW text \in BOOLEAN,
               \/ editMessageInput(s, text) \/ sendPublicText(s)
               \/ editGroupMessageInput(s, text) \/ sendGroupText(s)
        PROVE  TypingInv'
    BY <1>1, EditPublic, EditGroup
  <1>2. ASSUME NEW g \in Group, NEW t \in {"CreateGroup", "JoinGroup"},
               selectGroup(s, g) \/ createOrJoin(s, t, g)
        PROVE  TypingInv'
    BY <1>2, EditSelection
  <1>3. CASE openGroupWindow(s) \/ closeGroupWindow(s)
    BY <1>3, OpenCloseInv
  <1> QED
    BY <1>1, <1>2, <1>3 DEF Edit

-----------------------------------------------------------------------------
(* A client connects, and reads.                                           *)

LEMMA ConnectTypes ==
  ASSUME TypeOK, NEW s \in Session, NEW u \in Name, Connect(s, u)
  PROVE  TypeOK'
  <1>1. PICK raw \in connectMessage(u) :
          toServer' = [toServer EXCEPT ![s] = <<raw>>]
    BY DEF Connect, ConnectUser
  <1>2. ConnTypeOK'
    <2>1. <<raw>> \in Seq(ClientFrame)
      BY ConnectIsClientFrame
    <2> QED
      BY <1>1, <2>1 DEF TypeOK, Connect, ConnectUser, ConnTypeOK, Stage
  <1>3. ServerTypeOK'
    BY DEF TypeOK, Connect, ServerTypeOK, serverVars, memoryVars, diskVars
  <1>4. ControllerTypeOK'
    BY DEF TypeOK, Connect, ConnectUser, ControllerTypeOK
  <1> QED
    BY <1>2, <1>3, <1>4 DEF Connect, TypeOK

LEMMA ConnectInv ==
  ASSUME TypingInv, NEW s \in Session, NEW u \in Name, Connect(s, u),
         UNCHANGED <<fieldVars, publicTyping, groupTyping>>
  PROVE  TypingInv'
  <1>1. TypeOK /\ FieldsOK /\ ShownOK /\ LinksStand
    BY TypesSplit DEF TypingInv
  <1>2. /\ session[s] = "none" /\ currentUser[s] = Empty /\ u # Empty
        /\ s \notin clients /\ \A g \in Group : s \notin groups[g]
        /\ \A v \in Name : users[v] # s
    BY <1>1, NameAssumption DEF Connect, ConnectUser, LinksStand
  <1>3. /\ session' = [session EXCEPT ![s] = "pending"]
        /\ linkUp' = [linkUp EXCEPT ![s] = TRUE]
        /\ currentUser' = [currentUser EXCEPT ![s] = u]
        /\ UNCHANGED <<serverVars, failing, toClient>>
    BY DEF Connect, ConnectUser
  <1>4. PICK raw \in connectMessage(u) :
          /\ toServer'[s] = <<raw>>
          /\ \A t \in Session \ {s} : toServer'[t] = toServer[t]
    BY <1>1 DEF Connect, ConnectUser, TypeOK, ConnTypeOK
  <1>5. /\ currentUser'[s] = u
        /\ \A t \in Session \ {s} : currentUser'[t] = currentUser[t]
    BY <1>1, <1>3 DEF TypeOK, ControllerTypeOK
  <1>6. raw.type # "typing"
    BY <1>4, ConnectIsClientFrame
  <1>7. TypingTypeOK'
    <2>1. TypeOK' /\ FieldsOK' /\ ShownOK'
      BY <1>1, ConnectTypes DEF FieldsOK, ShownOK, fieldVars
    <2> QED
      BY <2>1 DEF TypingTypeOK, FieldsOK, ShownOK
  <1>8. LinksStand'
    <2>1. \A t \in Session :
            /\ session'[t] = IF t = s THEN "pending" ELSE session[t]
            /\ linkUp'[t] = IF t = s THEN TRUE ELSE linkUp[t]
            /\ failing'[t] = failing[t]
      BY <1>1, <1>3 DEF TypeOK, ConnTypeOK
    <2>2. ASSUME NEW t \in Session
          PROVE  /\ session'[t] \in {"none", "pending", "active"}
                 /\ failing'[t] = 0
                 /\ linkUp'[t] = (session'[t] # "none")
                 /\ (currentUser'[t] = Empty) = (session'[t] = "none")
      <3>1. CASE t = s
        BY <1>1, <1>2, <1>5, <2>1, <3>1 DEF LinksStand
      <3>2. CASE t # s
        BY <1>1, <1>5, <2>1, <3>2, ZenonT(60) DEF LinksStand
      <3> QED
        BY <3>1, <3>2
    <2>3. \A t \in Session : session[t] = "active" => session'[t] = "active"
      BY <1>2, <2>1
    <2>4. /\ clients' = clients /\ groups' = groups /\ users' = users
          /\ clients \subseteq Session
          /\ \A g \in Group : groups[g] \subseteq Session
      BY <1>1, <1>3 DEF serverVars, memoryVars, TypeOK, ServerTypeOK
    <2>5. /\ \A t \in clients : session'[t] = "active"
          /\ \A g \in Group : \A t \in groups[g] : session'[t] = "active"
      BY <1>1, <2>3, <2>4 DEF LinksStand
    <2>6. \A v \in Name : users[v] \in Session => session'[users[v]] = "active"
      BY <1>1, <2>3 DEF LinksStand
    <2> QED
      BY <2>2, <2>4, <2>5, <2>6 DEF LinksStand
  <1>9. HistoriesUnmarked'
    BY DEF TypingInv, HistoriesUnmarked, Connect, serverVars, memoryVars, diskVars
  <1>10. MarksSigned'
    <2> SUFFICES ASSUME NEW t \in Session, NEW i \in 1 .. Len(toServer'[t]),
                        toServer'[t][i].type = "typing"
                 PROVE  /\ toServer'[t][i].sender = currentUser'[t]
                        /\ toServer'[t][i].target = Empty
      BY DEF MarksSigned
    <2>1. t # s
      BY <1>4, <1>6
    <2> QED
      BY <1>4, <1>5, <2>1 DEF TypingInv, MarksSigned
  <1>11. \A v : v # Empty /\ Used(v) => Used(v)'
    BY <1>2, <1>5 DEF Used
  <1>12. /\ \A g : Audience(g)' = Audience(g)
         /\ \A t, g : ShownIn(t, g)' = ShownIn(t, g)
         /\ \A t, g : Text(t, g)' = Text(t, g)
    BY <1>3 DEF Audience, ShownIn, Text, fieldVars, serverVars, memoryVars
  <1>13. MarksAddressed'
    BY <1>3, <1>11, <1>12 DEF TypingInv, MarksAddressed
  <1>14. \A t \in Session, g \in Audiences : ShownIn(t, g) \subseteq Name
    BY <1>1 DEF ShownOK, ShownIn, Audiences
  <1>15. ShownAddressed'
    <2> SUFFICES ASSUME NEW t \in Session, NEW g \in Audiences, NEW v \in ShownIn(t, g)
                 PROVE  v # currentUser'[t] /\ Used(v)' /\ t \in Audience(g)'
      BY <1>12 DEF ShownAddressed
    <2>1. v # currentUser[t] /\ Used(v) /\ t \in Audience(g) /\ v # Empty
      BY <1>14, NameAssumption DEF TypingInv, ShownAddressed
    <2>2. t # s
      BY <1>2, <2>1 DEF Audience, Audiences
    <2> QED
      BY <1>5, <1>11, <1>12, <2>1, <2>2
  <1>16. StagesAgree'
    <2> SUFFICES ASSUME NEW r \in Session, NEW t \in Session, NEW g \in Audiences,
                        currentUser'[t] # Empty, OnlyOne(t)'
                 PROVE  Agree(toServer'[t], toClient[r],
                              currentUser'[t] \in ShownIn(r, g),
                              currentUser'[t], g, Text(t, g))
      BY <1>3, <1>12 DEF StagesAgree
    <2>1. CASE t # s
      <3>1. OnlyOne(t) /\ currentUser'[t] = currentUser[t]
        BY <1>2, <1>5, <2>1 DEF OnlyOne
      <3> QED
        BY <1>4, <2>1, <3>1 DEF TypingInv, StagesAgree
    <2>2. CASE t = s
      <3>1. ~Used(u)
        BY <1>2, <1>5, <2>2 DEF OnlyOne, Used
      <3>2. u \notin ShownIn(r, g)
        BY <3>1 DEF TypingInv, ShownAddressed
      <3>3. \A i \in 1 .. Len(toClient[r]) : ~Mark(toClient[r][i], u, g)
        BY <3>1 DEF TypingInv, MarksAddressed, Mark
      <3>4. \A i \in 1 .. Len(toServer'[t]) : ~Mark(toServer'[t][i], u, g)
        BY <1>4, <1>6, <2>2 DEF Mark
      <3> QED
        BY <1>5, <2>2, <3>2, <3>3, <3>4 DEF Agree, HasMark, LastTells
    <2> QED
      BY <2>1, <2>2
  <1> QED
    BY <1>7, <1>8, <1>9, <1>10, <1>13, <1>15, <1>16 DEF TypingInv

LEMMA ReceiveTypes ==
  ASSUME TypeOK, NEW s \in Session, Receive(s)
  PROVE  /\ TypeOK'
         /\ toClient[s] \in Seq(Raw) /\ toClient[s] # <<>>
         /\ Head(toClient[s]) \in Raw
         /\ toClient'[s] = Tail(toClient[s])
         /\ \A t \in Session \ {s} : toClient'[t] = toClient[t]
  <1>1. toClient[s] \in Seq(Raw) /\ toClient[s] # <<>>
    BY DEF TypeOK, Receive, ReceiveFrame, TakeFrame, ConnTypeOK
  <1>2. Head(toClient[s]) \in Raw /\ Tail(toClient[s]) \in Seq(Raw)
    BY <1>1, HeadTailProperties
  <1>3. ConnTypeOK'
    BY <1>2 DEF TypeOK, Receive, ReceiveFrame, TakeFrame, ConnTypeOK
  <1>4. ServerTypeOK'
    BY DEF TypeOK, Receive, ServerTypeOK, serverVars, memoryVars, diskVars
  <1>5. ControllerTypeOK'
    <2>1. Head(toClient[s]).groupId \in Group \cup {Empty}
      BY <1>2 DEF Raw
    <2>2. joinedGroups' \in [Session -> SUBSET Group]
      BY <2>1 DEF TypeOK, Receive, ReceiveFrame, ControllerTypeOK
    <2> QED
      BY <2>2 DEF TypeOK, Receive, ReceiveFrame, ControllerTypeOK
  <1> QED
    BY <1>1, <1>2, <1>3, <1>4, <1>5
    DEF Receive, ReceiveFrame, TakeFrame, TypeOK, ConnTypeOK


\* What is shown changes in one place, by one mark.
LEMMA PublicShown ==
  ASSUME ShownOK, NEW s \in Session, NEW u \in Name \cup {Empty},
         NEW on \in BOOLEAN, setPublicUserTyping(s, u, on)
  PROVE  /\ ShownOK'
         /\ \A t \in Session, g \in Audiences :
              t # s \/ g # Empty => ShownIn(t, g)' = ShownIn(t, g)
         /\ ShownIn(s, Empty)' = Marked(s, ShownIn(s, Empty), u, on)
  <1>1. Marked(s, publicTyping[s], u, on) \subseteq Name
    BY DEF ShownOK, Marked
  <1>2. publicTyping' = [publicTyping EXCEPT ![s] = Marked(s, publicTyping[s], u, on)]
        /\ groupTyping' = groupTyping
    BY DEF setPublicUserTyping
  <1> QED
    BY <1>1, <1>2 DEF ShownOK, ShownIn, Audiences

LEMMA GroupShown ==
  ASSUME ShownOK, NEW s \in Session, NEW u \in Name \cup {Empty},
         NEW h \in Group, NEW on \in BOOLEAN, setGroupUserTyping(s, h, u, on)
  PROVE  /\ ShownOK'
         /\ \A t \in Session, g \in Audiences :
              t # s \/ g # h => ShownIn(t, g)' = ShownIn(t, g)
         /\ ShownIn(s, h)' = Marked(s, ShownIn(s, h), u, on)
  <1>1. groupTyping[s] \in [Group -> SUBSET Name]
    BY DEF ShownOK
  <1>2. Marked(s, groupTyping[s][h], u, on) \subseteq Name
    BY <1>1 DEF Marked
  <1>3. groupTyping' = [groupTyping EXCEPT ![s] =
                          [groupTyping[s] EXCEPT ![h] = Marked(s, groupTyping[s][h], u, on)]]
        /\ publicTyping' = publicTyping
    BY DEF setGroupUserTyping
  <1>4. [groupTyping[s] EXCEPT ![h] = Marked(s, groupTyping[s][h], u, on)]
          \in [Group -> SUBSET Name]
    BY <1>1, <1>2
  <1>5. /\ groupTyping'[s] = [groupTyping[s] EXCEPT ![h] = Marked(s, groupTyping[s][h], u, on)]
        /\ \A t \in Session \ {s} : groupTyping'[t] = groupTyping[t]
        /\ ShownOK'
    BY <1>3, <1>4 DEF ShownOK
  <1>6. /\ groupTyping'[s][h] = Marked(s, groupTyping[s][h], u, on)
        /\ \A g \in Group \ {h} : groupTyping'[s][g] = groupTyping[s][g]
    BY <1>1, <1>5
  <1>7. ASSUME NEW t \in Session, NEW g \in Audiences, t # s \/ g # h
        PROVE  ShownIn(t, g)' = ShownIn(t, g)
    BY <1>3, <1>5, <1>6, <1>7 DEF ShownIn, Audiences
  <1>8. ShownIn(s, h)' = Marked(s, ShownIn(s, h), u, on)
    BY <1>6, GroupAssumption DEF ShownIn
  <1> QED
    BY <1>5, <1>7, <1>8

\* Who is shown after a frame: he whose mark it was, or who was shown before.
LEMMA ShownByFrame ==
  ASSUME TypingInv, NEW s \in Session, ShowTyping(s)
  PROVE  /\ ShownOK'
         /\ \A t \in Session \ {s}, g \in Audiences : ShownIn(t, g)' = ShownIn(t, g)
         /\ \A g \in Audiences : \A u \in ShownIn(s, g)' :
              LET raw == Head(toClient[s]) IN
              \/ /\ Mark(raw, u, g) /\ raw.content = "typing"
                 /\ u # currentUser[s]
              \/ ~Mark(raw, u, g) /\ u \in ShownIn(s, g)
  <1> DEFINE raw == Head(toClient[s])
             m   == fromJson(raw)
  <1>1. ShownOK /\ Receive(s) /\ raw \in Raw
    BY TypesSplit, ReceiveTypes DEF TypingInv, ShowTyping
  <1>2. /\ raw.sender \in Name \cup {Empty} /\ raw.groupId \in Group \cup {Empty}
        /\ raw.type \in RawWord
    BY <1>1 DEF Raw
  <1>3. /\ raw # Garbled => /\ m.type = stringToMessageType(raw.type)
                            /\ m.sender = raw.sender /\ m.groupId = raw.groupId
                            /\ m.content = raw.content
        /\ raw = Garbled => m.type = "Unknown" /\ raw.type = "garbled"
    <2>1. CASE raw = Garbled
      BY <2>1 DEF fromJson, Garbled, NoMessage, NewMessage
    <2>2. CASE raw # Garbled
      BY <1>1, <2>2 DEF fromJson, Raw
    <2> QED
      BY <2>1, <2>2
  <1> HIDE DEF raw, m
  <1>4. /\ m.type = "Typing" => raw.type = "typing" /\ raw # Garbled
        /\ m.type \in {"PublicMessage", "GroupMessage"}
             => raw.type # "typing" /\ raw # Garbled
        /\ raw.type = "typing" => m.type = "Typing"
    BY <1>3 DEF stringToMessageType
  <1>5. \A g \in Audiences : \A u \in ShownIn(s, g) : u # currentUser[s] /\ u # Empty
    <2>1. \A g \in Audiences : ShownIn(s, g) \subseteq Name
      BY <1>1 DEF ShownOK, ShownIn, Audiences
    <2> QED
      BY <2>1, NameAssumption DEF TypingInv, ShownAddressed
  <1>6. CASE m.type = "Typing" /\ handleTyping(s, m)
    <2>1. CASE m.groupId = Empty
      <3> DEFINE on == m.content = "typing"
      <3>1. setPublicUserTyping(s, raw.sender, on) /\ on \in BOOLEAN
        BY <1>3, <1>4, <1>6, <2>1 DEF handleTyping
      <3>2. on <=> raw.content = "typing"
        BY <1>3, <1>4, <1>6
      <3> HIDE DEF on
      <3>3. /\ ShownOK'
            /\ \A t \in Session, g \in Audiences :
                 t # s \/ g # Empty => ShownIn(t, g)' = ShownIn(t, g)
            /\ ShownIn(s, Empty)' = Marked(s, ShownIn(s, Empty), raw.sender, on)
        BY <1>1, <1>2, <3>1, PublicShown
      <3>4. raw.groupId = Empty /\ raw.type = "typing" /\ Empty \in Audiences
        BY <1>3, <1>4, <1>6, <2>1 DEF Audiences
      <3>5. ASSUME NEW g \in Audiences, NEW u \in ShownIn(s, g)'
            PROVE  \/ /\ Mark(raw, u, g) /\ raw.content = "typing"
                      /\ u # currentUser[s]
                   \/ ~Mark(raw, u, g) /\ u \in ShownIn(s, g)
        <4>1. CASE g # Empty
          BY <3>3, <3>4, <3>5, <4>1 DEF Mark
        <4>2. CASE g = Empty
          BY <1>5, <3>2, <3>3, <3>4, <3>5, <4>2 DEF Mark, Marked
        <4> QED
          BY <4>1, <4>2
      <3> QED
        BY <3>3, <3>5 DEF raw
    <2>2. CASE m.groupId # Empty
      <3> DEFINE on == m.content = "typing"
      <3> PICK h \in Group : h = raw.groupId
        BY <1>2, <1>3, <1>4, <1>6, <2>2
      <3>1. setGroupUserTyping(s, h, raw.sender, on) /\ on \in BOOLEAN
        BY <1>3, <1>4, <1>6, <2>2 DEF handleTyping
      <3>2. on <=> raw.content = "typing"
        BY <1>3, <1>4, <1>6
      <3> HIDE DEF on
      <3>3. /\ ShownOK'
            /\ \A t \in Session, g \in Audiences :
                 t # s \/ g # h => ShownIn(t, g)' = ShownIn(t, g)
            /\ ShownIn(s, h)' = Marked(s, ShownIn(s, h), raw.sender, on)
        BY <1>1, <1>2, <3>1, GroupShown
      <3>4. raw.type = "typing" /\ h \in Audiences
        BY <1>4, <1>6, <3>1 DEF Audiences
      <3>5. ASSUME NEW g \in Audiences, NEW u \in ShownIn(s, g)'
            PROVE  \/ /\ Mark(raw, u, g) /\ raw.content = "typing"
                      /\ u # currentUser[s]
                   \/ ~Mark(raw, u, g) /\ u \in ShownIn(s, g)
        <4>1. CASE g # h
          BY <3>3, <3>4, <3>5, <4>1 DEF Mark
        <4>2. CASE g = h
          BY <1>5, <3>2, <3>3, <3>4, <3>5, <4>2 DEF Mark, Marked
        <4> QED
          BY <4>1, <4>2
      <3> QED
        BY <3>3, <3>5 DEF raw
    <2> QED
      BY <2>1, <2>2
  <1>7. CASE m.type = "PublicMessage" /\ setPublicUserTyping(s, m.sender, FALSE)
    <2> DEFINE no == FALSE
    <2>1. setPublicUserTyping(s, raw.sender, no) /\ no \in BOOLEAN /\ ~no
      BY <1>3, <1>4, <1>7
    <2> HIDE DEF no
    <2>2. /\ ShownOK'
          /\ \A t \in Session, g \in Audiences :
               t # s \/ g # Empty => ShownIn(t, g)' = ShownIn(t, g)
          /\ ShownIn(s, Empty)' = Marked(s, ShownIn(s, Empty), raw.sender, no)
      BY <1>1, <1>2, <2>1, PublicShown
    <2>3. \A g \in Audiences : ShownIn(s, g)' \subseteq ShownIn(s, g)
      BY <2>1, <2>2 DEF Marked
    <2> QED
      BY <1>4, <1>7, <2>2, <2>3 DEF Mark, raw
  <1>8. CASE m.type = "GroupMessage" /\ setGroupUserTyping(s, m.groupId, m.sender, FALSE)
    <2> DEFINE no == FALSE
    <2> PICK h \in Group \cup {Empty} : h = raw.groupId
      BY <1>2
    <2>1. setGroupUserTyping(s, h, raw.sender, no) /\ no \in BOOLEAN /\ ~no
      BY <1>3, <1>4, <1>8
    <2> HIDE DEF no
    <2>2. CASE h \in Group
      <3>1. /\ ShownOK'
            /\ \A t \in Session, g \in Audiences :
                 t # s \/ g # h => ShownIn(t, g)' = ShownIn(t, g)
            /\ ShownIn(s, h)' = Marked(s, ShownIn(s, h), raw.sender, no)
        BY <1>1, <1>2, <2>1, <2>2, GroupShown
      <3>2. \A g \in Audiences : ShownIn(s, g)' \subseteq ShownIn(s, g)
        BY <2>1, <3>1 DEF Marked
      <3> QED
        BY <1>4, <1>8, <3>1, <3>2 DEF Mark, raw
    <2>3. CASE h \notin Group
      <3>1. groupTyping' = groupTyping /\ publicTyping' = publicTyping
        BY <1>1, <2>1, <2>3 DEF setGroupUserTyping, ShownOK
      <3>2. ShownOK' /\ \A t \in Session, g \in Audiences : ShownIn(t, g)' = ShownIn(t, g)
        BY <1>1, <3>1 DEF ShownOK, ShownIn
      <3> QED
        BY <1>4, <1>8, <3>2 DEF Mark, raw
    <2> QED
      BY <2>2, <2>3
  <1>9. CASE /\ m.type \notin {"Typing", "PublicMessage", "GroupMessage"}
             /\ UNCHANGED <<publicTyping, groupTyping>>
    <2>1. ShownOK' /\ \A t \in Session, g \in Audiences : ShownIn(t, g)' = ShownIn(t, g)
      BY <1>1, <1>9 DEF ShownOK, ShownIn
    <2> QED
      BY <1>4, <1>9, <2>1 DEF Mark, raw
  <1> QED
    BY <1>6, <1>7, <1>8, <1>9 DEF ShowTyping, m, raw

LEMMA ShowTypingInv ==
  ASSUME TypingInv, NEW s \in Session, ShowTyping(s)
  PROVE  TypingInv'
  <1> DEFINE raw == Head(toClient[s])
  <1>1. TypeOK /\ FieldsOK /\ ShownOK /\ LinksStand /\ Receive(s)
    BY TypesSplit DEF TypingInv, ShowTyping
  <1>2. /\ TypeOK'
        /\ toClient[s] \in Seq(Raw) /\ toClient[s] # <<>>
        /\ raw \in Raw
        /\ toClient'[s] = Tail(toClient[s])
        /\ \A t \in Session \ {s} : toClient'[t] = toClient[t]
    BY <1>1, ReceiveTypes
  <1>3. UNCHANGED <<session, linkUp, failing, toServer, currentUser, serverVars, fieldVars>>
    BY DEF ShowTyping, Receive, ReceiveFrame
  <1>4. /\ ShownOK'
        /\ \A t \in Session \ {s}, g \in Audiences : ShownIn(t, g)' = ShownIn(t, g)
        /\ \A g \in Audiences : \A u \in ShownIn(s, g)' :
             \/ /\ Mark(raw, u, g) /\ raw.content = "typing"
                /\ u # currentUser[s]
             \/ ~Mark(raw, u, g) /\ u \in ShownIn(s, g)
    BY ShownByFrame
  <1>5. /\ \A g : Audience(g)' = Audience(g)
        /\ \A t, g : Text(t, g)' = Text(t, g)
        /\ \A u : Used(u)' = Used(u)
        /\ \A t : OnlyOne(t)' = OnlyOne(t)
    BY <1>3 DEF Audience, Text, Used, OnlyOne, serverVars, memoryVars, fieldVars
  <1>6. raw.type = "typing" =>
          /\ raw.sender # Empty
          /\ Used(raw.sender)
          /\ s \in Audience(raw.groupId)
    <2>1. raw = toClient[s][1] /\ 1 \in 1 .. Len(toClient[s])
      BY <1>2
    <2> QED
      BY <2>1 DEF TypingInv, MarksAddressed
  <1> HIDE DEF raw
  <1>7. TypingTypeOK'
    <2>1. FieldsOK'
      BY <1>1, <1>3 DEF FieldsOK, fieldVars
    <2> QED
      BY <1>2, <1>4, <2>1 DEF TypingTypeOK, FieldsOK, ShownOK
  <1>8. LinksStand' /\ HistoriesUnmarked' /\ MarksSigned'
    BY <1>3 DEF TypingInv, LinksStand, HistoriesUnmarked, MarksSigned,
                serverVars, memoryVars, diskVars
  <1>9. MarksAddressed'
    <2> SUFFICES ASSUME NEW t \in Session, NEW i \in 1 .. Len(toClient'[t]),
                        toClient'[t][i].type = "typing"
                 PROVE  /\ toClient'[t][i].sender # Empty
                        /\ Used(toClient'[t][i].sender)
                        /\ t \in Audience(toClient'[t][i].groupId)
      BY <1>5 DEF MarksAddressed
    <2>1. CASE t # s
      BY <1>2, <2>1 DEF TypingInv, MarksAddressed
    <2>2. CASE t = s
      <3>1. i \in 1 .. Len(toClient'[s])
        BY <2>2
      <3>2. /\ Len(toClient[s]) \in Nat
            /\ Len(toClient'[s]) = Len(toClient[s]) - 1
            /\ \A j \in 1 .. Len(toClient'[s]) : toClient'[s][j] = toClient[s][j + 1]
        BY <1>2, HeadTailProperties
      <3>3. i + 1 \in 1 .. Len(toClient[s]) /\ toClient'[s][i] = toClient[s][i + 1]
        BY <3>1, <3>2
      <3> QED
        BY <2>2, <3>3 DEF TypingInv, MarksAddressed
    <2> QED
      BY <2>1, <2>2
  <1>10. ShownAddressed'
    <2> SUFFICES ASSUME NEW t \in Session, NEW g \in Audiences, NEW u \in ShownIn(t, g)'
                 PROVE  u # currentUser[t] /\ Used(u) /\ t \in Audience(g)
      BY <1>3, <1>5 DEF ShownAddressed
    <2>1. CASE t # s
      BY <1>4, <2>1 DEF TypingInv, ShownAddressed
    <2>2. CASE t = s
      BY <1>4, <1>6, <2>2 DEF TypingInv, ShownAddressed, Mark
    <2> QED
      BY <2>1, <2>2
  <1>11. StagesAgree'
    <2> SUFFICES ASSUME NEW r \in Session, NEW t \in Session, NEW g \in Audiences,
                        currentUser[t] # Empty, OnlyOne(t)
                 PROVE  Agree(toServer[t], toClient'[r],
                              currentUser[t] \in ShownIn(r, g)',
                              currentUser[t], g, Text(t, g))
      BY <1>3, <1>5 DEF StagesAgree
    <2> DEFINE u     == currentUser[t]
               shown == u \in ShownIn(r, g)
               new   == u \in ShownIn(r, g)'
               text  == Text(t, g)
    <2>1. /\ Agree(toServer[t], toClient[r], shown, u, g, text)
          /\ shown \in BOOLEAN /\ new \in BOOLEAN /\ text \in BOOLEAN
          /\ toServer[t] \in Seq(Raw)
      BY <1>1, TextType, QueueTypes DEF TypingInv, StagesAgree
    <2>2. CASE r # s
      BY <1>2, <1>4, <2>1, <2>2
    <2>3. CASE r = s
      <3>1. new => \/ Mark(raw, u, g) /\ raw.content = "typing"
                   \/ ~Mark(raw, u, g) /\ shown
        BY <1>4, <2>3
      <3> HIDE DEF u, shown, new, text
      <3>2. Agree(toServer[t], Tail(toClient[s]), new, u, g, text)
        BY <1>2, <2>1, <2>3, <3>1, AgreeRead DEF raw
      <3> QED
        BY <1>2, <2>3, <3>2 DEF u, new, text
    <2> QED
      BY <2>2, <2>3
  <1> QED
    BY <1>7, <1>8, <1>9, <1>10, <1>11 DEF TypingInv


-----------------------------------------------------------------------------
(* The server reads a frame.                                               *)

Reached(out) ==
  out \in Output /\ \A r \in Session : out[r] # <<>> => session[r] = "active"

Quiet(out) == Reached(out) /\ \A r \in Session : Unmarked(out[r])

LEMMA QuietOutputs ==
  /\ Quiet(Silence)
  /\ \A S, raw : raw \in Raw /\ (\A r \in S : session[r] = "active") =>
       /\ Reached(SendTo(S, raw))
       /\ raw.type # "typing" => Quiet(SendTo(S, raw))
  /\ \A out1, out2 : Quiet(out1) /\ Quiet(out2) => Quiet(Both(out1, out2))
  /\ \A s \in Session, h \in Seq(Raw) :
       session[s] = "active" /\ Unmarked(h) => Quiet(sendHistory(s, h))
  <1>1. Quiet(Silence)
    BY OutputTypes DEF Quiet, Reached, Silence, Unmarked
  <1>2. ASSUME NEW S, NEW raw \in Raw, \A r \in S : session[r] = "active"
        PROVE  /\ Reached(SendTo(S, raw))
               /\ raw.type # "typing" => Quiet(SendTo(S, raw))
    <2>1. \A r \in Session : SendTo(S, raw)[r] = IF r \in S THEN <<raw>> ELSE <<>>
      BY DEF SendTo
    <2>2. Reached(SendTo(S, raw))
      BY <1>2, <2>1, OutputTypes DEF Reached
    <2> QED
      BY <2>1, <2>2 DEF Quiet, Unmarked
  <1>3. ASSUME NEW out1, NEW out2, Quiet(out1), Quiet(out2)
        PROVE  Quiet(Both(out1, out2))
    <2>1. Both(out1, out2) \in Output
      BY <1>3, OutputTypes DEF Quiet, Reached
    <2> SUFFICES ASSUME NEW r \in Session
                 PROVE  /\ Both(out1, out2)[r] # <<>> => session[r] = "active"
                        /\ Unmarked(Both(out1, out2)[r])
      BY <2>1 DEF Quiet, Reached
    <2> DEFINE p == out1[r]
               q == out2[r]
    <2>2. /\ p \in Seq(Raw) /\ q \in Seq(Raw) /\ Both(out1, out2)[r] = p \o q
          /\ Unmarked(p) /\ Unmarked(q)
          /\ p # <<>> \/ q # <<>> => session[r] = "active"
      BY <1>3 DEF Quiet, Reached, Output, Both
    <2> HIDE DEF p, q
    <2>3. p \o q # <<>> => p # <<>> \/ q # <<>>
      BY <2>2
    <2>4. /\ Len(p \o q) = Len(p) + Len(q) /\ Len(p) \in Nat /\ Len(q) \in Nat
          /\ \A i \in 1 .. Len(p) : (p \o q)[i] = p[i]
          /\ \A i \in 1 .. Len(q) : (p \o q)[Len(p) + i] = q[i]
      BY <2>2, Joined
    <2>5. ASSUME NEW i \in 1 .. Len(p \o q)
          PROVE  (p \o q)[i].type # "typing"
      <3>1. CASE i <= Len(p)
        <4>1. i \in 1 .. Len(p)
          BY <2>4, <3>1
        <4> QED
          BY <2>2, <2>4, <4>1 DEF Unmarked
      <3>2. CASE i > Len(p)
        <4>1. i - Len(p) \in 1 .. Len(q) /\ Len(p) + (i - Len(p)) = i
          BY <2>4, <3>2
        <4>2. (p \o q)[i] = q[i - Len(p)]
          BY <2>4, <4>1
        <4> QED
          BY <2>2, <4>1, <4>2 DEF Unmarked
      <3> QED
        BY <2>4, <3>1, <3>2
    <2> QED
      BY <2>2, <2>3, <2>5 DEF Unmarked
  <1>4. ASSUME NEW s \in Session, session[s] = "active",
               NEW h \in Seq(Raw), Unmarked(h)
        PROVE  Quiet(sendHistory(s, h))
    <2>1. \A r \in Session : sendHistory(s, h)[r] = IF r = s THEN h ELSE <<>>
      BY DEF sendHistory, Silence
    <2> QED
      BY <1>4, <2>1, OutputTypes DEF Quiet, Reached, Unmarked
  <1> QED
    BY <1>1, <1>2, <1>3, <1>4

\* Whom the server writes to is linked, and gets what is written.
LEMMA Delivered ==
  ASSUME TypeOK, LinksStand, NEW out, Reached(out), Write(out)
  PROVE  /\ failing' = failing
         /\ \A r \in Session : toClient'[r] = toClient[r] \o out[r]
  <1>1. ASSUME NEW r \in Session
        PROVE  /\ linkUp[r] \/ out[r] = <<>>
               /\ toClient[r] \in Seq(Raw) /\ out[r] \in Seq(Raw)
    BY DEF LinksStand, Reached, Output, TypeOK, ConnTypeOK
  <1>2. \A r \in Session : toClient[r] = toClient[r] \o <<>>
    BY <1>1
  <1>3. \A r \in Session : toClient'[r] = toClient[r] \o out[r]
    BY <1>1, <1>2 DEF Write, WriteFrom
  <1>4. failing \in [Session -> Nat] /\ failing' \in [Session -> Nat]
    BY WriteType DEF TypeOK, ConnTypeOK, Write, Reached
  <1>5. \A r \in Session : failing'[r] = failing[r]
    BY <1>1, <1>4 DEF Write, WriteFrom
  <1>6. failing' = failing
    <2>1. /\ failing' = [r \in Session |-> failing'[r]]
          /\ failing = [r \in Session |-> failing[r]]
      BY <1>4
    <2> QED
      BY <1>5, <2>1
  <1> QED
    BY <1>3, <1>6

\* A handler's frame leaves the queue, and is a mark of its sender or none.
LEMMA Taken ==
  ASSUME TypingInv, NEW s \in Session, ReadFrame(s)
  PROVE  /\ session[s] = "active" /\ currentUser[s] # Empty
         /\ toServer[s] \in Seq(Raw) /\ toServer[s] # <<>>
         /\ Head(toServer[s]) \in Raw
         /\ toServer'[s] = Tail(toServer[s])
         /\ \A t \in Session \ {s} : toServer'[t] = toServer[t]
         /\ Head(toServer[s]).type = "typing" =>
              /\ Head(toServer[s]).sender = currentUser[s]
              /\ Head(toServer[s]).target = Empty
  <1>1. TypeOK /\ LinksStand
    BY TypesSplit DEF TypingInv
  <1>2. toServer[s] \in Seq(Raw) /\ toServer[s] # <<>> /\ Head(toServer[s]) \in Raw
    <2>1. toServer[s] \in Seq(Raw) /\ toServer[s] # <<>>
      BY <1>1, QueueTypes DEF ReadFrame
    <2> QED
      BY <2>1, HeadTailProperties
  <1>3. /\ toServer'[s] = Tail(toServer[s])
        /\ \A t \in Session \ {s} : toServer'[t] = toServer[t]
    BY <1>1 DEF ReadFrame, TypeOK, ConnTypeOK
  <1>4. Head(toServer[s]) = toServer[s][1] /\ 1 \in 1 .. Len(toServer[s])
    BY <1>2
  <1>5. session[s] = "active" /\ currentUser[s] # Empty
    BY <1>1 DEF LinksStand, ReadFrame
  <1> QED
    BY <1>2, <1>3, <1>4, <1>5 DEF TypingInv, MarksSigned


(* A handler keeps the invariant if it writes no mark, or passes the mark   *)
(* it has read to the audience, and takes nobody from an audience.         *)
LEMMA HandledInv ==
  ASSUME TypingInv, NEW s \in Session, HandleFrame(s),
         UNCHANGED <<session, linkUp, controllerVars, restarts, breaks,
                     fieldVars, publicTyping, groupTyping>>,
         NEW out, Reached(out),
         Write(out) \/ (out = Silence /\ UNCHANGED <<failing, toClient>>),
         \/ Head(toServer[s]).type # "typing" /\ Quiet(out)
         \/ /\ Head(toServer[s]).type = "typing"
            /\ UNCHANGED serverVars
            /\ \A r \in Session :
                 out[r] = IF r \in Audience(Head(toServer[s]).groupId)
                            THEN <<Head(toServer[s])>> ELSE <<>>,
         \A g : Audience(g) \subseteq Audience(g)',
         LinksStand', HistoriesUnmarked'
  PROVE  TypingInv'
  <1> DEFINE raw == Head(toServer[s])
  <1>1. TypeOK /\ FieldsOK /\ ShownOK /\ LinksStand
    BY TypesSplit DEF TypingInv
  <1>2. /\ session[s] = "active" /\ currentUser[s] # Empty
        /\ toServer[s] \in Seq(Raw) /\ toServer[s] # <<>>
        /\ raw \in Raw
        /\ toServer'[s] = Tail(toServer[s])
        /\ \A t \in Session \ {s} : toServer'[t] = toServer[t]
        /\ raw.type = "typing" => raw.sender = currentUser[s] /\ raw.target = Empty
    BY HandleReads, Taken
  <1>3. /\ failing' = failing
        /\ \A r \in Session : toClient'[r] = toClient[r] \o out[r]
    <2>1. CASE Write(out)
      BY <1>1, <2>1, Delivered
    <2>2. CASE out = Silence /\ UNCHANGED <<failing, toClient>>
      <3>1. \A r \in Session : toClient[r] \in Seq(Raw) /\ out[r] = <<>>
        BY <1>1, <2>2, QueueTypes DEF Silence
      <3>2. \A r \in Session : toClient[r] \o <<>> = toClient[r]
        BY <3>1
      <3> QED
        BY <2>2, <3>1, <3>2
    <2> QED
      BY <2>1, <2>2
  <1>4. \A r \in Session : out[r] \in Seq(Raw)
    BY DEF Reached, Output
  <1>5. /\ \A t, g : Text(t, g)' = Text(t, g)
        /\ \A t, g : ShownIn(t, g)' = ShownIn(t, g)
        /\ \A u : Used(u)' = Used(u)
        /\ \A t : OnlyOne(t)' = OnlyOne(t)
        /\ currentUser' = currentUser
    BY DEF Text, ShownIn, Used, OnlyOne, controllerVars, fieldVars
  <1>6. \/ raw.type # "typing" /\ \A r \in Session : Unmarked(out[r])
        \/ /\ raw.type = "typing"
           /\ \A r \in Session :
                out[r] = IF r \in Audience(raw.groupId) THEN <<raw>> ELSE <<>>
    BY DEF Quiet
  <1> HIDE DEF raw
  <1>7. TypingTypeOK'
    <2>1. TypeOK'
      BY <1>1, FrameType DEF TypeOK, ControllerTypeOK, controllerVars
    <2>2. FieldsOK' /\ ShownOK'
      BY <1>1 DEF FieldsOK, ShownOK, fieldVars
    <2> QED
      BY <2>1, <2>2 DEF TypingTypeOK, FieldsOK, ShownOK
  <1>8. MarksSigned'
    <2> SUFFICES ASSUME NEW t \in Session, NEW i \in 1 .. Len(toServer'[t]),
                        toServer'[t][i].type = "typing"
                 PROVE  /\ toServer'[t][i].sender = currentUser[t]
                        /\ toServer'[t][i].target = Empty
      BY <1>5 DEF MarksSigned
    <2>1. CASE t # s
      BY <1>2, <2>1 DEF TypingInv, MarksSigned
    <2>2. CASE t = s
      <3>1. i \in 1 .. Len(toServer'[s])
        BY <2>2
      <3>2. /\ Len(toServer[s]) \in Nat
            /\ Len(toServer'[s]) = Len(toServer[s]) - 1
            /\ \A j \in 1 .. Len(toServer'[s]) : toServer'[s][j] = toServer[s][j + 1]
        BY <1>2, HeadTailProperties
      <3>3. i + 1 \in 1 .. Len(toServer[s]) /\ toServer'[s][i] = toServer[s][i + 1]
        BY <3>1, <3>2
      <3> QED
        BY <2>2, <3>3 DEF TypingInv, MarksSigned
    <2> QED
      BY <2>1, <2>2
  <1>9. MarksAddressed'
    <2> SUFFICES ASSUME NEW r \in Session, NEW i \in 1 .. Len(toClient'[r]), NEW m,
                        m = toClient'[r][i], m.type = "typing"
                 PROVE  /\ m.sender # Empty
                        /\ Used(m.sender)'
                        /\ r \in Audience(m.groupId)'
      BY DEF MarksAddressed, Used, Audience
    <2> DEFINE p == toClient[r]
               q == out[r]
    <2>1. p \in Seq(Raw) /\ q \in Seq(Raw) /\ toClient'[r] = p \o q
      BY <1>1, <1>3, <1>4, QueueTypes
    <2>2. \A j \in 1 .. Len(p) : p[j].type = "typing" =>
            /\ p[j].sender # Empty /\ Used(p[j].sender) /\ r \in Audience(p[j].groupId)
      BY DEF TypingInv, MarksAddressed
    <2>3. \A j \in 1 .. Len(q) : q[j].type = "typing" =>
            /\ q[j].sender # Empty /\ Used(q[j].sender) /\ r \in Audience(q[j].groupId)
      <3>1. CASE Unmarked(q)
        BY <3>1 DEF Unmarked
      <3>2. CASE q = <<>>
        BY <3>2
      <3>3. CASE raw.type = "typing" /\ q = <<raw>> /\ r \in Audience(raw.groupId)
        BY <1>2, <3>3 DEF Used
      <3> QED
        BY <1>6, <3>1, <3>2, <3>3
    <2> HIDE DEF p, q
    <2>4. /\ Len(p \o q) = Len(p) + Len(q) /\ Len(p) \in Nat /\ Len(q) \in Nat
          /\ \A j \in 1 .. Len(p) : (p \o q)[j] = p[j]
          /\ \A j \in 1 .. Len(q) : (p \o q)[Len(p) + j] = q[j]
      BY <2>1, Joined
    <2>5. CASE i <= Len(p)
      <3>1. i \in 1 .. Len(p)
        BY <2>1, <2>4, <2>5
      <3>2. m = p[i]
        BY <2>1, <2>4, <3>1
      <3> QED
        BY <1>5, <2>2, <3>1, <3>2
    <2>6. CASE i > Len(p)
      <3>1. i - Len(p) \in 1 .. Len(q) /\ Len(p) + (i - Len(p)) = i
        BY <2>1, <2>4, <2>6
      <3>2. (p \o q)[i] = q[i - Len(p)]
        BY <2>4, <3>1
      <3>3. m = q[i - Len(p)]
        BY <2>1, <3>2
      <3> QED
        BY <1>5, <2>3, <3>1, <3>3
    <2> QED
      BY <2>1, <2>4, <2>5, <2>6
  <1>10. ShownAddressed'
    BY <1>5 DEF TypingInv, ShownAddressed
  <1>11. StagesAgree'
    <2> SUFFICES ASSUME NEW r \in Session, NEW t \in Session, NEW g \in Audiences,
                        currentUser[t] # Empty, OnlyOne(t)
                 PROVE  Agree(toServer'[t], toClient'[r],
                              currentUser[t] \in ShownIn(r, g),
                              currentUser[t], g, Text(t, g))
      BY <1>5 DEF StagesAgree
    <2> DEFINE u     == currentUser[t]
               shown == u \in ShownIn(r, g)
               text  == Text(t, g)
    <2>1. /\ Agree(toServer[t], toClient[r], shown, u, g, text)
          /\ shown \in BOOLEAN /\ text \in BOOLEAN
          /\ toServer[t] \in Seq(Raw) /\ toClient[r] \in Seq(Raw)
      BY <1>1, TextType, QueueTypes DEF TypingInv, StagesAgree
    <2>2. Mark(raw, u, g) => t = s
      BY <1>2 DEF Mark, OnlyOne
    <2>3. Mark(raw, u, g) /\ r \notin Audience(g) => ~shown /\ ~HasMark(toClient[r], u, g)
      BY DEF TypingInv, MarksAddressed, ShownAddressed, HasMark, Mark
    <2>4. \/ ~HasMark(out[r], u, g) /\ (Mark(raw, u, g) => out[r] = <<>> /\ r \notin Audience(g))
          \/ out[r] = <<raw>>
      BY <1>6 DEF HasMark, Mark, Unmarked
    <2>5. Mark(raw, u, g) \/ out[r] # <<raw>> \/ ~HasMark(out[r], u, g)
      BY DEF HasMark
    <2> PICK q \in Seq(Raw) : q = out[r]
      BY <1>4
    <2> HIDE DEF u, shown, text
    <2>6. CASE t # s
      <3>1. ~HasMark(q, u, g)
        BY <2>2, <2>4, <2>5, <2>6
      <3>2. Agree(toServer[t], toClient[r] \o q, shown, u, g, text)
        BY <2>1, <3>1, AgreeQuiet
      <3> QED
        BY <1>2, <1>3, <2>6, <3>2 DEF u, shown, text
    <2>7. CASE t = s
      <3>1. Tail(toServer[s]) \in Seq(Raw)
        BY <1>2, HeadTailProperties
      <3>2. CASE out[r] = <<raw>>
        <4>1. Agree(Tail(toServer[s]), toClient[r] \o <<raw>>, shown, u, g, text)
          BY <1>2, <2>1, <2>7, AgreePassed DEF raw
        <4> QED
          BY <1>2, <1>3, <2>7, <3>2, <4>1 DEF u, shown, text
      <3>3. CASE ~HasMark(out[r], u, g) /\ (Mark(raw, u, g) => r \notin Audience(g))
        <4>1. Agree(Tail(toServer[s]), toClient[r], shown, u, g, text)
          BY <1>2, <2>1, <2>3, <2>7, <3>3, AgreeDropped DEF raw
        <4>2. Agree(Tail(toServer[s]), toClient[r] \o q, shown, u, g, text)
          BY <2>1, <3>1, <3>3, <4>1, AgreeQuiet, ZenonT(60)
        <4> QED
          BY <1>2, <1>3, <2>7, <4>2 DEF u, shown, text
      <3> QED
        BY <2>4, <3>2, <3>3
    <2> QED
      BY <2>6, <2>7
  <1> QED
    BY <1>7, <1>8, <1>9, <1>10, <1>11 DEF TypingInv


LEMMA Wording ==
  ASSUME NEW raw \in ClientFrame
  PROVE  /\ fromJson(raw).type = "Typing" <=> raw.type = "typing"
         /\ fromJson(raw).type = "Connect" => raw.sender \in Name
         /\ fromJson(raw).type \in {"CreateGroup", "JoinGroup", "GroupMessage"}
              => raw.groupId \in Group
  <1>1. CASE raw = Garbled
    BY <1>1 DEF fromJson, Garbled, NoMessage, NewMessage
  <1>2. CASE raw # Garbled
    <2>1. fromJson(raw).type = stringToMessageType(raw.type)
      BY <1>2 DEF fromJson, ClientFrame, Raw
    <2> QED
      BY <2>1 DEF stringToMessageType, ClientFrame, GroupWord
  <1> QED
    BY <1>1, <1>2

LEMMA UnmarkedAppended ==
  ASSUME NEW h \in Seq(Raw), Unmarked(h), NEW raw \in Raw, raw.type # "typing"
  PROVE  Append(h, raw) \in Seq(Raw) /\ Unmarked(Append(h, raw))
  BY AppendProperties DEF Unmarked

\* Where a frame without marks can go.
LEMMA QuietRoutes ==
  ASSUME TypeOK, LinksStand, NEW s \in Session, session[s] = "active",
         NEW raw \in Raw, raw.type # "typing"
  PROVE  /\ Quiet(SendTo({s}, raw))
         /\ Quiet(broadcast(raw))
         /\ \A u : Quiet(SendTo(RegisteredAs(u), raw))
         /\ \A g \in Group : Quiet(sendToGroup(g, raw))
         /\ Quiet(RouteText(s, raw))
         /\ \A route \in Raw : Quiet(RouteBinary(route, raw))
         /\ \A registered : Quiet(broadcastUserList(clients, registered))
  <1>1. /\ \A r \in {s} : session[r] = "active"
        /\ \A r \in clients : session[r] = "active"
        /\ \A g \in Group : \A r \in groups[g] : session[r] = "active"
    BY DEF LinksStand
  <1>2. \A u : \A r \in RegisteredAs(u) : session[r] = "active"
    BY DEF LinksStand, RegisteredAs, TypeOK, ServerTypeOK
  <1>3. /\ Quiet(SendTo({s}, raw))
        /\ Quiet(broadcast(raw))
        /\ \A u : Quiet(SendTo(RegisteredAs(u), raw))
        /\ \A g \in Group : Quiet(sendToGroup(g, raw))
    BY <1>1, <1>2, QuietOutputs DEF broadcast, sendToGroup
  <1>4. Quiet(RouteText(s, raw))
    <2>1. raw.groupId \in Group \cup {Empty}
      BY DEF Raw
    <2> QED
      BY <1>3, <2>1, QuietOutputs DEF RouteText
  <1>5. ASSUME NEW route \in Raw
        PROVE  Quiet(RouteBinary(route, raw))
    <2>1. route.groupId \in Group \cup {Empty}
      BY DEF Raw
    <2> QED
      BY <1>3, <2>1, QuietOutputs DEF RouteBinary
  <1>6. ASSUME NEW registered
        PROVE  Quiet(broadcastUserList(clients, registered))
    <2>1. userList(registered) \in Raw /\ userList(registered).type # "typing"
      <3>1. userList(registered) \in Raw
        BY UserListIsRaw
      <3> QED
        BY <3>1 DEF userList, toJson, NewMessage, messageTypeToString
    <2> QED
      BY <1>1, <2>1, QuietOutputs DEF broadcastUserList
  <1> QED
    BY <1>3, <1>4, <1>5, <1>6

LEMMA HandleFrameInv ==
  ASSUME TypingInv, NEW s \in Session, HandleFrame(s),
         UNCHANGED <<controllerVars, restarts, breaks,
                     fieldVars, publicTyping, groupTyping>>
  PROVE  TypingInv'
  <1> DEFINE raw == Head(toServer[s])
             g   == raw.groupId
  <1>1. TypeOK /\ ServerTypeOK /\ LinksStand /\ HistoriesUnmarked
    BY TypesSplit DEF TypingInv, TypeOK
  <1>2. ReadFrame(s) /\ session[s] = "active" /\ raw \in ClientFrame /\ raw \in Raw
    BY <1>1, HandleReads, Taken, HeadType
  <1>3. /\ fromJson(raw).type = "Typing" <=> raw.type = "typing"
        /\ fromJson(raw).type = "Connect" => raw.sender \in Name
        /\ fromJson(raw).type \in {"CreateGroup", "JoinGroup", "GroupMessage"}
             => g \in Group
    BY <1>2, Wording
  <1>4. raw.type # "typing" =>
         /\ Quiet(SendTo({s}, raw))
         /\ Quiet(broadcast(raw))
         /\ \A u : Quiet(SendTo(RegisteredAs(u), raw))
         /\ \A h \in Group : Quiet(sendToGroup(h, raw))
         /\ Quiet(RouteText(s, raw))
         /\ \A route \in Raw : Quiet(RouteBinary(route, raw))
         /\ \A registered : Quiet(broadcastUserList(clients, registered))
    BY <1>1, <1>2, QuietRoutes
  <1>5. UNCHANGED <<session, linkUp>>
    BY DEF HandleFrame, HandleConnect, HandlePublicMessage,
           HandlePrivateMessage, HandleTyping, HandleJoinGroup,
           HandleGroupMessage, HandleAttachmentStart, HandleAttachmentEnd,
           HandleBinary, HandleUnknown
  <1>6. ASSUME raw.type # "typing", NEW out, Quiet(out),
               Write(out) \/ (out = Silence /\ UNCHANGED <<failing, toClient>>),
               \A h : Audience(h) \subseteq Audience(h)',
               LinksStand', HistoriesUnmarked'
        PROVE  TypingInv'
    BY <1>5, <1>6, HandledInv DEF Quiet
  <1>7. \A out : Quiet(out) /\ Write(out) => UNCHANGED failing
    BY <1>1, Delivered DEF Quiet
  <1>8. ASSUME UNCHANGED <<clients, groups, users, failing>>
        PROVE  LinksStand' /\ \A h : Audience(h) \subseteq Audience(h)'
    BY <1>1, <1>5, <1>8 DEF LinksStand, Audience, controllerVars
  <1>9. ASSUME UNCHANGED <<publicHistory, groupHistory, groupFile>>
        PROVE  HistoriesUnmarked'
    BY <1>1, <1>9 DEF HistoriesUnmarked
  <1>11. CASE HandleConnect(s)
    <2>1. raw.type # "typing" /\ raw.sender \in Name
      BY <1>3, <1>11 DEF HandleConnect, Received
    <2>2. PICK out : Quiet(out) /\ Write(out)
      <3> DEFINE all == Both(SendTo({s}, raw),
                          Both(sendHistory(s, publicHistory),
                               broadcastUserList(clients, users')))
      <3>1. Quiet(sendHistory(s, publicHistory))
        BY <1>1, <1>2, QuietOutputs DEF ServerTypeOK, HistoriesUnmarked
      <3>2. Quiet(all)
        BY <1>4, <2>1, <3>1, QuietOutputs
      <3>3. Write(all)
        BY <1>11 DEF HandleConnect
      <3> QED
        BY <3>2, <3>3
    <2>3. /\ UNCHANGED <<clients, groups, publicHistory, groupHistory, groupFile, failing>>
          /\ users' = [users EXCEPT ![raw.sender] = s]
      BY <1>7, <1>11, <2>2 DEF HandleConnect, register, diskVars
    <2>4. \A u \in Name : users'[u] = s \/ users'[u] = users[u]
      BY <1>1, <2>1, <2>3 DEF ServerTypeOK
    <2>5. LinksStand' /\ \A h : Audience(h) \subseteq Audience(h)'
      BY <1>1, <1>2, <1>5, <2>3, <2>4 DEF LinksStand, Audience, controllerVars
    <2> QED
      BY <1>6, <1>9, <2>1, <2>2, <2>3, <2>5
  <1>12. CASE HandlePublicMessage(s)
    <2>1. raw.type # "typing"
      BY <1>3, <1>12 DEF HandlePublicMessage, Received
    <2>2. Write(broadcast(raw)) /\ UNCHANGED failing
      BY <1>4, <1>7, <1>12, <2>1 DEF HandlePublicMessage
    <2>3. HistoriesUnmarked'
      <3>1. Unmarked(publicHistory')
        BY <1>1, <1>2, <1>12, <2>1, UnmarkedAppended
        DEF HandlePublicMessage, HistoriesUnmarked, ServerTypeOK
      <3> QED
        BY <1>1, <1>12, <3>1 DEF HandlePublicMessage, HistoriesUnmarked
    <2>4. UNCHANGED <<clients, groups, users>>
      BY <1>12 DEF HandlePublicMessage
    <2> QED
      BY <1>4, <1>6, <1>8, <2>1, <2>2, <2>3, <2>4
  <1>13. CASE HandlePrivateMessage(s)
    <2>1. raw.type # "typing"
      BY <1>3, <1>13 DEF HandlePrivateMessage, Received
    <2>2. PICK out : Quiet(out) /\ Write(out)
      BY <1>4, <1>13, <2>1, QuietOutputs DEF HandlePrivateMessage
    <2>3. UNCHANGED <<clients, groups, users, publicHistory, groupHistory, groupFile, failing>>
      BY <1>7, <1>13, <2>2 DEF HandlePrivateMessage, serverVars, memoryVars, diskVars
    <2> QED
      BY <1>6, <1>8, <1>9, <2>1, <2>2, <2>3
  <1>14. CASE HandleTyping(s)
    <2>1. raw.type = "typing" /\ raw.target = Empty /\ g \in Group \cup {Empty}
      BY <1>2, <1>3, <1>14, HandleReads, Taken DEF HandleTyping, Received, Raw
    <2>2. RouteText(s, raw) = SendTo(Audience(g), raw)
      BY <2>1 DEF RouteText, sendToGroup, broadcast, Audience
    <2>3. PICK out : out = SendTo(Audience(g), raw) /\ Write(out)
      BY <1>14, <2>2 DEF HandleTyping
    <2>4. \A r \in Audience(g) : session[r] = "active"
      BY <1>1, <2>1 DEF LinksStand, Audience
    <2>5. Reached(out)
      BY <1>2, <2>3, <2>4, QuietOutputs
    <2>6. \A r \in Session : out[r] = IF r \in Audience(g) THEN <<raw>> ELSE <<>>
      BY <2>3 DEF SendTo
    <2>7. UNCHANGED serverVars /\ UNCHANGED failing
      BY <1>1, <1>14, <2>3, <2>5, Delivered DEF HandleTyping
    <2>8. /\ LinksStand' /\ \A h : Audience(h) \subseteq Audience(h)'
          /\ HistoriesUnmarked'
      BY <1>8, <1>9, <2>7 DEF serverVars, memoryVars, diskVars
    <2> QED
      BY <1>5, <2>1, <2>3, <2>5, <2>6, <2>7, <2>8, HandledInv
  <1>15. CASE HandleJoinGroup(s)
    <2>1. raw.type # "typing" /\ g \in Group
      BY <1>3, <1>15 DEF HandleJoinGroup, Received
    <2>2. /\ groupHistory' = IF g \in loadedGroups THEN groupHistory
                             ELSE [groupHistory EXCEPT ![g] = groupFile[g]]
          /\ groups' = [groups EXCEPT ![g] = groups[g] \cup {s}]
          /\ UNCHANGED <<clients, users, publicHistory, groupFile>>
      BY <1>15, <2>1, GroupAssumption
      DEF HandleJoinGroup, addClientToGroup, loadGroupHistory, diskVars
    <2>3. \A h \in Group : groupHistory'[h] \in {groupHistory[h], groupFile[h]}
      BY <1>1, <2>1, <2>2 DEF ServerTypeOK
    <2>4. HistoriesUnmarked' /\ groupHistory'[g] \in Seq(Raw) /\ Unmarked(groupHistory'[g])
      BY <1>1, <2>1, <2>2, <2>3 DEF HistoriesUnmarked, ServerTypeOK
    <2>5. PICK out : Quiet(out) /\ Write(out)
      <3>1. PICK history \in Seq(Raw) : history = groupHistory'[g] /\ Unmarked(history)
        BY <2>4
      <3>2. Quiet(sendHistory(s, history))
        BY <1>2, <3>1, QuietOutputs
      <3>3. Write(Both(SendTo({s}, raw), sendHistory(s, history)))
        BY <1>15, <3>1 DEF HandleJoinGroup
      <3> QED
        BY <1>4, <2>1, <3>2, <3>3, QuietOutputs
    <2>6. \A h \in Group : groups[h] \subseteq groups'[h] /\ groups'[h] \subseteq groups[h] \cup {s}
      BY <1>1, <2>1, <2>2 DEF ServerTypeOK
    <2>7. LinksStand'
      BY <1>1, <1>2, <1>5, <1>7, <2>2, <2>5, <2>6 DEF LinksStand, controllerVars
    <2>8. \A h : Audience(h) \subseteq Audience(h)'
      <3>1. groups \in [Group -> SUBSET Session] /\ groups' = [groups EXCEPT ![g] = @ \cup {s}]
        BY <1>1, <2>2 DEF ServerTypeOK
      <3>2. \A h : h \notin Group => groups'[h] = groups[h]
        BY <2>1, <3>1
      <3> QED
        BY <2>2, <2>6, <3>2 DEF Audience
    <2> QED
      BY <1>6, <2>1, <2>4, <2>5, <2>7, <2>8
  <1>16. CASE HandleGroupMessage(s)
    <2>1. raw.type # "typing" /\ g \in Group
      BY <1>3, <1>16 DEF HandleGroupMessage, Received
    <2>2. Write(sendToGroup(g, raw)) /\ UNCHANGED failing
      BY <1>4, <1>7, <1>16, <2>1 DEF HandleGroupMessage
    <2>3. HistoriesUnmarked'
      <3>1. /\ Unmarked(Append(groupHistory[g], raw))
            /\ Unmarked(Append(groupFile[g], raw))
        BY <1>1, <1>2, <2>1, UnmarkedAppended DEF HistoriesUnmarked, ServerTypeOK
      <3>2. \A h \in Group :
              /\ groupHistory'[h] = IF h = g THEN Append(groupHistory[g], raw) ELSE groupHistory[h]
              /\ groupFile'[h] = IF h = g THEN Append(groupFile[g], raw) ELSE groupFile[h]
        BY <1>1, <1>16, <2>1 DEF HandleGroupMessage, ServerTypeOK
      <3>3. publicHistory' = publicHistory
        BY <1>16 DEF HandleGroupMessage
      <3> QED
        BY <1>1, <3>1, <3>2, <3>3 DEF HistoriesUnmarked
    <2>4. UNCHANGED <<clients, groups, users>>
      BY <1>16 DEF HandleGroupMessage
    <2> QED
      BY <1>4, <1>6, <1>8, <2>1, <2>2, <2>3, <2>4
  <1>17. CASE HandleAttachmentStart(s) \/ HandleAttachmentEnd(s)
    <2>1. raw.type # "typing"
      BY <1>3, <1>17 DEF HandleAttachmentStart, HandleAttachmentEnd, Received
    <2>2. Write(RouteText(s, raw)) /\ UNCHANGED failing
      BY <1>4, <1>7, <1>17, <2>1 DEF HandleAttachmentStart, HandleAttachmentEnd
    <2>3. UNCHANGED <<clients, groups, users, publicHistory, groupHistory, groupFile>>
      BY <1>17 DEF HandleAttachmentStart, HandleAttachmentEnd, diskVars
    <2> QED
      BY <1>4, <1>6, <1>8, <1>9, <2>1, <2>2, <2>3
  <1>18. CASE HandleBinary(s)
    <2>1. raw.type # "typing"
      BY <1>18 DEF HandleBinary
    <2>2. PICK out : /\ Quiet(out)
                     /\ Write(out) \/ (out = Silence /\ UNCHANGED <<failing, toClient>>)
      <3>1. CASE UNCHANGED <<toClient, failing>>
        BY <3>1, QuietOutputs
      <3>2. ASSUME NEW route \in routes, Write(RouteBinary(route, raw))
            PROVE  \E o : Quiet(o) /\ Write(o)
        BY <1>1, <1>4, <2>1, <3>2 DEF ServerTypeOK
      <3> QED
        BY <1>18, <3>1, <3>2 DEF HandleBinary
    <2>3. UNCHANGED <<clients, groups, users, publicHistory, groupHistory, groupFile, failing>>
      BY <1>7, <1>18, <2>2 DEF HandleBinary, serverVars, memoryVars, diskVars
    <2> QED
      BY <1>6, <1>8, <1>9, <2>1, <2>2, <2>3
  <1>19. CASE HandleUnknown(s)
    <2>1. raw.type # "typing"
      BY <1>3, <1>19 DEF HandleUnknown, Received
    <2>2. UNCHANGED <<failing, toClient, clients, groups, users, publicHistory, groupHistory, groupFile>>
      BY <1>19 DEF HandleUnknown, serverVars, memoryVars, diskVars
    <2>3. PICK out : out = Silence /\ Quiet(out)
      BY QuietOutputs
    <2> QED
      BY <1>6, <1>8, <1>9, <2>1, <2>2, <2>3
  <1> QED
    BY <1>11, <1>12, <1>13, <1>14, <1>15, <1>16, <1>17, <1>18, <1>19 DEF HandleFrame


-----------------------------------------------------------------------------
(* Every step.                                                             *)

LEMMA ServerStepInv ==
  ASSUME TypingInv, NEW s \in Session, ServerStep(s),
         UNCHANGED <<fieldVars, publicTyping, groupTyping>>
  PROVE  TypingInv'
  <1>1. TypeOK /\ FieldsOK /\ ShownOK /\ LinksStand
    BY TypesSplit DEF TypingInv
  <1>2. UNCHANGED <<controllerVars, restarts, breaks, fieldVars, publicTyping, groupTyping>>
    BY DEF ServerStep
  <1>3. CASE Accept(s)
    <2>1. /\ session' = [session EXCEPT ![s] = "active"] /\ session[s] = "pending"
          /\ clients' = clients \cup {s}
          /\ UNCHANGED <<linkUp, failing, toServer, toClient, users, groups,
                   publicHistory, groupHistory, loadedGroups, routes,
                   username, diskVars>>
      BY <1>3 DEF Accept
    <2>2. /\ session'[s] = "active"
          /\ \A t \in Session \ {s} : session'[t] = session[t]
          /\ session' \in [Session -> Stage]
      BY <1>1, <2>1 DEF TypeOK, ConnTypeOK, Stage
    <2>3. TypingTypeOK'
      <3>1. ConnTypeOK' /\ ServerTypeOK' /\ ControllerTypeOK'
        BY <1>1, <1>2, <2>1, <2>2
        DEF TypeOK, ConnTypeOK, ServerTypeOK, ControllerTypeOK, diskVars, controllerVars
      <3>2. TypeOK' /\ FieldsOK' /\ ShownOK'
        BY <1>1, <1>2, <3>1 DEF TypeOK, FieldsOK, ShownOK, fieldVars
      <3> QED
        BY <3>2 DEF TypingTypeOK, FieldsOK, ShownOK
    <2>4. LinksStand'
      <3>1. ASSUME NEW t \in Session
            PROVE  /\ session'[t] \in {"none", "pending", "active"}
                   /\ failing[t] = 0
                   /\ linkUp[t] = (session'[t] # "none")
                   /\ (currentUser[t] = Empty) = (session'[t] = "none")
                   /\ session[t] = "active" => session'[t] = "active"
        <4>1. CASE t = s
          BY <1>1, <2>1, <2>2, <4>1 DEF LinksStand
        <4>2. CASE t # s
          BY <1>1, <2>2, <4>2 DEF LinksStand
        <4> QED
          BY <4>1, <4>2
      <3>2. clients \subseteq Session /\ \A g \in Group : groups[g] \subseteq Session
        BY <1>1 DEF TypeOK, ServerTypeOK
      <3>3. /\ \A t \in clients' : session'[t] = "active"
            /\ \A g \in Group : \A t \in groups[g] : session'[t] = "active"
            /\ \A u \in Name : users[u] \in Session => session'[users[u]] = "active"
        BY <1>1, <2>1, <2>2, <3>1, <3>2 DEF LinksStand
      <3> QED
        BY <1>2, <2>1, <3>1, <3>3 DEF LinksStand, controllerVars
    <2>5. \A g : Audience(g) \subseteq Audience(g)'
      BY <2>1 DEF Audience
    <2>6. /\ \A t, g : Text(t, g)' = Text(t, g)
          /\ \A t, g : ShownIn(t, g)' = ShownIn(t, g)
          /\ \A u : Used(u)' = Used(u)
          /\ \A t : OnlyOne(t)' = OnlyOne(t)
          /\ currentUser' = currentUser
      BY <1>2 DEF Text, ShownIn, Used, OnlyOne, controllerVars, fieldVars
    <2>7. HistoriesUnmarked' /\ MarksSigned'
      BY <2>1, <2>6 DEF TypingInv, HistoriesUnmarked, MarksSigned, diskVars
    <2>8. MarksAddressed'
      <3> SUFFICES ASSUME NEW r \in Session, NEW i \in 1 .. Len(toClient[r]), NEW m,
                          m = toClient[r][i], m.type = "typing"
                   PROVE  /\ m.sender # Empty
                          /\ Used(m.sender)'
                          /\ r \in Audience(m.groupId)'
        BY <2>1 DEF MarksAddressed, Used, Audience
      <3>1. m.sender # Empty /\ Used(m.sender) /\ r \in Audience(m.groupId)
        BY DEF TypingInv, MarksAddressed
      <3> QED
        BY <2>5, <2>6, <3>1
    <2>9. ShownAddressed'
      BY <2>5, <2>6 DEF TypingInv, ShownAddressed
    <2>10. StagesAgree'
      BY <2>1, <2>6 DEF TypingInv, StagesAgree
    <2> QED
      BY <2>3, <2>4, <2>7, <2>8, <2>9, <2>10 DEF TypingInv
  <1>4. CASE HandleFrame(s)
    BY <1>2, <1>4, HandleFrameInv
  <1>5. ~ReadError(s) /\ ~WriteError(s)
    <2>1. failing[s] = 0 /\ linkUp[s] = (session[s] # "none")
      BY <1>1 DEF LinksStand
    <2>2. ~ReadError(s)
      BY <2>1 DEF ReadError
    <2>3. ~(failing[s] > 0)
      BY <2>1
    <2> QED
      BY <2>2, <2>3 DEF WriteError
  <1> QED
    BY <1>3, <1>4, <1>5 DEF ServerStep

LEMMA TypingStepInv ==
  ASSUME TypingInv, TypingNext \/ UNCHANGED typingVars
  PROVE  TypingInv'
  <1>1. ASSUME NEW s \in Session, Edit(s), UNCHANGED <<serverVars, restarts, breaks>>
        PROVE  TypingInv'
    BY <1>1, EditInv
  <1>2. ASSUME NEW s \in Session, ShowTyping(s)
        PROVE  TypingInv'
    BY <1>2, ShowTypingInv
  <1>3. ASSUME NEW s \in Session, UNCHANGED <<fieldVars, publicTyping, groupTyping>>,
               (\E u \in Name : Connect(s, u)) \/ ServerStep(s)
        PROVE  TypingInv'
    BY <1>3, ConnectInv, ServerStepInv
  <1>4. CASE UNCHANGED typingVars
    <2>1. /\ \A t, g : Text(t, g)' = Text(t, g)
          /\ \A t, g : ShownIn(t, g)' = ShownIn(t, g)
          /\ \A g : Audience(g)' = Audience(g)
          /\ \A u : Used(u)' = Used(u)
          /\ \A t : OnlyOne(t)' = OnlyOne(t)
          /\ UNCHANGED <<toServer, toClient, currentUser>>
      BY <1>4 DEF typingVars, vars, fieldVars, connVars, serverVars, memoryVars,
                  controllerVars, Text, ShownIn, Audience, Used, OnlyOne
    <2>2. TypingTypeOK'
      BY <1>4 DEF typingVars, vars, fieldVars, connVars, serverVars, memoryVars,
                  diskVars, controllerVars, TypingInv, TypingTypeOK, TypeOK,
                  ConnTypeOK, ServerTypeOK, ControllerTypeOK
    <2>3. LinksStand' /\ HistoriesUnmarked'
      BY <1>4 DEF typingVars, vars, connVars, serverVars, memoryVars, diskVars,
                  controllerVars, TypingInv, LinksStand, HistoriesUnmarked
    <2>4. MarksSigned'
      BY <2>1 DEF TypingInv, MarksSigned
    <2>5. MarksAddressed'
      BY <1>4 DEF typingVars, vars, connVars, serverVars, memoryVars,
                  controllerVars, TypingInv, MarksAddressed, Used, Audience
    <2>6. ShownAddressed' /\ StagesAgree'
      BY <2>1 DEF TypingInv, ShownAddressed, StagesAgree
    <2> QED
      BY <2>2, <2>3, <2>4, <2>5, <2>6 DEF TypingInv
  <1> QED
    BY <1>1, <1>2, <1>3, <1>4 DEF TypingNext

LEMMA TypingHolds == TypingSpec => []TypingInv
  BY TypingInitInv, TypingStepInv, PTL DEF TypingSpec

\* What no mark on its way any more leaves of the agreement.
LEMMA Told ==
  ASSUME TypingInv, NEW s \in Session, NEW t \in Session, NEW g \in Audiences,
         Served(t), OnlyOne(t), OnItsWay(s, t, g) = {},
         currentUser[t] \in ShownIn(s, g)
  PROVE  Text(t, g)
  <1>1. TypeOK /\ LinksStand
    BY TypesSplit DEF TypingInv
  <1>2. currentUser[t] # Empty
    BY <1>1 DEF LinksStand, Served
  <1>3. toServer[t] \in Seq(Raw) /\ toClient[s] \in Seq(Raw)
    BY <1>1, QueueTypes
  <1>4. ASSUME NEW q \in Seq(Raw), HasMark(q, currentUser[t], g)
        PROVE  \E raw \in ToSet(q) : Mark(raw, currentUser[t], g)
    BY <1>4 DEF HasMark, ToSet
  <1>5. /\ ~HasMark(toServer[t], currentUser[t], g)
        /\ ~HasMark(toClient[s], currentUser[t], g)
    BY <1>3, <1>4 DEF OnItsWay, Mark
  <1>6. Agree(toServer[t], toClient[s], currentUser[t] \in ShownIn(s, g),
              currentUser[t], g, Text(t, g))
    BY <1>2 DEF TypingInv, StagesAgree
  <1> QED
    BY <1>5, <1>6 DEF Agree

(* The fields, the selectors and what is shown keep their types: no item   *)
(* stands twice in a selector, and who is shown has a name.                *)
THEOREM TypingTypes == TypingSpec => []TypingTypeOK
  <1>1. TypingInv => TypingTypeOK
    BY DEF TypingInv
  <1> QED
    BY <1>1, TypingHolds, PTL

(* Whoever is shown as typing to all, for as many users as there are, has   *)
(* text in his field, or the news that he has not is on its way.           *)
THEOREM TypingTold == TypingSpec => []TypingHasText
  <1>1. TypingInv => TypingHasText
    <2> SUFFICES ASSUME TypingInv, NEW s \in Session, NEW t \in Session,
                        Served(t), OnlyOne(t), OnItsWay(s, t, Empty) = {},
                        currentUser[t] \in publicTyping[s]
                 PROVE  publicDraft[t]
      BY DEF TypingHasText
    <2>1. Empty \in Audiences /\ currentUser[t] \in ShownIn(s, Empty)
      BY DEF Audiences, ShownIn
    <2>2. Text(t, Empty)
      BY <2>1, Told
    <2> QED
      BY <2>2 DEF Text
  <1> QED
    BY <1>1, TypingHolds, PTL

(* Whoever is shown as typing in a group, has text there, or left the      *)
(* group in the middle of one, by choosing another or by closing the       *)
(* window, or the news that he has not is on its way; whatever groups the  *)
(* selector holds, however they are chosen and whenever it is opened.      *)
THEOREM GroupTypingTold == TypingSpec => []GroupTypingHasText
  <1>1. TypingInv => GroupTypingHasText
    <2> SUFFICES ASSUME TypingInv, NEW s \in Session, NEW t \in Session,
                        NEW g \in Group,
                        Served(t), OnlyOne(t), OnItsWay(s, t, g) = {},
                        currentUser[t] \in groupTyping[s][g]
                 PROVE  (groupDraft[t] /\ selected[t] = g) \/ g \in leftTyping[t]
      BY DEF GroupTypingHasText, ShownTyping
    <2>1. g \in Audiences /\ g # Empty /\ currentUser[t] \in ShownIn(s, g)
      BY GroupAssumption DEF Audiences, ShownIn
    <2>2. Text(t, g)
      BY <2>1, Told
    <2> QED
      BY <2>1, <2>2 DEF Text
  <1> QED
    BY <1>1, TypingHolds, PTL
=============================================================================
