------------------------------ MODULE RoomsProofs ------------------------------
(***************************************************************************)
(* Theorems of CampusConnect, for every set of sessions, names and groups: *)
(* that what holds of the system holds of the whole application, the types *)
(* of what the clients keep, what they show of the public room, the groups *)
(* and the user list, and that the rooms implement ChatRoom.               *)
(***************************************************************************)
EXTENDS CampusRooms, MembershipProofs, WellFoundedInduction, SequenceTheorems

-----------------------------------------------------------------------------
(* The application as the system that it is.                               *)

(* The application is the system with more to see: each of its steps is a  *)
(* step of ChatSystem, and no window stops the system.                     *)
THEOREM ApplicationIsSystem == AppSpec => Spec
  <1>1. AppInit => Init
    BY DEF AppInit
  <1>2. [AppNext]_appVars => [Next]_vars
    BY DEF AppNext, Show, Elsewhere, Next, appVars
  <1> QED
    BY <1>1, <1>2, PTL DEF AppSpec, Spec

(* In the whole application no container of the server keeps a session     *)
(* whose read loop has ended.                                              *)
COROLLARY NoDanglingInApplication == AppSpec => []NoDangling
  BY ApplicationIsSystem, NoDanglingSessions

-----------------------------------------------------------------------------
(* The types of what the clients show.                                     *)

LEMMA ParsedType ==
    ASSUME NEW raw \in Raw, NEW m, m = fromJson(raw)
    PROVE  /\ m.type \in {"PublicMessage", "PrivateMessage", "GroupMessage"}
                => m \in Shown
           /\ m.users \subseteq Name
  <1>1. CASE raw = Garbled
    BY <1>1 DEF fromJson, NoMessage, NewMessage
  <1>2. CASE raw # Garbled
    <2>1. m = [raw EXCEPT !.type = stringToMessageType(raw.type)]
      BY <1>2 DEF fromJson
    <2> QED
      BY <2>1 DEF Raw, Shown
  <1> QED
    BY <1>1, <1>2

LEMMA FileLinkType ==
    ASSUME NEW start \in Raw
    PROVE  fileLink(start) \in Shown
  BY DEF fileLink, Raw, Shown

LEMMA AddMessageType ==
    ASSUME StateTypeOK, NEW s \in Session, NEW m,
           m.type \in {"PublicMessage", "PrivateMessage", "GroupMessage"}
             => m \in Shown,
           addMessage(s, m)
    PROVE  /\ publicMessages'  \in [Session -> Seq(Shown)]
           /\ privateMessages' \in [Session -> Seq(Shown)]
           /\ groupMessages'   \in [Session -> Seq(Shown)]
  <1>1. m \in Shown
    BY DEF addMessage
  <1>2. /\ Append(publicMessages[s], m) \in Seq(Shown)
        /\ Append(privateMessages[s], m) \in Seq(Shown)
        /\ Append(groupMessages[s], m) \in Seq(Shown)
    BY <1>1, AppendProperties DEF StateTypeOK
  <1>3. CASE addPublicMessage(s, m)
    BY <1>2, <1>3 DEF addPublicMessage, StateTypeOK
  <1>4. CASE addPrivateMessage(s, m)
    BY <1>2, <1>4 DEF addPrivateMessage, StateTypeOK
  <1>5. CASE addGroupMessage(s, m)
    BY <1>2, <1>5 DEF addGroupMessage, StateTypeOK
  <1> QED
    BY <1>3, <1>4, <1>5 DEF addMessage

LEMMA ShowFrameType ==
    ASSUME StateTypeOK, NEW s \in Session, NEW raw \in Raw, ShowFrame(s, raw)
    PROVE  StateTypeOK'
  <1> USE DEF StateTypeOK
  <1>a. Incoming(s, raw) \subseteq incomingAttachments[s]
    BY DEF Incoming
  <1>1. CASE writeChunk(s, raw)
    <2>1. { [file EXCEPT !.written = @ + 1] : file \in Incoming(s, raw) }
            \subseteq ReceivedFile
      <3>1. ASSUME NEW file \in Incoming(s, raw)
            PROVE  [file EXCEPT !.written = @ + 1] \in ReceivedFile
        <4>1. file \in [start : Raw, written : Nat]
          BY <1>a DEF ReceivedFile
        <4>2. PICK start \in Raw, n \in Nat :
                file = [start |-> start, written |-> n]
          BY <4>1
        <4>3. [file EXCEPT !.written = @ + 1]
                = [start |-> start, written |-> n + 1]
          BY <4>2
        <4> QED
          BY <4>2, <4>3 DEF ReceivedFile
      <3> QED
        BY <3>1
    <2> QED
      BY <1>1, <2>1 DEF writeChunk
  <1>2. CASE ShowMessage(s, fromJson(raw))
    BY <1>2, ParsedType, AddMessageType DEF ShowMessage
  <1>3. CASE setOnlineUsers(s, fromJson(raw))
    BY <1>3, ParsedType DEF setOnlineUsers
  <1>4. CASE startIncomingAttachment(s, raw)
    <2>1. [start |-> raw, written |-> 0] \in ReceivedFile
      BY DEF ReceivedFile
    <2> QED
      BY <1>4, <2>1 DEF startIncomingAttachment, openFile
  <1>5. CASE finishIncomingAttachment(s, raw)
    <2>1. CASE Incoming(s, raw) = {}
      BY <1>5, <2>1 DEF finishIncomingAttachment, stateVars
    <2>2. CASE Incoming(s, raw) # {}
      <3>1. PICK file \in Incoming(s, raw) :
              /\ incomingAttachments' =
                   [incomingAttachments EXCEPT ![s] = @ \ {file}]
              /\ receivedFiles' = [receivedFiles EXCEPT ![s] = @ \cup {file}]
              /\ addMessage(s, fileLink(file.start))
              /\ UNCHANGED onlineUsers
        BY <1>5, <2>2 DEF finishIncomingAttachment
      <3>2. file \in ReceivedFile /\ file.start \in Raw
        BY <1>a DEF ReceivedFile
      <3>3. /\ publicMessages'  \in [Session -> Seq(Shown)]
            /\ privateMessages' \in [Session -> Seq(Shown)]
            /\ groupMessages'   \in [Session -> Seq(Shown)]
        BY <3>1, <3>2, FileLinkType, AddMessageType
      <3> QED
        BY <3>1, <3>2, <3>3
    <2> QED
      BY <2>1, <2>2
  <1>6. CASE UNCHANGED stateVars
    BY <1>6 DEF stateVars
  <1> QED
    BY <1>1, <1>2, <1>3, <1>4, <1>5, <1>6 DEF ShowFrame

(* Every variable of the application keeps its type, for every set of      *)
(* sessions, names and groups: what the server writes, each client can     *)
(* show.                                                                   *)
THEOREM AppTypeCorrect == AppSpec => []AppTypeOK
  <1>1. AppInit => StateTypeOK
    BY DEF AppInit, StateInit, StateTypeOK
  <1>2. ASSUME TypeOK, StateTypeOK, [AppNext]_appVars
        PROVE  StateTypeOK'
    <2>1. ASSUME NEW s \in Session, Show(s)
          PROVE  StateTypeOK'
      <3>1. toClient[s] \in Seq(Raw) /\ toClient[s] # <<>>
        BY <1>2, <2>1 DEF Show, Receive, ReceiveFrame, TakeFrame, TypeOK,
             ConnTypeOK
      <3>2. Head(toClient[s]) \in Raw
        BY <3>1, HeadTailProperties
      <3> QED
        BY <1>2, <2>1, <3>2, ShowFrameType DEF Show
    <2>2. CASE UNCHANGED stateVars
      BY <1>2, <2>2 DEF stateVars, StateTypeOK
    <2> QED
      BY <1>2, <2>1, <2>2 DEF AppNext, Elsewhere, appVars
  <1>3. AppSpec => []TypeOK
    BY ApplicationIsSystem, TypeCorrect
  <1> QED
    BY <1>1, <1>2, <1>3, PTL DEF AppSpec, AppTypeOK

-----------------------------------------------------------------------------
(* Induction, over sets instead of operators.                              *)

LEMMA NatsFromZero ==
    ASSUME NEW P, 0 \in P, \A n \in Nat : n \in P => n + 1 \in P
    PROVE  Nat \subseteq P
  <1> DEFINE Less == { ss \in Nat \X Nat : ss[1] < ss[2] }
             Out  == Nat \ P
  <1>1. IsWellFoundedOn(Less, Nat)
    <2>1. OpToRel(<, Nat) = Less
      BY Zenon DEF OpToRel
    <2> QED
      BY <2>1, NatLessThanWellFounded, Zenon DEF OpToRel
  <1>2. ASSUME Out # {} PROVE FALSE
    <2>1. PICK n \in Out : \A m \in Out : <<m, n>> \notin Less
      <3>1. Out \subseteq Nat
        OBVIOUS
      <3> HIDE DEF Out, Less
      <3> QED
        BY <1>1, <1>2, <3>1, WFMin, Zenon
    <2>2. n # 0 /\ n - 1 \in Nat
      OBVIOUS
    <2>3. <<n - 1, n>> \in Less
      BY <2>2
    <2>4. n - 1 \in P
      BY <2>1, <2>2, <2>3
    <2> QED
      BY <2>2, <2>4
  <1> QED
    BY <1>2

LEMMA SequencesFromEmpty ==
    ASSUME NEW X, NEW P, <<>> \in P,
           \A q \in Seq(X) : \A x \in X : q \in P => Append(q, x) \in P
    PROVE  Seq(X) \subseteq P
  <1> DEFINE N == { n \in Nat : \A q \in Seq(X) : Len(q) = n => q \in P }
  <1>1. 0 \in N
    BY EmptySeq
  <1>2. ASSUME NEW n \in Nat, n \in N PROVE n + 1 \in N
    <2>1. ASSUME NEW q \in Seq(X), Len(q) = n + 1 PROVE q \in P
      <3>1. /\ SubSeq(q, 1, n) \in Seq(X) /\ Len(SubSeq(q, 1, n)) = n
            /\ q[n + 1] \in X
            /\ q = Append(SubSeq(q, 1, n), q[n + 1])
        BY <2>1
      <3> QED
        BY <1>2, <3>1
    <2> QED
      BY <2>1
  <1>3. Nat \subseteq N
    <2> HIDE DEF N
    <2> QED
      BY <1>1, <1>2, NatsFromZero
  <1>4. ASSUME NEW q \in Seq(X) PROVE q \in P
    BY <1>3, LenProperties
  <1> QED
    BY <1>4

-----------------------------------------------------------------------------
(* What Kept keeps.                                                        *)

\* The recursive function of Kept: the kept elements of each prefix of q.
KeepsFrom(f, q, S) ==
    f = [ n \in 0 .. Len(q) |->
            IF n = 0 THEN <<>>
            ELSE IF q[n] \in S THEN Append(f[n - 1], q[n])
            ELSE f[n - 1] ]

LEMMA KeepsFromExists ==
    ASSUME NEW X, NEW q \in Seq(X), NEW S
    PROVE  \E f : KeepsFrom(f, q, S)
  <1> DEFINE Step(f, n) == IF n = 0 THEN <<>>
                           ELSE IF q[n] \in S THEN Append(f[n - 1], q[n])
                           ELSE f[n - 1]
             Upto(f, k) == f = [ n \in 0 .. k |-> Step(f, n) ]
             P          == { k \in Nat : \E f : Upto(f, k) }
  <1>1. 0 \in P
    <2> DEFINE f == [ n \in 0 .. 0 |-> <<>> ]
    <2>1. f = [ n \in 0 .. 0 |-> Step(f, n) ]
      OBVIOUS
    <2> QED
      BY <2>1
  <1>2. ASSUME NEW k \in Nat, k \in P PROVE k + 1 \in P
    <2>1. PICK f : Upto(f, k)
      BY <1>2
    <2> DEFINE h == [ n \in 0 .. (k + 1) |-> IF n = k + 1 THEN Step(f, n) ELSE f[n] ]
    <2>2. ASSUME NEW n \in 0 .. (k + 1) PROVE h[n] = Step(h, n)
      <3>1. n = 0 \/ n - 1 \in 0 .. k
        OBVIOUS
      <3>2. n # 0 => h[n - 1] = f[n - 1]
        BY <3>1
      <3>3. h[n] = Step(f, n)
        <4>1. CASE n = k + 1
          BY <4>1
        <4>2. CASE n # k + 1
          <5>1. n \in 0 .. k
            BY <4>2
          <5>2. f[n] = Step(f, n)
            BY <2>1, <5>1
          <5> QED
            BY <4>2, <5>2
        <4> QED
          BY <4>1, <4>2
      <3> QED
        BY <3>2, <3>3
    <2>3. h = [ n \in 0 .. (k + 1) |-> h[n] ]
      OBVIOUS
    <2>4. Upto(h, k + 1)
      <3> HIDE DEF h, Step
      <3>1. [ n \in 0 .. (k + 1) |-> h[n] ] = [ n \in 0 .. (k + 1) |-> Step(h, n) ]
        BY <2>2
      <3> QED
        BY <2>3, <3>1
    <2>5. \E g : Upto(g, k + 1)
      <3> HIDE DEF Upto, h
      <3> QED
        BY <2>4
    <2> QED
      BY <2>5, SMTT(40)
  <1>3. Len(q) \in P
    <2> HIDE DEF P
    <2> QED
      BY <1>1, <1>2, NatsFromZero, LenProperties
  <1> QED
    BY <1>3 DEF KeepsFrom

LEMMA KeptUnfolded ==
    ASSUME NEW X, NEW q \in Seq(X), NEW S
    PROVE  \E f : KeepsFrom(f, q, S) /\ Kept(q, S) = f[Len(q)]
  <1> DEFINE f == CHOOSE g : KeepsFrom(g, q, S)
  <1>1. KeepsFrom(f, q, S)
    BY KeepsFromExists
  <1>2. Kept(q, S) = f[Len(q)]
    BY DEF Kept, KeepsFrom
  <1> QED
    BY <1>1, <1>2

LEMMA KeepsFromUnfolded ==
    ASSUME NEW X, NEW q \in Seq(X), NEW S, NEW f, KeepsFrom(f, q, S)
    PROVE  /\ f[0] = <<>>
           /\ \A i \in 1 .. Len(q) :
                f[i] = IF q[i] \in S THEN Append(f[i - 1], q[i]) ELSE f[i - 1]
  <1>1. Len(q) \in Nat
    BY LenProperties
  <1> DEFINE n == Len(q)
             Step(i) == IF i = 0 THEN <<>>
                        ELSE IF q[i] \in S THEN Append(f[i - 1], q[i])
                        ELSE f[i - 1]
  <1>2. f = [ i \in 0 .. n |-> Step(i) ]
    BY DEF KeepsFrom
  <1>3. \A i \in 0 .. n : f[i] = Step(i)
    <2> HIDE DEF Step, n
    <2> QED
      BY <1>2
  <1> QED
    BY <1>1, <1>3

LEMMA KeptEmpty ==
    ASSUME NEW S
    PROVE  Kept(<<>>, S) = <<>>
  <1>1. <<>> \in Seq({}) /\ Len(<<>>) = 0
    OBVIOUS
  <1>2. PICK f : KeepsFrom(f, <<>>, S) /\ Kept(<<>>, S) = f[0]
    BY <1>1, KeptUnfolded
  <1> QED
    BY <1>1, <1>2 DEF KeepsFrom

LEMMA KeptAppend ==
    ASSUME NEW X, NEW q \in Seq(X), NEW x \in X, NEW S
    PROVE  Kept(Append(q, x), S) = IF x \in S THEN Append(Kept(q, S), x)
                                              ELSE Kept(q, S)
  <1> DEFINE r == Append(q, x)
             n == Len(q)
  <1>1. /\ r \in Seq(X) /\ Len(r) = n + 1 /\ n \in Nat
        /\ \A i \in 1 .. n : r[i] = q[i]
        /\ r[n + 1] = x
    BY AppendProperties, LenProperties
  <1>2. PICK f : KeepsFrom(f, q, S) /\ Kept(q, S) = f[n]
    BY KeptUnfolded
  <1>3. PICK h : KeepsFrom(h, r, S) /\ Kept(r, S) = h[Len(r)]
    BY <1>1, KeptUnfolded
  <1> DEFINE P == { i \in Nat : i <= n => f[i] = h[i] }
  <1> HIDE DEF r, n
  <1>4. /\ f[0] = <<>> /\ h[0] = <<>>
        /\ \A i \in 1 .. n : f[i] = IF q[i] \in S THEN Append(f[i - 1], q[i])
                                                  ELSE f[i - 1]
        /\ \A i \in 1 .. n + 1 : h[i] = IF r[i] \in S THEN Append(h[i - 1], r[i])
                                                      ELSE h[i - 1]
    BY <1>1, <1>2, <1>3, KeepsFromUnfolded, SMTT(40) DEF n
  <1>5. ASSUME NEW i \in Nat, i \in P PROVE i + 1 \in P
    BY <1>1, <1>4, <1>5
  <1>6. 0 \in P
    BY <1>4
  <1>7. n \in P
    <2> HIDE DEF P
    <2> QED
      BY <1>1, <1>5, <1>6, NatsFromZero
  <1>8. f[n] = h[n]
    BY <1>1, <1>7
  <1>9. h[n + 1] = IF x \in S THEN Append(f[n], x) ELSE f[n]
    BY <1>1, <1>4, <1>8
  <1> QED
    BY <1>1, <1>2, <1>3, <1>9 DEF r

LEMMA KeptType ==
    ASSUME NEW X, NEW q \in Seq(X), NEW S
    PROVE  Kept(q, S) \in Seq(S)
  <1> DEFINE P == { p \in Seq(X) : Kept(p, S) \in Seq(S) }
  <1>1. <<>> \in P
    <2>1. <<>> \in Seq(S) /\ <<>> \in Seq(X)
      OBVIOUS
    <2> QED
      BY <2>1, KeptEmpty
  <1>2. ASSUME NEW p \in Seq(X), NEW x \in X, p \in P PROVE Append(p, x) \in P
    <2>1. Append(p, x) \in Seq(X)
      OBVIOUS
    <2>2. Kept(Append(p, x), S) \in Seq(S)
      <3>1. Kept(p, S) \in Seq(S)
        BY <1>2
      <3>2. x \in S => Append(Kept(p, S), x) \in Seq(S)
        BY <3>1, AppendProperties
      <3>3. Kept(Append(p, x), S) = IF x \in S THEN Append(Kept(p, S), x)
                                               ELSE Kept(p, S)
        BY KeptAppend
      <3> QED
        BY <3>1, <3>2, <3>3
    <2> QED
      BY <2>1, <2>2
  <1>3. q \in P
    <2> HIDE DEF P
    <2> QED
      BY <1>1, <1>2, SequencesFromEmpty
  <1> QED
    BY <1>3

LEMMA KeptConcat ==
    ASSUME NEW X, NEW p \in Seq(X), NEW q \in Seq(X), NEW S
    PROVE  Kept(p \o q, S) = Kept(p, S) \o Kept(q, S)
  <1> DEFINE P == { r \in Seq(X) : Kept(p \o r, S) = Kept(p, S) \o Kept(r, S) }
  <1>1. <<>> \in P
    <2>1. Kept(p, S) \in Seq(S)
      BY KeptType
    <2> QED
      BY <2>1, KeptEmpty, ConcatEmptySeq
  <1>2. ASSUME NEW r \in Seq(X), NEW x \in X, r \in P PROVE Append(r, x) \in P
    <2>1. /\ Append(r, x) \in Seq(X) /\ p \o r \in Seq(X)
          /\ p \o Append(r, x) = Append(p \o r, x)
      BY AppendProperties, ConcatProperties
    <2>2. Kept(p, S) \in Seq(S) /\ Kept(r, S) \in Seq(S)
      BY KeptType
    <2>3. x \in S => Kept(p, S) \o Append(Kept(r, S), x)
                       = Append(Kept(p, S) \o Kept(r, S), x)
      BY <2>2
    <2>4. Kept(p \o r, S) = Kept(p, S) \o Kept(r, S)
      BY <1>2
    <2>5. Kept(Append(p \o r, x), S) = IF x \in S THEN Append(Kept(p \o r, S), x)
                                                  ELSE Kept(p \o r, S)
      BY <2>1, KeptAppend
    <2>6. Kept(Append(r, x), S) = IF x \in S THEN Append(Kept(r, S), x)
                                             ELSE Kept(r, S)
      BY KeptAppend
    <2>7. Kept(p \o Append(r, x), S) = Kept(p, S) \o Kept(Append(r, x), S)
      BY <2>1, <2>3, <2>4, <2>5, <2>6
    <2> QED
      BY <2>1, <2>7
  <1>3. q \in P
    <2> HIDE DEF P
    <2> QED
      BY <1>1, <1>2, SequencesFromEmpty
  <1> QED
    BY <1>3

LEMMA KeptAll ==
    ASSUME NEW S, NEW q \in Seq(S)
    PROVE  Kept(q, S) = q
  <1> DEFINE P == { p \in Seq(S) : Kept(p, S) = p }
  <1>1. <<>> \in P
    BY KeptEmpty
  <1>2. ASSUME NEW p \in Seq(S), NEW x \in S, p \in P PROVE Append(p, x) \in P
    BY <1>2, KeptAppend
  <1>3. q \in P
    <2> HIDE DEF P
    <2> QED
      BY <1>1, <1>2, SequencesFromEmpty
  <1> QED
    BY <1>3

LEMMA KeptNone ==
    ASSUME NEW X, NEW q \in Seq(X), NEW S, X \cap S = {}
    PROVE  Kept(q, S) = <<>>
  <1> DEFINE P == { p \in Seq(X) : Kept(p, S) = <<>> }
  <1>1. <<>> \in P
    BY KeptEmpty
  <1>2. ASSUME NEW p \in Seq(X), NEW x \in X, p \in P PROVE Append(p, x) \in P
    BY <1>2, KeptAppend
  <1>3. q \in P
    <2> HIDE DEF P
    <2> QED
      BY <1>1, <1>2, SequencesFromEmpty
  <1> QED
    BY <1>3

-----------------------------------------------------------------------------
(* What frames say, and what a view makes of them.                         *)

Texts == Shown \cup { fromJson(raw) : raw \in Raw }

\* What the frames q say of S.
Of(q, S) == Kept(Parsed(q), S)

LEMMA FrameSays ==
    ASSUME NEW raw \in Raw, NEW t
    PROVE  fromJson(raw) \in Said(t) <=> fromJson(raw).type = t
  <1>1. CASE raw = Garbled
    BY <1>1 DEF fromJson, NoMessage, NewMessage, Said
  <1>2. CASE raw # Garbled
    BY <1>2 DEF fromJson, Raw, Said
  <1> QED
    BY <1>1, <1>2

LEMMA ParsedSeq ==
    ASSUME NEW q \in Seq(Raw)
    PROVE  /\ Parsed(q) \in Seq(Texts) /\ Len(Parsed(q)) = Len(q)
           /\ \A i \in 1 .. Len(q) : Parsed(q)[i] = fromJson(q[i])
  <1>1. DOMAIN q = 1 .. Len(q) /\ Len(q) \in Nat
    OBVIOUS
  <1>2. \A i \in 1 .. Len(q) : fromJson(q[i]) \in Texts
    BY DEF Texts
  <1> DEFINE f == [ i \in 1 .. Len(q) |-> fromJson(q[i]) ]
  <1>3. Parsed(q) = f
    BY <1>1 DEF Parsed
  <1>4. f \in Seq(Texts) /\ Len(f) = Len(q)
    BY <1>1, <1>2
  <1> QED
    BY <1>3, <1>4

LEMMA ParsedConcat ==
    ASSUME NEW p \in Seq(Raw), NEW q \in Seq(Raw)
    PROVE  Parsed(p \o q) = Parsed(p) \o Parsed(q)
  <1>1. p \o q \in Seq(Raw)
    BY ConcatProperties
  <1>2. /\ Len(p) \in Nat /\ Len(q) \in Nat /\ Len(p \o q) = Len(p) + Len(q)
        /\ \A i \in 1 .. Len(p) + Len(q) :
             (p \o q)[i] = IF i <= Len(p) THEN p[i] ELSE q[i - Len(p)]
    BY ConcatProperties, LenProperties
  <1>3. /\ Parsed(p) \in Seq(Texts) /\ Parsed(q) \in Seq(Texts)
        /\ Parsed(p \o q) \in Seq(Texts)
        /\ Len(Parsed(p)) = Len(p) /\ Len(Parsed(q)) = Len(q)
        /\ Len(Parsed(p \o q)) = Len(p) + Len(q)
    BY <1>1, <1>2, ParsedSeq
  <1>4. /\ Parsed(p) \o Parsed(q) \in Seq(Texts)
        /\ Len(Parsed(p) \o Parsed(q)) = Len(p) + Len(q)
        /\ \A i \in 1 .. Len(p) + Len(q) :
             (Parsed(p) \o Parsed(q))[i] = IF i <= Len(p) THEN Parsed(p)[i]
                                           ELSE Parsed(q)[i - Len(p)]
    BY <1>3, ConcatProperties
  <1>5. ASSUME NEW i \in 1 .. Len(p) + Len(q)
        PROVE  Parsed(p \o q)[i] = (Parsed(p) \o Parsed(q))[i]
    <2>1. Parsed(p \o q)[i] = fromJson((p \o q)[i])
      BY <1>1, <1>2, ParsedSeq
    <2>2. CASE i <= Len(p)
      <3>1. i \in 1 .. Len(p)
        BY <1>2, <2>2
      <3>2. Parsed(p)[i] = fromJson(p[i])
        BY <3>1, ParsedSeq
      <3> QED
        BY <1>2, <1>4, <2>1, <2>2, <3>2
    <2>3. CASE ~(i <= Len(p))
      <3>1. i - Len(p) \in 1 .. Len(q)
        BY <1>2, <2>3
      <3>2. Parsed(q)[i - Len(p)] = fromJson(q[i - Len(p)])
        BY <3>1, ParsedSeq
      <3> QED
        BY <1>2, <1>4, <2>1, <2>3, <3>2
    <2> QED
      BY <2>2, <2>3
  <1> QED
    BY <1>3, <1>4, <1>5, SeqEqual

LEMMA ParsedFew ==
    /\ Parsed(<<>>) = <<>>
    /\ \A raw \in Raw : Parsed(<<raw>>) = <<fromJson(raw)>>
  <1>1. Parsed(<<>>) = <<>>
    <2>1. <<>> \in Seq(Raw) /\ Len(<<>>) = 0
      OBVIOUS
    <2>2. Parsed(<<>>) \in Seq(Texts) /\ Len(Parsed(<<>>)) = 0
      BY <2>1, ParsedSeq
    <2> QED
      BY <2>2, EmptySeq
  <1>2. ASSUME NEW raw \in Raw PROVE Parsed(<<raw>>) = <<fromJson(raw)>>
    <2>1. <<raw>> \in Seq(Raw) /\ Len(<<raw>>) = 1 /\ <<raw>>[1] = raw
      OBVIOUS
    <2>2. /\ Parsed(<<raw>>) \in Seq(Texts) /\ Len(Parsed(<<raw>>)) = 1
          /\ Parsed(<<raw>>)[1] = fromJson(raw)
      <3> DEFINE q == <<raw>>
      <3>1. q \in Seq(Raw) /\ Len(q) = 1 /\ q[1] = raw /\ 1 \in 1 .. 1
        BY <2>1
      <3> HIDE DEF q
      <3>2. /\ Parsed(q) \in Seq(Texts) /\ Len(Parsed(q)) = 1
            /\ Parsed(q)[1] = fromJson(raw)
        BY <3>1, ParsedSeq
      <3> QED
        BY <3>2 DEF q
    <2>3. fromJson(raw) \in Texts
      BY DEF Texts
    <2> HIDE DEF Texts
    <2>4. /\ <<fromJson(raw)>> \in Seq(Texts)
          /\ Len(<<fromJson(raw)>>) = 1 /\ <<fromJson(raw)>>[1] = fromJson(raw)
      BY <2>3
    <2> QED
      BY <2>2, <2>4, SeqEqual
  <1> QED
    BY <1>1, <1>2

LEMMA ParsedAppend ==
    ASSUME NEW f \in Seq(Raw), NEW raw \in Raw
    PROVE  Parsed(Append(f, raw)) = Append(Parsed(f), fromJson(raw))
  <1>1. PICK one \in Seq(Raw) : one = <<raw>>
    <2>1. <<raw>> \in Seq(Raw)
      OBVIOUS
    <2> QED
      BY <2>1
  <1>2. Parsed(f \o one) = Parsed(f) \o Parsed(one)
    BY ParsedConcat
  <1>3. Append(f, raw) = f \o one
    BY <1>1
  <1> DEFINE m == fromJson(raw)
  <1>4. m \in Texts
    BY DEF Texts
  <1>5. Parsed(one) = <<m>> /\ Parsed(f) \in Seq(Texts)
    BY <1>1, ParsedFew, ParsedSeq
  <1> HIDE DEF m, Texts
  <1>6. Parsed(f) \o <<m>> = Append(Parsed(f), m)
    BY <1>4, <1>5
  <1> QED
    BY <1>2, <1>3, <1>5, <1>6 DEF m

LEMMA OfFrames ==
    ASSUME NEW S
    PROVE  /\ Of(<<>>, S) = <<>>
           /\ \A raw \in Raw : Of(<<raw>>, S) = IF fromJson(raw) \in S
                                                  THEN <<fromJson(raw)>> ELSE <<>>
           /\ \A q \in Seq(Raw) : Of(q, S) \in Seq(S)
           /\ \A p, q \in Seq(Raw) : Of(p \o q, S) = Of(p, S) \o Of(q, S)
           /\ \A q \in Seq(Raw) : (\A i \in 1 .. Len(q) : fromJson(q[i]) \in S)
                => Of(q, S) = Parsed(q)
           /\ \A q \in Seq(Raw) : (\A i \in 1 .. Len(q) : fromJson(q[i]) \notin S)
                => Of(q, S) = <<>>
  <1>1. Of(<<>>, S) = <<>>
    BY ParsedFew, KeptEmpty DEF Of
  <1>2. ASSUME NEW raw \in Raw
        PROVE  Of(<<raw>>, S) = IF fromJson(raw) \in S THEN <<fromJson(raw)>> ELSE <<>>
    <2>1. fromJson(raw) \in Texts
      BY DEF Texts
    <2>2. <<>> \in Seq(Texts) /\ \A x : Append(<<>>, x) = <<x>>
      OBVIOUS
    <2> HIDE DEF Texts
    <2>3. Kept(Append(<<>>, fromJson(raw)), S)
            = IF fromJson(raw) \in S THEN Append(Kept(<<>>, S), fromJson(raw))
                                     ELSE Kept(<<>>, S)
      BY <2>1, <2>2, KeptAppend
    <2> QED
      BY <2>2, <2>3, ParsedFew, KeptEmpty DEF Of
  <1>3. ASSUME NEW q \in Seq(Raw) PROVE Of(q, S) \in Seq(S)
    BY ParsedSeq, KeptType DEF Of
  <1>4. ASSUME NEW p \in Seq(Raw), NEW q \in Seq(Raw)
        PROVE  Of(p \o q, S) = Of(p, S) \o Of(q, S)
    <2>1. Parsed(p) \in Seq(Texts) /\ Parsed(q) \in Seq(Texts)
      BY ParsedSeq
    <2>2. Kept(Parsed(p) \o Parsed(q), S) = Kept(Parsed(p), S) \o Kept(Parsed(q), S)
      BY <2>1, KeptConcat
    <2> QED
      BY <2>2, ParsedConcat DEF Of
  <1>5. ASSUME NEW q \in Seq(Raw), \A i \in 1 .. Len(q) : fromJson(q[i]) \in S
        PROVE  Of(q, S) = Parsed(q)
    <2>1. Parsed(q) \in Seq(S)
      BY <1>5, ParsedSeq
    <2> QED
      BY <2>1, KeptAll DEF Of
  <1>6. ASSUME NEW q \in Seq(Raw), \A i \in 1 .. Len(q) : fromJson(q[i]) \notin S
        PROVE  Of(q, S) = <<>>
    <2>1. Parsed(q) \in Seq(Texts \ S)
      <3>1. \A i \in 1 .. Len(Parsed(q)) : Parsed(q)[i] \in Texts \ S
        BY <1>6, ParsedSeq
      <3> QED
        BY <3>1, ParsedSeq
    <2> QED
      BY <2>1, KeptNone DEF Of
  <1> QED
    BY <1>1, <1>2, <1>3, <1>4, <1>5, <1>6

-----------------------------------------------------------------------------
(* A screen and what is on its way to it.                                  *)

View(screen, frames, S) == Kept(screen \o Parsed(frames), S)

LEMMA ViewSplits ==
    ASSUME NEW screen \in Seq(Shown), NEW q \in Seq(Raw), NEW S
    PROVE  /\ View(screen, q, S) = Kept(screen, S) \o Of(q, S)
           /\ Kept(screen, S) \in Seq(S) /\ Of(q, S) \in Seq(S)
           /\ View(screen, q, S) \in Seq(S)
  <1>1. screen \in Seq(Texts) /\ Parsed(q) \in Seq(Texts)
    BY ParsedSeq, SeqMonotonic DEF Texts
  <1>2. View(screen, q, S) = Kept(screen, S) \o Of(q, S)
    BY <1>1, KeptConcat DEF View, Of
  <1>3. Kept(screen, S) \in Seq(S) /\ Of(q, S) \in Seq(S)
    BY KeptType, OfFrames
  <1> QED
    BY <1>2, <1>3, ConcatProperties

LEMMA ConcatThree ==
    ASSUME NEW S, NEW a \in Seq(S), NEW b \in Seq(S), NEW c \in Seq(S)
    PROVE  (a \o b) \o c = a \o (b \o c)
  BY ConcatAssociative

\* Frames that are written appear at the end of the view.
LEMMA ViewGrows ==
    ASSUME NEW screen \in Seq(Shown), NEW q \in Seq(Raw), NEW out \in Seq(Raw), NEW S
    PROVE  View(screen, q \o out, S) = View(screen, q, S) \o Of(out, S)
  <1>1. q \o out \in Seq(Raw)
    BY ConcatProperties
  <1>2. Of(q \o out, S) = Of(q, S) \o Of(out, S)
    BY OfFrames
  <1>3. Of(out, S) \in Seq(S) /\ Of(q, S) \in Seq(S) /\ Kept(screen, S) \in Seq(S)
    BY ViewSplits, OfFrames
  <1>4. View(screen, q \o out, S) = Kept(screen, S) \o Of(q \o out, S)
    BY <1>1, ViewSplits
  <1>5. View(screen, q, S) = Kept(screen, S) \o Of(q, S)
    BY ViewSplits
  <1>6. (Kept(screen, S) \o Of(q, S)) \o Of(out, S)
          = Kept(screen, S) \o (Of(q, S) \o Of(out, S))
    BY <1>3, ConcatThree, SMTT(40)
  <1> QED
    BY <1>2, <1>4, <1>5, <1>6

\* To what `before' shows of S, `after' adds the frames q.
Adds(before, after, q, S) == Kept(after, S) = Kept(before, S) \o Of(q, S)

\* What is taken and shown was in the view before.
LEMMA ViewKeeps ==
    ASSUME NEW before \in Seq(Shown), NEW after \in Seq(Shown),
           NEW one \in Seq(Raw), NEW rest \in Seq(Raw), NEW S,
           Adds(before, after, one, S)
    PROVE  View(after, rest, S) = View(before, one \o rest, S)
  <1>1. View(after, rest, S) = Kept(after, S) \o Of(rest, S)
    BY ViewSplits
  <1>2. View(before, one, S) = Kept(before, S) \o Of(one, S)
    BY ViewSplits
  <1>3. View(before, one \o rest, S) = View(before, one, S) \o Of(rest, S)
    BY ViewGrows, SMTT(40)
  <1> QED
    BY <1>1, <1>2, <1>3 DEF Adds

-----------------------------------------------------------------------------
(* The end of a sequence.                                                  *)

LEMMA SuffixIndex ==
    ASSUME NEW X, NEW p \in Seq(X), NEW q \in Seq(X)
    PROVE  IsSuffix(p, q) <=>
             /\ Len(p) <= Len(q)
             /\ \A i \in 1 .. Len(p) : p[i] = q[Len(q) - Len(p) + i]
  <1> DEFINE m == Len(p)
             n == Len(q)
             rp == Reverse(p)
             rq == Reverse(q)
  <1>1. m \in Nat /\ n \in Nat
    BY LenProperties
  <1>2. /\ rp \in Seq(X) /\ Len(rp) = m /\ rq \in Seq(X) /\ Len(rq) = n
        /\ \A i \in 1 .. m : rp[i] = p[m - i + 1]
        /\ \A i \in 1 .. n : rq[i] = q[n - i + 1]
    BY <1>1 DEF Reverse
  <1>3. IsSuffix(p, q) <=> m <= n /\ SubSeq(rp, 1, m) = SubSeq(rq, 1, m)
    BY <1>2 DEF IsSuffix, IsPrefix
  <1> HIDE DEF rp, rq
  <1>4. ASSUME m <= n
        PROVE  SubSeq(rp, 1, m) = SubSeq(rq, 1, m)
                 <=> \A i \in 1 .. m : rp[i] = rq[i]
    <2>1. /\ SubSeq(rp, 1, m) = [ i \in 1 .. m |-> rp[i] ]
          /\ SubSeq(rq, 1, m) = [ i \in 1 .. m |-> rq[i] ]
      BY <1>1, <1>2, <1>4
    <2> QED
      BY <2>1
  <1>5. ASSUME m <= n
        PROVE  (\A i \in 1 .. m : rp[i] = rq[i])
                 <=> (\A i \in 1 .. m : p[i] = q[n - m + i])
    <2>1. ASSUME \A i \in 1 .. m : rp[i] = rq[i], NEW i \in 1 .. m
          PROVE  p[i] = q[n - m + i]
      <3>1. m - i + 1 \in 1 .. m /\ m - i + 1 \in 1 .. n
            /\ m - (m - i + 1) + 1 = i /\ n - (m - i + 1) + 1 = n - m + i
        BY <1>1, <1>5
      <3> QED
        BY <1>2, <2>1, <3>1, ZenonT(60)
    <2>2. ASSUME \A i \in 1 .. m : p[i] = q[n - m + i], NEW i \in 1 .. m
          PROVE  rp[i] = rq[i]
      <3>1. m - i + 1 \in 1 .. m /\ i \in 1 .. n
            /\ n - m + (m - i + 1) = n - i + 1
        BY <1>1, <1>5
      <3> QED
        BY <1>2, <2>2, <3>1, ZenonT(60)
    <2> QED
      BY <2>1, <2>2
  <1> QED
    BY <1>3, <1>4, <1>5

LEMMA SuffixConcat ==
    ASSUME NEW X, NEW a \in Seq(X), NEW b \in Seq(X)
    PROVE  IsSuffix(b, a \o b)
  <1>1. a \o b \in Seq(X) /\ Len(a \o b) = Len(a) + Len(b)
        /\ Len(a) \in Nat /\ Len(b) \in Nat
    BY ConcatProperties, LenProperties
  <1>2. \A i \in 1 .. Len(b) : b[i] = (a \o b)[Len(a \o b) - Len(b) + i]
    <2> TAKE i \in 1 .. Len(b)
    <2>1. Len(a) + i \in 1 .. Len(a) + Len(b) /\ Len(a \o b) - Len(b) + i = Len(a) + i
          /\ ~(Len(a) + i <= Len(a)) /\ Len(a) + i - Len(a) = i
      BY <1>1
    <2> QED
      BY <2>1, ConcatProperties
  <1>3. Len(b) <= Len(a \o b)
    BY <1>1
  <1> DEFINE c == a \o b
  <1> HIDE DEF c
  <1>4. /\ c \in Seq(X) /\ Len(b) <= Len(c)
        /\ \A i \in 1 .. Len(b) : b[i] = c[Len(c) - Len(b) + i]
    BY <1>1, <1>2, <1>3 DEF c
  <1>5. IsSuffix(b, c)
    BY <1>4, SuffixIndex
  <1> QED
    BY <1>5 DEF c

LEMMA SuffixAppend ==
    ASSUME NEW X, NEW p \in Seq(X), NEW q \in Seq(X), NEW x \in X, IsSuffix(p, q)
    PROVE  IsSuffix(Append(p, x), Append(q, x))
  <1>1. /\ Append(p, x) \in Seq(X) /\ Append(q, x) \in Seq(X)
        /\ Len(Append(p, x)) = Len(p) + 1 /\ Len(Append(q, x)) = Len(q) + 1
        /\ Len(p) \in Nat /\ Len(q) \in Nat
        /\ \A i \in 1 .. Len(p) : Append(p, x)[i] = p[i]
        /\ \A i \in 1 .. Len(q) : Append(q, x)[i] = q[i]
        /\ Append(p, x)[Len(p) + 1] = x /\ Append(q, x)[Len(q) + 1] = x
    BY AppendProperties, LenProperties
  <1>2. /\ Len(p) <= Len(q)
        /\ \A i \in 1 .. Len(p) : p[i] = q[Len(q) - Len(p) + i]
    BY SuffixIndex
  <1>3. ASSUME NEW i \in 1 .. Len(p) + 1
        PROVE  Append(p, x)[i] = Append(q, x)[Len(q) + 1 - (Len(p) + 1) + i]
    <2>1. CASE i = Len(p) + 1
      BY <1>1, <1>2, <2>1
    <2>2. CASE i # Len(p) + 1
      <3>1. i \in 1 .. Len(p) /\ Len(q) - Len(p) + i \in 1 .. Len(q)
            /\ Len(q) + 1 - (Len(p) + 1) + i = Len(q) - Len(p) + i
        BY <1>1, <1>2, <2>2
      <3> QED
        BY <1>1, <1>2, <3>1
    <2> QED
      BY <2>1, <2>2
  <1> DEFINE p1 == Append(p, x)
             q1 == Append(q, x)
  <1> HIDE DEF p1, q1
  <1>4. /\ p1 \in Seq(X) /\ q1 \in Seq(X)
        /\ Len(p1) = Len(p) + 1 /\ Len(q1) = Len(q) + 1
        /\ \A i \in 1 .. Len(p) + 1 : p1[i] = q1[Len(q) + 1 - (Len(p) + 1) + i]
    BY <1>1, <1>3 DEF p1, q1
  <1>a. /\ Len(p1) <= Len(q1)
        /\ \A i \in 1 .. Len(p1) : p1[i] = q1[Len(q1) - Len(p1) + i]
    BY <1>1, <1>2, <1>4
  <1>5. IsSuffix(p1, q1)
    BY <1>4, <1>a, SuffixIndex
  <1> QED
    BY <1>5 DEF p1, q1

-----------------------------------------------------------------------------
(* A client shows a frame: no view changes.                                *)

LEMMA AddShows ==
    ASSUME StateTypeOK, NEW s \in Session, NEW m \in Shown, addMessage(s, m)
    PROVE  /\ Kept(publicMessages'[s], Said("PublicMessage"))
                = IF m \in Said("PublicMessage")
                    THEN Append(Kept(publicMessages[s], Said("PublicMessage")), m)
                    ELSE Kept(publicMessages[s], Said("PublicMessage"))
           /\ \A g : (m \in SaidIn(g) => g \in joinedGroups[s]) =>
                Kept(groupMessages'[s], SaidIn(g))
                  = IF m \in SaidIn(g)
                      THEN Append(Kept(groupMessages[s], SaidIn(g)), m)
                      ELSE Kept(groupMessages[s], SaidIn(g))
           /\ \A t \in Session \ {s} :
                /\ publicMessages'[t] = publicMessages[t]
                /\ groupMessages'[t] = groupMessages[t]
  <1>1. /\ publicMessages[s] \in Seq(Shown) /\ groupMessages[s] \in Seq(Shown)
        /\ publicMessages \in [Session -> Seq(Shown)]
        /\ groupMessages \in [Session -> Seq(Shown)]
    BY DEF StateTypeOK
  <1>2. \A S : /\ Kept(Append(publicMessages[s], m), S)
                    = IF m \in S THEN Append(Kept(publicMessages[s], S), m)
                                 ELSE Kept(publicMessages[s], S)
               /\ Kept(Append(groupMessages[s], m), S)
                    = IF m \in S THEN Append(Kept(groupMessages[s], S), m)
                                 ELSE Kept(groupMessages[s], S)
    BY <1>1, KeptAppend
  <1>3. /\ m \in Said("PublicMessage") => m.type = "PublicMessage"
        /\ \A g : m \in SaidIn(g) => m.type = "GroupMessage" /\ m.groupId = g
    BY DEF Said, SaidIn
  <1>4. CASE m.type = "PublicMessage" /\ addPublicMessage(s, m)
    <2>1. /\ publicMessages'[s] = Append(publicMessages[s], m)
          /\ \A t \in Session \ {s} : publicMessages'[t] = publicMessages[t]
          /\ groupMessages' = groupMessages
      BY <1>1, <1>4 DEF addPublicMessage
    <2> QED
      BY <1>2, <1>3, <1>4, <2>1
  <1>5. CASE m.type = "PrivateMessage" /\ addPrivateMessage(s, m)
    BY <1>3, <1>5 DEF addPrivateMessage
  <1>6. CASE m.type = "GroupMessage" /\ addGroupMessage(s, m)
    <2>1. /\ publicMessages' = publicMessages
          /\ groupMessages'[s] = IF m.groupId \in joinedGroups[s]
                                   THEN Append(groupMessages[s], m)
                                   ELSE groupMessages[s]
          /\ \A t \in Session \ {s} : groupMessages'[t] = groupMessages[t]
      BY <1>1, <1>6 DEF addGroupMessage
    <2> QED
      BY <1>2, <1>3, <1>6, <2>1
  <1> QED
    BY <1>4, <1>5, <1>6 DEF addMessage

\* What the screens say of public messages and of each group, and the list.
LEMMA FrameShows ==
    ASSUME StateTypeOK, NEW s \in Session, NEW raw \in Raw, ShowFrame(s, raw)
    PROVE  /\ Kept(publicMessages'[s], Said("PublicMessage"))
                = Kept(publicMessages[s], Said("PublicMessage"))
                    \o Of(<<raw>>, Said("PublicMessage"))
           /\ \A g : (fromJson(raw) \in SaidIn(g) => g \in joinedGroups[s]) =>
                Kept(groupMessages'[s], SaidIn(g))
                  = Kept(groupMessages[s], SaidIn(g)) \o Of(<<raw>>, SaidIn(g))
           /\ onlineUsers'[s] = IF fromJson(raw) \in Said("UserList")
                                  THEN fromJson(raw).users ELSE onlineUsers[s]
           /\ \A t \in Session \ {s} :
                /\ publicMessages'[t] = publicMessages[t]
                /\ groupMessages'[t] = groupMessages[t]
                /\ onlineUsers'[t] = onlineUsers[t]
  <1> DEFINE m == fromJson(raw)
             P == Said("PublicMessage")
  <1>1. /\ publicMessages[s] \in Seq(Shown) /\ groupMessages[s] \in Seq(Shown)
        /\ onlineUsers \in [Session -> SUBSET Name]
    BY DEF StateTypeOK
  <1>2. \A S : /\ Kept(publicMessages[s], S) \in Seq(S)
               /\ Kept(groupMessages[s], S) \in Seq(S)
    BY <1>1, KeptType
  <1>3. \A S : Of(<<raw>>, S) = IF m \in S THEN <<m>> ELSE <<>>
    BY OfFrames
  <1>4. \A S : \A q \in Seq(S) : q \o <<>> = q /\ (m \in S => q \o <<m>> = Append(q, m))
    OBVIOUS
  <1>5. /\ \A t : m \in Said(t) <=> m.type = t
        /\ \A g : m \in SaidIn(g) => m.type = "GroupMessage"
    BY FrameSays DEF Said, SaidIn
  <1> HIDE DEF m, P
  <1>6. CASE ShowMessage(s, m)
    <2>1. addMessage(s, m) /\ onlineUsers' = onlineUsers
      BY <1>6 DEF ShowMessage
    <2>2. m.type \in {"PublicMessage", "PrivateMessage", "GroupMessage"}
      BY <2>1 DEF addMessage
    <2>3. m \in Shown
      BY <2>2, ParsedType DEF m
    <2>4. m \notin Said("UserList")
      BY <1>5, <2>2
    <2>5. /\ Kept(publicMessages'[s], P)
               = IF m \in P THEN Append(Kept(publicMessages[s], P), m)
                            ELSE Kept(publicMessages[s], P)
          /\ \A g : (m \in SaidIn(g) => g \in joinedGroups[s]) =>
               Kept(groupMessages'[s], SaidIn(g))
                 = IF m \in SaidIn(g)
                     THEN Append(Kept(groupMessages[s], SaidIn(g)), m)
                     ELSE Kept(groupMessages[s], SaidIn(g))
          /\ \A t \in Session \ {s} :
               /\ publicMessages'[t] = publicMessages[t]
               /\ groupMessages'[t] = groupMessages[t]
      BY <2>1, <2>3, AddShows DEF P
    <2>6. Kept(publicMessages'[s], P) = Kept(publicMessages[s], P) \o Of(<<raw>>, P)
      BY <1>2, <1>3, <1>4, <2>5
    <2>7. ASSUME NEW g, m \in SaidIn(g) => g \in joinedGroups[s]
          PROVE  Kept(groupMessages'[s], SaidIn(g))
                   = Kept(groupMessages[s], SaidIn(g)) \o Of(<<raw>>, SaidIn(g))
      BY <1>2, <1>3, <1>4, <2>5, <2>7
    <2> QED
      BY <2>1, <2>4, <2>5, <2>6, <2>7 DEF m, P
  <1>7. ASSUME m.type \notin {"PublicMessage", "GroupMessage"}
        PROVE  m \notin P /\ \A g : m \notin SaidIn(g)
    BY <1>5, <1>7 DEF P
  <1>8. ASSUME publicMessages' = publicMessages, groupMessages' = groupMessages,
               m.type \notin {"PublicMessage", "GroupMessage"}
        PROVE  /\ Kept(publicMessages'[s], P)
                    = Kept(publicMessages[s], P) \o Of(<<raw>>, P)
               /\ \A g : Kept(groupMessages'[s], SaidIn(g))
                           = Kept(groupMessages[s], SaidIn(g)) \o Of(<<raw>>, SaidIn(g))
    BY <1>2, <1>3, <1>4, <1>7, <1>8
  <1>9. CASE setOnlineUsers(s, m)
    BY <1>1, <1>5, <1>8, <1>9 DEF setOnlineUsers, m, P
  <1>10. CASE /\ m.type \notin {"PublicMessage", "GroupMessage", "UserList"}
              /\ UNCHANGED <<publicMessages, groupMessages, onlineUsers>>
    BY <1>5, <1>8, <1>10 DEF m, P
  <1>11. CASE m.type = "AttachmentEnd" /\ ~UNCHANGED stateVars
              /\ finishIncomingAttachment(s, raw)
    <2>1. PICK file \in Incoming(s, raw) :
            addMessage(s, fileLink(file.start)) /\ UNCHANGED onlineUsers
      BY <1>11 DEF finishIncomingAttachment
    <2>2. file.start \in Raw
      BY <2>1 DEF Incoming, StateTypeOK, ReceivedFile
    <2>3. fileLink(file.start) \in Shown
      BY <2>2, FileLinkType
    <2>4. fileLink(file.start).content = "file"
      BY <2>2 DEF fileLink, Raw
    <2>5. fileLink(file.start) \notin P /\ \A g : fileLink(file.start) \notin SaidIn(g)
      BY <2>4 DEF Said, SaidIn, P
    <2>6. m \notin P /\ m \notin Said("UserList") /\ \A g : m \notin SaidIn(g)
      BY <1>5, <1>7, <1>11
    <2> QED
      BY <1>2, <1>3, <1>4, <2>1, <2>3, <2>5, <2>6, AddShows, SMTT(40) DEF m, P
  <1>12. writeChunk(s, raw) => m.type = "Unknown"
    BY DEF writeChunk, m, fromJson, NoMessage, NewMessage, stringToMessageType
  <1> QED
    <2>1. CASE writeChunk(s, raw)
      BY <1>10, <1>12, <2>1 DEF writeChunk
    <2>2. CASE startIncomingAttachment(s, raw)
      BY <1>10, <2>2 DEF startIncomingAttachment, m
    <2>3. CASE finishIncomingAttachment(s, raw)
      BY <1>10, <1>11, <2>3 DEF finishIncomingAttachment, m, stateVars
    <2>4. CASE m.type \in Ignored /\ UNCHANGED stateVars
      BY <1>10, <2>4 DEF Ignored, stateVars
    <2> QED
      BY <1>6, <1>9, <2>1, <2>2, <2>3, <2>4 DEF ShowFrame, m

-----------------------------------------------------------------------------
(* What the server's handlers add to the views.                            *)

\* Of what is written to t, `said' is in S.
Hears(t, S, said) ==
    \E out \in Seq(Raw) : toClient'[t] = toClient[t] \o out /\ Of(out, S) = said

LEMMA HearsNothing ==
    ASSUME TypeOK, NEW t \in Session, NEW S, toClient'[t] = toClient[t]
    PROVE  Hears(t, S, <<>>)
  <1>1. toClient[t] \in Seq(Raw) /\ <<>> \in Seq(Raw)
    BY DEF TypeOK, ConnTypeOK
  <1>2. toClient'[t] = toClient[t] \o <<>>
    BY <1>1, ConcatEmptySeq
  <1> QED
    BY <1>1, <1>2, OfFrames DEF Hears

LEMMA WriteHears ==
    ASSUME TypeOK, NEW pending, NEW out \in Output, WriteFrom(pending, out),
           NEW t \in Session, linkUp[t], NEW S
    PROVE  Hears(t, S, Of(out[t], S))
  <1>1. toClient'[t] = toClient[t] \o out[t] /\ out[t] \in Seq(Raw)
    BY DEF WriteFrom, Output
  <1> QED
    BY <1>1 DEF Hears

LEMMA SilenceSays ==
    ASSUME NEW S, NEW t \in Session
    PROVE  Of(Silence[t], S) = <<>>
  BY OfFrames DEF Silence

LEMMA SendSays ==
    ASSUME NEW S, NEW T, NEW raw \in Raw, NEW t \in Session
    PROVE  /\ t \in T => Of(SendTo(T, raw)[t], S) = Of(<<raw>>, S)
           /\ t \notin T => Of(SendTo(T, raw)[t], S) = <<>>
  BY OfFrames DEF SendTo

LEMMA BothSay ==
    ASSUME NEW S, NEW out1 \in Output, NEW out2 \in Output, NEW t \in Session
    PROVE  /\ Of(Both(out1, out2)[t], S) = Of(out1[t], S) \o Of(out2[t], S)
           /\ Of(out1[t], S) \in Seq(S) /\ Of(out2[t], S) \in Seq(S)
  <1>1. /\ Both(out1, out2)[t] = out1[t] \o out2[t]
        /\ out1[t] \in Seq(Raw) /\ out2[t] \in Seq(Raw)
    BY DEF Both, Output
  <1>2. Of(out1[t] \o out2[t], S) = Of(out1[t], S) \o Of(out2[t], S)
    BY <1>1, OfFrames
  <1>3. Of(out1[t], S) \in Seq(S) /\ Of(out2[t], S) \in Seq(S)
    BY <1>1, OfFrames
  <1> QED
    BY <1>1, <1>2, <1>3

LEMMA HistorySays ==
    ASSUME NEW S, NEW s \in Session, NEW h \in Seq(Raw), NEW t \in Session
    PROVE  Of(sendHistory(s, h)[t], S) = IF t = s THEN Of(h, S) ELSE <<>>
  <1>1. sendHistory(s, h)[t] = IF t = s THEN h ELSE <<>>
    BY DEF sendHistory, Silence
  <1> QED
    BY <1>1, OfFrames

LEMMA HeadIsRaw ==
    ASSUME TypeOK, NEW s \in Session, HandleFrame(s)
    PROVE  Head(toServer[s]) \in Raw
  BY HandleReads, HeadType DEF ClientFrame

\* Routed to nobody or to many, a frame of another kind says nothing of S.
LEMMA RouteSays ==
    ASSUME TypeOK, NEW s \in Session, NEW raw \in Raw, NEW route \in Raw,
           NEW S, fromJson(raw) \notin S, NEW t \in Session
    PROVE  /\ Of(RouteText(s, raw)[t], S) = <<>>
           /\ Of(RouteBinary(route, raw)[t], S) = <<>>
           /\ \A T1, T2 : Of(Both(SendTo(T1, raw), SendTo(T2, raw))[t], S) = <<>>
  <1>a. Of(<<raw>>, S) = <<>>
    BY OfFrames
  <1>1. \A T : Of(SendTo(T, raw)[t], S) = <<>> /\ SendTo(T, raw) \in Output
    <2> TAKE T
    <2>1. SendTo(T, raw) \in Output
      BY OutputTypes
    <2>2. Of(SendTo(T, raw)[t], S) = <<>>
      BY <1>a, SendSays
    <2> QED
      BY <2>1, <2>2
  <1>2. ASSUME NEW T1, NEW T2
        PROVE  Of(Both(SendTo(T1, raw), SendTo(T2, raw))[t], S) = <<>>
    <2>1. Of(Both(SendTo(T1, raw), SendTo(T2, raw))[t], S)
            = Of(SendTo(T1, raw)[t], S) \o Of(SendTo(T2, raw)[t], S)
      BY <1>1, BothSay
    <2>2. <<>> \o <<>> = <<>>
      OBVIOUS
    <2> QED
      BY <1>1, <2>1, <2>2
  <1> QED
    BY <1>1, <1>2 DEF RouteText, RouteBinary, sendToGroup, broadcast

\* What is neither kept in a history nor a private message.
HandleRest(s) ==
    \/ HandleTyping(s)         \/ HandleAttachmentStart(s)
    \/ HandleAttachmentEnd(s)  \/ HandleBinary(s)         \/ HandleUnknown(s)

\* The handlers that keep no history and register nobody.
HandleOther(s) == HandlePrivateMessage(s) \/ HandleRest(s)

LEMMA RestSays ==
    ASSUME TypeOK, NEW s \in Session, HandleFrame(s), HandleRest(s),
           NEW S, S \subseteq Said("PublicMessage") \cup Said("GroupMessage")
                        \cup Said("UserList") \cup Said("PrivateMessage"),
           NEW t \in Session, linkUp[t]
    PROVE  Hears(t, S, <<>>)
  <1> DEFINE raw == Head(toServer[s])
  <1>1. raw \in Raw
    BY HeadIsRaw
  <1> HIDE DEF raw
  <1>2. CASE UNCHANGED <<toClient, failing>>
    BY <1>2, HearsNothing
  <1>3. ASSUME NEW out \in Output, Write(out), Of(out[t], S) = <<>>
        PROVE  Hears(t, S, <<>>)
    <2>1. WriteFrom(failing, out)
      BY <1>3 DEF Write
    <2>2. Hears(t, S, Of(out[t], S))
      BY <2>1, WriteHears
    <2> QED
      BY <1>3, <2>2
  <1>4. fromJson(raw).type \notin {"PublicMessage", "GroupMessage", "UserList",
                               "PrivateMessage"}
          => fromJson(raw) \notin S
    BY <1>1, FrameSays
  <1>5. CASE HandleTyping(s) \/ HandleAttachmentStart(s) \/ HandleAttachmentEnd(s)
    <2>1. fromJson(raw) \notin S
      BY <1>4, <1>5 DEF HandleTyping, HandleAttachmentStart, HandleAttachmentEnd,
           Received, raw
    <2>2. Write(RouteText(s, raw))
      BY <1>5 DEF HandleTyping, HandleAttachmentStart, HandleAttachmentEnd, raw
    <2>3. RouteText(s, raw) \in Output
      BY <1>1, RouteTypes
    <2> QED
      BY <1>1, <1>3, <2>1, <2>2, <2>3, RouteSays
  <1>6. CASE HandleBinary(s)
    <2>1. fromJson(raw) \notin S
      <3>1. raw.type = "binary"
        BY <1>6 DEF HandleBinary, raw
      <3>2. fromJson(raw).type = "Unknown"
        BY <1>1, <3>1 DEF fromJson, NoMessage, NewMessage, stringToMessageType, Raw
      <3> QED
        BY <1>4, <3>2
    <2>2. \/ UNCHANGED <<toClient, failing>>
          \/ \E route \in routes : Write(RouteBinary(route, raw))
      BY <1>6 DEF HandleBinary, raw
    <2>3. ASSUME NEW route \in routes, Write(RouteBinary(route, raw))
          PROVE  Hears(t, S, <<>>)
      <3>1. route \in Raw
        BY DEF TypeOK, ServerTypeOK
      <3>2. RouteBinary(route, raw) \in Output
        BY <1>1, <3>1, RouteTypes
      <3> QED
        BY <1>1, <1>3, <2>1, <2>3, <3>1, <3>2, RouteSays
    <2> QED
      BY <1>2, <2>2, <2>3
  <1>7. CASE HandleUnknown(s)
    BY <1>2, <1>7 DEF HandleUnknown
  <1> QED
    BY <1>5, <1>6, <1>7 DEF HandleRest

LEMMA OtherSays ==
    ASSUME TypeOK, NEW s \in Session, HandleFrame(s), HandleOther(s),
           NEW S, S \subseteq Said("PublicMessage") \cup Said("GroupMessage")
                               \cup Said("UserList"),
           NEW t \in Session, linkUp[t]
    PROVE  Hears(t, S, <<>>)
  <1> DEFINE raw == Head(toServer[s])
  <1>1. raw \in Raw
    BY HeadIsRaw
  <1> HIDE DEF raw
  <1>2. CASE UNCHANGED <<toClient, failing>>
    BY <1>2, HearsNothing
  <1>3. ASSUME NEW out \in Output, Write(out), Of(out[t], S) = <<>>
        PROVE  Hears(t, S, <<>>)
    <2>1. WriteFrom(failing, out)
      BY <1>3 DEF Write
    <2>2. Hears(t, S, Of(out[t], S))
      BY <2>1, WriteHears
    <2> QED
      BY <1>3, <2>2
  <1>4. fromJson(raw).type \notin {"PublicMessage", "GroupMessage", "UserList"}
          => fromJson(raw) \notin S
    BY <1>1, FrameSays
  <1>5. CASE HandlePrivateMessage(s)
    <2>1. fromJson(raw) \notin S
      BY <1>4, <1>5 DEF HandlePrivateMessage, Received, raw
    <2>2. Write(Both(SendTo(RegisteredAs(raw.target), raw), SendTo({s}, raw)))
      BY <1>5 DEF HandlePrivateMessage, raw
    <2>3. Both(SendTo(RegisteredAs(raw.target), raw), SendTo({s}, raw)) \in Output
      BY <1>1, OutputTypes
    <2> QED
      BY <1>1, <1>3, <2>1, <2>2, <2>3, RouteSays
  <1>6. CASE HandleRest(s)
    BY <1>6, RestSays
  <1> QED
    BY <1>5, <1>6 DEF HandleOther

LEMMA PublicSays ==
    ASSUME TypeOK, NEW s \in Session, HandleFrame(s), HandlePublicMessage(s),
           NEW S, NEW t \in Session, linkUp[t]
    PROVE  Hears(t, S, IF t \in clients THEN Of(<<Head(toServer[s])>>, S) ELSE <<>>)
  <1> DEFINE raw == Head(toServer[s])
  <1>1. raw \in Raw
    BY HeadIsRaw
  <1> HIDE DEF raw
  <1>2. WriteFrom(failing, SendTo(clients, raw))
    BY DEF HandlePublicMessage, Write, broadcast, raw
  <1>3. Hears(t, S, Of(SendTo(clients, raw)[t], S))
    BY <1>1, <1>2, WriteHears, OutputTypes
  <1>4. Of(SendTo(clients, raw)[t], S)
          = IF t \in clients THEN Of(<<raw>>, S) ELSE <<>>
    BY <1>1, SendSays
  <1> QED
    BY <1>3, <1>4 DEF raw

LEMMA GroupSays ==
    ASSUME TypeOK, NEW s \in Session, HandleFrame(s), HandleGroupMessage(s),
           NEW S, NEW t \in Session, linkUp[t]
    PROVE  Hears(t, S, IF t \in groups[Head(toServer[s]).groupId]
                         THEN Of(<<Head(toServer[s])>>, S) ELSE <<>>)
  <1> DEFINE raw == Head(toServer[s])
             T   == groups[raw.groupId]
  <1>1. raw \in Raw
    BY HeadIsRaw
  <1>2. Write(SendTo(T, raw))
    BY DEF HandleGroupMessage, sendToGroup
  <1> HIDE DEF raw, T
  <1>3. Hears(t, S, Of(SendTo(T, raw)[t], S))
    BY <1>1, <1>2, WriteHears, OutputTypes DEF Write
  <1>4. Of(SendTo(T, raw)[t], S) = IF t \in T THEN Of(<<raw>>, S) ELSE <<>>
    BY <1>1, SendSays
  <1> QED
    BY <1>3, <1>4 DEF raw, T

LEMMA JoinSays ==
    ASSUME TypeOK, NEW s \in Session, HandleFrame(s), HandleJoinGroup(s),
           NEW S, S \subseteq Said("PublicMessage") \cup Said("GroupMessage")
                        \cup Said("UserList") \cup Said("PrivateMessage"),
           NEW t \in Session, linkUp[t]
    PROVE  Hears(t, S, IF t = s THEN Of(groupHistory'[Head(toServer[s]).groupId], S)
                                ELSE <<>>)
  <1> DEFINE raw == Head(toServer[s])
             h   == groupHistory'[raw.groupId]
             o1  == SendTo({s}, raw)
             o2  == sendHistory(s, h)
  <1>1. raw \in Raw /\ raw.type \in JoinWord /\ raw \in ClientFrame
    BY HeadIsRaw, HandlerWords, HandleReads, HeadType
  <1>2. raw.groupId \in Group
    BY <1>1 DEF ClientFrame, JoinWord, GroupWord
  <1>3. h \in Seq(Raw)
    BY <1>2, FrameType DEF ServerTypeOK
  <1>4. Write(Both(o1, o2))
    BY DEF HandleJoinGroup
  <1>5. o1 \in Output /\ o2 \in Output
    BY <1>1, <1>3, OutputTypes
  <1>6. fromJson(raw).type \in {"CreateGroup", "JoinGroup"}
    BY DEF HandleJoinGroup, Received
  <1>7. fromJson(raw) \notin S
    BY <1>1, <1>6, FrameSays
  <1>8. Of(o2[t], S) = IF t = s THEN Of(h, S) ELSE <<>>
    <2> HIDE DEF h
    <2> QED
      BY <1>3, HistorySays
  <1>9. Of(o1[t], S) = <<>>
    <2> HIDE DEF raw
    <2>1. Of(<<raw>>, S) = <<>>
      BY <1>1, <1>7, OfFrames
    <2> QED
      BY <1>1, <2>1, SendSays
  <1> HIDE DEF o1, o2, h
  <1>10. Hears(t, S, Of(Both(o1, o2)[t], S))
    BY <1>4, <1>5, WriteHears, OutputTypes DEF Write
  <1>11. Of(Both(o1, o2)[t], S) = <<>> \o Of(o2[t], S) /\ Of(o2[t], S) \in Seq(S)
    <2>1. Of(Both(o1, o2)[t], S) = Of(o1[t], S) \o Of(o2[t], S)
      BY <1>5, BothSay
    <2>2. Of(o2[t], S) \in Seq(S)
      BY <1>5, BothSay
    <2> QED
      BY <1>9, <2>1, <2>2
  <1>12. Of(Both(o1, o2)[t], S) = Of(o2[t], S)
    BY <1>11, ConcatEmptySeq
  <1> QED
    BY <1>8, <1>10, <1>12 DEF h

LEMMA ConnectSays ==
    ASSUME TypeOK, NEW s \in Session, HandleFrame(s), HandleConnect(s),
           NEW S, S \subseteq Said("PublicMessage") \cup Said("GroupMessage")
                        \cup Said("UserList") \cup Said("PrivateMessage"),
           NEW t \in Session, linkUp[t]
    PROVE  Hears(t, S,
             (IF t = s THEN Of(publicHistory, S) ELSE <<>>)
               \o (IF t \in clients THEN Of(<<userList(users')>>, S) ELSE <<>>))
  <1> DEFINE raw == Head(toServer[s])
             list == userList(users')
             o1  == SendTo({s}, raw)
             o2  == sendHistory(s, publicHistory)
             o3  == SendTo(clients, list)
  <1>1. raw \in Raw /\ list \in Raw /\ publicHistory \in Seq(Raw)
    BY HeadIsRaw, UserListIsRaw DEF TypeOK, ServerTypeOK
  <1>2. Write(Both(o1, Both(o2, o3)))
    BY DEF HandleConnect, broadcastUserList
  <1>3. o1 \in Output /\ o2 \in Output /\ o3 \in Output
    <2> HIDE DEF raw, list
    <2> QED
      BY <1>1, OutputTypes
  <1>4. fromJson(raw).type = "Connect"
    BY DEF HandleConnect, Received
  <1>5. fromJson(raw) \notin S
    BY <1>1, <1>4, FrameSays
  <1>6. Of(o1[t], S) = <<>>
    <2> HIDE DEF raw
    <2>1. Of(<<raw>>, S) = <<>>
      BY <1>1, <1>5, OfFrames
    <2> QED
      BY <1>1, <2>1, SendSays
  <1>7. Of(o2[t], S) = IF t = s THEN Of(publicHistory, S) ELSE <<>>
    BY <1>1, HistorySays
  <1>8. Of(o3[t], S) = IF t \in clients THEN Of(<<list>>, S) ELSE <<>>
    <2> HIDE DEF list
    <2> QED
      BY <1>1, SendSays
  <1> HIDE DEF o1, o2, o3, list
  <1>9. Both(o2, o3) \in Output /\ Both(o1, Both(o2, o3)) \in Output
    BY <1>3, OutputTypes
  <1>10. Hears(t, S, Of(Both(o1, Both(o2, o3))[t], S))
    BY <1>2, <1>9, WriteHears DEF Write
  <1>11. /\ Of(Both(o1, Both(o2, o3))[t], S) = <<>> \o Of(Both(o2, o3)[t], S)
         /\ Of(Both(o2, o3)[t], S) \in Seq(S)
    <2> DEFINE o4 == Both(o2, o3)
    <2> HIDE DEF o4
    <2>1. o4 \in Output
      BY <1>9 DEF o4
    <2>2. Of(Both(o1, o4)[t], S) = Of(o1[t], S) \o Of(o4[t], S)
      BY <1>3, <2>1, BothSay
    <2>3. Of(o4[t], S) \in Seq(S)
      BY <1>3, <2>1, BothSay
    <2> QED
      BY <1>6, <2>2, <2>3 DEF o4
  <1>12. Of(Both(o2, o3)[t], S) = Of(o2[t], S) \o Of(o3[t], S)
    BY <1>3, BothSay
  <1>13. Of(Both(o1, Both(o2, o3))[t], S) = Of(o2[t], S) \o Of(o3[t], S)
    BY <1>11, <1>12, ConcatEmptySeq
  <1> QED
    BY <1>7, <1>8, <1>10, <1>13 DEF list

\* removeClient tells the others, if they knew the session by a name.
LEMMA RemovalSays ==
    ASSUME TypeOK, NEW s \in Session, NEW pending, removeClient(s, pending),
           NEW S, NEW t \in Session, linkUp[t]
    PROVE  Hears(t, S, IF username[s] # Empty /\ t \in clients'
                         THEN Of(<<userList(users')>>, S) ELSE <<>>)
  <1> DEFINE list == userList(users')
             T    == clients'
  <1>1. list \in Raw
    BY UserListIsRaw
  <1> HIDE DEF list, T
  <1>2. CASE username[s] # Empty
    <2>1. WriteFrom(pending, SendTo(T, list))
      BY <1>2 DEF removeClient, broadcastUserList, list, T
    <2>2. Hears(t, S, Of(SendTo(T, list)[t], S))
      BY <1>1, <2>1, WriteHears, OutputTypes
    <2>3. Of(SendTo(T, list)[t], S) = IF t \in T THEN Of(<<list>>, S) ELSE <<>>
      BY <1>1, SendSays
    <2> QED
      BY <1>2, <2>2, <2>3 DEF list, T
  <1>3. CASE username[s] = Empty
    <2>1. WriteFrom(pending, Silence)
      BY <1>3 DEF removeClient
    <2> QED
      BY <1>3, <2>1, WriteHears, OutputTypes, SilenceSays
  <1> QED
    BY <1>2, <1>3

-----------------------------------------------------------------------------
(* What histories and lists say.                                           *)

LEMMA ListSays ==
    ASSUME NEW registered, NEW list, list = userList(registered)
    PROVE  /\ list \in Raw
           /\ fromJson(list).type = "UserList"
           /\ fromJson(list).users = { u \in Name : registered[u] # NoSession }
           /\ Of(<<list>>, Said("UserList")) = <<fromJson(list)>>
           /\ Of(<<list>>, Said("PublicMessage")) = <<>>
           /\ \A g : Of(<<list>>, SaidIn(g)) = <<>>
  <1>1. list \in Raw
    BY UserListIsRaw
  <1>2. /\ list.type = "user_list"
        /\ list.users = { u \in Name : registered[u] # NoSession }
    BY DEF userList, toJson, NewMessage, messageTypeToString
  <1>3. list # Garbled
    BY <1>2 DEF Garbled, NoMessage, NewMessage
  <1>4. /\ fromJson(list).type = "UserList"
        /\ fromJson(list).users = list.users
    BY <1>1, <1>2, <1>3 DEF fromJson, stringToMessageType, Raw
  <1>5. /\ fromJson(list) \in Said("UserList")
        /\ fromJson(list) \notin Said("PublicMessage")
        /\ \A g : fromJson(list) \notin SaidIn(g)
    BY <1>1, <1>4, FrameSays DEF SaidIn
  <1> QED
    BY <1>1, <1>2, <1>4, <1>5, OfFrames

LEMMA WordSays ==
    ASSUME NEW raw \in Raw
    PROVE  /\ raw.type = "public_message" => fromJson(raw).type = "PublicMessage"
           /\ raw.type = "group_message" => /\ fromJson(raw).type = "GroupMessage"
                                            /\ fromJson(raw).groupId = raw.groupId
  <1>1. raw.type # "garbled" => raw # Garbled
    BY DEF Garbled, NoMessage, NewMessage
  <1> QED
    BY <1>1 DEF fromJson, stringToMessageType, Raw

LEMMA PublicHistorySays ==
    ASSUME NEW h \in Seq(Raw), \A i \in 1 .. Len(h) : h[i].type = "public_message"
    PROVE  /\ Of(h, Said("PublicMessage")) = Parsed(h)
           /\ Of(h, Said("UserList")) = <<>>
           /\ \A g : Of(h, SaidIn(g)) = <<>>
  <1>1. ASSUME NEW i \in 1 .. Len(h)
        PROVE  h[i] \in Raw /\ fromJson(h[i]).type = "PublicMessage"
    <2>1. h[i] \in Raw
      BY ElementOfSeq
    <2> QED
      BY <2>1, WordSays
  <1>2. ASSUME NEW i \in 1 .. Len(h)
        PROVE  /\ fromJson(h[i]) \in Said("PublicMessage")
               /\ fromJson(h[i]) \notin Said("UserList")
               /\ \A g : fromJson(h[i]) \notin SaidIn(g)
    BY <1>1, FrameSays DEF SaidIn
  <1>3. Of(h, Said("PublicMessage")) = Parsed(h)
    BY <1>2, OfFrames
  <1>4. Of(h, Said("UserList")) = <<>>
    BY <1>2, OfFrames
  <1>5. \A g : Of(h, SaidIn(g)) = <<>>
    BY <1>2, OfFrames
  <1> QED
    BY <1>3, <1>4, <1>5

LEMMA GroupHistorySays ==
    ASSUME NEW h \in Seq(Raw), NEW g0,
           \A i \in 1 .. Len(h) : h[i].type = "group_message" /\ h[i].groupId = g0
    PROVE  /\ Of(h, Said("PublicMessage")) = <<>>
           /\ Of(h, Said("UserList")) = <<>>
           /\ Of(h, SaidIn(g0)) = Parsed(h)
           /\ \A g : g # g0 => Of(h, SaidIn(g)) = <<>>
  <1>1. ASSUME NEW i \in 1 .. Len(h)
        PROVE  /\ h[i] \in Raw /\ fromJson(h[i]).type = "GroupMessage"
               /\ fromJson(h[i]).groupId = g0
    <2>1. h[i] \in Raw
      BY ElementOfSeq
    <2> QED
      BY <2>1, WordSays
  <1>2. ASSUME NEW i \in 1 .. Len(h)
        PROVE  /\ fromJson(h[i]) \notin Said("PublicMessage")
               /\ fromJson(h[i]) \notin Said("UserList")
               /\ fromJson(h[i]) \in SaidIn(g0)
               /\ \A g : g # g0 => fromJson(h[i]) \notin SaidIn(g)
    BY <1>1, FrameSays DEF SaidIn
  <1>3. Of(h, Said("PublicMessage")) = <<>>
    BY <1>2, OfFrames
  <1>4. Of(h, Said("UserList")) = <<>>
    BY <1>2, OfFrames
  <1>5. Of(h, SaidIn(g0)) = Parsed(h)
    BY <1>2, OfFrames
  <1>6. ASSUME NEW g, g # g0 PROVE Of(h, SaidIn(g)) = <<>>
    BY <1>2, <1>6, OfFrames
  <1> QED
    BY <1>3, <1>4, <1>5, <1>6

LEMMA Watched ==
    /\ Said("PublicMessage") \subseteq Said("PublicMessage")
         \cup Said("GroupMessage") \cup Said("UserList")
    /\ Said("UserList") \subseteq Said("PublicMessage")
         \cup Said("GroupMessage") \cup Said("UserList")
    /\ \A g : SaidIn(g) \subseteq Said("PublicMessage")
                \cup Said("GroupMessage") \cup Said("UserList")
  BY DEF SaidIn

-----------------------------------------------------------------------------
(* What the rooms rest on, beside Membership: whoever is served is among   *)
(* the clients, and has no name before its connect frame has been read;    *)
(* the file of a group holds what was said in it; and whoever is in a      *)
(* group for the server, asks for it, or is written to in it, is in it for *)
(* its window too, which keeps nothing of other groups.                    *)

Seated == \A s \in Session :
            /\ session[s] = "active" => s \in clients
            /\ session[s] \in {"none", "pending"} => username[s] = Empty

FilesNamed == \A g \in Group : \A i \in 1 .. Len(groupFile[g]) :
                groupFile[g][i].groupId = g

MembersKnow == \A s \in Session, g \in Group :
                 s \in groups[g] => g \in joinedGroups[s]

AskersKnow == \A s \in Session : \A i \in 1 .. Len(toServer[s]) :
                toServer[s][i].type \in JoinWord =>
                  toServer[s][i].groupId \in joinedGroups[s]

HearersKnow == \A s \in Session, g \in Group :
                 linkUp[s] /\ Of(toClient[s], SaidIn(g)) # <<>> =>
                   g \in joinedGroups[s]

Rooms == /\ Seated
         /\ FilesNamed
         /\ MembersKnow
         /\ AskersKnow
         /\ HearersKnow

\* The histories that a handler may send.
LEMMA HistoriesSay ==
    ASSUME TypeOK, Membership, FilesNamed
    PROVE  /\ Of(publicHistory, Said("PublicMessage")) = Parsed(publicHistory)
           /\ Of(publicHistory, Said("UserList")) = <<>>
           /\ \A g : Of(publicHistory, SaidIn(g)) = <<>>
           /\ \A g0 \in loadedGroups :
                /\ Of(groupHistory[g0], Said("PublicMessage")) = <<>>
                /\ Of(groupHistory[g0], Said("UserList")) = <<>>
                /\ Of(groupHistory[g0], SaidIn(g0)) = Parsed(groupHistory[g0])
                /\ \A g : g # g0 => Of(groupHistory[g0], SaidIn(g)) = <<>>
  <1>1. /\ publicHistory \in Seq(Raw)
        /\ \A i \in 1 .. Len(publicHistory) : publicHistory[i].type = "public_message"
    BY DEF TypeOK, ServerTypeOK, Membership, FilesSay, HistoryOnDisk
  <1>2. ASSUME NEW g0 \in loadedGroups
        PROVE  /\ groupHistory[g0] \in Seq(Raw)
               /\ \A i \in 1 .. Len(groupHistory[g0]) :
                    /\ groupHistory[g0][i].type = "group_message"
                    /\ groupHistory[g0][i].groupId = g0
    BY DEF TypeOK, ServerTypeOK, Membership, FilesSay, HistoryOnDisk, FilesNamed
  <1>3. ASSUME NEW g0 \in loadedGroups
        PROVE  /\ Of(groupHistory[g0], Said("PublicMessage")) = <<>>
               /\ Of(groupHistory[g0], Said("UserList")) = <<>>
               /\ Of(groupHistory[g0], SaidIn(g0)) = Parsed(groupHistory[g0])
               /\ \A g : g # g0 => Of(groupHistory[g0], SaidIn(g)) = <<>>
    <2>1. PICK h \in Seq(Raw) : h = groupHistory[g0]
      BY <1>2
    <2>2. \A i \in 1 .. Len(h) : h[i].type = "group_message" /\ h[i].groupId = g0
      BY <1>2, <2>1
    <2> QED
      BY <2>1, <2>2, GroupHistorySays, SMTT(40)
  <1> QED
    BY <1>1, <1>3, PublicHistorySays


\* The handlers by what they change beside the links.
LEMMA HandlerShape ==
    ASSUME TypeOK, NEW s \in Session, HandleFrame(s)
    PROVE  /\ session' = session /\ linkUp' = linkUp /\ clients' = clients
           /\ session[s] \in Reading
           /\ \/ /\ HandleConnect(s)
                 /\ username' = [username EXCEPT ![s] = Head(toServer[s]).sender]
                 /\ UNCHANGED <<groups, loadedGroups, publicFile, groupFile>>
                 /\ UNCHANGED <<publicHistory, groupHistory>>
              \/ /\ HandlePublicMessage(s)
                 /\ publicHistory' = Append(publicHistory, Head(toServer[s]))
                 /\ publicFile' = Append(publicFile, Head(toServer[s]))
                 /\ UNCHANGED <<username, users, groups, loadedGroups, groupFile>>
                 /\ UNCHANGED groupHistory
              \/ /\ HandleGroupMessage(s)
                 /\ Head(toServer[s]).groupId \in Group
                 /\ groupFile' = [groupFile EXCEPT
                      ![Head(toServer[s]).groupId] = Append(@, Head(toServer[s]))]
                 /\ UNCHANGED <<username, users, groups, publicFile, publicHistory>>
              \/ /\ HandleJoinGroup(s)
                 /\ Head(toServer[s]).type \in JoinWord
                 /\ Head(toServer[s]).groupId \in Group
                 /\ groups' = [groups EXCEPT ![Head(toServer[s]).groupId] = @ \cup {s}]
                 /\ Head(toServer[s]).groupId \in loadedGroups'
                 /\ UNCHANGED <<username, users, publicFile, groupFile, publicHistory>>
              \/ /\ HandleOther(s)
                 /\ UNCHANGED <<username, users, groups, loadedGroups, publicFile>>
                 /\ UNCHANGED <<groupFile, publicHistory, groupHistory>>
  <1> DEFINE raw == Head(toServer[s])
  <1>1. /\ raw \in ClientFrame /\ session[s] \in Reading
    BY HandleReads, HeadType DEF ReadFrame, Reading
  <1>2. raw.type \in GroupWord => raw.groupId \in Group
    BY <1>1, SMTT(40) DEF ClientFrame
  <1>3. session' = session /\ linkUp' = linkUp /\ clients' = clients
    BY DEF HandleFrame, HandleConnect, HandlePublicMessage,
           HandlePrivateMessage, HandleTyping, HandleJoinGroup,
           HandleGroupMessage, HandleAttachmentStart, HandleAttachmentEnd,
           HandleBinary, HandleUnknown, serverVars, memoryVars
  <1>4. CASE HandleConnect(s)
    BY <1>1, <1>3, <1>4 DEF HandleConnect, diskVars
  <1>5. CASE HandlePublicMessage(s)
    BY <1>1, <1>3, <1>5, SMTT(40) DEF HandlePublicMessage
  <1>6. CASE HandleGroupMessage(s)
    <2>1. raw.groupId \in Group
      BY <1>2, <1>6, HandlerWords, SMTT(40) DEF GroupWord
    <2> QED
      BY <1>1, <1>3, <1>6, <2>1 DEF HandleGroupMessage
  <1>7. CASE HandleJoinGroup(s)
    <2>1. raw.type \in JoinWord /\ raw.groupId \in Group
      BY <1>2, <1>7, HandlerWords DEF GroupWord, JoinWord
    <2>2. raw.groupId # Empty
      BY <2>1, GroupAssumption
    <2> QED
      BY <1>1, <1>3, <1>7, <2>1, <2>2
      DEF HandleJoinGroup, addClientToGroup, diskVars
  <1>8. CASE HandleOther(s)
    BY <1>1, <1>3, <1>8 DEF HandleOther, HandleRest, HandlePrivateMessage, HandleTyping,
       HandleAttachmentStart, HandleAttachmentEnd, HandleBinary, HandleUnknown,
       serverVars, memoryVars, diskVars
  <1> QED
    BY <1>4, <1>5, <1>6, <1>7, <1>8 DEF HandleFrame, HandleOther, HandleRest

LEMMA HearsMore ==
    ASSUME TypeOK, NEW t \in Session, NEW S, NEW said, Hears(t, S, said)
    PROVE  Of(toClient'[t], S) = Of(toClient[t], S) \o said
  <1>1. PICK out \in Seq(Raw) : toClient'[t] = toClient[t] \o out /\ Of(out, S) = said
    BY DEF Hears
  <1>2. PICK q \in Seq(Raw) : q = toClient[t]
    BY DEF TypeOK, ConnTypeOK
  <1>3. Of(q \o out, S) = Of(q, S) \o Of(out, S)
    BY OfFrames
  <1> QED
    BY <1>1, <1>2, <1>3

LEMMA GroupViewsHear ==
    ASSUME TypeOK, Membership, FilesNamed', NEW s \in Session, HandleFrame(s),
           NEW t \in Session, linkUp[t], NEW g \in Group
    PROVE  \/ Hears(t, SaidIn(g), <<>>)
           \/ /\ HandleGroupMessage(s) /\ g = Head(toServer[s]).groupId
              /\ t \in groups[g]
              /\ Hears(t, SaidIn(g), <<fromJson(Head(toServer[s]))>>)
           \/ /\ HandleJoinGroup(s) /\ g = Head(toServer[s]).groupId
              /\ t = s
              /\ Hears(t, SaidIn(g), Parsed(groupHistory'[g]))
  <1> DEFINE raw == Head(toServer[s])
             S   == SaidIn(g)
  <1>1. raw \in Raw
    BY HeadIsRaw
  <1>2. S \subseteq Said("PublicMessage") \cup Said("GroupMessage")
                      \cup Said("UserList")
    BY Watched
  <1> HIDE DEF raw, S
  <1>a. fromJson(raw) \notin S => Of(<<raw>>, S) = <<>>
    BY <1>1, OfFrames
  <1>b. fromJson(raw) \in S => Of(<<raw>>, S) = <<fromJson(raw)>>
    BY <1>1, OfFrames
  <1>3. CASE HandleConnect(s)
    <2>1. Of(publicHistory, S) = <<>>
      <3>1. /\ publicHistory \in Seq(Raw)
            /\ \A i \in 1 .. Len(publicHistory) : publicHistory[i].type = "public_message"
        BY DEF TypeOK, ServerTypeOK, Membership, FilesSay, HistoryOnDisk
      <3> QED
        BY <3>1, PublicHistorySays DEF S
    <2>2. Of(<<userList(users')>>, S) = <<>>
      BY ListSays DEF S
    <2>3. <<>> \o <<>> = <<>>
      OBVIOUS
    <2> QED
      BY <1>2, <1>3, <2>1, <2>2, <2>3, ConnectSays DEF S
  <1>4. CASE HandlePublicMessage(s)
    <2>1. fromJson(raw).type = "PublicMessage"
      BY <1>4 DEF HandlePublicMessage, Received, raw
    <2>2. Of(<<raw>>, S) = <<>>
      BY <1>1, <1>a, <2>1, FrameSays DEF S, SaidIn
    <2>3. Hears(t, S, IF t \in clients THEN Of(<<raw>>, S) ELSE <<>>)
      BY <1>4, PublicSays DEF raw
    <2> QED
      BY <2>2, <2>3 DEF S
  <1>5. CASE HandleGroupMessage(s)
    <2>1. fromJson(raw).type = "GroupMessage" /\ fromJson(raw).groupId = raw.groupId
      BY <1>1, <1>5, WordSays, HandlerWords DEF raw
    <2>2. fromJson(raw) \in S <=> g = raw.groupId
      BY <1>1, <2>1, FrameSays DEF S, SaidIn
    <2>3. Hears(t, S, IF t \in groups[raw.groupId] THEN Of(<<raw>>, S) ELSE <<>>)
      BY <1>5, GroupSays DEF raw
    <2> QED
      BY <1>5, <1>a, <1>b, <2>2, <2>3 DEF S, raw
  <1>6. CASE HandleJoinGroup(s)
    <2>1. Hears(t, S, IF t = s THEN Of(groupHistory'[raw.groupId], S) ELSE <<>>)
      BY <1>2, <1>6, JoinSays DEF raw
    <2>2. /\ raw.groupId \in loadedGroups'
          /\ raw.groupId \in Group
      BY <1>6, HandlerShape, HandlerWords, HandleReads, HeadType
         DEF raw, HandleJoinGroup, ClientFrame, JoinWord, GroupWord, TypeOK
    <2>3. PICK h \in Seq(Raw) : h = groupHistory'[raw.groupId]
      BY <2>2, FrameType DEF ServerTypeOK
    <2>4. \A i \in 1 .. Len(h) : h[i].type = "group_message" /\ h[i].groupId = raw.groupId
      BY <2>2, <2>3, HandlerGroups DEF FilesSay, HistoryOnDisk, FilesNamed
    <2>5. /\ g = raw.groupId => Of(h, S) = Parsed(h)
          /\ g # raw.groupId => Of(h, S) = <<>>
      BY <2>4, GroupHistorySays DEF S
    <2> QED
      BY <1>6, <2>1, <2>3, <2>5 DEF S, raw
  <1>7. CASE HandleOther(s)
    BY <1>2, <1>7, OtherSays DEF S
  <1> QED
    BY <1>3, <1>4, <1>5, <1>6, <1>7 DEF HandleFrame, HandleOther, HandleRest


LEMMA HandleKeepsRooms ==
    ASSUME TypeOK, References, Membership, Rooms, NEW s \in Session,
           HandleFrame(s), UNCHANGED controllerVars
    PROVE  Rooms'
  <1> DEFINE raw == Head(toServer[s])
  <1> USE DEF Rooms
  <1>0. ConnTypeOK /\ ServerTypeOK /\ raw \in Raw /\ ConnTypeOK'
    BY HeadIsRaw, FrameType DEF TypeOK
  <1>1. joinedGroups' = joinedGroups
    BY DEF controllerVars
  <1>2. /\ session' = session /\ linkUp' = linkUp /\ clients' = clients
        /\ session[s] \in Reading
    BY HandlerShape
  <1>3. ASSUME NEW t \in Session, session[t] \in {"none", "pending"}
        PROVE  username'[t] = username[t]
    <2>1. t # s
      BY <1>2, <1>3 DEF Reading
    <2> QED
      BY <1>0, <2>1, HandlerShape DEF ServerTypeOK
  <1>4. Seated'
    BY <1>2, <1>3 DEF Seated
  <1>5. FilesNamed'
    <2>1. CASE groupFile' = groupFile
      BY <2>1 DEF FilesNamed
    <2>2. CASE /\ raw.groupId \in Group
               /\ groupFile' = [groupFile EXCEPT ![raw.groupId] = Append(@, raw)]
      <3> HIDE DEF raw
      <3>1. ASSUME NEW g \in Group, NEW i \in 1 .. Len(groupFile'[g])
            PROVE  groupFile'[g][i].groupId = g
        <4>0. groupFile[g] \in Seq(Raw) /\ groupFile \in [Group -> Seq(Raw)]
          BY <1>0 DEF ServerTypeOK
        <4>1. CASE g # raw.groupId
          BY <2>2, <3>1, <4>0, <4>1 DEF FilesNamed
        <4>2. CASE g = raw.groupId
          <5>1. groupFile'[g] = Append(groupFile[g], raw)
            BY <2>2, <4>0, <4>2
          <5>2. CASE i \in 1 .. Len(groupFile[g])
            <6>1. groupFile'[g][i] = groupFile[g][i]
              BY <4>0, <5>1, <5>2
            <6> QED
              BY <5>2, <6>1 DEF FilesNamed
          <5>3. CASE i \notin 1 .. Len(groupFile[g])
            <6>1. groupFile'[g][i] = raw
              BY <1>0, <3>1, <4>0, <5>1, <5>3
            <6> QED
              BY <4>2, <6>1
          <5> QED
            BY <5>2, <5>3
        <4> QED
          BY <4>1, <4>2
      <3> QED
        BY <3>1 DEF FilesNamed
    <2> QED
      BY <2>1, <2>2, HandlerShape
  <1>6. AskersKnow'
    <2>1. ASSUME NEW t \in Session, NEW i \in 1 .. Len(toServer'[t]),
                 toServer'[t][i].type \in JoinWord
          PROVE  toServer'[t][i].groupId \in joinedGroups[t]
      <3>1. CASE t = s
        <4>1. toServer'[s][i] = toServer[s][i + 1] /\ i + 1 \in 1 .. Len(toServer[s])
          <5>1. ReadFrame(s)
            BY HandleReads
          <5>2. /\ toServer[s] \in Seq(ClientFrame) /\ Len(toServer[s]) \in Nat
                /\ Len(toServer'[s]) = Len(toServer[s]) - 1
                /\ \A j \in 1 .. Len(toServer'[s]) : toServer'[s][j] = toServer[s][j + 1]
            BY <5>1, ReadShifts, LenProperties
          <5> QED
            BY <2>1, <3>1, <5>2
        <4> QED
          BY <2>1, <3>1, <4>1 DEF AskersKnow
      <3>2. CASE t # s
        <4>1. toServer'[t] = toServer[t]
          BY <3>2, HandleReads, ReadShifts
        <4> QED
          BY <2>1, <4>1 DEF AskersKnow
      <3> QED
        BY <3>1, <3>2
    <2> QED
      BY <1>1, <2>1 DEF AskersKnow
  <1>7. HandleJoinGroup(s) => raw.groupId \in joinedGroups[s]
    <2>1. 1 \in 1 .. Len(toServer[s]) /\ raw = toServer[s][1]
      BY HandleReads, ReadShifts
    <2>2. HandleJoinGroup(s) => raw.type \in JoinWord
      BY HandlerWords
    <2> HIDE DEF raw
    <2> QED
      BY <2>1, <2>2 DEF AskersKnow
  <1>8. MembersKnow'
    <2>1. CASE groups' = groups
      BY <1>1, <2>1 DEF MembersKnow
    <2>2. CASE /\ HandleJoinGroup(s)
               /\ groups' = [groups EXCEPT ![raw.groupId] = @ \cup {s}]
      BY <1>0, <1>1, <1>7, <2>2 DEF MembersKnow, ServerTypeOK
    <2> QED
      BY <2>1, <2>2, HandlerShape
  <1>9. HearersKnow'
    <2>1. ASSUME NEW t \in Session, NEW g \in Group, linkUp[t],
                 Of(toClient'[t], SaidIn(g)) # <<>>, g \notin joinedGroups[t]
          PROVE  FALSE
      <3>1. Of(toClient[t], SaidIn(g)) = <<>>
        BY <2>1 DEF HearersKnow
      <3>2. t \notin groups[g]
        BY <2>1 DEF MembersKnow
      <3>3. Hears(t, SaidIn(g), <<>>)
        <4>1. ~(HandleJoinGroup(s) /\ g = raw.groupId /\ t = s)
          BY <1>7, <2>1
        <4> QED
          BY <1>5, <2>1, <3>2, <4>1, GroupViewsHear
      <3>4. Of(toClient'[t], SaidIn(g)) = <<>> \o <<>>
        BY <3>1, <3>3, HearsMore
      <3>5. <<>> \o <<>> = <<>>
        OBVIOUS
      <3> QED
        BY <2>1, <3>4, <3>5
    <2>2. ASSUME NEW t \in Session, NEW g \in Group, linkUp'[t],
                 Of(toClient'[t], SaidIn(g)) # <<>>
          PROVE  g \in joinedGroups'[t]
      BY <1>1, <1>2, <2>1, <2>2
    <2> QED
      BY <2>2 DEF HearersKnow
  <1> QED
    BY <1>4, <1>5, <1>6, <1>8, <1>9


\* A read or a write that fails removes its session, whose link is broken.
LEMMA ErrorRemoves ==
    ASSUME TypeOK, Membership, NEW s \in Session, ReadError(s) \/ WriteError(s)
    PROVE  /\ ~linkUp[s] /\ linkUp' = linkUp /\ session'[s] # "active"
           /\ session[s] \in {"none", "pending"} => session'[s] = session[s]
           /\ session'[s] \in {"none", "pending"} => session'[s] = session[s]
           /\ \A t \in Session \ {s} : session'[t] = session[t]
           /\ \A t \in Session \ {s} : toServer'[t] = toServer[t]
           /\ \/ toServer'[s] = <<>>
              \/ toServer'[s] = toServer[s]
              \/ toServer'[s] = <<Head(toServer[s])>> /\ toServer[s] # <<>>
           /\ \E pending : removeClient(s, pending)
           /\ UNCHANGED <<username, publicFile, groupFile, publicHistory>>
  <1>1. ConnTypeOK
    BY DEF TypeOK
  <1>2. CASE ReadError(s)
    BY <1>1, <1>2 DEF ReadError, ConnTypeOK, diskVars
  <1>3. CASE WriteError(s)
    <2>1. ~linkUp[s]
      BY <1>1, <1>3 DEF WriteError, Membership, LinkStages, ConnTypeOK
    <2>2. \E pending : removeClient(s, pending)
      BY <1>3 DEF WriteError
    <2>3. /\ session' = [session EXCEPT ![s] = IF @ = "active" THEN "closed" ELSE @]
          /\ toServer' = [toServer EXCEPT
                            ![s] = IF session[s] = "active" /\ @ # <<>>
                                     THEN <<Head(@)>> ELSE @]
          /\ UNCHANGED <<linkUp, username, publicFile, groupFile, publicHistory>>
      BY <1>3 DEF WriteError, diskVars
    <2> QED
      BY <1>1, <2>1, <2>2, <2>3 DEF ConnTypeOK
  <1> QED
    BY <1>2, <1>3

LEMMA ErrorKeepsRooms ==
    ASSUME TypeOK, References, Membership, Rooms, NEW s \in Session,
           ReadError(s) \/ WriteError(s), UNCHANGED controllerVars
    PROVE  Rooms'
  <1> USE DEF Rooms
  <1>0. ConnTypeOK /\ ServerTypeOK
    BY DEF TypeOK
  <1>1. joinedGroups' = joinedGroups
    BY DEF controllerVars
  <1>2. /\ ~linkUp[s] /\ linkUp' = linkUp /\ session'[s] # "active"
        /\ session'[s] \in {"none", "pending"} => session'[s] = session[s]
        /\ \A t \in Session \ {s} : session'[t] = session[t]
        /\ \A t \in Session \ {s} : toServer'[t] = toServer[t]
        /\ \/ toServer'[s] = <<>>
           \/ toServer'[s] = toServer[s]
           \/ toServer'[s] = <<Head(toServer[s])>> /\ toServer[s] # <<>>
        /\ username' = username /\ groupFile' = groupFile
    BY ErrorRemoves
  <1>3. PICK pending : removeClient(s, pending)
    BY ErrorRemoves
  <1>4. /\ clients' = clients \ {s}
        /\ \A g \in Group : groups'[g] \subseteq groups[g]
    BY <1>0, <1>3 DEF removeClient, ServerTypeOK
  <1>5. Seated'
    BY <1>2, <1>4 DEF Seated
  <1>6. FilesNamed' /\ MembersKnow'
    BY <1>1, <1>2, <1>4 DEF FilesNamed, MembersKnow
  <1>7. AskersKnow'
    <2>1. ASSUME NEW i \in 1 .. Len(toServer'[s]), toServer'[s][i].type \in JoinWord
          PROVE  toServer'[s][i].groupId \in joinedGroups[s]
      <3>1. CASE toServer'[s] = <<>>
        BY <2>1, <3>1
      <3>2. CASE toServer'[s] = toServer[s]
        BY <2>1, <3>2 DEF AskersKnow
      <3>3. CASE toServer'[s] = <<Head(toServer[s])>> /\ toServer[s] # <<>>
        <4>1. /\ i = 1 /\ toServer'[s][i] = toServer[s][1]
              /\ 1 \in 1 .. Len(toServer[s])
          BY <1>0, <2>1, <3>3 DEF ConnTypeOK
        <4> QED
          BY <2>1, <4>1 DEF AskersKnow
      <3> QED
        BY <1>2, <3>1, <3>2, <3>3
    <2>2. ASSUME NEW t \in Session \ {s}, NEW i \in 1 .. Len(toServer'[t]),
                 toServer'[t][i].type \in JoinWord
          PROVE  toServer'[t][i].groupId \in joinedGroups[t]
      BY <1>2, <2>2 DEF AskersKnow
    <2> QED
      BY <1>1, <2>1, <2>2 DEF AskersKnow
  <1>8. HearersKnow'
    <2>1. ASSUME NEW t \in Session, NEW g \in Group, linkUp[t],
                 Of(toClient'[t], SaidIn(g)) # <<>>, g \notin joinedGroups[t]
          PROVE  FALSE
      <3>1. Of(toClient[t], SaidIn(g)) = <<>>
        BY <2>1 DEF HearersKnow
      <3>2. Hears(t, SaidIn(g), <<>>)
        <4>1. Of(<<userList(users')>>, SaidIn(g)) = <<>>
          BY ListSays
        <4> QED
          BY <1>3, <2>1, <4>1, RemovalSays
      <3>3. Of(toClient'[t], SaidIn(g)) = <<>> \o <<>>
        BY <3>1, <3>2, HearsMore
      <3>4. <<>> \o <<>> = <<>>
        OBVIOUS
      <3> QED
        BY <2>1, <3>3, <3>4
    <2>2. ASSUME NEW t \in Session, NEW g \in Group, linkUp'[t],
                 Of(toClient'[t], SaidIn(g)) # <<>>
          PROVE  g \in joinedGroups'[t]
      BY <1>1, <1>2, <2>1, <2>2
    <2> QED
      BY <2>2 DEF HearersKnow
  <1> QED
    BY <1>5, <1>6, <1>7, <1>8

LEMMA OperateKeepsRooms ==
    ASSUME TypeOK, Rooms, NEW s \in Session, Operate(s)
    PROVE  Rooms'
  <1> USE DEF Rooms
  <1>0. ConnTypeOK
    BY DEF TypeOK
  <1>1. /\ UNCHANGED <<clients, groups, username, groupFile>>
        /\ UserStep(s)
    BY DEF Operate, serverVars, memoryVars, diskVars
  <1>2. PICK kind : \E frames \in Seq(UserFrame) :
          Operation(s, kind, frames) /\ OperationGroups(s, frames)
    BY <1>1, UserStepGroups
  <1>a. PICK frames \in Seq(UserFrame) :
          Operation(s, kind, frames) /\ OperationGroups(s, frames)
    BY <1>2
  <1>3. /\ UNCHANGED <<session, linkUp, toClient>>
        /\ SendFrames(s, frames)
    BY <1>a DEF Operation
  <1>4. \A t \in Session : joinedGroups[t] \subseteq joinedGroups'[t]
    BY <1>a DEF OperationGroups
  <1>5. Seated' /\ FilesNamed' /\ MembersKnow' /\ HearersKnow'
    BY <1>1, <1>3, <1>4 DEF Seated, FilesNamed, MembersKnow, HearersKnow
  <1>6. AskersKnow'
    <2>1. ASSUME NEW t \in Session, NEW i \in 1 .. Len(toServer'[t]),
                 toServer'[t][i].type \in JoinWord
          PROVE  toServer'[t][i].groupId \in joinedGroups'[t]
      <3>1. CASE toServer'[t] = toServer[t]
        BY <1>4, <2>1, <3>1 DEF AskersKnow
      <3>2. CASE toServer'[t] # toServer[t]
        <4>1. t = s /\ toServer'[s] = toServer[s] \o frames
          BY <1>0, <1>3, <3>2 DEF SendFrames, ConnTypeOK
        <4>2. PICK q \in Seq(ClientFrame) : q = toServer[s]
          BY <1>0 DEF ConnTypeOK
        <4>3. frames \in Seq(ClientFrame)
          BY SeqMonotonic DEF UserFrame
        <4>4. \/ i \in 1 .. Len(q) /\ (q \o frames)[i] = q[i]
              \/ /\ i - Len(q) \in 1 .. Len(frames)
                 /\ (q \o frames)[i] = frames[i - Len(q)]
          <5>1. i \in 1 .. Len(q \o frames)
            BY <2>1, <4>1, <4>2
          <5> QED
            BY <4>3, <5>1, ConcatElement
        <4>5. CASE i \in 1 .. Len(q) /\ (q \o frames)[i] = q[i]
          BY <1>4, <2>1, <4>1, <4>2, <4>5 DEF AskersKnow
        <4>6. CASE /\ i - Len(q) \in 1 .. Len(frames)
                   /\ (q \o frames)[i] = frames[i - Len(q)]
          BY <1>a, <2>1, <4>1, <4>2, <4>6 DEF OperationGroups
        <4> QED
          BY <4>4, <4>5, <4>6
      <3> QED
        BY <3>1, <3>2
    <2> QED
      BY <2>1 DEF AskersKnow
  <1> QED
    BY <1>5, <1>6


\* A frame is taken: what is left on the way says no more than before.
LEMMA Taken ==
    ASSUME TypeOK, NEW s \in Session, Receive(s)
    PROVE  /\ toClient[s] \in Seq(Raw) /\ toClient[s] # <<>>
           /\ Head(toClient[s]) \in Raw /\ toClient'[s] \in Seq(Raw)
           /\ toClient[s] = <<Head(toClient[s])>> \o toClient'[s]
           /\ \A t \in Session \ {s} : /\ toClient'[t] = toClient[t]
                                       /\ joinedGroups'[t] = joinedGroups[t]
           /\ joinedGroups[s] \subseteq joinedGroups'[s]
           /\ UNCHANGED <<session, linkUp, toServer, clients, groups, username>>
           /\ UNCHANGED <<users, publicHistory, publicFile, groupFile>>
  <1>0. ConnTypeOK /\ ControllerTypeOK
    BY DEF TypeOK
  <1>1. /\ ReceiveFrame(s) /\ TakeFrame(s)
        /\ UNCHANGED <<clients, groups, username, users, publicHistory>>
        /\ UNCHANGED <<publicFile, groupFile>>
    BY DEF Receive, ReceiveFrame, serverVars, memoryVars, diskVars
  <1>2. /\ toClient[s] \in Seq(Raw) /\ toClient[s] # <<>>
        /\ toClient'[s] = Tail(toClient[s])
        /\ \A t \in Session \ {s} : toClient'[t] = toClient[t]
    BY <1>0, <1>1 DEF TakeFrame, ConnTypeOK
  <1>3. /\ Head(toClient[s]) \in Raw /\ Tail(toClient[s]) \in Seq(Raw)
        /\ toClient[s] = <<Head(toClient[s])>> \o Tail(toClient[s])
    <2>1. PICK q \in Seq(Raw) : q = toClient[s] /\ q # <<>>
      BY <1>2
    <2>2. /\ Head(q) \in Raw /\ Tail(q) \in Seq(Raw)
          /\ q = <<Head(q)>> \o Tail(q)
      BY <2>1, HeadTailProperties
    <2> QED
      BY <2>1, <2>2
  <1>4. /\ UNCHANGED <<session, linkUp, toServer>>
        /\ \/ joinedGroups' = joinedGroups
           \/ \E g : joinedGroups' = [joinedGroups EXCEPT ![s] = @ \cup {g}]
    BY <1>1 DEF ReceiveFrame
  <1>5. /\ \A t \in Session \ {s} : joinedGroups'[t] = joinedGroups[t]
        /\ joinedGroups[s] \subseteq joinedGroups'[s]
    BY <1>0, <1>4 DEF ControllerTypeOK
  <1> QED
    BY <1>1, <1>2, <1>3, <1>4, <1>5

LEMMA ReceiveKeepsRooms ==
    ASSUME TypeOK, Rooms, NEW s \in Session, Receive(s)
    PROVE  Rooms'
  <1> USE DEF Rooms
  <1>1. /\ UNCHANGED <<session, linkUp, toServer, clients, groups, username>>
        /\ UNCHANGED groupFile
        /\ \A t \in Session : joinedGroups[t] \subseteq joinedGroups'[t]
        /\ \A t \in Session \ {s} : toClient'[t] = toClient[t]
    BY Taken
  <1>2. Seated' /\ FilesNamed' /\ MembersKnow' /\ AskersKnow'
    BY <1>1 DEF Seated, FilesNamed, MembersKnow, AskersKnow
  <1>3. ASSUME NEW g \in Group, Of(toClient'[s], SaidIn(g)) # <<>>
        PROVE  Of(toClient[s], SaidIn(g)) # <<>>
    <2>1. PICK one \in Seq(Raw), rest \in Seq(Raw) :
            toClient[s] = one \o rest /\ rest = toClient'[s]
      <3>1. <<Head(toClient[s])>> \in Seq(Raw)
        <4>1. Head(toClient[s]) \in Raw
          BY Taken
        <4> QED
          BY <4>1
      <3> QED
        BY <3>1, Taken
    <2>2. PICK S : S = SaidIn(g)
      OBVIOUS
    <2>3. /\ Of(one \o rest, S) = Of(one, S) \o Of(rest, S)
          /\ Of(one, S) \in Seq(S) /\ Of(rest, S) \in Seq(S)
      BY OfFrames
    <2>4. Of(rest, S) # <<>>
      BY <1>3, <2>1, <2>2
    <2>5. PICK a \in Seq(S), b \in Seq(S) : a = Of(one, S) /\ b = Of(rest, S)
      BY <2>3
    <2>6. a \o b # <<>>
      <3>1. Len(b) > 0
        BY <2>4, <2>5, EmptySeq, LenProperties
      <3>2. Len(a \o b) = Len(a) + Len(b) /\ Len(a) \in Nat /\ Len(b) \in Nat
        BY ConcatProperties, LenProperties
      <3>3. Len(<<>>) = 0
        OBVIOUS
      <3> QED
        BY <3>1, <3>2, <3>3
    <2> QED
      BY <2>1, <2>2, <2>3, <2>5, <2>6
  <1>4. HearersKnow'
    <2>1. ASSUME NEW t \in Session, NEW g \in Group, linkUp[t],
                 Of(toClient'[t], SaidIn(g)) # <<>>
          PROVE  g \in joinedGroups'[t]
      <3>1. Of(toClient[t], SaidIn(g)) # <<>>
        BY <1>1, <1>3, <2>1
      <3> QED
        BY <1>1, <2>1, <3>1 DEF HearersKnow
    <2> QED
      BY <1>1, <2>1 DEF HearersKnow
  <1> QED
    BY <1>2, <1>4

(* The rooms' invariant, for every set of sessions, names and groups.      *)
THEOREM RoomsHold == Spec => []Rooms
  <1>1. Init => Rooms
    <2> SUFFICES ASSUME Init PROVE Rooms
      OBVIOUS
    <2>1. /\ \A s \in Session : /\ session[s] = "none" /\ username[s] = Empty
                                /\ ~linkUp[s] /\ toServer[s] = <<>>
          /\ \A g \in Group : groups[g] = {} /\ groupFile[g] = <<>>
      BY DEF Init, ConnInit, ServerInit
    <2> QED
      BY <2>1 DEF Rooms, Seated, FilesNamed, MembersKnow, AskersKnow, HearersKnow
  <1>2. ASSUME TypeOK, References, Membership, Rooms, [Next]_vars
        PROVE  Rooms'
    <2> USE <1>2
    <2>0. ConnTypeOK /\ ServerTypeOK
      BY DEF TypeOK
    <2>1. ASSUME NEW s \in Session, NEW u \in Name, Connect(s, u)
          PROVE  Rooms'
      <3>1. PICK raw \in connectMessage(u) :
              /\ session[s] = "none"
              /\ session' = [session EXCEPT ![s] = "pending"]
              /\ linkUp' = [linkUp EXCEPT ![s] = TRUE]
              /\ toServer' = [toServer EXCEPT ![s] = <<raw>>]
              /\ UNCHANGED <<toClient, joinedGroups>>
              /\ UNCHANGED <<clients, groups, username, groupFile>>
        BY <2>1 DEF Connect, ConnectUser, serverVars, memoryVars, diskVars
      <3>2. toClient[s] = <<>>
        BY <3>1 DEF Membership, Fresh
      <3>3. Seated'
        BY <2>0, <3>1 DEF Rooms, Seated, ConnTypeOK
      <3>4. AskersKnow'
        <4>1. raw.type \notin JoinWord
          BY <3>1, ConnectIsClientFrame DEF JoinWord
        <4>2. /\ toServer'[s] = <<raw>>
              /\ \A t \in Session \ {s} : toServer'[t] = toServer[t]
          BY <2>0, <3>1 DEF ConnTypeOK
        <4>3. \A i \in 1 .. Len(toServer'[s]) : toServer'[s][i].type \notin JoinWord
          BY <4>1, <4>2
        <4> QED
          BY <3>1, <4>2, <4>3 DEF Rooms, AskersKnow
      <3>5. HearersKnow'
        <4>1. \A t \in Session \ {s} : linkUp'[t] = linkUp[t]
          BY <2>0, <3>1 DEF ConnTypeOK
        <4>2. \A g \in Group : Of(toClient[s], SaidIn(g)) = <<>>
          BY <3>2, OfFrames
        <4> QED
          BY <3>1, <4>1, <4>2 DEF Rooms, HearersKnow
      <3> QED
        BY <3>1, <3>3, <3>4, <3>5 DEF Rooms, FilesNamed, MembersKnow
    <2>2. ASSUME NEW s \in Session, Operate(s)
          PROVE  Rooms'
      BY <2>2, OperateKeepsRooms
    <2>3. ASSUME NEW s \in Session, Receive(s)
          PROVE  Rooms'
      BY <2>3, ReceiveKeepsRooms
    <2>4. ASSUME NEW s \in Session, ServerStep(s)
          PROVE  Rooms'
      <3>0. UNCHANGED controllerVars
        BY <2>4 DEF ServerStep
      <3>1. CASE Accept(s)
        <4>1. /\ session' = [session EXCEPT ![s] = "active"]
              /\ session[s] = "pending"
              /\ clients' = clients \cup {s}
              /\ UNCHANGED <<linkUp, toServer, toClient>>
              /\ UNCHANGED <<groups, username, groupFile, joinedGroups>>
          BY <3>0, <3>1 DEF Accept, diskVars, controllerVars
        <4>2. Seated'
          BY <2>0, <4>1 DEF Rooms, Seated, ConnTypeOK
        <4> QED
          BY <4>1, <4>2 DEF Rooms, FilesNamed, MembersKnow, AskersKnow, HearersKnow
      <3>2. CASE HandleFrame(s)
        BY <3>0, <3>2, HandleKeepsRooms
      <3>3. CASE ReadError(s) \/ WriteError(s)
        BY <3>0, <3>3, ErrorKeepsRooms
      <3> QED
        BY <2>4, <3>1, <3>2, <3>3 DEF ServerStep
    <2>5. ASSUME NEW s \in Session, Break(s) \/ LoseWrite(s)
          PROVE  Rooms'
      <3>1. /\ UNCHANGED <<session, toServer, joinedGroups>>
            /\ UNCHANGED <<clients, groups, username, groupFile>>
        BY <2>5 DEF Break, Disconnect, LoseWrite, WriteLost, serverVars,
             memoryVars, diskVars, controllerVars
      <3>2. \A t \in Session : linkUp'[t] =>
              linkUp[t] /\ toClient'[t] = toClient[t]
        <4>1. CASE Break(s)
          BY <2>0, <4>1 DEF Break, Disconnect, ConnTypeOK
        <4>2. CASE LoseWrite(s)
          BY <4>2 DEF LoseWrite, WriteLost
        <4> QED
          BY <2>5, <4>1, <4>2
      <3> QED
        BY <3>1, <3>2 DEF Rooms, Seated, FilesNamed, MembersKnow, AskersKnow,
             HearersKnow
    <2>6. ASSUME Crash
          PROVE  Rooms'
      <3>1. /\ \A s \in Session : /\ ~linkUp'[s] /\ toServer'[s] = <<>>
                                  /\ username'[s] = Empty
                                  /\ session'[s] # "active"
            /\ \A g \in Group : groups'[g] = {}
            /\ UNCHANGED <<groupFile, joinedGroups>>
        BY <2>6 DEF Crash, Restart, diskVars, controllerVars
      <3> QED
        BY <3>1 DEF Rooms, Seated, FilesNamed, MembersKnow, AskersKnow, HearersKnow
    <2>7. CASE UNCHANGED vars
      <3>1. /\ UNCHANGED <<session, linkUp, toServer, toClient, joinedGroups>>
            /\ UNCHANGED <<clients, groups, username, groupFile>>
        BY <2>7 DEF vars, connVars, serverVars, memoryVars, diskVars, controllerVars
      <3> QED
        BY <3>1 DEF Rooms, Seated, FilesNamed, MembersKnow, AskersKnow, HearersKnow
    <2> QED
      BY <2>1, <2>2, <2>3, <2>4, <2>5, <2>6, <2>7 DEF Next
  <1> QED
    BY <1>1, <1>2, TypeCorrect, ReferencesHold, MembershipHolds, PTL DEF Spec


-----------------------------------------------------------------------------
(* One step of a room, as ChatRoom has it: of the log, of who is present   *)
(* and of what each of them is shown.  X is what may be said.              *)

RoomStep(X, log, present, view, log1, present1, view1) ==
    \/ \E m \in X :
         /\ log1 = Append(log, m)
         /\ present1 = present
         /\ \A p \in present : view1[p] = Append(view[p], m)
    \/ \E p \in Session \ present : \E before \in Seq(X) :
         /\ log1 = log
         /\ present1 = present \cup {p}
         /\ view1[p] = before \o log
         /\ \A q \in present : view1[q] = view[q]
    \/ \E p \in present :
         /\ log1 = log
         /\ present1 = present
         /\ view1[p] = view[p] \o log
         /\ \A q \in present \ {p} : view1[q] = view[q]
    \/ /\ log1 = log
       /\ present1 \subseteq present
       /\ \A q \in present1 : view1[q] = view[q]

RoomTyped(X, log, present, view, view1) ==
    /\ log \in Seq(X) /\ present \subseteq Session
    /\ view \in [Session -> Seq(X)] /\ view1 \in [Session -> Seq(X)]

Complete(log, present, view) == \A p \in present : IsSuffix(log, view[p])

\* Whoever is present keeps seeing the whole log.
LEMMA RoomStaysComplete ==
    ASSUME NEW X, NEW log, NEW present, NEW view,
           NEW log1, NEW present1, NEW view1,
           RoomTyped(X, log, present, view, view1),
           RoomStep(X, log, present, view, log1, present1, view1),
           Complete(log, present, view)
    PROVE  Complete(log1, present1, view1)
  <1> USE DEF RoomTyped, Complete
  <1>1. CASE \E m \in X :
               /\ log1 = Append(log, m)
               /\ present1 = present
               /\ \A p \in present : view1[p] = Append(view[p], m)
    <2>1. PICK m \in X : /\ log1 = Append(log, m)
                         /\ present1 = present
                         /\ \A p \in present : view1[p] = Append(view[p], m)
      BY <1>1
    <2>2. ASSUME NEW p \in present
          PROVE  IsSuffix(Append(log, m), Append(view[p], m))
      <3>1. PICK q \in Seq(X) : q = view[p] /\ IsSuffix(log, q)
        OBVIOUS
      <3> QED
        BY <3>1, SuffixAppend
    <2> QED
      BY <2>1, <2>2
  <1>2. CASE \E p \in Session \ present : \E before \in Seq(X) :
               /\ log1 = log
               /\ present1 = present \cup {p}
               /\ view1[p] = before \o log
               /\ \A q \in present : view1[q] = view[q]
    BY <1>2, SuffixConcat
  <1>3. CASE \E p \in present :
               /\ log1 = log
               /\ present1 = present
               /\ view1[p] = view[p] \o log
               /\ \A q \in present \ {p} : view1[q] = view[q]
    <2>1. \A p \in present : IsSuffix(log, view[p] \o log)
      BY SuffixConcat
    <2> QED
      BY <1>3, <2>1
  <1>4. CASE /\ log1 = log
             /\ present1 \subseteq present
             /\ \A q \in present1 : view1[q] = view[q]
    BY <1>4
  <1> QED
    BY <1>1, <1>2, <1>3, <1>4 DEF RoomStep

\* What each of those present is shown, and nothing for the others.
Transcript(present, view) ==
    [ p \in Session |-> IF p \in present THEN view[p] ELSE <<>> ]

EndsIn(whole, part) ==
    \E n \in 0 .. Len(whole) : part = SubSeq(whole, n + 1, Len(whole))

LEMMA ConcatEnds ==
    ASSUME NEW X, NEW a \in Seq(X), NEW b \in Seq(X)
    PROVE  EndsIn(a \o b, b)
  <1> DEFINE c == a \o b
             d == SubSeq(c, Len(a) + 1, Len(c))
  <1>1. /\ c \in Seq(X) /\ Len(c) = Len(a) + Len(b)
        /\ Len(a) \in Nat /\ Len(b) \in Nat
        /\ \A i \in 1 .. Len(b) : c[Len(a) + i] = b[i]
    <2>1. \A i \in 1 .. Len(a) + Len(b) :
            (a \o b)[i] = IF i <= Len(a) THEN a[i] ELSE b[i - Len(a)]
      BY ConcatProperties
    <2>2. Len(a) \in Nat /\ Len(b) \in Nat
      BY LenProperties
    <2>3. ASSUME NEW i \in 1 .. Len(b) PROVE c[Len(a) + i] = b[i]
      <3>1. /\ Len(a) + i \in 1 .. Len(a) + Len(b)
            /\ ~(Len(a) + i <= Len(a)) /\ Len(a) + i - Len(a) = i
        BY <2>2
      <3> QED
        BY <2>1, <3>1
    <2> QED
      BY <2>2, <2>3, ConcatProperties
  <1> HIDE DEF c
  <1>2. /\ d \in Seq(X) /\ Len(d) = Len(b)
        /\ \A i \in 1 .. Len(b) : d[i] = c[Len(a) + 1 + i - 1]
    BY <1>1
  <1>3. \A i \in 1 .. Len(b) : Len(a) + 1 + i - 1 = Len(a) + i
    BY <1>1
  <1> HIDE DEF d
  <1>4. d = b
    BY <1>1, <1>2, <1>3, SeqEqual
  <1>5. Len(a) \in 0 .. Len(c)
    BY <1>1
  <1> QED
    BY <1>4, <1>5 DEF EndsIn, c, d

\* ChatRoom's next-state relation.
RoomNext(log, present, T, log1, present1, T1) ==
    \/ /\ Len(log1) = Len(log) + 1
       /\ log1 = Append(log, log1[Len(log1)])
       /\ T1 = [ p \in Session |-> IF p \in present
                                     THEN Append(T[p], log1[Len(log1)])
                                     ELSE <<>> ]
       /\ present1 = present
    \/ \E p \in Session :
         \/ /\ p \notin present
            /\ present1 = present \cup {p}
            /\ EndsIn(T1[p], log)
            /\ T1 = [T EXCEPT ![p] = T1[p]]
            /\ log1 = log
         \/ /\ p \in present
            /\ T1 = [T EXCEPT ![p] = @ \o log]
            /\ log1 = log /\ present1 = present
    \/ \E gone \in SUBSET present :
         /\ present1 = present \ gone
         /\ T1 = [ p \in Session |-> IF p \in gone THEN <<>> ELSE T[p] ]
         /\ log1 = log

LEMMA RoomStepIsNext ==
    ASSUME NEW X, NEW log, NEW present, NEW view,
           NEW log1, NEW present1, NEW view1,
           RoomTyped(X, log, present, view, view1),
           RoomStep(X, log, present, view, log1, present1, view1)
    PROVE  RoomNext(log, present, Transcript(present, view),
                    log1, present1, Transcript(present1, view1))
  <1> DEFINE T  == Transcript(present, view)
             T1 == Transcript(present1, view1)
  <1> USE DEF RoomTyped, RoomNext
  <1>1. CASE \E m \in X :
               /\ log1 = Append(log, m)
               /\ present1 = present
               /\ \A p \in present : view1[p] = Append(view[p], m)
    <2>1. PICK m \in X : /\ log1 = Append(log, m)
                         /\ present1 = present
                         /\ \A p \in present : view1[p] = Append(view[p], m)
      BY <1>1
    <2>2. Len(log1) = Len(log) + 1 /\ log1[Len(log1)] = m
      BY <2>1, AppendProperties, LenProperties
    <2>3. T1 = [ p \in Session |-> IF p \in present THEN Append(T[p], m) ELSE <<>> ]
      BY <2>1 DEF Transcript
    <2> QED
      BY <2>1, <2>2, <2>3
  <1>2. CASE \E p \in Session \ present : \E before \in Seq(X) :
               /\ log1 = log
               /\ present1 = present \cup {p}
               /\ view1[p] = before \o log
               /\ \A q \in present : view1[q] = view[q]
    <2>1. PICK p \in Session \ present, before \in Seq(X) :
               /\ log1 = log
               /\ present1 = present \cup {p}
               /\ view1[p] = before \o log
               /\ \A q \in present : view1[q] = view[q]
      BY <1>2
    <2>2. T1[p] = before \o log
      BY <2>1 DEF Transcript
    <2>3. EndsIn(T1[p], log)
      BY <2>2, ConcatEnds
    <2>4. T1 = [T EXCEPT ![p] = T1[p]]
      BY <2>1 DEF Transcript
    <2> QED
      BY <2>1, <2>3, <2>4
  <1>3. CASE \E p \in present :
               /\ log1 = log
               /\ present1 = present
               /\ view1[p] = view[p] \o log
               /\ \A q \in present \ {p} : view1[q] = view[q]
    <2>1. PICK p \in present :
               /\ log1 = log
               /\ present1 = present
               /\ view1[p] = view[p] \o log
               /\ \A q \in present \ {p} : view1[q] = view[q]
      BY <1>3
    <2>2. T1 = [T EXCEPT ![p] = @ \o log]
      BY <2>1 DEF Transcript
    <2> QED
      BY <2>1, <2>2
  <1>4. CASE /\ log1 = log
             /\ present1 \subseteq present
             /\ \A q \in present1 : view1[q] = view[q]
    <2> DEFINE gone == present \ present1
    <2>1. gone \in SUBSET present /\ present1 = present \ gone
      BY <1>4
    <2>2. T1 = [ p \in Session |-> IF p \in gone THEN <<>> ELSE T[p] ]
      BY <1>4 DEF Transcript
    <2> QED
      BY <1>4, <2>1, <2>2
  <1> QED
    BY <1>1, <1>2, <1>3, <1>4 DEF RoomStep

\* What is heard is what a view grows by.
LEMMA ViewHears ==
    ASSUME TypeOK, NEW t \in Session, NEW S, NEW said, Hears(t, S, said),
           NEW screen \in Seq(Shown)
    PROVE  View(screen, toClient'[t], S) = View(screen, toClient[t], S) \o said
  <1>1. PICK out \in Seq(Raw) : toClient'[t] = toClient[t] \o out /\ Of(out, S) = said
    BY DEF Hears
  <1>2. PICK q \in Seq(Raw) : q = toClient[t]
    BY DEF TypeOK, ConnTypeOK
  <1>3. View(screen, q \o out, S) = View(screen, q, S) \o Of(out, S)
    BY ViewGrows
  <1> QED
    BY <1>1, <1>2, <1>3


-----------------------------------------------------------------------------
(* Every step but a handler of the server: to whoever is served after it,  *)
(* nothing is said and nothing is lost.                                    *)

LEMMA ViewsAreViews ==
    ASSUME NEW t
    PROVE  /\ PublicView(t) = View(publicMessages[t], toClient[t], Said("PublicMessage"))
           /\ PublicView(t)' = View(publicMessages'[t], toClient'[t], Said("PublicMessage"))
           /\ \A g :
                /\ GroupView(t, g) = View(groupMessages[t], toClient[t], SaidIn(g))
                /\ GroupView(t, g)' = View(groupMessages'[t], toClient'[t], SaidIn(g))
  BY DEF View, PublicView, GroupView

Undisturbed(t) ==
    /\ linkUp[t] /\ session[t] \in {"pending", "active"}
    /\ username'[t] = username[t]
    /\ \A g \in Group : t \in groups'[g] => t \in groups[g]
    /\ PublicView(t)' = PublicView(t)
    /\ \A g \in Group : t \in groups[g] => GroupView(t, g)' = GroupView(t, g)

Calm == /\ UNCHANGED <<publicFile, groupFile>>
        /\ \A t \in Session :
             linkUp'[t] /\ session'[t] = "active" => Undisturbed(t)

LEMMA ShowIsCalm ==
    ASSUME TypeOK, StateTypeOK, Rooms, NEW s \in Session, Show(s)
    PROVE  Calm
  <1> DEFINE raw == Head(toClient[s])
             rest == toClient'[s]
  <1>1. Receive(s) /\ ShowFrame(s, raw)
    BY DEF Show
  <1>2. /\ raw \in Raw /\ rest \in Seq(Raw)
        /\ toClient[s] = <<raw>> \o rest
        /\ \A t \in Session \ {s} : toClient'[t] = toClient[t]
        /\ UNCHANGED <<session, linkUp, groups, username, publicFile, groupFile>>
    BY <1>1, Taken
  <1>3. StateTypeOK'
    BY <1>1, <1>2, ShowFrameType
  <1> HIDE DEF raw, rest
  <1>4. /\ Kept(publicMessages'[s], Said("PublicMessage"))
             = Kept(publicMessages[s], Said("PublicMessage"))
                 \o Of(<<raw>>, Said("PublicMessage"))
        /\ \A g : (fromJson(raw) \in SaidIn(g) => g \in joinedGroups[s]) =>
             Kept(groupMessages'[s], SaidIn(g))
               = Kept(groupMessages[s], SaidIn(g)) \o Of(<<raw>>, SaidIn(g))
        /\ \A t \in Session \ {s} : /\ publicMessages'[t] = publicMessages[t]
                                    /\ groupMessages'[t] = groupMessages[t]
    BY <1>1, <1>2, FrameShows
  <1>a. ASSUME NEW before \in Seq(Shown), NEW after \in Seq(Shown), NEW S,
               Kept(after, S) = Kept(before, S) \o Of(<<raw>>, S)
        PROVE  View(after, rest, S) = View(before, <<raw>> \o rest, S)
    <2>1. PICK one \in Seq(Raw), q \in Seq(Raw) : one = <<raw>> /\ q = rest
      <3>1. raw \in Raw
        BY <1>2
      <3>2. <<raw>> \in Seq(Raw)
        BY <3>1
      <3> QED
        BY <1>2, <3>2
    <2>2. Adds(before, after, one, S)
      BY <1>a, <2>1 DEF Adds
    <2>3. View(after, q, S) = View(before, one \o q, S)
      BY <2>2, ViewKeeps
    <2> QED
      BY <2>1, <2>3
  <1>5. PublicView(s)' = PublicView(s)
    <2>1. PICK before \in Seq(Shown), after \in Seq(Shown) :
            before = publicMessages[s] /\ after = publicMessages'[s]
      BY <1>3 DEF StateTypeOK
    <2>2. View(after, rest, Said("PublicMessage"))
            = View(before, <<raw>> \o rest, Said("PublicMessage"))
      BY <1>4, <1>a, <2>1
    <2> QED
      BY <1>2, <2>1, <2>2, ViewsAreViews DEF rest
  <1>6. ASSUME NEW g \in Group, s \in groups[g]
        PROVE  GroupView(s, g)' = GroupView(s, g)
    <2>0. g \in joinedGroups[s]
      BY <1>6 DEF Rooms, MembersKnow
    <2>1. PICK before \in Seq(Shown), after \in Seq(Shown) :
            before = groupMessages[s] /\ after = groupMessages'[s]
      BY <1>3 DEF StateTypeOK
    <2>a. Kept(after, SaidIn(g)) = Kept(before, SaidIn(g)) \o Of(<<raw>>, SaidIn(g))
      BY <1>4, <2>0, <2>1
    <2>2. View(after, rest, SaidIn(g)) = View(before, <<raw>> \o rest, SaidIn(g))
      BY <1>a, <2>a
    <2>3. GroupView(s, g) = View(before, <<raw>> \o rest, SaidIn(g))
      BY <1>2, <2>1, ViewsAreViews
    <2>4. GroupView(s, g)' = View(after, rest, SaidIn(g))
      BY <2>1, ViewsAreViews DEF rest
    <2> QED
      BY <2>2, <2>3, <2>4
  <1>7. ASSUME NEW t \in Session \ {s}
        PROVE  /\ PublicView(t)' = PublicView(t)
               /\ \A g \in Group : GroupView(t, g)' = GroupView(t, g)
    BY <1>2, <1>4, ViewsAreViews
  <1> QED
    BY <1>2, <1>5, <1>6, <1>7 DEF Calm, Undisturbed

LEMMA ErrorIsCalm ==
    ASSUME TypeOK, StateTypeOK, Membership, NEW s \in Session,
           ReadError(s) \/ WriteError(s), UNCHANGED stateVars
    PROVE  Calm
  <1>0. ServerTypeOK
    BY DEF TypeOK
  <1>1. /\ linkUp' = linkUp /\ session'[s] # "active"
        /\ \A t \in Session \ {s} : session'[t] = session[t]
        /\ \E pending : removeClient(s, pending)
        /\ UNCHANGED <<username, publicFile, groupFile>>
    BY ErrorRemoves
  <1>2. PICK pending : removeClient(s, pending)
    BY <1>1
  <1>3. \A g \in Group : groups'[g] \subseteq groups[g]
    BY <1>0, <1>2 DEF removeClient, ServerTypeOK
  <1>4. UNCHANGED <<publicMessages, groupMessages>>
    BY DEF stateVars
  <1>5. ASSUME NEW t \in Session, linkUp[t], NEW S,
               Of(<<userList(users')>>, S) = <<>>,
               NEW screen \in Seq(Shown)
        PROVE  View(screen, toClient'[t], S) = View(screen, toClient[t], S)
    <2>1. Hears(t, S, <<>>)
      BY <1>2, <1>5, RemovalSays
    <2>2. View(screen, toClient'[t], S) = View(screen, toClient[t], S) \o <<>>
      BY <2>1, ViewHears, ZenonT(60)
    <2>3. View(screen, toClient[t], S) \in Seq(S)
      <3>1. toClient[t] \in Seq(Raw)
        BY DEF TypeOK, ConnTypeOK
      <3> QED
        BY <3>1, ViewSplits
    <2> QED
      BY <2>2, <2>3, ConcatEmptySeq
  <1>6. ASSUME NEW t \in Session, linkUp[t]
        PROVE  /\ PublicView(t)' = PublicView(t)
               /\ \A g \in Group : GroupView(t, g)' = GroupView(t, g)
    <2>1. publicMessages[t] \in Seq(Shown) /\ groupMessages[t] \in Seq(Shown)
      BY DEF StateTypeOK
    <2>2. Of(<<userList(users')>>, Said("PublicMessage")) = <<>>
      BY ListSays
    <2>3. \A g \in Group : Of(<<userList(users')>>, SaidIn(g)) = <<>>
      BY ListSays
    <2>4. PublicView(t)' = PublicView(t)
      BY <1>4, <1>5, <1>6, <2>1, <2>2, ViewsAreViews
    <2>5. ASSUME NEW g \in Group
          PROVE  GroupView(t, g)' = GroupView(t, g)
      BY <1>4, <1>5, <1>6, <2>1, <2>3, ViewsAreViews
    <2> QED
      BY <2>4, <2>5
  <1> QED
    BY <1>1, <1>3, <1>6 DEF Calm, Undisturbed

\* The steps in which nobody who stays is written to.
Quiet ==
    \/ \E s \in Session :
         \/ \E u \in Name : Connect(s, u)
         \/ Operate(s)
         \/ Accept(s) /\ UNCHANGED controllerVars
         \/ Break(s)
         \/ LoseWrite(s)
    \/ Crash
    \/ UNCHANGED vars

LEMMA QuietKeeps ==
    ASSUME TypeOK, Quiet, NEW t \in Session, linkUp'[t], session'[t] = "active"
    PROVE  /\ linkUp[t] /\ session[t] \in {"pending", "active"}
           /\ username'[t] = username[t] /\ toClient'[t] = toClient[t]
           /\ groups' = groups /\ users' = users
           /\ UNCHANGED <<publicFile, groupFile>>
  <1>0. ConnTypeOK
    BY DEF TypeOK
  <1>1. ASSUME NEW s \in Session, NEW u \in Name, Connect(s, u)
        PROVE  /\ linkUp'[t] = linkUp[t] /\ session'[t] = session[t]
               /\ UNCHANGED <<username, toClient, groups, users>>
               /\ UNCHANGED <<publicFile, groupFile>>
    <2>1. /\ session' = [session EXCEPT ![s] = "pending"]
          /\ linkUp' = [linkUp EXCEPT ![s] = TRUE]
          /\ UNCHANGED <<username, toClient, groups, users>>
          /\ UNCHANGED <<publicFile, groupFile>>
      BY <1>1 DEF Connect, ConnectUser, serverVars, memoryVars, diskVars
    <2>2. t # s
      BY <1>0, <2>1 DEF ConnTypeOK
    <2> QED
      BY <1>0, <2>1, <2>2 DEF ConnTypeOK
  <1>2. ASSUME NEW s \in Session, Operate(s)
        PROVE  /\ UNCHANGED <<session, linkUp, toClient>>
               /\ UNCHANGED <<username, groups, users, publicFile, groupFile>>
    <2>1. UserStep(s) /\ UNCHANGED <<username, groups, users, publicFile, groupFile>>
      BY <1>2 DEF Operate, serverVars, memoryVars, diskVars
    <2>2. PICK kind : \E frames \in Seq(UserFrame) :
            Operation(s, kind, frames) /\ OperationGroups(s, frames)
      BY <2>1, UserStepGroups
    <2> QED
      BY <2>1, <2>2 DEF Operation
  <1>3. ASSUME NEW s \in Session, Accept(s)
        PROVE  /\ linkUp' = linkUp
               /\ session[t] \in {"pending", "active"}
               /\ UNCHANGED <<username, toClient, groups, users>>
               /\ UNCHANGED <<publicFile, groupFile>>
    BY <1>0, <1>3 DEF Accept, diskVars, ConnTypeOK
  <1>4. ASSUME NEW s \in Session, Break(s)
        PROVE  /\ linkUp[t] /\ session' = session
               /\ toClient'[t] = toClient[t]
               /\ UNCHANGED <<username, groups, users, publicFile, groupFile>>
    <2>1. /\ linkUp' = [linkUp EXCEPT ![s] = FALSE] /\ session' = session
          /\ \E q : toClient' = [toClient EXCEPT ![s] = q]
          /\ UNCHANGED <<username, groups, users, publicFile, groupFile>>
      BY <1>4 DEF Break, Disconnect, serverVars, memoryVars, diskVars
    <2>2. t # s
      BY <1>0, <2>1 DEF ConnTypeOK
    <2> QED
      BY <1>0, <2>1, <2>2 DEF ConnTypeOK
  <1>5. ASSUME NEW s \in Session, LoseWrite(s)
        PROVE  /\ UNCHANGED <<session, linkUp, toClient>>
               /\ UNCHANGED <<username, groups, users, publicFile, groupFile>>
    BY <1>5 DEF LoseWrite, WriteLost, serverVars, memoryVars, diskVars
  <1>6. ~Crash
    BY DEF Crash, Restart
  <1>7. CASE UNCHANGED vars
    BY <1>7 DEF vars, connVars, serverVars, memoryVars, diskVars
  <1> QED
    BY <1>1, <1>2, <1>3, <1>4, <1>5, <1>6, <1>7 DEF Quiet

LEMMA QuietIsCalm ==
    ASSUME TypeOK, Quiet, UNCHANGED stateVars
    PROVE  Calm
  <1>1. UNCHANGED <<publicFile, groupFile>>
    <2>1. ASSUME NEW s \in Session, NEW u \in Name, Connect(s, u)
          PROVE  UNCHANGED <<publicFile, groupFile>>
      BY <2>1 DEF Connect, serverVars, diskVars
    <2>2. ASSUME NEW s \in Session, Operate(s) \/ Accept(s) \/ Break(s) \/ LoseWrite(s)
          PROVE  UNCHANGED <<publicFile, groupFile>>
      BY <2>2 DEF Operate, Accept, Break, LoseWrite, serverVars, diskVars
    <2>3. CASE Crash
      BY <2>3 DEF Crash, Restart, diskVars
    <2>4. CASE UNCHANGED vars
      BY <2>4 DEF vars, serverVars, diskVars
    <2> QED
      BY <2>1, <2>2, <2>3, <2>4 DEF Quiet
  <1>2. ASSUME NEW t \in Session, linkUp'[t], session'[t] = "active"
        PROVE  Undisturbed(t)
    <2>1. /\ linkUp[t] /\ session[t] \in {"pending", "active"}
          /\ username'[t] = username[t] /\ toClient'[t] = toClient[t]
          /\ groups' = groups
      BY <1>2, QuietKeeps
    <2>2. UNCHANGED <<publicMessages, groupMessages>>
      BY DEF stateVars
    <2>3. /\ PublicView(t)' = PublicView(t)
          /\ \A g \in Group : GroupView(t, g)' = GroupView(t, g)
      BY <2>1, <2>2, ViewsAreViews
    <2> QED
      BY <2>1, <2>3 DEF Undisturbed
  <1> QED
    BY <1>1, <1>2 DEF Calm


\* A step of the application is one of four kinds.
LEMMA StepKinds ==
    ASSUME [AppNext]_appVars
    PROVE  \/ \E s \in Session : Show(s)
           \/ /\ UNCHANGED stateVars
              /\ \/ Quiet
                 \/ \E s \in Session : /\ ReadError(s) \/ WriteError(s)
                                       /\ UNCHANGED controllerVars
                 \/ \E s \in Session : HandleFrame(s) /\ UNCHANGED controllerVars
  <1>1. CASE UNCHANGED appVars
    BY <1>1 DEF appVars, Quiet
  <1>2. CASE Elsewhere
    BY <1>2 DEF Elsewhere, ServerStep, Quiet
  <1> QED
    BY <1>1, <1>2 DEF AppNext

\* A session that nobody has used was not used before the step.
LEMMA UnusedBefore ==
    ASSUME TypeOK, [AppNext]_appVars, NEW t \in Session, session'[t] = "none"
    PROVE  session[t] = "none"
  <1>0. ConnTypeOK
    BY DEF TypeOK
  <1>1. ASSUME NEW s \in Session, Show(s)
        PROVE  session[t] = "none"
    BY <1>1, Taken DEF Show
  <1>2. ASSUME NEW s \in Session, NEW u \in Name, Connect(s, u)
        PROVE  session[t] = "none"
    BY <1>0, <1>2 DEF Connect, ConnectUser, ConnTypeOK
  <1>3. ASSUME NEW s \in Session, Operate(s)
        PROVE  session[t] = "none"
    BY <1>3, UserStepFrames DEF Operate, Operation
  <1>4. ASSUME NEW s \in Session, Accept(s)
        PROVE  session[t] = "none"
    BY <1>0, <1>4 DEF Accept, ConnTypeOK
  <1>5. ASSUME NEW s \in Session, Break(s) \/ LoseWrite(s)
        PROVE  session[t] = "none"
    BY <1>5 DEF Break, LoseWrite, Disconnect, WriteLost
  <1>6. CASE Crash
    BY <1>6 DEF Crash, Restart
  <1>7. ASSUME NEW s \in Session, ReadError(s) \/ WriteError(s)
        PROVE  session[t] = "none"
    BY <1>0, <1>7 DEF ReadError, WriteError, ConnTypeOK
  <1>8. ASSUME NEW s \in Session, HandleFrame(s)
        PROVE  session[t] = "none"
    BY <1>8, HandlerShape
  <1>9. CASE UNCHANGED vars
    BY <1>9 DEF vars, connVars
  <1> QED
    BY <1>1, <1>2, <1>3, <1>4, <1>5, <1>6, <1>7, <1>8, <1>9, StepKinds DEF Quiet

-----------------------------------------------------------------------------
(* What a handler says in the public room, and to the user lists.          *)

LEMMA SilentHandlers ==
    ASSUME TypeOK, Membership, FilesNamed', NEW s \in Session, HandleFrame(s),
           HandleGroupMessage(s) \/ HandleJoinGroup(s) \/ HandleOther(s),
           NEW S, S \in {Said("PublicMessage"), Said("UserList")},
           NEW t \in Session, linkUp[t]
    PROVE  Hears(t, S, <<>>)
  <1> DEFINE raw == Head(toServer[s])
  <1>1. raw \in Raw
    BY HeadIsRaw
  <1>2. S \subseteq Said("PublicMessage") \cup Said("GroupMessage")
                      \cup Said("UserList")
    BY Watched
  <1> HIDE DEF raw
  <1>3. CASE HandleGroupMessage(s)
    <2>1. fromJson(raw).type = "GroupMessage"
      BY <1>3 DEF HandleGroupMessage, Received, raw
    <2>2. fromJson(raw) \notin S
      BY <1>1, <2>1, FrameSays
    <2>3. Of(<<raw>>, S) = <<>>
      BY <1>1, <2>2, OfFrames
    <2>4. Hears(t, S, IF t \in groups[raw.groupId] THEN Of(<<raw>>, S) ELSE <<>>)
      BY <1>3, GroupSays DEF raw
    <2> QED
      BY <2>3, <2>4
  <1>4. CASE HandleJoinGroup(s)
    <2>1. Hears(t, S, IF t = s THEN Of(groupHistory'[raw.groupId], S) ELSE <<>>)
      BY <1>2, <1>4, JoinSays DEF raw
    <2>2. raw.groupId \in loadedGroups' /\ raw.groupId \in Group
      BY <1>4, HandlerShape, HandlerWords, HandleReads, HeadType
         DEF raw, HandleJoinGroup, ClientFrame, JoinWord, GroupWord, TypeOK
    <2>3. PICK h \in Seq(Raw) : h = groupHistory'[raw.groupId]
      BY <2>2, FrameType DEF ServerTypeOK
    <2>4. \A i \in 1 .. Len(h) : h[i].type = "group_message" /\ h[i].groupId = raw.groupId
      BY <2>2, <2>3, HandlerGroups DEF FilesSay, HistoryOnDisk, FilesNamed
    <2>5. Of(h, Said("PublicMessage")) = <<>> /\ Of(h, Said("UserList")) = <<>>
      BY <2>4, GroupHistorySays
    <2> QED
      BY <2>1, <2>3, <2>5
  <1>5. CASE HandleOther(s)
    BY <1>2, <1>5, OtherSays
  <1> QED
    BY <1>3, <1>4, <1>5

LEMMA PublicHears ==
    ASSUME TypeOK, Membership, FilesNamed, NEW s \in Session, HandleFrame(s),
           NEW t \in Session, linkUp[t]
    PROVE  /\ HandlePublicMessage(s) =>
                /\ t \in clients =>
                     Hears(t, Said("PublicMessage"), <<fromJson(Head(toServer[s]))>>)
                /\ Hears(t, Said("UserList"), <<>>)
           /\ HandleConnect(s) =>
                /\ t = s => Hears(t, Said("PublicMessage"), Parsed(publicHistory))
                /\ t # s => Hears(t, Said("PublicMessage"), <<>>)
                /\ t \in clients =>
                     Hears(t, Said("UserList"), <<fromJson(userList(users'))>>)
  <1> DEFINE raw == Head(toServer[s])
             list == userList(users')
             P == Said("PublicMessage")
             U == Said("UserList")
  <1>1. raw \in Raw
    BY HeadIsRaw
  <1> HIDE DEF raw
  <1>2. ASSUME HandlePublicMessage(s)
        PROVE  /\ t \in clients => Hears(t, P, <<fromJson(raw)>>)
               /\ Hears(t, U, <<>>)
    <2>1. fromJson(raw).type = "PublicMessage"
      BY <1>2 DEF HandlePublicMessage, Received, raw
    <2>2. fromJson(raw) \in P /\ fromJson(raw) \notin U
      BY <1>1, <2>1, FrameSays
    <2>3. Of(<<raw>>, P) = <<fromJson(raw)>> /\ Of(<<raw>>, U) = <<>>
      BY <1>1, <2>2, OfFrames
    <2>4. Hears(t, P, IF t \in clients THEN Of(<<raw>>, P) ELSE <<>>)
      BY <1>2, PublicSays DEF raw
    <2>5. Hears(t, U, IF t \in clients THEN Of(<<raw>>, U) ELSE <<>>)
      BY <1>2, PublicSays DEF raw
    <2>6. t \in clients => Hears(t, P, <<fromJson(raw)>>)
      BY <2>3, <2>4
    <2>7. Hears(t, U, <<>>)
      BY <2>3, <2>5
    <2> QED
      BY <2>6, <2>7
  <1>3. ASSUME HandleConnect(s)
        PROVE  /\ t = s => Hears(t, P, Parsed(publicHistory))
               /\ t # s => Hears(t, P, <<>>)
               /\ t \in clients => Hears(t, U, <<fromJson(list)>>)
    <2>1. /\ Of(publicHistory, P) = Parsed(publicHistory)
          /\ Of(publicHistory, U) = <<>>
      BY HistoriesSay
    <2>2. /\ Of(<<list>>, U) = <<fromJson(list)>>
          /\ Of(<<list>>, P) = <<>>
      BY ListSays
    <2>a. P \subseteq Said("PublicMessage") \cup Said("GroupMessage") \cup Said("UserList")
      OBVIOUS
    <2>b. U \subseteq Said("PublicMessage") \cup Said("GroupMessage") \cup Said("UserList")
      OBVIOUS
    <2> HIDE DEF P, U, list
    <2>3. Hears(t, P, (IF t = s THEN Of(publicHistory, P) ELSE <<>>)
                        \o (IF t \in clients THEN Of(<<list>>, P) ELSE <<>>))
      BY <1>3, <2>a, ConnectSays DEF list
    <2>4. Hears(t, U, (IF t = s THEN Of(publicHistory, U) ELSE <<>>)
                        \o (IF t \in clients THEN Of(<<list>>, U) ELSE <<>>))
      BY <1>3, <2>b, ConnectSays DEF list
    <2>5. <<>> \o <<>> = <<>> /\ Parsed(publicHistory) \o <<>> = Parsed(publicHistory)
          /\ <<>> \o <<fromJson(list)>> = <<fromJson(list)>>
      <3>1. Parsed(publicHistory) \in Seq(Texts)
        BY ParsedSeq DEF TypeOK, ServerTypeOK
      <3>2. <<fromJson(list)>> \in Seq({fromJson(list)})
        OBVIOUS
      <3>3. <<>> \o <<>> = <<>>
        OBVIOUS
      <3> QED
        BY <3>1, <3>2, <3>3, ConcatEmptySeq
    <2>6. t = s => Hears(t, P, Parsed(publicHistory))
      BY <2>1, <2>2, <2>3, <2>5
    <2>7. t # s => Hears(t, P, <<>>)
      BY <2>1, <2>2, <2>3, <2>5
    <2>8. t \in clients => Hears(t, U, <<fromJson(list)>>)
      BY <2>1, <2>2, <2>4, <2>5
    <2> QED
      BY <2>6, <2>7, <2>8
  <1> QED
    BY <1>2, <1>3 DEF raw


-----------------------------------------------------------------------------
(* The public room: every step of the application is a step of it.         *)

PublicViews == [ s \in Session |-> PublicView(s) ]

PublicStep == RoomStep(Said("PublicMessage"), Parsed(publicFile), Members,
                       PublicViews, Parsed(publicFile'), Members', PublicViews')

LEMMA PublicViewsNow ==
    /\ \A t \in Session : PublicViews[t] = PublicView(t)
    /\ \A t \in Session : PublicViews'[t] = PublicView(t)'
    /\ \A t \in Session : t \in Members <=>
         linkUp[t] /\ session[t] = "active" /\ username[t] # Empty
    /\ \A t \in Session : t \in Members' <=>
         linkUp'[t] /\ session'[t] = "active" /\ username'[t] # Empty
    /\ Members \in SUBSET Session /\ Members' \in SUBSET Session
  BY DEF PublicViews, Members, Member, Served

LEMMA CalmPublicStep ==
    ASSUME Rooms, Calm
    PROVE  PublicStep
  <1>1. ASSUME NEW t \in Session, t \in Members'
        PROVE  t \in Members /\ PublicViews'[t] = PublicViews[t]
    <2>1. linkUp'[t] /\ session'[t] = "active" /\ username'[t] # Empty
      BY <1>1, PublicViewsNow
    <2>2. Undisturbed(t)
      BY <2>1 DEF Calm
    <2>3. session[t] # "pending"
      BY <2>1, <2>2 DEF Undisturbed, Rooms, Seated
    <2> QED
      BY <2>1, <2>2, <2>3, PublicViewsNow DEF Undisturbed
  <1>2. publicFile' = publicFile
    BY DEF Calm
  <1>3. Members' \subseteq Members
    BY <1>1, PublicViewsNow
  <1>4. \A t \in Members' : PublicViews'[t] = PublicViews[t]
    BY <1>1, PublicViewsNow
  <1> QED
    BY <1>2, <1>3, <1>4 DEF PublicStep, RoomStep

\* What t sees grows by what it hears.
LEMMA PublicGrows ==
    ASSUME TypeOK, StateTypeOK, UNCHANGED stateVars, NEW t \in Session,
           NEW said, Hears(t, Said("PublicMessage"), said)
    PROVE  PublicViews'[t] = PublicViews[t] \o said
  <1>1. PICK screen \in Seq(Shown) : screen = publicMessages[t]
    BY DEF StateTypeOK
  <1>2. publicMessages' = publicMessages
    BY DEF stateVars
  <1>3. View(screen, toClient'[t], Said("PublicMessage"))
          = View(screen, toClient[t], Said("PublicMessage")) \o said
    BY <1>1, ViewHears
  <1> QED
    BY <1>1, <1>2, <1>3, ViewsAreViews, PublicViewsNow

LEMMA ViewTypes ==
    ASSUME TypeOK, StateTypeOK
    PROVE  /\ PublicViews \in [Session -> Seq(Said("PublicMessage"))]
           /\ \A g \in Group : \A t \in Session : GroupView(t, g) \in Seq(SaidIn(g))
  <1>1. ASSUME NEW t \in Session
        PROVE  /\ PublicView(t) \in Seq(Said("PublicMessage"))
               /\ \A g \in Group : GroupView(t, g) \in Seq(SaidIn(g))
    <2>1. PICK q \in Seq(Raw), p1 \in Seq(Shown), p2 \in Seq(Shown) :
            q = toClient[t] /\ p1 = publicMessages[t] /\ p2 = groupMessages[t]
      BY DEF StateTypeOK, TypeOK, ConnTypeOK
    <2>2. View(p1, q, Said("PublicMessage")) \in Seq(Said("PublicMessage"))
      BY ViewSplits
    <2>3. \A g \in Group : View(p2, q, SaidIn(g)) \in Seq(SaidIn(g))
      BY ViewSplits
    <2> QED
      BY <2>1, <2>2, <2>3, ViewsAreViews
  <1> QED
    BY <1>1 DEF PublicViews

LEMMA HandlePublicStep ==
    ASSUME TypeOK, StateTypeOK, References, Membership, Rooms, Rooms',
           NEW s \in Session, HandleFrame(s), UNCHANGED stateVars
    PROVE  PublicStep
  <1> DEFINE raw == Head(toServer[s])
             m   == fromJson(raw)
             P   == Said("PublicMessage")
  <1>0. ServerTypeOK /\ raw \in Raw
    BY HeadIsRaw DEF TypeOK
  <1>1. session' = session /\ linkUp' = linkUp
    BY HandlerShape
  <1>2. \A t \in Session : t \in Members => linkUp[t] /\ t \in clients
    BY PublicViewsNow DEF Rooms, Seated
  <1>3. PublicViews \in [Session -> Seq(P)]
    BY ViewTypes
  <1>a. FilesNamed /\ FilesNamed'
    BY DEF Rooms
  <1>4. CASE HandlePublicMessage(s)
    <2>1. username' = username /\ publicFile' = Append(publicFile, raw)
      BY <1>4 DEF HandlePublicMessage
    <2>2. Members' = Members
      BY <1>1, <2>1 DEF Members, Member, Served
    <2>3. m \in P
      BY <1>0, <1>4, WordSays, HandlerWords, FrameSays
    <2> HIDE DEF m, P, raw
    <2>4. Parsed(publicFile') = Append(Parsed(publicFile), m)
      BY <1>0, <2>1, ParsedAppend DEF ServerTypeOK, m
    <2>5. ASSUME NEW t \in Members
          PROVE  PublicViews'[t] = Append(PublicViews[t], m)
      <3>1. t \in Session /\ linkUp[t] /\ t \in clients
        BY <1>2, <2>5, PublicViewsNow
      <3>2. Hears(t, P, <<m>>)
        BY <1>4, <1>a, <3>1, PublicHears DEF m, P, raw
      <3>3. PublicViews'[t] = PublicViews[t] \o <<m>>
        BY <3>1, <3>2, PublicGrows DEF P
      <3>4. PublicViews[t] \in Seq(P)
        BY <1>3, <3>1
      <3> QED
        BY <2>3, <3>3, <3>4
    <2> QED
      BY <2>2, <2>3, <2>4, <2>5 DEF PublicStep, RoomStep, P
  <1> HIDE DEF m, P, raw
  <1>5. ASSUME NEW t \in Session, Hears(t, P, <<>>)
        PROVE  PublicViews'[t] = PublicViews[t]
    <2>1. PublicViews'[t] = PublicViews[t] \o <<>> /\ PublicViews[t] \in Seq(P)
      BY <1>3, <1>5, PublicGrows DEF P
    <2> QED
      BY <2>1, ConcatEmptySeq
  <1>6. CASE HandleConnect(s)
    <2>1. /\ username' = [username EXCEPT ![s] = raw.sender]
          /\ publicFile' = publicFile
      BY <1>6 DEF HandleConnect, diskVars, raw
    <2>2. username[s] = Empty
      <3>1. raw.type = "connect"
        BY <1>6, ReceivedWord DEF HandleConnect, messageTypeToString, raw
      <3> QED
        BY <3>1, HandleReads, ReadKeeps DEF References, raw
    <2>3. s \notin Members
      BY <2>2, PublicViewsNow
    <2>4. ASSUME NEW t \in Members
          PROVE  t \in Members' /\ PublicViews'[t] = PublicViews[t]
      <3>1. t \in Session /\ t # s /\ linkUp[t]
        BY <1>2, <2>3, <2>4, PublicViewsNow
      <3>2. username'[t] = username[t]
        BY <1>0, <2>1, <3>1 DEF ServerTypeOK
      <3>3. t \in Members'
        BY <1>1, <2>4, <3>1, <3>2, PublicViewsNow
      <3>4. Hears(t, P, <<>>)
        BY <1>6, <1>a, <3>1, PublicHears DEF P
      <3> QED
        BY <1>5, <3>1, <3>3, <3>4
    <2>5. Members' \subseteq Members \cup {s}
      <3>1. ASSUME NEW t \in Members', t # s
            PROVE  t \in Members
        <4>1. t \in Session /\ username'[t] = username[t]
          BY <1>0, <2>1, <3>1, PublicViewsNow DEF ServerTypeOK
        <4> QED
          BY <1>1, <3>1, <4>1, PublicViewsNow
      <3> QED
        BY <3>1
    <2>6. CASE s \in Members'
      <3>1. linkUp[s]
        BY <1>1, <2>6, PublicViewsNow
      <3>2. Hears(s, P, Parsed(publicHistory))
        BY <1>6, <1>a, <3>1, PublicHears DEF P
      <3>3. PublicViews'[s] = PublicViews[s] \o Parsed(publicFile)
        BY <3>2, PublicGrows DEF P, Membership, HistoryOnDisk
      <3>4. Members' = Members \cup {s}
        BY <2>4, <2>5, <2>6
      <3>5. s \in Session \ Members /\ PublicViews[s] \in Seq(P)
        BY <1>3, <2>3
      <3> QED
        BY <2>1, <2>4, <3>3, <3>4, <3>5 DEF PublicStep, RoomStep, P
    <2>7. CASE s \notin Members'
      <3>1. Members' \subseteq Members
        BY <2>5, <2>7
      <3> QED
        BY <2>1, <2>4, <3>1 DEF PublicStep, RoomStep
    <2> QED
      BY <2>6, <2>7
  <1>7. CASE HandleGroupMessage(s) \/ HandleJoinGroup(s) \/ HandleOther(s)
    <2>1. username' = username /\ publicFile' = publicFile
      <3>1. CASE HandleGroupMessage(s) \/ HandleJoinGroup(s)
        BY <3>1 DEF HandleGroupMessage, HandleJoinGroup, diskVars
      <3>2. CASE HandleOther(s)
        BY <3>2 DEF HandleOther, HandleRest, HandlePrivateMessage, HandleTyping,
           HandleAttachmentStart, HandleAttachmentEnd, HandleBinary,
           HandleUnknown, serverVars, memoryVars, diskVars
      <3> QED
        BY <1>7, <3>1, <3>2, SMTT(40)
    <2>2. Members' = Members
      BY <1>1, <2>1 DEF Members, Member, Served
    <2>3. ASSUME NEW t \in Members
          PROVE  PublicViews'[t] = PublicViews[t]
      <3>1. t \in Session /\ linkUp[t]
        BY <1>2, <2>3, PublicViewsNow
      <3>2. Hears(t, P, <<>>)
        BY <1>7, <1>a, <3>1, SilentHandlers DEF P
      <3> QED
        BY <1>5, <3>1, <3>2
    <2> QED
      BY <2>1, <2>2, <2>3 DEF PublicStep, RoomStep
  <1> QED
    BY <1>4, <1>6, <1>7 DEF HandleFrame, HandleOther, HandleRest


LEMMA EveryStepPublic ==
    ASSUME TypeOK, StateTypeOK, References, Membership, Rooms, Rooms',
           [AppNext]_appVars
    PROVE  PublicStep
  <1>1. ASSUME NEW s \in Session, Show(s)
        PROVE  PublicStep
    BY <1>1, ShowIsCalm, CalmPublicStep
  <1>2. CASE UNCHANGED stateVars /\ Quiet
    BY <1>2, QuietIsCalm, CalmPublicStep
  <1>3. ASSUME NEW s \in Session, ReadError(s) \/ WriteError(s), UNCHANGED stateVars
        PROVE  PublicStep
    BY <1>3, ErrorIsCalm, CalmPublicStep
  <1>4. ASSUME NEW s \in Session, HandleFrame(s), UNCHANGED stateVars
        PROVE  PublicStep
    BY <1>4, HandlePublicStep
  <1> QED
    BY <1>1, <1>2, <1>3, <1>4, StepKinds

LEMMA PublicFileSays ==
    ASSUME TypeOK, Membership
    PROVE  Parsed(publicFile) \in Seq(Said("PublicMessage"))
  <1>1. /\ publicFile \in Seq(Raw)
        /\ \A i \in 1 .. Len(publicFile) : publicFile[i].type = "public_message"
    BY DEF TypeOK, ServerTypeOK, Membership, FilesSay
  <1>2. Of(publicFile, Said("PublicMessage")) = Parsed(publicFile)
    BY <1>1, PublicHistorySays
  <1> QED
    BY <1>1, <1>2, OfFrames

\* The state a step of the application starts from, and the one it leads to.
Ground == TypeOK /\ StateTypeOK /\ References /\ Membership /\ Rooms

LEMMA GroundHolds == AppSpec => []Ground
  <1>1. AppSpec => []TypeOK /\ []References /\ []Membership /\ []Rooms
    BY ApplicationIsSystem, TypeCorrect, ReferencesHold, MembershipHolds,
       RoomsHold, PTL
  <1>2. AppTypeOK => StateTypeOK
    BY DEF AppTypeOK
  <1>3. AppSpec => []StateTypeOK
    BY <1>2, AppTypeCorrect, PTL
  <1> QED
    BY <1>1, <1>3, PTL DEF Ground

\* The same, spelled out for what RoomStep says of constants.
LEMMA PublicStepTaken ==
    ASSUME Ground, Ground', [AppNext]_appVars
    PROVE  /\ RoomTyped(Said("PublicMessage"), Parsed(publicFile), Members,
                        PublicViews, PublicViews')
           /\ RoomStep(Said("PublicMessage"), Parsed(publicFile), Members,
                       PublicViews, Parsed(publicFile)', Members', PublicViews')
  <1>1. RoomStep(Said("PublicMessage"), Parsed(publicFile), Members,
                 PublicViews, Parsed(publicFile)', Members', PublicViews')
    BY EveryStepPublic DEF Ground, PublicStep
  <1>2. Parsed(publicFile) \in Seq(Said("PublicMessage"))
    BY PublicFileSays DEF Ground
  <1>3. PublicViews \in [Session -> Seq(Said("PublicMessage"))]
    BY ViewTypes DEF Ground
  <1>4. PublicViews' \in [Session -> Seq(Said("PublicMessage"))]
    <2>1. (TypeOK /\ StateTypeOK
             => PublicViews \in [Session -> Seq(Said("PublicMessage"))])'
      BY ViewTypes, PTL
    <2> QED
      BY <2>1 DEF Ground
  <1>5. Members \subseteq Session
    BY PublicViewsNow
  <1> QED
    BY <1>1, <1>2, <1>3, <1>4, <1>5 DEF RoomTyped

(* Every connected client shows the whole public history in the server's   *)
(* order once what is on its way has arrived, whatever is said while the   *)
(* history is replayed and whichever links break.                          *)
THEOREM PublicViewsComplete == AppSpec => []PublicViewComplete
  <1> DEFINE Inv == Complete(Parsed(publicFile), Members, PublicViews)
  <1>1. AppInit => Inv
    BY DEF AppInit, Init, ConnInit, Members, Member, Served, Complete
  <1>2. ASSUME Ground, Ground', Inv, [AppNext]_appVars
        PROVE  Inv'
    <2>1. PICK log, log1, present, present1, view, view1 :
            /\ log = Parsed(publicFile) /\ log1 = Parsed(publicFile)'
            /\ present = Members /\ present1 = Members'
            /\ view = PublicViews /\ view1 = PublicViews'
      OBVIOUS
    <2>2. /\ RoomTyped(Said("PublicMessage"), log, present, view, view1)
          /\ RoomStep(Said("PublicMessage"), log, present, view,
                      log1, present1, view1)
      BY <1>2, <2>1, PublicStepTaken
    <2>3. Complete(log, present, view)
      BY <1>2, <2>1
    <2>4. Complete(log1, present1, view1)
      BY <2>2, <2>3, RoomStaysComplete
    <2> QED
      BY <2>1, <2>4
  <1>3. Ground /\ Inv => PublicViewComplete
    <2> SUFFICES ASSUME Ground, Inv, NEW t \in Session, Member(t)
                 PROVE  IsSuffix(Parsed(publicHistory), PublicView(t))
      BY DEF PublicViewComplete
    <2>1. t \in Members /\ PublicViews[t] = PublicView(t)
      BY DEF Members, PublicViews
    <2>2. publicHistory = publicFile
      BY DEF Ground, Membership, HistoryOnDisk
    <2> QED
      BY <2>1, <2>2 DEF Complete
  <1> HIDE DEF Inv
  <1> QED
    BY <1>1, <1>2, <1>3, GroundHolds, PTL DEF AppSpec

(* The public room implements ChatRoom: through memory and disk, replays,  *)
(* broken links and restarts, nobody's screen changes but by what is said  *)
(* and by who comes and goes.                                              *)
THEOREM PublicRoomRefines == AppSpec => PublicRoomImplemented
  <1> DEFINE T == [s \in Session |-> IF s \in Members THEN PublicView(s) ELSE <<>>]
  <1>1. AppInit => PublicRoom!Init
    <2> SUFFICES ASSUME AppInit PROVE PublicRoom!Init
      OBVIOUS
    <2>1. Members = {} /\ publicFile = <<>>
      BY DEF AppInit, Init, ConnInit, ServerInit, Members, Member, Served
    <2>2. Parsed(<<>>) = <<>>
      BY ParsedFew
    <2> QED
      BY <2>1, <2>2 DEF PublicRoom!Init
  <1>2. ASSUME Ground, Ground', [AppNext]_appVars
        PROVE  PublicRoom!Next
    <2>1. PICK log, log1, present, present1, view, view1 :
            /\ log = Parsed(publicFile) /\ log1 = Parsed(publicFile)'
            /\ present = Members /\ present1 = Members'
            /\ view = PublicViews /\ view1 = PublicViews'
      OBVIOUS
    <2>2. /\ RoomTyped(Said("PublicMessage"), log, present, view, view1)
          /\ RoomStep(Said("PublicMessage"), log, present, view,
                      log1, present1, view1)
      BY <1>2, <2>1, PublicStepTaken
    <2>3. RoomNext(log, present, Transcript(present, view),
                   log1, present1, Transcript(present1, view1))
      BY <2>2, RoomStepIsNext
    <2>4. T = Transcript(present, view) /\ T' = Transcript(present1, view1)
      BY <2>1 DEF Transcript, PublicViews
    <2>5. RoomNext(log, present, T, log1, present1, T')
      BY <2>3, <2>4
    <2> QED
      BY <2>1, <2>5 DEF RoomNext, PublicRoom!Next, PublicRoom!Say,
         PublicRoom!Enter, PublicRoom!EnterAgain, PublicRoom!Leave, PublicRoom!EndsWith, EndsIn
  <1> QED
    BY <1>1, <1>2, GroundHolds, PTL
       DEF AppSpec, PublicRoomImplemented, PublicRoom!Spec


-----------------------------------------------------------------------------
(* The groups: every step of the application is a step of each of them.    *)

GroupViews(g) == [ s \in Session |-> GroupView(s, g) ]

GroupStep(g) == RoomStep(SaidIn(g), Parsed(groupFile[g]), ServedIn(g),
                         GroupViews(g), Parsed(groupFile[g])', ServedIn(g)',
                         GroupViews(g)')

LEMMA GroupViewsNow ==
    ASSUME TypeOK, TypeOK', NEW g \in Group
    PROVE  /\ \A t \in Session : GroupViews(g)[t] = GroupView(t, g)
           /\ \A t \in Session : GroupViews(g)'[t] = GroupView(t, g)'
           /\ \A t \in Session : t \in ServedIn(g) <=>
                linkUp[t] /\ session[t] = "active" /\ t \in groups[g]
           /\ \A t \in Session : t \in ServedIn(g)' <=>
                linkUp'[t] /\ session'[t] = "active" /\ t \in groups'[g]
           /\ ServedIn(g) \subseteq Session /\ ServedIn(g)' \subseteq Session
  <1>1. groups[g] \subseteq Session /\ groups'[g] \subseteq Session
    BY DEF TypeOK, ServerTypeOK
  <1> QED
    BY <1>1 DEF GroupViews, ServedIn, Served

LEMMA CalmGroupStep ==
    ASSUME TypeOK, TypeOK', References, Calm, NEW g \in Group
    PROVE  GroupStep(g)
  <1>1. ASSUME NEW t \in Session, t \in ServedIn(g)'
        PROVE  t \in ServedIn(g) /\ GroupViews(g)'[t] = GroupViews(g)[t]
    <2>1. linkUp'[t] /\ session'[t] = "active" /\ t \in groups'[g]
      BY <1>1, GroupViewsNow
    <2>2. /\ linkUp[t] /\ session[t] \in {"pending", "active"}
          /\ t \in groups[g] /\ GroupView(t, g)' = GroupView(t, g)
      BY <2>1 DEF Calm, Undisturbed
    <2>3. session[t] # "pending"
      BY <2>2 DEF References, GroupsRead, Reading
    <2> QED
      BY <2>2, <2>3, GroupViewsNow
  <1>2. Parsed(groupFile[g])' = Parsed(groupFile[g])
    BY DEF Calm
  <1>3. ServedIn(g)' \subseteq ServedIn(g)
    BY <1>1, GroupViewsNow
  <1>4. \A t \in ServedIn(g)' : GroupViews(g)'[t] = GroupViews(g)[t]
    BY <1>1, GroupViewsNow
  <1> QED
    BY <1>2, <1>3, <1>4 DEF GroupStep, RoomStep

LEMMA GroupGrows ==
    ASSUME TypeOK, TypeOK', StateTypeOK, UNCHANGED stateVars, NEW t \in Session,
           NEW g \in Group, NEW said, Hears(t, SaidIn(g), said)
    PROVE  GroupViews(g)'[t] = GroupViews(g)[t] \o said
  <1>1. PICK screen \in Seq(Shown) : screen = groupMessages[t]
    BY DEF StateTypeOK
  <1>2. groupMessages' = groupMessages
    BY DEF stateVars
  <1>3. View(screen, toClient'[t], SaidIn(g))
          = View(screen, toClient[t], SaidIn(g)) \o said
    BY <1>1, ViewHears
  <1> QED
    BY <1>1, <1>2, <1>3, ViewsAreViews, GroupViewsNow

\* No frame is handled both as a message to a group, or as a request, and
\* as anything else.
LEMMA HandledOnce ==
    ASSUME NEW s \in Session, HandleFrame(s)
    PROVE  /\ HandleGroupMessage(s) => ~HandleJoinGroup(s)
           /\ HandleConnect(s) \/ HandlePublicMessage(s) \/ HandleOther(s) =>
                ~HandleGroupMessage(s) /\ ~HandleJoinGroup(s)
  <1> DEFINE raw == Head(toServer[s])
  <1>1. HandleGroupMessage(s) => fromJson(raw).type = "GroupMessage" /\ raw.type # "binary"
    BY DEF HandleGroupMessage, Received
  <1>2. HandleJoinGroup(s) => /\ fromJson(raw).type \in {"CreateGroup", "JoinGroup"}
                              /\ raw.type # "binary"
    BY DEF HandleJoinGroup, Received
  <1>3. HandleConnect(s) \/ HandlePublicMessage(s) \/ HandleOther(s) =>
          \/ raw.type = "binary"
          \/ fromJson(raw).type \notin {"CreateGroup", "JoinGroup", "GroupMessage"}
    BY DEF HandleConnect, HandlePublicMessage, HandleOther, HandleRest, HandlePrivateMessage,
           HandleTyping, HandleAttachmentStart, HandleAttachmentEnd,
           HandleBinary, HandleUnknown, Received
  <1> HIDE DEF raw
  <1> QED
    BY <1>1, <1>2, <1>3


LEMMA HandleGroupStep ==
    ASSUME TypeOK, TypeOK', StateTypeOK, References, Membership, Membership',
           Rooms, Rooms', NEW s \in Session, HandleFrame(s),
           UNCHANGED stateVars, NEW g \in Group
    PROVE  GroupStep(g)
  <1> DEFINE raw == Head(toServer[s])
             m   == fromJson(raw)
             S   == SaidIn(g)
  <1>0. ServerTypeOK /\ raw \in Raw /\ FilesNamed'
    BY HeadIsRaw DEF TypeOK, Rooms
  <1>1. session' = session /\ linkUp' = linkUp
    BY HandlerShape
  <1>2. \A t \in ServedIn(g) : t \in Session /\ linkUp[t] /\ t \in groups[g]
    BY GroupViewsNow
  <1>3. GroupViews(g) \in [Session -> Seq(S)]
    <2>1. \A t \in Session : GroupView(t, g) \in Seq(S)
      BY ViewTypes
    <2> QED
      BY <2>1 DEF GroupViews
  <1> HIDE DEF m, S, raw
  <1>4. ASSUME NEW t \in Session, Hears(t, S, <<>>)
        PROVE  GroupViews(g)'[t] = GroupViews(g)[t]
    <2>1. /\ GroupViews(g)'[t] = GroupViews(g)[t] \o <<>>
          /\ GroupViews(g)[t] \in Seq(S)
      BY <1>3, <1>4, GroupGrows DEF S
    <2> QED
      BY <2>1, ConcatEmptySeq
  <1>5. ASSUME Parsed(groupFile[g])' = Parsed(groupFile[g]), groups'[g] = groups[g],
               \A t \in ServedIn(g) : Hears(t, S, <<>>)
        PROVE  GroupStep(g)
    <2>1. ServedIn(g)' = ServedIn(g)
      BY <1>1, <1>5 DEF ServedIn, Served
    <2>2. \A t \in ServedIn(g)' : GroupViews(g)'[t] = GroupViews(g)[t]
      BY <1>2, <1>4, <1>5, <2>1
    <2> QED
      BY <1>5, <2>1, <2>2 DEF GroupStep, RoomStep
  <1>6. CASE HandleGroupMessage(s) /\ g = raw.groupId
    <2>1. /\ groups' = groups
          /\ groupFile'[g] = Append(groupFile[g], raw)
          /\ groupFile[g] \in Seq(Raw)
      BY <1>0, <1>6 DEF HandleGroupMessage, raw, ServerTypeOK
    <2>2. ServedIn(g)' = ServedIn(g)
      BY <1>1, <2>1 DEF ServedIn, Served
    <2>3. m \in S
      <3>1. m.type = "GroupMessage" /\ m.groupId = g
        BY <1>0, <1>6, WordSays, HandlerWords DEF m, raw
      <3> QED
        BY <1>0, <3>1, FrameSays DEF m, S, SaidIn
    <2>4. Parsed(groupFile[g])' = Append(Parsed(groupFile[g]), m)
      <3>1. Parsed(groupFile'[g]) = Append(Parsed(groupFile[g]), m)
        BY <1>0, <2>1, ParsedAppend DEF m
      <3> QED
        BY <3>1
    <2>5. ASSUME NEW t \in ServedIn(g)
          PROVE  GroupViews(g)'[t] = Append(GroupViews(g)[t], m)
      <3>1. t \in Session /\ linkUp[t] /\ t \in groups[g]
        BY <1>2, <2>5
      <3>2. Hears(t, S, IF t \in groups[raw.groupId] THEN Of(<<raw>>, S) ELSE <<>>)
        BY <1>6, <3>1, GroupSays DEF raw
      <3>3. Of(<<raw>>, S) = <<m>>
        BY <1>0, <2>3, OfFrames DEF m
      <3>4. Hears(t, S, <<m>>)
        BY <1>6, <3>1, <3>2, <3>3
      <3>5. /\ GroupViews(g)'[t] = GroupViews(g)[t] \o <<m>>
            /\ GroupViews(g)[t] \in Seq(S)
        BY <1>3, <3>1, <3>4, GroupGrows DEF S
      <3> QED
        BY <2>3, <3>5
    <2> QED
      BY <2>2, <2>3, <2>4, <2>5 DEF GroupStep, RoomStep, S
  <1>7. CASE HandleJoinGroup(s) /\ g = raw.groupId
    <2>1. /\ groups'[g] = groups[g] \cup {s} /\ g \in loadedGroups'
          /\ groupFile' = groupFile
      BY <1>0, <1>7, HandlerShape, HandledOnce
         DEF raw, HandleJoinGroup, ServerTypeOK, diskVars
    <2>2. ASSUME NEW t \in ServedIn(g), t # s
          PROVE  t \in ServedIn(g)' /\ GroupViews(g)'[t] = GroupViews(g)[t]
      <3>1. t \in Session /\ linkUp[t]
        BY <1>2, <2>2
      <3>2. t \in ServedIn(g)'
        BY <1>1, <2>1, <2>2, <3>1, GroupViewsNow
      <3>3. Hears(t, S, <<>>)
        BY <1>0, <1>7, <2>2, <3>1, GroupViewsHear, HandledOnce DEF S
      <3> QED
        BY <1>4, <3>1, <3>2, <3>3
    <2>3. \A t \in ServedIn(g)' : t # s => t \in ServedIn(g)
      BY <1>1, <2>1, GroupViewsNow
    <2>4. CASE linkUp[s] /\ session[s] = "active"
      <3>1. s \in ServedIn(g)'
        BY <1>1, <2>1, <2>4, GroupViewsNow
      <3>2. Hears(s, S, IF s = s THEN Of(groupHistory'[raw.groupId], S) ELSE <<>>)
        <4>1. S \subseteq Said("PublicMessage") \cup Said("GroupMessage")
                            \cup Said("UserList")
          BY Watched DEF S
        <4> QED
          BY <1>7, <2>4, <4>1, JoinSays DEF raw
      <3>3. PICK h \in Seq(Raw) : h = groupHistory'[g] /\ h = groupFile[g]
        BY <1>0, <2>1 DEF Membership, HistoryOnDisk, ServerTypeOK
      <3>4. Of(h, S) = Parsed(h)
        <4>1. \A i \in 1 .. Len(h) : h[i].type = "group_message" /\ h[i].groupId = g
          BY <3>3 DEF Rooms, FilesNamed, Membership, FilesSay
        <4> QED
          BY <4>1, GroupHistorySays DEF S
      <3>5. Hears(s, S, Parsed(groupFile[g]))
        BY <1>7, <3>2, <3>3, <3>4
      <3>6. GroupViews(g)'[s] = GroupViews(g)[s] \o Parsed(groupFile[g])
        BY <3>5, GroupGrows DEF S
      <3>7. Parsed(groupFile[g])' = Parsed(groupFile[g])
        BY <2>1
      <3>8. CASE s \in ServedIn(g)
        <4>1. ServedIn(g)' = ServedIn(g)
          <5>1. ServedIn(g) \subseteq ServedIn(g)'
            <6>1. ASSUME NEW t \in ServedIn(g)  PROVE t \in ServedIn(g)'
              BY <6>1, <2>2, <3>1
            <6> QED
              BY <6>1
          <5>2. ServedIn(g)' \subseteq ServedIn(g)
            BY <2>3, <3>8
          <5> QED
            BY <5>1, <5>2
        <4> QED
          BY <2>2, <3>6, <3>7, <3>8, <4>1 DEF GroupStep, RoomStep
      <3>9. CASE s \notin ServedIn(g)
        <4>1. ServedIn(g)' = ServedIn(g) \cup {s}
          BY <2>2, <2>3, <3>1
        <4>2. s \in Session \ ServedIn(g) /\ GroupViews(g)[s] \in Seq(S)
          BY <1>3, <3>9
        <4>3. \A t \in ServedIn(g) : GroupViews(g)'[t] = GroupViews(g)[t]
          BY <2>2, <3>9
        <4> QED
          BY <3>6, <3>7, <4>1, <4>2, <4>3 DEF GroupStep, RoomStep, S
      <3> QED
        BY <3>8, <3>9
    <2>5. CASE ~(linkUp[s] /\ session[s] = "active")
      <3>1. s \notin ServedIn(g) /\ s \notin ServedIn(g)'
        BY <1>1, <2>5, GroupViewsNow
      <3>2. ServedIn(g)' = ServedIn(g)
        BY <2>2, <2>3, <3>1
      <3>3. \A t \in ServedIn(g)' : GroupViews(g)'[t] = GroupViews(g)[t]
        BY <2>2, <3>1, <3>2
      <3>4. Parsed(groupFile[g])' = Parsed(groupFile[g])
        BY <2>1
      <3> QED
        BY <3>2, <3>3, <3>4 DEF GroupStep, RoomStep
    <2> QED
      BY <2>4, <2>5
  <1>8. CASE ~(HandleGroupMessage(s) /\ g = raw.groupId)
             /\ ~(HandleJoinGroup(s) /\ g = raw.groupId)
    <2>1. groupFile'[g] = groupFile[g] /\ groups'[g] = groups[g]
      BY <1>0, <1>8, HandlerShape DEF ServerTypeOK, raw
    <2>2. Parsed(groupFile[g])' = Parsed(groupFile[g])
      BY <2>1
    <2>3. \A t \in ServedIn(g) : Hears(t, S, <<>>)
      BY <1>0, <1>2, <1>8, GroupViewsHear DEF S, raw
    <2> QED
      BY <1>5, <2>1, <2>2, <2>3
  <1> QED
    BY <1>6, <1>7, <1>8


LEMMA EveryStepGroup ==
    ASSUME Ground, Ground', [AppNext]_appVars, NEW g \in Group
    PROVE  GroupStep(g)
  <1>0. /\ TypeOK /\ TypeOK' /\ StateTypeOK /\ References
        /\ Membership /\ Membership' /\ Rooms /\ Rooms'
    BY DEF Ground
  <1>1. ASSUME NEW s \in Session, Show(s)
        PROVE  GroupStep(g)
    BY <1>0, <1>1, ShowIsCalm, CalmGroupStep
  <1>2. CASE UNCHANGED stateVars /\ Quiet
    BY <1>0, <1>2, QuietIsCalm, CalmGroupStep
  <1>3. ASSUME NEW s \in Session, ReadError(s) \/ WriteError(s), UNCHANGED stateVars
        PROVE  GroupStep(g)
    BY <1>0, <1>3, ErrorIsCalm, CalmGroupStep
  <1>4. ASSUME NEW s \in Session, HandleFrame(s), UNCHANGED stateVars
        PROVE  GroupStep(g)
    BY <1>0, <1>4, HandleGroupStep
  <1> QED
    BY <1>1, <1>2, <1>3, <1>4, StepKinds

LEMMA GroupFileSays ==
    ASSUME TypeOK, Membership, Rooms, NEW g \in Group
    PROVE  Parsed(groupFile[g]) \in Seq(SaidIn(g))
  <1>1. PICK h \in Seq(Raw) : h = groupFile[g]
    BY DEF TypeOK, ServerTypeOK
  <1>2. \A i \in 1 .. Len(h) : h[i].type = "group_message" /\ h[i].groupId = g
    BY <1>1 DEF Rooms, FilesNamed, Membership, FilesSay
  <1>3. Of(h, SaidIn(g)) = Parsed(h)
    BY <1>2, GroupHistorySays
  <1>4. Of(h, SaidIn(g)) \in Seq(SaidIn(g))
    BY OfFrames
  <1> QED
    BY <1>1, <1>3, <1>4

GroupViewsTyped ==
    \A g \in Group : \A t \in Session : GroupView(t, g) \in Seq(SaidIn(g))

LEMMA NextViewsTyped ==
    TypeOK' /\ StateTypeOK' => GroupViewsTyped'
  <1>1. TypeOK /\ StateTypeOK => GroupViewsTyped
    BY ViewTypes DEF GroupViewsTyped
  <1> QED
    BY <1>1, PTL

LEMMA GroupStepTaken ==
    ASSUME Ground, Ground', [AppNext]_appVars, NEW g \in Group
    PROVE  /\ RoomTyped(SaidIn(g), Parsed(groupFile[g]), ServedIn(g),
                        GroupViews(g), GroupViews(g)')
           /\ RoomStep(SaidIn(g), Parsed(groupFile[g]), ServedIn(g),
                       GroupViews(g), Parsed(groupFile[g])', ServedIn(g)',
                       GroupViews(g)')
  <1>1. RoomStep(SaidIn(g), Parsed(groupFile[g]), ServedIn(g),
                 GroupViews(g), Parsed(groupFile[g])', ServedIn(g)',
                 GroupViews(g)')
    BY EveryStepGroup DEF GroupStep
  <1>2. Parsed(groupFile[g]) \in Seq(SaidIn(g))
    BY GroupFileSays DEF Ground
  <1>3. GroupViews(g) \in [Session -> Seq(SaidIn(g))]
    BY ViewTypes DEF Ground, GroupViews
  <1>4. GroupViews(g)' \in [Session -> Seq(SaidIn(g))]
    <2>1. GroupViewsTyped'
      BY NextViewsTyped DEF Ground
    <2>2. \A t \in Session : GroupView(t, g)' \in Seq(SaidIn(g))
      BY <2>1 DEF GroupViewsTyped, SaidIn, Said
    <2> QED
      BY <2>2 DEF GroupViews
  <1>5. ServedIn(g) \subseteq Session
    BY GroupViewsNow DEF Ground
  <1> QED
    BY <1>1, <1>2, <1>3, <1>4, <1>5 DEF RoomTyped

(* Every member of a group shows the whole of its history in the server's  *)
(* order once what is on its way has arrived: the echo of the join, the    *)
(* history as the server has it and everything said since, with nothing    *)
(* lost between the two and all of it kept by the window.                  *)
THEOREM GroupViewsComplete == AppSpec => []GroupViewComplete
  <1> DEFINE In(g) == Complete(Parsed(groupFile[g]), ServedIn(g), GroupViews(g))
             Inv == \A g \in Group : In(g)
  <1>1. AppInit => Inv
    BY DEF AppInit, Init, ServerInit, ServedIn, Complete
  <1>2. ASSUME Ground, Ground', Inv, [AppNext]_appVars
        PROVE  Inv'
    <2> SUFFICES ASSUME NEW g \in Group
                 PROVE  Complete(Parsed(groupFile[g]), ServedIn(g), GroupViews(g))'
      OBVIOUS
    <2>1. PICK log, log1, present, present1, view, view1 :
            /\ log = Parsed(groupFile[g]) /\ log1 = Parsed(groupFile[g])'
            /\ present = ServedIn(g) /\ present1 = ServedIn(g)'
            /\ view = GroupViews(g) /\ view1 = GroupViews(g)'
      OBVIOUS
    <2>2. /\ RoomTyped(SaidIn(g), log, present, view, view1)
          /\ RoomStep(SaidIn(g), log, present, view, log1, present1, view1)
      BY <1>2, <2>1, GroupStepTaken
    <2>3. Complete(log, present, view)
      BY <1>2, <2>1
    <2>4. Complete(log1, present1, view1)
      BY <2>2, <2>3, RoomStaysComplete
    <2> QED
      BY <2>1, <2>4
  <1>3. Ground /\ Inv => GroupViewComplete
    <2> SUFFICES ASSUME Ground, Inv, NEW t \in Session, NEW g \in Group,
                        Served(t), t \in groups[g]
                 PROVE  IsSuffix(Parsed(groupHistory[g]), GroupView(t, g))
      BY DEF GroupViewComplete
    <2>1. t \in ServedIn(g) /\ GroupViews(g)[t] = GroupView(t, g)
      BY DEF ServedIn, GroupViews
    <2>2. groupHistory[g] = groupFile[g]
      BY DEF Ground, Membership, HistoryOnDisk, GroupsLoaded
    <2>3. Complete(Parsed(groupFile[g]), ServedIn(g), GroupViews(g))
      OBVIOUS
    <2> QED
      BY <2>1, <2>2, <2>3 DEF Complete
  <1> HIDE DEF Inv
  <1> QED
    BY <1>1, <1>2, <1>3, GroundHolds, PTL DEF AppSpec

(* So does every group implement ChatRoom, for whoever is served in it.    *)
THEOREM GroupRoomsRefine == AppSpec => GroupRoomsImplemented
  <1> DEFINE T(g) == [s \in Session |-> IF s \in ServedIn(g)
                                          THEN GroupView(s, g) ELSE <<>>]
             First == \A g \in Group : GroupRoom(g)!Init
             Step == \A g \in Group : [GroupRoom(g)!Next]_(GroupRoom(g)!roomVars)
  <1>1. AppInit => First
    <2> SUFFICES ASSUME AppInit, NEW g \in Group PROVE GroupRoom(g)!Init
      OBVIOUS
    <2>1. ServedIn(g) = {} /\ groupFile[g] = <<>>
      BY DEF AppInit, Init, ServerInit, ServedIn
    <2>2. Parsed(<<>>) = <<>>
      BY ParsedFew
    <2> QED
      BY <2>1, <2>2 DEF GroupRoom!Init
  <1>2. ASSUME Ground, Ground', [AppNext]_appVars
        PROVE  Step
    <2> SUFFICES ASSUME NEW g \in Group PROVE GroupRoom(g)!Next
      OBVIOUS
    <2>1. PICK log, log1, present, present1, view, view1 :
            /\ log = Parsed(groupFile[g]) /\ log1 = Parsed(groupFile[g])'
            /\ present = ServedIn(g) /\ present1 = ServedIn(g)'
            /\ view = GroupViews(g) /\ view1 = GroupViews(g)'
      OBVIOUS
    <2>2. /\ RoomTyped(SaidIn(g), log, present, view, view1)
          /\ RoomStep(SaidIn(g), log, present, view, log1, present1, view1)
      BY <1>2, <2>1, GroupStepTaken
    <2>3. RoomNext(log, present, Transcript(present, view),
                   log1, present1, Transcript(present1, view1))
      BY <2>2, RoomStepIsNext
    <2>4. T(g) = Transcript(present, view) /\ T(g)' = Transcript(present1, view1)
      BY <2>1 DEF Transcript, GroupViews
    <2>5. RoomNext(log, present, T(g), log1, present1, T(g)')
      BY <2>3, <2>4
    <2> QED
      BY <2>1, <2>5 DEF RoomNext, GroupRoom!Next, GroupRoom!Say,
         GroupRoom!Enter, GroupRoom!EnterAgain, GroupRoom!Leave,
         GroupRoom!EndsWith, EndsIn
  <1> HIDE DEF First, Step
  <1>3. AppSpec => First /\ [][Step]_appVars
    BY <1>1, <1>2, GroundHolds, PTL DEF AppSpec
  <1> QED
    BY <1>3 DEF GroupRoomsImplemented, First, Step


-----------------------------------------------------------------------------
(* The user lists.  The last one that is on its way decides.               *)

ListShown(online, lists) == IF lists = <<>> THEN online ELSE Last(lists).users

OnItsWay(t) == Of(toClient[t], Said("UserList"))

LEMMA LastOfLists ==
    ASSUME NEW X, NEW m \in X, NEW p \in Seq(X), NEW online
    PROVE  /\ ListShown(online, p \o <<m>>) = m.users
           /\ ListShown(m.users, p) = ListShown(online, <<m>> \o p)
  <1>1. /\ Len(p \o <<m>>) = Len(p) + 1 /\ (p \o <<m>>)[Len(p) + 1] = m
        /\ Len(<<m>> \o p) = Len(p) + 1
        /\ \A i \in 1 .. Len(p) : (<<m>> \o p)[i + 1] = p[i]
        /\ (<<m>> \o p)[1] = m
    OBVIOUS
  <1>2. p \o <<m>> # <<>> /\ <<m>> \o p # <<>> /\ (p = <<>> <=> Len(p) = 0)
        /\ Len(p) \in Nat
    OBVIOUS
  <1>3. ListShown(online, p \o <<m>>) = m.users
    BY <1>1, <1>2 DEF ListShown, Last
  <1>4. CASE p = <<>>
    BY <1>1, <1>2, <1>4 DEF ListShown, Last
  <1>5. CASE p # <<>>
    <2>1. Len(p) \in 1 .. Len(p)
      BY <1>2, <1>5
    <2>2. (<<m>> \o p)[Len(<<m>> \o p)] = p[Len(p)]
      BY <1>1, <2>1
    <2> QED
      BY <1>2, <1>5, <2>2 DEF ListShown, Last
  <1> QED
    BY <1>3, <1>4, <1>5

LEMMA ViewIsShown ==
    ASSUME NEW t
    PROVE  /\ UserListView(t) = ListShown(onlineUsers[t], OnItsWay(t))
           /\ UserListView(t)' = ListShown(onlineUsers'[t], OnItsWay(t)')
  BY DEF UserListView, ListShown, OnItsWay, Of

\* Who hears no list keeps what he has; who hears one has that.
LEMMA ListHeard ==
    ASSUME TypeOK, NEW t \in Session
    PROVE  /\ Hears(t, Said("UserList"), <<>>) => OnItsWay(t)' = OnItsWay(t)
           /\ \A m \in Said("UserList") : Hears(t, Said("UserList"), <<m>>) =>
                OnItsWay(t)' = OnItsWay(t) \o <<m>>
           /\ OnItsWay(t) \in Seq(Said("UserList"))
  <1> DEFINE U == Said("UserList")
  <1>1. PICK q \in Seq(Raw) : q = toClient[t]
    BY DEF TypeOK, ConnTypeOK
  <1> HIDE DEF U
  <1>2. Of(q, U) \in Seq(U)
    BY OfFrames
  <1>3. ASSUME NEW said, Hears(t, U, said)
        PROVE  Of(toClient'[t], U) = Of(toClient[t], U) \o said
    <2>1. PICK out \in Seq(Raw) : toClient'[t] = q \o out /\ Of(out, U) = said
      BY <1>1, <1>3 DEF Hears
    <2>2. Of(q \o out, U) = Of(q, U) \o Of(out, U)
      BY OfFrames
    <2> QED
      BY <1>1, <2>1, <2>2
  <1>4. Hears(t, U, <<>>) => Of(toClient'[t], U) = Of(toClient[t], U)
    BY <1>1, <1>2, <1>3, ConcatEmptySeq
  <1> QED
    BY <1>1, <1>2, <1>3, <1>4 DEF OnItsWay, U

\* What a step does to the list that t shows in the end.
LEMMA ListsKept ==
    ASSUME TypeOK, UNCHANGED stateVars, NEW t \in Session
    PROVE  /\ Hears(t, Said("UserList"), <<>>) => UserListView(t)' = UserListView(t)
           /\ Hears(t, Said("UserList"), <<fromJson(userList(users'))>>) =>
                UserListView(t)' = Registered'
  <1> DEFINE list == userList(users')
  <1>1. onlineUsers' = onlineUsers
    BY DEF stateVars
  <1>2. Hears(t, Said("UserList"), <<>>) => UserListView(t)' = UserListView(t)
    BY <1>1, ListHeard, ViewIsShown
  <1>3. /\ list \in Raw /\ fromJson(list).type = "UserList"
        /\ fromJson(list).users = { u \in Name : users'[u] # NoSession }
    BY ListSays
  <1>4. fromJson(list) \in Said("UserList")
    <2> HIDE DEF list
    <2> QED
      BY <1>3, FrameSays
  <1> HIDE DEF list
  <1>5. ASSUME Hears(t, Said("UserList"), <<fromJson(list)>>)
        PROVE  UserListView(t)' = Registered'
    <2>1. PICK m \in Said("UserList") : m = fromJson(list)
      BY <1>4
    <2>2. OnItsWay(t)' = OnItsWay(t) \o <<m>> /\ OnItsWay(t) \in Seq(Said("UserList"))
      BY <1>5, <2>1, ListHeard
    <2>3. PICK p \in Seq(Said("UserList")) : p = OnItsWay(t)
      BY <2>2
    <2>4. ListShown(onlineUsers'[t], p \o <<m>>) = m.users
      BY LastOfLists
    <2> QED
      BY <1>3, <2>1, <2>2, <2>3, <2>4, ViewIsShown DEF Registered
  <1> QED
    BY <1>2, <1>5 DEF list

LEMMA ShowKeepsList ==
    ASSUME TypeOK, StateTypeOK, NEW s \in Session, Show(s), NEW t \in Session
    PROVE  UserListView(t)' = UserListView(t)
  <1> DEFINE raw == Head(toClient[s])
             rest == toClient'[s]
             U == Said("UserList")
  <1>1. Receive(s) /\ ShowFrame(s, raw)
    BY DEF Show
  <1>2. /\ raw \in Raw /\ rest \in Seq(Raw)
        /\ toClient[s] = <<raw>> \o rest
        /\ \A p \in Session \ {s} : toClient'[p] = toClient[p]
    BY <1>1, Taken
  <1> HIDE DEF raw, rest
  <1>3. /\ onlineUsers'[s] = IF fromJson(raw) \in U
                               THEN fromJson(raw).users ELSE onlineUsers[s]
        /\ \A p \in Session \ {s} : onlineUsers'[p] = onlineUsers[p]
    BY <1>1, <1>2, FrameShows
  <1> HIDE DEF U
  <1>4. CASE t # s
    BY <1>2, <1>3, <1>4, ViewIsShown DEF OnItsWay
  <1>5. CASE t = s
    <2>1. PICK one \in Seq(Raw), q \in Seq(Raw) : one = <<raw>> /\ q = rest
      <3>1. raw \in Raw
        BY <1>2
      <3>2. <<raw>> \in Seq(Raw)
        BY <3>1
      <3> QED
        BY <1>2, <3>2
    <2>2. Of(one \o q, U) = Of(one, U) \o Of(q, U)
      BY OfFrames
    <2>3. PICK p \in Seq(U) : p = Of(q, U)
      BY OfFrames
    <2>4. Of(one, U) = IF fromJson(raw) \in U THEN <<fromJson(raw)>> ELSE <<>>
      BY <1>2, <2>1, OfFrames
    <2>5. /\ UserListView(s) = ListShown(onlineUsers[s], Of(one, U) \o p)
          /\ UserListView(s)' = ListShown(onlineUsers'[s], p)
      BY <1>2, <2>1, <2>2, <2>3, ViewIsShown DEF OnItsWay, U, rest
    <2>6. CASE fromJson(raw) \in U
      <3>1. PICK m \in U : m = fromJson(raw)
        BY <2>6
      <3>2. ListShown(m.users, p) = ListShown(onlineUsers[s], <<m>> \o p)
        BY LastOfLists
      <3> QED
        BY <1>3, <1>5, <2>4, <2>5, <2>6, <3>1, <3>2
    <2>7. CASE fromJson(raw) \notin U
      <3>1. <<>> \o p = p
        BY ConcatEmptySeq
      <3> QED
        BY <1>3, <1>5, <2>4, <2>5, <2>7, <3>1
    <2> QED
      BY <2>6, <2>7
  <1> QED
    BY <1>4, <1>5


LEMMA HandleKeepsLists ==
    ASSUME TypeOK, Membership, Rooms, Rooms', NEW s \in Session, HandleFrame(s),
           UNCHANGED stateVars, UserListFresh, NEW t \in Session, Member(t)'
    PROVE  UserListView(t)' = Registered'
  <1> DEFINE raw == Head(toServer[s])
  <1>1. session' = session /\ linkUp' = linkUp
    BY HandlerShape
  <1>2. linkUp[t] /\ session[t] = "active" /\ t \in clients /\ username'[t] # Empty
    BY <1>1 DEF Member, Served, Rooms, Seated
  <1>3. FilesNamed /\ FilesNamed'
    BY DEF Rooms
  <1>4. CASE HandleConnect(s)
    <2>1. Hears(t, Said("UserList"), <<fromJson(userList(users'))>>)
      BY <1>2, <1>3, <1>4, PublicHears
    <2> QED
      BY <2>1, ListsKept
  <1>5. CASE ~HandleConnect(s)
    <2>1. Hears(t, Said("UserList"), <<>>)
      <3>1. CASE HandlePublicMessage(s)
        BY <1>2, <1>3, <3>1, PublicHears
      <3>2. CASE HandleGroupMessage(s) \/ HandleJoinGroup(s) \/ HandleOther(s)
        BY <1>2, <1>3, <3>2, SilentHandlers
      <3> QED
        BY <1>5, <3>1, <3>2 DEF HandleFrame, HandleOther, HandleRest
    <2>2. users' = users /\ username' = username
      <3>1. CASE HandlePublicMessage(s)
        BY <3>1 DEF HandlePublicMessage
      <3>2. CASE HandleGroupMessage(s)
        BY <3>2 DEF HandleGroupMessage
      <3>3. CASE HandleJoinGroup(s)
        BY <3>3 DEF HandleJoinGroup
      <3>4. CASE HandleOther(s)
        BY <1>5, <3>4, HandlerShape DEF HandleOther, HandlePrivateMessage,
           HandleTyping, HandleAttachmentStart, HandleAttachmentEnd,
           HandleBinary, HandleUnknown, serverVars, memoryVars
      <3> QED
        BY <1>5, <3>1, <3>2, <3>3, <3>4 DEF HandleFrame, HandleOther, HandleRest
    <2>3. Member(t) /\ Registered' = Registered
      BY <1>2, <2>2 DEF Member, Served, Registered
    <2> QED
      BY <2>1, <2>3, ListsKept DEF UserListFresh
  <1> QED
    BY <1>4, <1>5

LEMMA ErrorKeepsLists ==
    ASSUME TypeOK, Membership, Rooms, NEW s \in Session,
           ReadError(s) \/ WriteError(s), UNCHANGED stateVars,
           UserListFresh, NEW t \in Session, Member(t)'
    PROVE  UserListView(t)' = Registered'
  <1> DEFINE list == fromJson(userList(users'))
  <1>1. /\ linkUp' = linkUp /\ session'[s] # "active"
        /\ \A p \in Session \ {s} : session'[p] = session[p]
        /\ username' = username
        /\ \E pending : removeClient(s, pending)
    BY ErrorRemoves
  <1>2. PICK pending : removeClient(s, pending)
    BY <1>1
  <1>3. t # s /\ linkUp[t] /\ session[t] = "active" /\ Member(t)
    BY <1>1 DEF Member, Served
  <1>4. t \in clients'
    BY <1>2, <1>3 DEF removeClient, Rooms, Seated
  <1>5. CASE username[s] # Empty
    <2>1. Of(<<userList(users')>>, Said("UserList")) = <<list>>
      BY ListSays
    <2>2. Hears(t, Said("UserList"),
                IF username[s] # Empty /\ t \in clients'
                  THEN Of(<<userList(users')>>, Said("UserList")) ELSE <<>>)
      BY <1>2, <1>3, RemovalSays
    <2>3. Hears(t, Said("UserList"), <<list>>)
      BY <1>4, <1>5, <2>1, <2>2
    <2> QED
      BY <2>3, ListsKept
  <1>6. CASE username[s] = Empty
    <2>1. users' = users
      BY <1>2, <1>6 DEF removeClient
    <2>2. Hears(t, Said("UserList"),
                IF username[s] # Empty /\ t \in clients'
                  THEN Of(<<userList(users')>>, Said("UserList")) ELSE <<>>)
      BY <1>2, <1>3, RemovalSays
    <2>3. Hears(t, Said("UserList"), <<>>)
      BY <1>6, <2>2
    <2> QED
      BY <1>3, <2>1, <2>3, ListsKept DEF UserListFresh, Registered
  <1> QED
    BY <1>5, <1>6

(* The last user list that a connected client has, or is about to get,     *)
(* names exactly those whom a private message can reach: whoever connects, *)
(* leaves or is cut off, nobody is left with an older list.                *)
THEOREM UserListsFresh == AppSpec => []UserListFresh
  <1>1. AppInit => UserListFresh
    BY DEF AppInit, Init, ConnInit, Member, Served, UserListFresh
  <1>2. ASSUME Ground, Ground', UserListFresh, [AppNext]_appVars
        PROVE  UserListFresh'
    <2>0. TypeOK /\ StateTypeOK /\ Membership /\ Rooms /\ Rooms'
      BY <1>2 DEF Ground
    <2> SUFFICES ASSUME NEW t \in Session, Member(t)'
                 PROVE  UserListView(t)' = Registered'
      BY DEF UserListFresh
    <2>1. ASSUME NEW s \in Session, Show(s)
          PROVE  UserListView(t)' = Registered'
      <3>1. Receive(s)
        BY <2>1 DEF Show
      <3>2. UNCHANGED <<session, linkUp, username, users>>
        BY <2>0, <3>1, Taken
      <3>3. Member(t) /\ Registered' = Registered
        BY <3>2 DEF Member, Served, Registered
      <3>4. UserListView(t)' = UserListView(t)
        BY <2>0, <2>1, ShowKeepsList
      <3> QED
        BY <1>2, <3>3, <3>4 DEF UserListFresh
    <2>2. CASE UNCHANGED stateVars /\ Quiet
      <3>1. linkUp'[t] /\ session'[t] = "active" /\ username'[t] # Empty
        BY DEF Member, Served
      <3>2. /\ linkUp[t] /\ session[t] \in {"pending", "active"}
            /\ username'[t] = username[t] /\ toClient'[t] = toClient[t]
            /\ users' = users
        BY <2>0, <2>2, <3>1, QuietKeeps
      <3>3. session[t] # "pending"
        BY <2>0, <3>1, <3>2 DEF Rooms, Seated
      <3>4. Member(t) /\ Registered' = Registered
        BY <3>1, <3>2, <3>3 DEF Member, Served, Registered
      <3>5. Hears(t, Said("UserList"), <<>>)
        BY <2>0, <3>2, HearsNothing
      <3>6. UserListView(t)' = UserListView(t)
        BY <2>0, <2>2, <3>5, ListsKept
      <3> QED
        BY <1>2, <3>4, <3>6 DEF UserListFresh
    <2>3. ASSUME NEW s \in Session, ReadError(s) \/ WriteError(s), UNCHANGED stateVars
          PROVE  UserListView(t)' = Registered'
      BY <1>2, <2>0, <2>3, ErrorKeepsLists
    <2>4. ASSUME NEW s \in Session, HandleFrame(s), UNCHANGED stateVars
          PROVE  UserListView(t)' = Registered'
      BY <1>2, <2>0, <2>4, HandleKeepsLists
    <2> QED
      BY <1>2, <2>1, <2>2, <2>3, <2>4, StepKinds
  <1> QED
    BY <1>1, <1>2, GroundHolds, PTL DEF AppSpec
=============================================================================
