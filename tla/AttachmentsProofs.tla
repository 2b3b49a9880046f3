--------------------------- MODULE AttachmentsProofs ---------------------------
(***************************************************************************)
(* That a file which a client shows is whole.  A client writes what it     *)
(* gets and closes the file at the end message, so the invariant counts,   *)
(* for each file that a client has open or is about to open, the chunks    *)
(* that are written, those that are on the way to the client, and those    *)
(* in front of the end in the sender's queue.  While the client is in the  *)
(* audience of the file they are all of them; when the end has been sent   *)
(* to it, the first two are.  For the count one has to know where the      *)
(* frames of a transfer can be (Placed), and that no step of another kind  *)
(* adds a chunk, takes one away, or lets anybody in whom the start message *)
(* did not reach.                                                          *)
(***************************************************************************)
EXTENDS NamesProofs, RoomsProofs, FiniteSetTheorems

-----------------------------------------------------------------------------
(* How many chunks of a file there are among the first k frames.           *)

ChunkAt(q, n, i) == q[i].type = "binary" /\ q[i].id = n

ChunksIn(q, n, k) == Cardinality({ i \in 1 .. k : ChunkAt(q, n, i) })

LEMMA CountFinite ==
    ASSUME NEW q, NEW n, NEW k \in Nat
    PROVE  /\ IsFiniteSet({ i \in 1 .. k : ChunkAt(q, n, i) })
           /\ ChunksIn(q, n, k) \in Nat
  <1> DEFINE S == { i \in 1 .. k : ChunkAt(q, n, i) }
  <1>1. IsFiniteSet(1 .. k)
    BY FS_Interval
  <1>2. S \in SUBSET (1 .. k)
    OBVIOUS
  <1> HIDE DEF S
  <1>3. IsFiniteSet(S)
    BY <1>1, <1>2, FS_Subset
  <1>4. Cardinality(S) \in Nat
    BY <1>3, FS_CardinalityType
  <1> QED
    BY <1>3, <1>4 DEF S, ChunksIn

LEMMA CountSame ==
    ASSUME NEW q, NEW w, NEW n, NEW k \in Nat,
           \A i \in 1 .. k : ChunkAt(q, n, i) <=> ChunkAt(w, n, i)
    PROVE  ChunksIn(q, n, k) = ChunksIn(w, n, k)
  <1>1. { i \in 1 .. k : ChunkAt(q, n, i) } = { i \in 1 .. k : ChunkAt(w, n, i) }
    OBVIOUS
  <1> QED
    BY <1>1 DEF ChunksIn

LEMMA CountNone ==
    ASSUME NEW q, NEW n, NEW k \in Nat, \A i \in 1 .. k : ~ChunkAt(q, n, i)
    PROVE  ChunksIn(q, n, k) = 0
  <1>1. { i \in 1 .. k : ChunkAt(q, n, i) } = {}
    OBVIOUS
  <1> QED
    BY <1>1, FS_EmptySet DEF ChunksIn

LEMMA CountBeyond ==
    ASSUME NEW q, NEW n, NEW k \in Nat, NEW m \in Nat, k <= m,
           \A i \in k + 1 .. m : ~ChunkAt(q, n, i)
    PROVE  ChunksIn(q, n, m) = ChunksIn(q, n, k)
  <1>1. { i \in 1 .. m : ChunkAt(q, n, i) } = { i \in 1 .. k : ChunkAt(q, n, i) }
    OBVIOUS
  <1> QED
    BY <1>1 DEF ChunksIn

LEMMA CountNext ==
    ASSUME NEW q, NEW n, NEW k \in Nat, ChunkAt(q, n, k + 1)
    PROVE  ChunksIn(q, n, k + 1) = ChunksIn(q, n, k) + 1
  <1> DEFINE S == { i \in 1 .. k : ChunkAt(q, n, i) }
             T == { i \in 1 .. k + 1 : ChunkAt(q, n, i) }
  <1>1. T = S \cup {k + 1} /\ k + 1 \notin S
    OBVIOUS
  <1>2. IsFiniteSet(S)
    BY CountFinite
  <1> HIDE DEF S, T
  <1>3. Cardinality(T) = Cardinality(S) + 1
    BY <1>1, <1>2, FS_AddElement
  <1> QED
    BY <1>3 DEF S, T, ChunksIn

(* The frames of w are those of q behind the first d.                      *)
LEMMA CountShift ==
    ASSUME NEW q, NEW w, NEW n, NEW k \in Nat, NEW d \in Nat,
           \A i \in 1 .. k : ChunkAt(w, n, i) <=> ChunkAt(q, n, i + d)
    PROVE  /\ (\A i \in 1 .. d : ~ChunkAt(q, n, i)) =>
                ChunksIn(q, n, k + d) = ChunksIn(w, n, k)
           /\ d = 1 /\ ChunkAt(q, n, 1) =>
                ChunksIn(q, n, k + 1) = ChunksIn(w, n, k) + 1
  <1> DEFINE S == { i \in 1 .. k : ChunkAt(w, n, i) }
             T == { i \in d + 1 .. k + d : ChunkAt(q, n, i) }
             f == [ i \in S |-> i + d ]
  <1>1. f \in Bijection(S, T)
    <2>1. f \in [S -> T]
      OBVIOUS
    <2>2. \A a, b \in S : f[a] = f[b] => a = b
      OBVIOUS
    <2>3. \A t \in T : \E a \in S : f[a] = t
      <3>1. ASSUME NEW t \in T PROVE \E a \in S : f[a] = t
        <4>1. t - d \in S /\ f[t - d] = t
          OBVIOUS
        <4> QED
          BY <4>1
      <3> QED
        BY <3>1
    <2> HIDE DEF f, S, T
    <2> QED
      BY <2>1, <2>2, <2>3 DEF Bijection, Injection, Surjection, IsInjective
  <1>2. IsFiniteSet(S)
    BY CountFinite
  <1>3. Cardinality(T) = Cardinality(S) /\ IsFiniteSet(T)
    <2> HIDE DEF S, T, f
    <2>1. ExistsBijection(S, T)
      BY <1>1 DEF ExistsBijection
    <2> QED
      BY <1>2, <2>1, FS_Bijection
  <1>4. ASSUME \A i \in 1 .. d : ~ChunkAt(q, n, i)
        PROVE  ChunksIn(q, n, k + d) = ChunksIn(w, n, k)
    <2>1. { i \in 1 .. k + d : ChunkAt(q, n, i) } = T
      BY <1>4
    <2> QED
      BY <1>3, <2>1 DEF ChunksIn
  <1>5. ASSUME d = 1, ChunkAt(q, n, 1)
        PROVE  ChunksIn(q, n, k + 1) = ChunksIn(w, n, k) + 1
    <2>1. { i \in 1 .. k + 1 : ChunkAt(q, n, i) } = T \cup {1} /\ 1 \notin T
      BY <1>5
    <2>2. Cardinality(T \cup {1}) = Cardinality(T) + 1
      <3> HIDE DEF T
      <3> QED
        BY <1>3, <2>1, FS_AddElement
    <2> QED
      BY <1>3, <2>1, <2>2 DEF ChunksIn
  <1> QED
    BY <1>4, <1>5

\* The frames of w are those of q behind the first.
LEMMA CountBehind ==
    ASSUME NEW q, NEW w, NEW n, NEW k \in Nat,
           \A i \in 1 .. k : ChunkAt(w, n, i) <=> ChunkAt(q, n, i + 1)
    PROVE  /\ ~ChunkAt(q, n, 1) => ChunksIn(q, n, k + 1) = ChunksIn(w, n, k)
           /\ ChunkAt(q, n, 1)  => ChunksIn(q, n, k + 1) = ChunksIn(w, n, k) + 1
  <1>1. PICK d \in Nat : d = 1
    OBVIOUS
  <1>2. \A i \in 1 .. k : ChunkAt(w, n, i) <=> ChunkAt(q, n, i + d)
    BY <1>1
  <1>3. ~ChunkAt(q, n, 1) => \A i \in 1 .. d : ~ChunkAt(q, n, i)
    BY <1>1
  <1>4. (\A i \in 1 .. d : ~ChunkAt(q, n, i)) =>
          ChunksIn(q, n, k + d) = ChunksIn(w, n, k)
    BY <1>2, CountShift
  <1>5. d = 1 /\ ChunkAt(q, n, 1) =>
          ChunksIn(q, n, k + 1) = ChunksIn(w, n, k) + 1
    BY <1>2, CountShift
  <1> QED
    BY <1>1, <1>3, <1>4, <1>5

(* The chunks of a file in its own frames.                                 *)
LEMMA CountAll ==
    ASSUME NEW q, NEW n, NEW c \in Nat,
           \A i \in 1 .. c + 2 : ChunkAt(q, n, i) <=> i \in 2 .. c + 1
    PROVE  ChunksIn(q, n, c + 2) = c
  <1>1. { i \in 1 .. c + 2 : ChunkAt(q, n, i) } = 2 .. c + 1
    OBVIOUS
  <1>2. Cardinality(2 .. c + 1) = c
    BY FS_Interval
  <1> QED
    BY <1>1, <1>2 DEF ChunksIn


-----------------------------------------------------------------------------
(* Where the frames of a transfer may be, and in which order.              *)

\* A frame of a transfer that is on its way, or is kept as its route or as
\* the start of a file that is open.
Underway(f) ==
    /\ f.type \in TransferWord
    /\ \/ f \in routes
       \/ \E s \in Session :
            \/ \E i \in 1 .. Len(toServer[s]) : f = toServer[s][i]
            \/ \E i \in 1 .. Len(toClient[s]) : f = toClient[s][i]
            \/ \E file \in incomingAttachments[s] : f = file.start

SameFile(f, h) ==
    /\ f.sender = h.sender
    /\ f.type # "binary" /\ h.type # "binary" =>
         f.target = h.target /\ f.groupId = h.groupId

\* A file id is a reading of the clock in the past, and tells everything
\* about its transfer; nobody sends a file to himself.
Attributed ==
    /\ \A f : Underway(f) => /\ f.id \in Nat /\ f.id <= ops
                             /\ f.sender \in Name /\ f.target # f.sender
    /\ \A f, h : Underway(f) /\ Underway(h) /\ f.id = h.id => SameFile(f, h)

Signed == \A s \in Session : \A i \in 1 .. Len(toServer[s]) :
            toServer[s][i].type \in TransferWord =>
              toServer[s][i].sender = currentUser[s]

PartAt(q, n, i) == q[i].type \in TransferWord /\ q[i].id = n

StartAt(q, n, i) == q[i].type = "attachment_start" /\ q[i].id = n

EndAt(q, n, i) == q[i].type = "attachment_end" /\ q[i].id = n

\* In a queue the start is in front of the other frames, the end behind them.
Ordered(q) ==
    \A n : \A i, j \in 1 .. Len(q) : PartAt(q, n, j) =>
      /\ StartAt(q, n, i) => i <= j
      /\ EndAt(q, n, i)   => j <= i

QueuesOrdered == \A s \in Session : Ordered(toServer[s]) /\ Ordered(toClient[s])

\* A transfer whose start has not been read is there with all its chunks.
SentWhole ==
    \A s \in Session : \A n : \A i, j \in 1 .. Len(toServer[s]) :
      StartAt(toServer[s], n, i) /\ EndAt(toServer[s], n, j) =>
        ChunksIn(toServer[s], n, j) = Chunks

\* Nobody hears of a transfer before its start has been read, and nothing of
\* it is left when the first client is told of its end.
StartedFirst ==
    \A s, r \in Session : \A n : \A i \in 1 .. Len(toServer[s]) :
      StartAt(toServer[s], n, i) =>
        \A j \in 1 .. Len(toClient[r]) : ~PartAt(toClient[r], n, j)

EndedLast ==
    \A s, r \in Session : \A n : \A j \in 1 .. Len(toClient[r]) :
      EndAt(toClient[r], n, j) =>
        \A i \in 1 .. Len(toServer[s]) : ~PartAt(toServer[s], n, i)

Opened == /\ \A f \in routes : f.type = "attachment_start"
          /\ \A s \in Session : \A file \in incomingAttachments[s] :
               file.start.type = "attachment_start"

Placed == /\ Attributed
          /\ Signed
          /\ QueuesOrdered
          /\ SentWhole
          /\ StartedFirst
          /\ EndedLast
          /\ Opened

Trimmed(q, w) == (\E k \in Nat : Window(q, k, w)) \/ Mute(w)

\* Of transfers, w says what q did, and perhaps one frame of S at the end.
Says(q, w, S) ==
    \A i \in 1 .. Len(w) : w[i].type \in TransferWord =>
      \/ i \in 1 .. Len(q) /\ w[i] = q[i]
      \/ i > Len(q) /\ i = Len(w) /\ w[i] \in S

\* The frame f is read from the queue of s.
Passes(f, s) == /\ 1 \in 1 .. Len(toServer[s]) /\ f = toServer[s][1]
                /\ f.type \in TransferWord
                /\ Window(toServer[s], 1, toServer'[s])

\* A step in which no frames but those of S pass from the clients to the
\* links, and nothing is written by a client or taken by one.
Passing(S) ==
    /\ \A s \in Session : Trimmed(toServer[s], toServer'[s])
    /\ \A f \in S : \E s \in Session : Passes(f, s)
    /\ \A r \in Session : Says(toClient[r], toClient'[r], S)
    /\ \A f \in routes' : f \in routes \/ (f \in S /\ f.type = "attachment_start")
    /\ \A s \in Session : currentUser'[s] = currentUser[s] \/ Mute(toServer'[s])
    /\ UNCHANGED <<incomingAttachments, ops>>

QueueLengths == \A s \in Session : Len(toServer[s]) \in Nat /\ Len(toClient[s]) \in Nat

LEMMA LengthsOfQueues ==
    ASSUME TypeOK
    PROVE  QueueLengths
  BY LenProperties DEF TypeOK, ConnTypeOK, QueueLengths

\* Where a frame of a transfer has been before the step.
LEMMA WhereFrom ==
    ASSUME QueueLengths, QueueLengths', NEW S, Passing(S)
    PROVE  /\ \A s \in Session : \A i \in 1 .. Len(toServer'[s]) :
                toServer'[s][i].type \in TransferWord =>
                  \E j \in 1 .. Len(toServer[s]) : toServer'[s][i] = toServer[s][j]
           /\ \A f \in S : \E s \in Session : \E j \in 1 .. Len(toServer[s]) :
                f = toServer[s][j]
           /\ \A r \in Session : \A i \in 1 .. Len(toClient'[r]) :
                toClient'[r][i].type \in TransferWord =>
                  \/ \E j \in 1 .. Len(toClient[r]) : toClient'[r][i] = toClient[r][j]
                  \/ toClient'[r][i] \in S
           /\ \A f : Underway(f)' => Underway(f)
  <1>1. ASSUME NEW s \in Session, NEW i \in 1 .. Len(toServer'[s]),
               toServer'[s][i].type \in TransferWord
        PROVE  \E j \in 1 .. Len(toServer[s]) : toServer'[s][i] = toServer[s][j]
    <2>1. Trimmed(toServer[s], toServer'[s])
      BY DEF Passing
    <2>2. PICK k \in Nat : Window(toServer[s], k, toServer'[s])
      BY <1>1, <2>1 DEF Trimmed, Mute
    <2>3. i + k \in 1 .. Len(toServer[s]) /\ toServer'[s][i] = toServer[s][i + k]
      BY <2>2 DEF Window, QueueLengths
    <2> QED
      BY <2>3
  <1>2. \A f \in S : \E s \in Session : \E j \in 1 .. Len(toServer[s]) :
          f = toServer[s][j]
    BY DEF Passing, Passes
  <1>3. \A r \in Session : \A i \in 1 .. Len(toClient'[r]) :
          toClient'[r][i].type \in TransferWord =>
            \/ \E j \in 1 .. Len(toClient[r]) : toClient'[r][i] = toClient[r][j]
            \/ toClient'[r][i] \in S
    BY DEF Passing, Says
  <1>4. ASSUME NEW f, Underway(f)'
        PROVE  Underway(f)
    <2>1. /\ f.type \in TransferWord
          /\ \/ f \in routes'
             \/ \E s \in Session :
                  \/ \E i \in 1 .. Len(toServer'[s]) : f = toServer'[s][i]
                  \/ \E i \in 1 .. Len(toClient'[s]) : f = toClient'[s][i]
                  \/ \E file \in incomingAttachments'[s] : f = file.start
      BY <1>4 DEF Underway
    <2>2. f \in S => Underway(f)
      BY <1>2, <2>1 DEF Underway
    <2>3. CASE f \in routes'
      BY <2>1, <2>2, <2>3 DEF Passing, Underway
    <2>4. ASSUME NEW s \in Session, NEW i \in 1 .. Len(toServer'[s]), f = toServer'[s][i]
          PROVE  Underway(f)
      BY <1>1, <2>1, <2>4 DEF Underway
    <2>5. ASSUME NEW s \in Session, NEW i \in 1 .. Len(toClient'[s]), f = toClient'[s][i]
          PROVE  Underway(f)
      BY <1>3, <2>1, <2>2, <2>5 DEF Underway
    <2>6. ASSUME NEW s \in Session, NEW file \in incomingAttachments'[s], f = file.start
          PROVE  Underway(f)
      BY <2>1, <2>6 DEF Underway, Passing
    <2> QED
      BY <2>1, <2>3, <2>4, <2>5, <2>6
  <1> QED
    BY <1>1, <1>2, <1>3, <1>4


LEMMA PassingAttributed ==
    ASSUME QueueLengths, QueueLengths', NEW S, Passing(S), Placed
    PROVE  Attributed' /\ Signed' /\ Opened'
  <1>1. \A f : Underway(f)' => Underway(f)
    BY WhereFrom
  <1>2. ops' = ops /\ incomingAttachments' = incomingAttachments
    BY DEF Passing
  <1>3. Attributed'
    <2>1. \A f : Underway(f) => /\ f.id \in Nat /\ f.id <= ops
                                /\ f.sender \in Name /\ f.target # f.sender
      BY DEF Placed, Attributed
    <2>2. \A f, h : Underway(f) /\ Underway(h) /\ f.id = h.id => SameFile(f, h)
      BY DEF Placed, Attributed
    <2> QED
      BY <1>1, <1>2, <2>1, <2>2 DEF Attributed
  <1>4. Signed'
    <2>1. ASSUME NEW s \in Session, NEW i \in 1 .. Len(toServer'[s]),
                 toServer'[s][i].type \in TransferWord
          PROVE  toServer'[s][i].sender = currentUser'[s]
      <3>1. PICK j \in 1 .. Len(toServer[s]) : toServer'[s][i] = toServer[s][j]
        BY <2>1, WhereFrom
      <3>2. currentUser'[s] = currentUser[s]
        BY <2>1 DEF Passing, Mute
      <3> QED
        BY <2>1, <3>1, <3>2 DEF Placed, Signed
    <2> QED
      BY <2>1 DEF Signed
  <1>5. Opened'
    BY <1>2 DEF Passing, Placed, Opened
  <1> QED
    BY <1>3, <1>4, <1>5

(* Queues that are trimmed keep their order, and whole transfers.          *)
LEMMA TrimmedOrdered ==
    ASSUME NEW q, NEW w, Len(q) \in Nat, Len(w) \in Nat, Trimmed(q, w), Ordered(q)
    PROVE  Ordered(w)
  <1>1. CASE Mute(w)
    BY <1>1 DEF Mute, Ordered, PartAt
  <1>2. ASSUME NEW k \in Nat, Window(q, k, w)
        PROVE  Ordered(w)
    <2>1. ASSUME NEW n, NEW i \in 1 .. Len(w), NEW j \in 1 .. Len(w), PartAt(w, n, j)
          PROVE  /\ StartAt(w, n, i) => i <= j
                 /\ EndAt(w, n, i)   => j <= i
      <3>1. /\ i + k \in 1 .. Len(q) /\ w[i] = q[i + k]
            /\ j + k \in 1 .. Len(q) /\ w[j] = q[j + k]
        BY <1>2, SMTT(40) DEF Window
      <3>2. PartAt(q, n, j + k)
        BY <2>1, <3>1 DEF PartAt
      <3>3. /\ StartAt(q, n, i + k) => i + k <= j + k
            /\ EndAt(q, n, i + k)   => j + k <= i + k
        BY <3>1, <3>2 DEF Ordered
      <3> QED
        BY <3>1, <3>3 DEF StartAt, EndAt
    <2> QED
      BY <2>1 DEF Ordered
  <1> QED
    BY <1>1, <1>2 DEF Trimmed

LEMMA TrimmedWhole ==
    ASSUME NEW q, NEW w, Len(q) \in Nat, Len(w) \in Nat, Trimmed(q, w), Ordered(q),
           NEW n, NEW i \in 1 .. Len(w), NEW j \in 1 .. Len(w),
           StartAt(w, n, i), EndAt(w, n, j),
           \A l, m \in 1 .. Len(q) :
             StartAt(q, n, l) /\ EndAt(q, n, m) => ChunksIn(q, n, m) = Chunks
    PROVE  ChunksIn(w, n, j) = Chunks
  <1>1. PICK k \in Nat : Window(q, k, w)
    BY DEF Trimmed, Mute, StartAt, TransferWord
  <1>2. /\ i + k \in 1 .. Len(q) /\ w[i] = q[i + k]
        /\ j + k \in 1 .. Len(q) /\ w[j] = q[j + k]
    BY <1>1 DEF Window
  <1>3. StartAt(q, n, i + k) /\ EndAt(q, n, j + k)
    BY <1>2 DEF StartAt, EndAt
  <1>4. ChunksIn(q, n, j + k) = Chunks
    BY <1>2, <1>3
  <1>5. \A l \in 1 .. k : ~ChunkAt(q, n, l)
    <2>1. ASSUME NEW l \in 1 .. k, ChunkAt(q, n, l)
          PROVE  FALSE
      <3>1. l \in 1 .. Len(q) /\ PartAt(q, n, l)
        BY <1>2, <2>1 DEF ChunkAt, PartAt, TransferWord
      <3>2. i + k <= l
        BY <1>2, <1>3, <3>1 DEF Ordered
      <3> QED
        BY <3>2
    <2> QED
      BY <2>1
  <1>6. \A l \in 1 .. j : ChunkAt(w, n, l) <=> ChunkAt(q, n, l + k)
    BY <1>1, SMTT(40) DEF Window, ChunkAt
  <1> QED
    BY <1>4, <1>5, <1>6, CountShift, SMTT(40)

LEMMA PassingInOrder ==
    ASSUME QueueLengths, QueueLengths', NEW S, Passing(S), Placed, OneSender
    PROVE  QueuesOrdered' /\ SentWhole' /\ StartedFirst' /\ EndedLast'
  <1> USE DEF Placed
  <1>0. \A s \in Session : /\ Len(toServer[s]) \in Nat /\ Len(toServer'[s]) \in Nat
                           /\ Len(toClient[s]) \in Nat /\ Len(toClient'[s]) \in Nat
                           /\ Trimmed(toServer[s], toServer'[s])
                           /\ Says(toClient[s], toClient'[s], S)
                           /\ Ordered(toServer[s]) /\ Ordered(toClient[s])
    BY DEF QueueLengths, Passing, QueuesOrdered
  \* A frame that passes is the first of all queues with frames of its file.
  <1>1. ASSUME NEW f \in S, NEW s \in Session, NEW i \in 1 .. Len(toServer'[s]),
               PartAt(toServer'[s], f.id, i)
        PROVE  /\ f.type # "attachment_end"
               /\ ~StartAt(toServer'[s], f.id, i)
    <2>1. PICK t \in Session : Passes(f, t)
      BY DEF Passing
    <2>2. PICK j \in 1 .. Len(toServer[s]) : toServer'[s][i] = toServer[s][j]
      BY <1>1, WhereFrom DEF PartAt
    <2>3. t = s
      BY <1>1, <2>1, <2>2 DEF OneSender, Passes, PartAt
    <2>4. /\ i + 1 \in 1 .. Len(toServer[s])
          /\ toServer'[s][i] = toServer[s][i + 1]
          /\ 1 \in 1 .. Len(toServer[s]) /\ f = toServer[s][1]
          /\ f.type \in TransferWord
      BY <1>0, <2>1, <2>3 DEF Passes, Window
    <2>5. PartAt(toServer[s], f.id, 1) /\ PartAt(toServer[s], f.id, i + 1)
      BY <1>1, <2>4 DEF PartAt
    <2>6. /\ StartAt(toServer[s], f.id, i + 1) => i + 1 <= 1
          /\ EndAt(toServer[s], f.id, 1) => i + 1 <= 1
      BY <1>0, <2>4, <2>5 DEF Ordered
    <2> QED
      BY <2>4, <2>6 DEF StartAt, EndAt
  \* Where a frame of a transfer on a link has been.
  <1>2. ASSUME NEW r \in Session, NEW n, NEW j \in 1 .. Len(toClient'[r]),
               PartAt(toClient'[r], n, j)
        PROVE  \/ /\ j \in 1 .. Len(toClient[r]) /\ PartAt(toClient[r], n, j)
                  /\ toClient'[r][j] = toClient[r][j]
               \/ /\ j > Len(toClient[r]) /\ j = Len(toClient'[r])
                  /\ toClient'[r][j] \in S
    BY <1>0, <1>2 DEF Says, PartAt
  <1>3. StartedFirst'
    <2>1. ASSUME NEW s \in Session, NEW r \in Session, NEW n,
                 NEW i \in 1 .. Len(toServer'[s]), StartAt(toServer'[s], n, i),
                 NEW j \in 1 .. Len(toClient'[r]), PartAt(toClient'[r], n, j)
          PROVE  FALSE
      <3>1. PartAt(toServer'[s], n, i)
        BY <2>1 DEF StartAt, PartAt, TransferWord
      <3>2. PICK l \in 1 .. Len(toServer[s]) : toServer'[s][i] = toServer[s][l]
        BY <3>1, WhereFrom DEF PartAt
      <3>3. StartAt(toServer[s], n, l)
        BY <2>1, <3>2 DEF StartAt
      <3>4. ~(toClient'[r][j] \in S)
        BY <1>1, <2>1, <3>1 DEF PartAt
      <3> QED
        BY <1>2, <2>1, <3>3, <3>4 DEF StartedFirst
    <2> QED
      BY <2>1 DEF StartedFirst
  <1>4. EndedLast'
    <2>1. ASSUME NEW s \in Session, NEW r \in Session, NEW n,
                 NEW j \in 1 .. Len(toClient'[r]), EndAt(toClient'[r], n, j),
                 NEW i \in 1 .. Len(toServer'[s]), PartAt(toServer'[s], n, i)
          PROVE  FALSE
      <3>1. PartAt(toClient'[r], n, j)
        BY <2>1 DEF EndAt, PartAt, TransferWord
      <3>2. PICK l \in 1 .. Len(toServer[s]) : toServer'[s][i] = toServer[s][l]
        BY <2>1, WhereFrom DEF PartAt
      <3>3. PartAt(toServer[s], n, l)
        BY <2>1, <3>2 DEF PartAt
      <3>4. ~(toClient'[r][j] \in S)
        BY <1>1, <2>1 DEF EndAt
      <3>5. j \in 1 .. Len(toClient[r]) /\ EndAt(toClient[r], n, j)
        BY <1>2, <2>1, <3>1, <3>4 DEF EndAt
      <3> QED
        BY <3>3, <3>5 DEF EndedLast
    <2> QED
      BY <2>1 DEF EndedLast
  <1>5. ASSUME NEW r \in Session PROVE Ordered(toClient'[r])
    <2>1. ASSUME NEW n, NEW i \in 1 .. Len(toClient'[r]), NEW j \in 1 .. Len(toClient'[r]),
                 PartAt(toClient'[r], n, j)
          PROVE  /\ StartAt(toClient'[r], n, i) => i <= j
                 /\ EndAt(toClient'[r], n, i)   => j <= i
      <3>0. /\ StartAt(toClient'[r], n, i) => PartAt(toClient'[r], n, i)
            /\ EndAt(toClient'[r], n, i) => PartAt(toClient'[r], n, i)
        BY DEF StartAt, EndAt, PartAt, TransferWord
      <3>1. CASE toClient'[r][i] \in S /\ i > Len(toClient[r]) /\ i = Len(toClient'[r])
        <4>1. ASSUME StartAt(toClient'[r], n, i) PROVE i <= j
          <5>1. PICK t \in Session : Passes(toClient'[r][i], t)
            BY <3>1 DEF Passing
          <5>2. StartAt(toServer[t], n, 1) /\ 1 \in 1 .. Len(toServer[t])
            BY <4>1, <5>1 DEF Passes, StartAt
          <5>3. ~(j \in 1 .. Len(toClient[r]) /\ PartAt(toClient[r], n, j))
            BY <5>2 DEF StartedFirst
          <5> QED
            BY <1>2, <2>1, <3>1, <5>3
        <4>2. j <= i
          BY <1>0, <3>1
        <4> QED
          BY <4>1, <4>2
      <3>2. CASE i \in 1 .. Len(toClient[r]) /\ toClient'[r][i] = toClient[r][i]
        <4>1. /\ StartAt(toClient'[r], n, i) => StartAt(toClient[r], n, i)
              /\ EndAt(toClient'[r], n, i) => EndAt(toClient[r], n, i)
          BY <3>2 DEF StartAt, EndAt
        <4>2. CASE j \in 1 .. Len(toClient[r]) /\ PartAt(toClient[r], n, j)
          BY <1>0, <3>2, <4>1, <4>2 DEF Ordered
        <4>3. CASE toClient'[r][j] \in S /\ j > Len(toClient[r])
          <5>1. PICK t \in Session : Passes(toClient'[r][j], t)
            BY <4>3 DEF Passing
          <5>2. PartAt(toServer[t], n, 1) /\ 1 \in 1 .. Len(toServer[t])
            BY <2>1, <5>1 DEF Passes, PartAt
          <5>3. ~EndAt(toClient[r], n, i)
            BY <3>2, <5>2 DEF EndedLast
          <5>4. i <= j
            BY <1>0, <3>2, <4>3
          <5> QED
            BY <4>1, <5>3, <5>4
        <4> QED
          BY <1>2, <2>1, <4>2, <4>3
      <3> QED
        BY <1>2, <3>0, <3>1, <3>2
    <2> QED
      BY <2>1 DEF Ordered
  <1>6. QueuesOrdered'
    <2>1. \A s \in Session : Ordered(toServer'[s])
      BY <1>0, TrimmedOrdered
    <2> QED
      BY <1>5, <2>1 DEF QueuesOrdered
  <1>7. SentWhole'
    <2>1. ASSUME NEW s \in Session, NEW n, NEW i \in 1 .. Len(toServer'[s]),
                 NEW j \in 1 .. Len(toServer'[s]),
                 StartAt(toServer'[s], n, i), EndAt(toServer'[s], n, j)
          PROVE  ChunksIn(toServer'[s], n, j) = Chunks
      <3>1. \A l, m \in 1 .. Len(toServer[s]) :
              StartAt(toServer[s], n, l) /\ EndAt(toServer[s], n, m) =>
                ChunksIn(toServer[s], n, m) = Chunks
        BY DEF SentWhole
      <3> QED
        BY <1>0, <2>1, <3>1, TrimmedWhole
    <2> QED
      BY <2>1 DEF SentWhole
  <1> QED
    BY <1>3, <1>4, <1>6, <1>7


-----------------------------------------------------------------------------
(* A client sends a file.                                                  *)

\* The frames of one file, from the start to the end.
WholeFile(frames, n) ==
    /\ Len(frames) = Chunks + 2
    /\ \A i \in 1 .. Len(frames) :
         /\ PartAt(frames, n, i)
         /\ StartAt(frames, n, i) => i = 1
         /\ EndAt(frames, n, i) => i = Len(frames)
         /\ ChunkAt(frames, n, i) <=> i \in 2 .. Chunks + 1

OneFile(s, frames) ==
    /\ \A i \in 1 .. Len(frames) : /\ frames[i].sender = currentUser[s]
                                   /\ frames[i].sender \in Name
                                   /\ frames[i].target # frames[i].sender
    /\ \A i, j \in 1 .. Len(frames) : SameFile(frames[i], frames[j])

LEMMA FileIsWhole ==
    ASSUME NEW s \in Session, currentUser[s] \in Name,
           NEW frames, SendsFile(s, frames), ~Mute(frames)
    PROVE  WholeFile(frames, ops + 1) /\ OneFile(s, frames)
  <1>1. PICK to \in Name \cup {Empty}, g \in Group \cup {Empty} :
          to # currentUser[s] /\ frames = attachmentFrames(s, to, g)
    BY DEF SendsFile
  <1> DEFINE start  == textFrame(s, "AttachmentStart", to, g)
             end    == textFrame(s, "AttachmentEnd", to, g)
             chunk  == chunkPacket(currentUser[s], ops + 1)
  <1>2. /\ start.type = "attachment_start" /\ end.type = "attachment_end"
        /\ chunk.type = "binary"
        /\ start.id = ops + 1 /\ end.id = ops + 1 /\ chunk.id = ops + 1
        /\ start.sender = currentUser[s] /\ end.sender = currentUser[s]
        /\ chunk.sender = currentUser[s]
        /\ start.target = to /\ end.target = to /\ chunk.target = Empty
        /\ start.groupId = g /\ end.groupId = g
    BY AttachmentFields
  <1>3. /\ Len(frames) = Chunks + 2
        /\ \A i \in 1 .. Chunks + 2 : frames[i] =
             IF i = 1 THEN start ELSE IF i = Chunks + 2 THEN end ELSE chunk
    BY <1>1, AttachmentShape
  <1> HIDE DEF start, end, chunk
  <1>4. WholeFile(frames, ops + 1)
    BY <1>2, <1>3, ChunksAssumption, SMTT(40)
       DEF WholeFile, PartAt, StartAt, EndAt, ChunkAt, TransferWord
  <1>5. \A i \in 1 .. Len(frames) : frames[i] = start \/ frames[i] = end \/ frames[i] = chunk
    BY <1>3
  <1>6. OneFile(s, frames)
    BY <1>1, <1>2, <1>5, NameAssumption DEF OneFile, SameFile
  <1> QED
    BY <1>4, <1>6

\* The queue w is q with the frames behind it.
Appends(q, frames, w) ==
    /\ Len(w) = Len(q) + Len(frames)
    /\ \A i \in 1 .. Len(w) : w[i] = IF i <= Len(q) THEN q[i] ELSE frames[i - Len(q)]

LEMMA OperateAppends ==
    ASSUME TypeOK, NEW s \in Session, Operate(s)
    PROVE  /\ currentUser[s] \in Name /\ ops \in Nat /\ ops' = ops + 1
           /\ UNCHANGED <<toClient, routes, currentUser, linkUp>>
           /\ UNCHANGED <<groups, clients, users, username, session>>
           /\ \A t \in Session \ {s} : toServer'[t] = toServer[t]
           /\ \E frames : /\ Len(frames) \in Nat
                          /\ SendsFile(s, frames)
                          /\ Appends(toServer[s], frames, toServer'[s])
  <1>0. /\ \A t \in Session : /\ toServer[t] \in Seq(ClientFrame)
                              /\ Len(toServer[t]) \in Nat
        /\ ops \in Nat /\ currentUser[s] \in Name \cup {Empty}
        /\ ConnTypeOK
    BY LenProperties DEF TypeOK, ConnTypeOK, ControllerTypeOK
  <1>1. PICK kind : \E frames \in Seq(UserFrame) :
          Operation(s, kind, frames) /\ SendsFile(s, frames)
    BY UserStepSends DEF Operate
  <1>2. PICK frames \in Seq(UserFrame) :
          Operation(s, kind, frames) /\ SendsFile(s, frames)
    BY <1>1
  <1>3. /\ currentUser[s] \in Name /\ ops' = ops + 1
        /\ UNCHANGED <<toClient, routes, currentUser, linkUp>>
        /\ UNCHANGED <<groups, clients, users, username, session>>
    BY <1>0, <1>2 DEF Operate, Operation, serverVars, memoryVars
  <1>4. CASE toServer' = toServer
    <2>1. Mute(<<>>) /\ Len(<<>>) = 0
      BY DEF Mute
    <2>2. SendsFile(s, <<>>)
      BY <2>1 DEF SendsFile
    <2>3. Appends(toServer[s], <<>>, toServer'[s])
      BY <1>0, <1>4, <2>1 DEF Appends
    <2> QED
      BY <1>0, <1>3, <1>4, <2>1, <2>2, <2>3
  <1>5. CASE toServer' = [toServer EXCEPT ![s] = toServer[s] \o frames]
    <2>1. /\ toServer'[s] = toServer[s] \o frames
          /\ \A t \in Session \ {s} : toServer'[t] = toServer[t]
      BY <1>0, <1>5 DEF ConnTypeOK
    <2>2. frames \in Seq(ClientFrame) /\ Len(frames) \in Nat
      BY SeqMonotonic, LenProperties DEF UserFrame
    <2>3. Appends(toServer[s], frames, toServer'[s])
      BY <1>0, <2>1, <2>2, ConcatProperties DEF Appends
    <2> QED
      BY <1>0, <1>2, <1>3, <2>1, <2>2, <2>3
  <1> QED
    BY <1>2, <1>4, <1>5 DEF Operation, SendFrames

\* A file with a new id keeps the order of a queue, and the whole transfers.
LEMMA AppendsOrdered ==
    ASSUME NEW q, NEW w, NEW frames, NEW n,
           Len(q) \in Nat, Len(frames) \in Nat, Appends(q, frames, w),
           Mute(frames) \/ WholeFile(frames, n),
           \A i \in 1 .. Len(q) : ~PartAt(q, n, i),
           Ordered(q)
    PROVE  /\ Ordered(w)
           /\ \A m : \A j \in 1 .. Len(w) : PartAt(w, m, j) =>
                \/ m # n /\ j \in 1 .. Len(q) /\ PartAt(q, m, j)
                \/ m = n /\ j > Len(q) /\ WholeFile(frames, n)
           /\ \A m : \A j \in 1 .. Len(q) : ChunksIn(w, m, j) = ChunksIn(q, m, j)
           /\ \A j \in 1 .. Len(w) : EndAt(w, n, j) => ChunksIn(w, n, j) = Chunks
  <1>1. ASSUME NEW m, NEW j \in 1 .. Len(w), PartAt(w, m, j)
        PROVE  \/ m # n /\ j \in 1 .. Len(q) /\ PartAt(q, m, j) /\ w[j] = q[j]
               \/ /\ m = n /\ j > Len(q) /\ WholeFile(frames, n)
                  /\ j - Len(q) \in 1 .. Len(frames)
                  /\ w[j] = frames[j - Len(q)]
    <2>1. CASE j <= Len(q)
      <3>1. j \in 1 .. Len(q) /\ w[j] = q[j]
        BY <2>1 DEF Appends
      <3> QED
        BY <1>1, <3>1 DEF PartAt
    <2>2. CASE j > Len(q)
      <3>1. j - Len(q) \in 1 .. Len(frames) /\ w[j] = frames[j - Len(q)]
        BY <2>2 DEF Appends
      <3>2. WholeFile(frames, n)
        BY <1>1, <3>1 DEF Mute, PartAt
      <3>3. PartAt(frames, n, j - Len(q))
        BY <3>1, <3>2 DEF WholeFile
      <3>4. m = n
        BY <1>1, <3>1, <3>3 DEF PartAt
      <3> QED
        BY <2>2, <3>1, <3>2, <3>4
    <2> QED
      BY <2>1, <2>2 DEF Appends
  <1>2. Ordered(w)
    <2>1. ASSUME NEW m, NEW i \in 1 .. Len(w), NEW j \in 1 .. Len(w), PartAt(w, m, j)
          PROVE  /\ StartAt(w, m, i) => i <= j
                 /\ EndAt(w, m, i)   => j <= i
      <3>0. (StartAt(w, m, i) \/ EndAt(w, m, i)) => PartAt(w, m, i)
        BY DEF StartAt, EndAt, PartAt, TransferWord
      <3>1. CASE m # n
        <4>1. j \in 1 .. Len(q) /\ PartAt(q, m, j)
          BY <1>1, <2>1, <3>1
        <4>2. PartAt(w, m, i) => i \in 1 .. Len(q) /\ w[i] = q[i]
          BY <1>1, <3>1
        <4> QED
          BY <3>0, <4>1, <4>2 DEF Ordered, StartAt, EndAt
      <3>2. CASE m = n
        <4>1. /\ WholeFile(frames, n) /\ j - Len(q) \in 1 .. Len(frames)
              /\ j \in Nat /\ i \in Nat /\ Len(q) \in Nat
          BY <1>1, <2>1, <3>2
        <4>2. PartAt(w, m, i) => i - Len(q) \in 1 .. Len(frames)
                                 /\ w[i] = frames[i - Len(q)]
          BY <1>1, <3>2
        <4>3. /\ StartAt(w, m, i) => i - Len(q) = 1
              /\ EndAt(w, m, i) => i - Len(q) = Len(frames)
          BY <3>0, <3>2, <4>1, <4>2 DEF WholeFile, StartAt, EndAt
        <4> QED
          BY <4>1, <4>3
      <3> QED
        BY <3>1, <3>2
    <2> QED
      BY <2>1 DEF Ordered
  <1>3. ASSUME NEW m, NEW j \in 1 .. Len(q)
        PROVE  ChunksIn(w, m, j) = ChunksIn(q, m, j)
    <2>1. \A i \in 1 .. j : ChunkAt(w, m, i) <=> ChunkAt(q, m, i)
      BY DEF Appends, ChunkAt
    <2> QED
      BY <2>1, CountSame
  <1>4. ASSUME NEW j \in 1 .. Len(w), EndAt(w, n, j)
        PROVE  ChunksIn(w, n, j) = Chunks
    <2>1. PartAt(w, n, j)
      BY <1>4 DEF EndAt, PartAt, TransferWord
    <2>2. /\ WholeFile(frames, n) /\ w[j] = frames[j - Len(q)]
          /\ j - Len(q) \in 1 .. Len(frames)
      BY <1>1, <2>1
    <2>3. j - Len(q) = Chunks + 2 /\ Len(frames) = Chunks + 2
      BY <1>4, <2>2 DEF WholeFile, EndAt
    <2>4. ChunksIn(frames, n, Chunks + 2) = Chunks
      BY <2>2, <2>3, CountAll, ChunksAssumption DEF WholeFile
    <2>5. \A i \in 1 .. Chunks + 2 : ChunkAt(frames, n, i) <=> ChunkAt(w, n, i + Len(q))
      BY <2>3, ChunksAssumption DEF Appends, ChunkAt
    <2>6. \A i \in 1 .. Len(q) : ~ChunkAt(w, n, i)
      BY DEF Appends, ChunkAt, PartAt, TransferWord
    <2>7. ChunksIn(w, n, (Chunks + 2) + Len(q)) = ChunksIn(frames, n, Chunks + 2)
      <3>1. PICK c \in Nat : c = Chunks + 2
        BY ChunksAssumption
      <3>2. ChunksIn(w, n, c + Len(q)) = ChunksIn(frames, n, c)
        BY <2>5, <2>6, <3>1, CountShift, SMTT(40)
      <3> QED
        BY <3>1, <3>2
    <2>8. j = (Chunks + 2) + Len(q)
      BY <2>3, ChunksAssumption
    <2> QED
      BY <2>4, <2>7, <2>8
  <1> QED
    BY <1>1, <1>2, <1>3, <1>4


LEMMA OperatePlaced ==
    ASSUME TypeOK, Placed, Transfers, NEW s \in Session, Operate(s),
           QueueLengths, QueueLengths', UNCHANGED incomingAttachments
    PROVE  /\ Placed'
           /\ \A t \in Session : \A n : \A j \in 1 .. Len(toServer'[t]) :
                EndAt(toServer'[t], n, j) =>
                  \/ n = ops + 1
                  \/ /\ j \in 1 .. Len(toServer[t]) /\ EndAt(toServer[t], n, j)
                     /\ ChunksIn(toServer'[t], n, j) = ChunksIn(toServer[t], n, j)
  <1> USE DEF Placed
  <1> DEFINE n0 == ops + 1
             q  == toServer[s]
             w  == toServer'[s]
  <1>1. /\ currentUser[s] \in Name /\ ops \in Nat /\ ops' = ops + 1
        /\ UNCHANGED <<toClient, routes, currentUser>>
        /\ \A t \in Session \ {s} : toServer'[t] = toServer[t]
    BY OperateAppends
  <1>2. PICK frames : /\ Len(frames) \in Nat
                      /\ SendsFile(s, frames)
                      /\ Appends(q, frames, w)
    BY OperateAppends
  <1>3. Mute(frames) \/ (WholeFile(frames, n0) /\ OneFile(s, frames))
    BY <1>1, <1>2, FileIsWhole
  <1>0. \A t \in Session : /\ Len(toServer[t]) \in Nat /\ Len(toServer'[t]) \in Nat
                           /\ Len(toClient[t]) \in Nat
                           /\ Ordered(toServer[t]) /\ Ordered(toClient[t])
    BY DEF QueueLengths, QueuesOrdered
  \* Nothing has the new id yet.
  <1>4. ASSUME NEW f, Underway(f)
        PROVE  f.id \in Nat /\ f.id <= ops /\ f.id # n0
    <2>1. f.id \in Nat /\ f.id <= ops
      BY <1>4 DEF Attributed
    <2> QED
      BY <1>1, <2>1
  <1>5. /\ \A t \in Session : \A i \in 1 .. Len(toServer[t]) : ~PartAt(toServer[t], n0, i)
        /\ \A t \in Session : \A i \in 1 .. Len(toClient[t]) : ~PartAt(toClient[t], n0, i)
    BY <1>4 DEF Underway, PartAt
  <1> HIDE DEF n0
  <1>6. /\ Ordered(w)
        /\ \A m : \A j \in 1 .. Len(w) : PartAt(w, m, j) =>
             \/ m # n0 /\ j \in 1 .. Len(q) /\ PartAt(q, m, j)
             \/ m = n0 /\ j > Len(q) /\ WholeFile(frames, n0)
        /\ \A m : \A j \in 1 .. Len(q) : ChunksIn(w, m, j) = ChunksIn(q, m, j)
        /\ \A j \in 1 .. Len(w) : EndAt(w, n0, j) => ChunksIn(w, n0, j) = Chunks
    <2>1. Mute(frames) \/ WholeFile(frames, n0)
      BY <1>3
    <2> QED
      BY <1>0, <1>2, <1>5, <2>1, AppendsOrdered
  <1>7. ASSUME NEW i \in 1 .. Len(w), w[i].type \in TransferWord
        PROVE  \/ i \in 1 .. Len(q) /\ w[i] = q[i]
               \/ /\ \E l \in 1 .. Len(frames) : w[i] = frames[l]
                  /\ OneFile(s, frames) /\ w[i].id = n0
    <2>1. CASE i <= Len(q)
      BY <1>0, <1>2, <2>1 DEF Appends
    <2>2. CASE i > Len(q)
      <3>1. i - Len(q) \in 1 .. Len(frames) /\ w[i] = frames[i - Len(q)]
        BY <1>0, <1>2, <2>2, SMTT(40) DEF Appends
      <3>2. WholeFile(frames, n0) /\ OneFile(s, frames)
        BY <1>3, <1>7, <3>1 DEF Mute
      <3> QED
        BY <3>1, <3>2 DEF WholeFile, PartAt
    <2> QED
      BY <1>0, <2>1, <2>2
  \* What is underway was so before, or is a frame of the new file.
  <1>8. ASSUME NEW f, Underway(f)'
        PROVE  \/ Underway(f)
               \/ /\ \E l \in 1 .. Len(frames) : f = frames[l]
                  /\ OneFile(s, frames) /\ f.id = n0
    <2>1. /\ f.type \in TransferWord
          /\ \/ f \in routes'
             \/ \E t \in Session :
                  \/ \E i \in 1 .. Len(toServer'[t]) : f = toServer'[t][i]
                  \/ \E i \in 1 .. Len(toClient'[t]) : f = toClient'[t][i]
                  \/ \E file \in incomingAttachments'[t] : f = file.start
      BY <1>8 DEF Underway
    <2>2. ASSUME NEW t \in Session, NEW i \in 1 .. Len(toServer'[t]), f = toServer'[t][i]
          PROVE  \/ Underway(f)
                 \/ /\ \E l \in 1 .. Len(frames) : f = frames[l]
                    /\ OneFile(s, frames) /\ f.id = n0
      <3>1. CASE t = s
        BY <1>7, <2>1, <2>2, <3>1 DEF Underway
      <3>2. CASE t # s
        BY <1>1, <2>1, <2>2, <3>2 DEF Underway
      <3> QED
        BY <3>1, <3>2
    <2>3. (\/ f \in routes'
           \/ \E t \in Session :
                \/ \E i \in 1 .. Len(toClient'[t]) : f = toClient'[t][i]
                \/ \E file \in incomingAttachments'[t] : f = file.start)
          => Underway(f)
      BY <1>1, <2>1 DEF Underway
    <2> QED
      BY <2>1, <2>2, <2>3
  <1>9. Attributed'
    <2>1. ASSUME NEW f, Underway(f)'
          PROVE  /\ f.id \in Nat /\ f.id <= ops'
                 /\ f.sender \in Name /\ f.target # f.sender
      <3>1. CASE Underway(f)
        BY <1>1, <3>1 DEF Attributed
      <3>2. CASE ~Underway(f)
        <4>1. f.id = n0 /\ f.sender \in Name /\ f.target # f.sender
          BY <1>8, <2>1, <3>2 DEF OneFile
        <4> QED
          BY <1>1, <4>1 DEF n0
      <3> QED
        BY <3>1, <3>2
    <2>2. ASSUME NEW f, NEW h, Underway(f)', Underway(h)', f.id = h.id
          PROVE  SameFile(f, h)
      <3>1. CASE Underway(f) /\ Underway(h)
        BY <2>2, <3>1 DEF Attributed
      <3>2. CASE ~(Underway(f) /\ Underway(h))
        <4>1. f.id = n0 /\ h.id = n0
          BY <1>8, <2>2, <3>2
        <4>2. ~Underway(f) /\ ~Underway(h)
          BY <1>4, <4>1
        <4> QED
          BY <1>8, <2>2, <4>2 DEF OneFile
      <3> QED
        BY <3>1, <3>2
    <2> QED
      BY <2>1, <2>2 DEF Attributed
  <1>10. Signed'
    <2>1. ASSUME NEW t \in Session, NEW i \in 1 .. Len(toServer'[t]),
                 toServer'[t][i].type \in TransferWord
          PROVE  toServer'[t][i].sender = currentUser'[t]
      <3>1. CASE t = s
        BY <1>1, <1>7, <2>1, <3>1 DEF Signed, OneFile
      <3>2. CASE t # s
        BY <1>1, <2>1, <3>2 DEF Signed
      <3> QED
        BY <3>1, <3>2
    <2> QED
      BY <2>1 DEF Signed
  <1>11. QueuesOrdered'
    <2>1. \A t \in Session : Ordered(toServer'[t])
      BY <1>0, <1>1, <1>6
    <2> QED
      BY <1>0, <1>1, <2>1 DEF QueuesOrdered
  <1>12. SentWhole'
    <2>1. ASSUME NEW t \in Session, NEW n, NEW i \in 1 .. Len(toServer'[t]),
                 NEW j \in 1 .. Len(toServer'[t]),
                 StartAt(toServer'[t], n, i), EndAt(toServer'[t], n, j)
          PROVE  ChunksIn(toServer'[t], n, j) = Chunks
      <3>1. CASE t # s
        BY <1>1, <2>1, <3>1 DEF SentWhole
      <3>2. CASE t = s /\ n = n0
        BY <1>6, <2>1, <3>2
      <3>3. CASE t = s /\ n # n0
        <4>1. PartAt(w, n, i) /\ PartAt(w, n, j)
          BY <2>1, <3>3 DEF StartAt, EndAt, PartAt, TransferWord
        <4>2. i \in 1 .. Len(q) /\ j \in 1 .. Len(q)
          BY <1>6, <2>1, <3>3, <4>1
        <4>3. w[i] = q[i] /\ w[j] = q[j]
          BY <1>0, <1>2, <2>1, <3>3, <4>2 DEF Appends
        <4>4. StartAt(q, n, i) /\ EndAt(q, n, j)
          BY <2>1, <3>3, <4>3 DEF StartAt, EndAt
        <4>5. ChunksIn(q, n, j) = Chunks
          BY <4>2, <4>4 DEF SentWhole
        <4>6. ChunksIn(w, n, j) = ChunksIn(q, n, j)
          BY <1>6, <4>2
        <4> QED
          BY <3>3, <4>5, <4>6
      <3> QED
        BY <3>1, <3>2, <3>3
    <2> QED
      BY <2>1 DEF SentWhole
  \* A part of a transfer that a client has heard of is an old one.
  <1>13. ASSUME NEW t \in Session, NEW n, n # n0, NEW i \in 1 .. Len(toServer'[t])
         PROVE  /\ StartAt(toServer'[t], n, i) =>
                     \E l \in 1 .. Len(toServer[t]) : StartAt(toServer[t], n, l)
                /\ PartAt(toServer'[t], n, i) =>
                     \E l \in 1 .. Len(toServer[t]) : PartAt(toServer[t], n, l)
    <2>1. CASE t # s
      BY <1>1, <2>1
    <2>2. CASE t = s
      <3>1. StartAt(w, n, i) => PartAt(w, n, i)
        BY DEF StartAt, PartAt, TransferWord
      <3>2. ASSUME PartAt(w, n, i)
            PROVE  i \in 1 .. Len(q) /\ PartAt(q, n, i) /\ w[i] = q[i]
        <4>1. i \in 1 .. Len(q) /\ PartAt(q, n, i)
          BY <1>6, <1>13, <2>2, <3>2
        <4> QED
          BY <1>0, <1>2, <1>13, <2>2, <4>1 DEF Appends
      <3> QED
        BY <2>2, <3>1, <3>2 DEF StartAt
    <2> QED
      BY <2>1, <2>2
  <1>14. StartedFirst'
    <2>1. ASSUME NEW t \in Session, NEW r \in Session, NEW n,
                 NEW i \in 1 .. Len(toServer'[t]), StartAt(toServer'[t], n, i),
                 NEW j \in 1 .. Len(toClient[r]), PartAt(toClient[r], n, j)
          PROVE  FALSE
      BY <1>5, <1>13, <2>1 DEF StartedFirst
    <2> QED
      BY <1>1, <2>1 DEF StartedFirst
  <1>15. EndedLast'
    <2>1. ASSUME NEW t \in Session, NEW r \in Session, NEW n,
                 NEW j \in 1 .. Len(toClient[r]), EndAt(toClient[r], n, j),
                 NEW i \in 1 .. Len(toServer'[t]), PartAt(toServer'[t], n, i)
          PROVE  FALSE
      <3>1. PartAt(toClient[r], n, j)
        BY <2>1 DEF EndAt, PartAt, TransferWord
      <3> QED
        BY <1>5, <1>13, <2>1, <3>1 DEF EndedLast
    <2> QED
      BY <1>1, <2>1 DEF EndedLast
  <1>16. Opened'
    BY <1>1 DEF Opened
  <1>17. ASSUME NEW t \in Session, NEW n, NEW j \in 1 .. Len(toServer'[t]),
                EndAt(toServer'[t], n, j)
         PROVE  \/ n = n0
                \/ /\ j \in 1 .. Len(toServer[t]) /\ EndAt(toServer[t], n, j)
                   /\ ChunksIn(toServer'[t], n, j) = ChunksIn(toServer[t], n, j)
    <2>1. CASE t # s
      BY <1>1, <1>17, <2>1
    <2>2. CASE t = s /\ n # n0
      <3>1. PartAt(w, n, j)
        BY <1>17, <2>2 DEF EndAt, PartAt, TransferWord
      <3>2. j \in 1 .. Len(q)
        BY <1>6, <1>17, <2>2, <3>1
      <3>3. w[j] = q[j]
        BY <1>0, <1>2, <1>17, <2>2, <3>2 DEF Appends
      <3> QED
        BY <1>6, <1>17, <2>2, <3>2, <3>3 DEF EndAt
    <2> QED
      BY <2>1, <2>2
  <1> QED
    BY <1>9, <1>10, <1>11, <1>12, <1>14, <1>15, <1>16, <1>17 DEF n0


-----------------------------------------------------------------------------
(* A client takes a frame and shows it.                                    *)

LEMMA AttachmentWord ==
    ASSUME NEW raw \in Raw
    PROVE  /\ fromJson(raw).type = "AttachmentStart" => raw.type = "attachment_start"
           /\ fromJson(raw).type = "AttachmentEnd" => raw.type = "attachment_end"
  <1>1. CASE raw = Garbled
    <2>1. fromJson(raw).type = "Unknown"
      BY <1>1 DEF fromJson, NoMessage, NewMessage
    <2> QED
      BY <2>1
  <1>2. CASE raw # Garbled
    <2>1. fromJson(raw).type = stringToMessageType(raw.type)
      BY <1>2 DEF fromJson, Raw
    <2> QED
      BY <2>1 DEF stringToMessageType
  <1> QED
    BY <1>1, <1>2

\* What happens to the files of one client.
ShowsFile(raw, open, received, open1, received1) ==
    /\ \A file \in open1 :
         \/ raw.type = "attachment_start" /\ file.start = raw /\ file.written = 0
         \/ file \in open /\ ~(raw.type = "binary" /\ fileId(file.start) = fileId(raw))
         \/ /\ raw.type = "binary"
            /\ \E old \in open : /\ fileId(old.start) = fileId(raw)
                                 /\ file.start = old.start
                                 /\ file.written = old.written + 1
    /\ \A file \in received1 :
         \/ file \in received
         \/ /\ raw.type = "attachment_end"
            /\ file \in open /\ fileId(file.start) = fileId(raw)

LEMMA ShowFiles ==
    ASSUME StateTypeOK, NEW s \in Session, NEW raw \in Raw, ShowFrame(s, raw)
    PROVE  /\ ShowsFile(raw, incomingAttachments[s], receivedFiles[s],
                        incomingAttachments'[s], receivedFiles'[s])
           /\ \A t \in Session \ {s} :
                /\ incomingAttachments'[t] = incomingAttachments[t]
                /\ receivedFiles'[t] = receivedFiles[t]
  <1>0. /\ incomingAttachments \in [Session -> SUBSET ReceivedFile]
        /\ receivedFiles \in [Session -> SUBSET ReceivedFile]
    BY DEF StateTypeOK
  <1>1. CASE writeChunk(s, raw)
    <2>1. /\ raw.type = "binary" /\ receivedFiles' = receivedFiles
          /\ incomingAttachments'[s] = (incomingAttachments[s] \ Incoming(s, raw))
               \cup { [file EXCEPT !.written = @ + 1] : file \in Incoming(s, raw) }
          /\ \A t \in Session \ {s} : incomingAttachments'[t] = incomingAttachments[t]
      BY <1>0, <1>1 DEF writeChunk
    <2>2. ASSUME NEW file \in incomingAttachments'[s], file \notin incomingAttachments[s]
                   \/ file \in Incoming(s, raw)
          PROVE  \E old \in incomingAttachments[s] :
                   /\ fileId(old.start) = fileId(raw)
                   /\ file.start = old.start
                   /\ file.written = old.written + 1
      <3>1. PICK old \in Incoming(s, raw) : file = [old EXCEPT !.written = @ + 1]
        BY <2>1, <2>2
      <3>2. old \in incomingAttachments[s] /\ fileId(old.start) = fileId(raw)
        BY DEF Incoming
      <3>3. old \in ReceivedFile
        BY <1>0, <3>2
      <3>4. file.start = old.start /\ file.written = old.written + 1
        BY <3>1, <3>3 DEF ReceivedFile
      <3> QED
        BY <3>2, <3>4
    <2> QED
      BY <2>1, <2>2 DEF ShowsFile, Incoming
  <1>2. CASE raw.type # "binary" /\ startIncomingAttachment(s, raw)
    <2>1. raw.type = "attachment_start" /\ receivedFiles' = receivedFiles
      BY <1>2, AttachmentWord DEF startIncomingAttachment
    <2>2. CASE openFile(s, raw)
      <3>1. /\ incomingAttachments'[s] = (incomingAttachments[s] \ Incoming(s, raw))
                 \cup {[start |-> raw, written |-> 0]}
            /\ \A t \in Session \ {s} : incomingAttachments'[t] = incomingAttachments[t]
        BY <1>0, <2>2 DEF openFile
      <3> QED
        BY <2>1, <3>1 DEF ShowsFile
    <2>3. CASE UNCHANGED incomingAttachments
      BY <2>1, <2>3 DEF ShowsFile
    <2> QED
      BY <1>2, <2>2, <2>3 DEF startIncomingAttachment
  <1>3. CASE raw.type # "binary" /\ finishIncomingAttachment(s, raw)
    <2>1. raw.type = "attachment_end"
      BY <1>3, AttachmentWord DEF finishIncomingAttachment
    <2>2. CASE Incoming(s, raw) = {}
      BY <1>3, <2>1, <2>2 DEF finishIncomingAttachment, stateVars, ShowsFile
    <2>3. CASE Incoming(s, raw) # {}
      <3>1. PICK file \in Incoming(s, raw) :
              /\ incomingAttachments' = [incomingAttachments EXCEPT ![s] = @ \ {file}]
              /\ receivedFiles' = [receivedFiles EXCEPT ![s] = @ \cup {file}]
        BY <1>3, <2>3 DEF finishIncomingAttachment
      <3>2. /\ incomingAttachments'[s] = incomingAttachments[s] \ {file}
            /\ receivedFiles'[s] = receivedFiles[s] \cup {file}
            /\ \A t \in Session \ {s} :
                 /\ incomingAttachments'[t] = incomingAttachments[t]
                 /\ receivedFiles'[t] = receivedFiles[t]
        BY <1>0, <3>1
      <3>3. file \in incomingAttachments[s] /\ fileId(file.start) = fileId(raw)
        BY DEF Incoming
      <3> QED
        BY <2>1, <3>2, <3>3 DEF ShowsFile
    <2> QED
      BY <2>2, <2>3
  <1>4. CASE raw.type # "binary" /\ UNCHANGED <<incomingAttachments, receivedFiles>>
    BY <1>4 DEF ShowsFile
  <1>5. \/ writeChunk(s, raw)
        \/ raw.type # "binary" /\ startIncomingAttachment(s, raw)
        \/ raw.type # "binary" /\ finishIncomingAttachment(s, raw)
        \/ raw.type # "binary" /\ UNCHANGED <<incomingAttachments, receivedFiles>>
    BY DEF ShowFrame, ShowMessage, setOnlineUsers, stateVars
  <1> QED
    BY <1>1, <1>2, <1>3, <1>4, <1>5

LEMMA ShowTakes ==
    ASSUME TypeOK, NEW s \in Session, Receive(s)
    PROVE  /\ 1 \in 1 .. Len(toClient[s]) /\ Head(toClient[s]) = toClient[s][1]
           /\ Head(toClient[s]) \in Raw
           /\ Len(toClient[s]) = Len(toClient'[s]) + 1
           /\ \A i \in 1 .. Len(toClient'[s]) : toClient'[s][i] = toClient[s][i + 1]
           /\ \A t \in Session \ {s} : toClient'[t] = toClient[t]
           /\ UNCHANGED <<toServer, routes, ops, currentUser, linkUp, session>>
           /\ UNCHANGED <<users, username, groups, clients>>
  <1>1. /\ toClient[s] \in Seq(Raw) /\ toClient[s] # <<>>
        /\ Head(toClient[s]) \in Raw /\ toClient'[s] \in Seq(Raw)
        /\ toClient[s] = <<Head(toClient[s])>> \o toClient'[s]
        /\ \A t \in Session \ {s} : toClient'[t] = toClient[t]
    BY Taken
  <1>2. /\ UNCHANGED <<toServer, routes, ops, currentUser, linkUp, session>>
        /\ UNCHANGED <<users, username, groups, clients>>
    BY DEF Receive, ReceiveFrame, serverVars, memoryVars
  <1>3. toClient'[s] = Tail(toClient[s])
    BY DEF Receive, ReceiveFrame, TakeFrame, TypeOK, ConnTypeOK
  <1> HIDE DEF Receive
  <1>4. /\ 1 \in 1 .. Len(toClient[s]) /\ Head(toClient[s]) = toClient[s][1]
        /\ Len(toClient[s]) = Len(toClient'[s]) + 1
        /\ \A i \in 1 .. Len(toClient'[s]) : toClient'[s][i] = toClient[s][i + 1]
    <2>1. PICK q \in Seq(Raw) : q = toClient[s]
      BY <1>1
    <2>2. q # <<>> /\ toClient'[s] = Tail(q)
      BY <1>1, <1>3, <2>1
    <2>3. /\ 1 \in 1 .. Len(q) /\ Head(q) = q[1]
          /\ Len(q) = Len(Tail(q)) + 1
          /\ \A i \in 1 .. Len(Tail(q)) : Tail(q)[i] = q[i + 1]
      BY <2>2, LenProperties, EmptySeq, HeadTailProperties
    <2> QED
      BY <2>1, <2>2, <2>3
  <1> QED
    BY <1>1, <1>2, <1>4

LEMMA ShowPlaced ==
    ASSUME TypeOK, StateTypeOK, Placed, QueueLengths, QueueLengths',
           NEW s \in Session, Show(s)
    PROVE  Placed'
  <1> USE DEF Placed
  <1> DEFINE q == toClient[s]
             w == toClient'[s]
  <1>1. Receive(s) /\ ShowFrame(s, Head(q))
    BY DEF Show
  <1>2. /\ 1 \in 1 .. Len(q) /\ Head(q) = q[1] /\ Head(q) \in Raw
        /\ Len(q) = Len(w) + 1
        /\ \A i \in 1 .. Len(w) : w[i] = q[i + 1]
        /\ \A t \in Session \ {s} : toClient'[t] = toClient[t]
        /\ UNCHANGED <<toServer, routes, ops, currentUser>>
    BY <1>1, ShowTakes
  <1>3. /\ ShowsFile(q[1], incomingAttachments[s], receivedFiles[s],
                     incomingAttachments'[s], receivedFiles'[s])
        /\ \A t \in Session \ {s} : incomingAttachments'[t] = incomingAttachments[t]
    BY <1>1, <1>2, ShowFiles
  <1>4. \A t \in Session : \A file \in incomingAttachments'[t] :
          \/ \E old \in incomingAttachments[t] : file.start = old.start
          \/ t = s /\ file.start = q[1] /\ q[1].type = "attachment_start"
    BY <1>3 DEF ShowsFile
  <1>0. Len(q) \in Nat /\ Len(w) \in Nat
    BY DEF QueueLengths
  <1>5. \A t \in Session : \A i \in 1 .. Len(toClient'[t]) :
          \E j \in 1 .. Len(toClient[t]) : toClient'[t][i] = toClient[t][j]
    <2>1. \A i \in 1 .. Len(w) : i + 1 \in 1 .. Len(q) /\ w[i] = q[i + 1]
      BY <1>0, <1>2
    <2>2. ASSUME NEW t \in Session, NEW i \in 1 .. Len(toClient'[t])
          PROVE  \E j \in 1 .. Len(toClient[t]) : toClient'[t][i] = toClient[t][j]
      <3>1. CASE t = s
        BY <2>1, <2>2, <3>1
      <3>2. CASE t # s
        BY <1>2, <2>2, <3>2
      <3> QED
        BY <3>1, <3>2
    <2> QED
      BY <2>2
  <1> HIDE DEF q, w
  <1>6. ASSUME NEW f, Underway(f)' PROVE Underway(f)
    <2>1. /\ f.type \in TransferWord
          /\ \/ f \in routes'
             \/ \E t \in Session :
                  \/ \E i \in 1 .. Len(toServer'[t]) : f = toServer'[t][i]
                  \/ \E i \in 1 .. Len(toClient'[t]) : f = toClient'[t][i]
                  \/ \E file \in incomingAttachments'[t] : f = file.start
      BY <1>6 DEF Underway
    <2>2. ASSUME NEW t \in Session, NEW file \in incomingAttachments'[t], f = file.start
          PROVE  Underway(f)
      BY <1>2, <1>4, <2>1, <2>2 DEF Underway, q
    <2> QED
      BY <1>2, <1>5, <2>1, <2>2, SMTT(40) DEF Underway
  <1>7. Attributed'
    <2>1. \A f : Underway(f) => /\ f.id \in Nat /\ f.id <= ops
                                /\ f.sender \in Name /\ f.target # f.sender
      BY DEF Attributed
    <2>2. \A f, h : Underway(f) /\ Underway(h) /\ f.id = h.id => SameFile(f, h)
      BY DEF Attributed
    <2> QED
      BY <1>2, <1>6, <2>1, <2>2 DEF Attributed
  <1>8. Signed' /\ SentWhole' /\ \A t \in Session : Ordered(toServer'[t])
    BY <1>2 DEF Signed, SentWhole, QueuesOrdered
  <1>9. QueuesOrdered'
    <2>1. Window(q, 1, w)
      BY <1>0, <1>2 DEF Window
    <2>2. Trimmed(q, w)
      BY <2>1 DEF Trimmed
    <2>3. Ordered(q)
      BY DEF QueuesOrdered, q
    <2>4. Ordered(w)
      BY <1>0, <2>2, <2>3, TrimmedOrdered
    <2>5. \A t \in Session : Ordered(toClient'[t])
      BY <1>2, <2>4 DEF QueuesOrdered, w
    <2> QED
      BY <1>8, <2>5 DEF QueuesOrdered
  <1>10. StartedFirst'
    <2>1. ASSUME NEW t \in Session, NEW r \in Session, NEW n,
                 NEW i \in 1 .. Len(toServer[t]), StartAt(toServer[t], n, i),
                 NEW j \in 1 .. Len(toClient'[r]), PartAt(toClient'[r], n, j)
          PROVE  FALSE
      <3>1. PICK l \in 1 .. Len(toClient[r]) : toClient'[r][j] = toClient[r][l]
        BY <1>5
      <3>2. PartAt(toClient[r], n, l)
        BY <2>1, <3>1 DEF PartAt
      <3> QED
        BY <2>1, <3>2 DEF StartedFirst
    <2> QED
      BY <1>2, <2>1 DEF StartedFirst
  <1>11. EndedLast'
    <2>1. ASSUME NEW t \in Session, NEW r \in Session, NEW n,
                 NEW j \in 1 .. Len(toClient'[r]), EndAt(toClient'[r], n, j),
                 NEW i \in 1 .. Len(toServer[t]), PartAt(toServer[t], n, i)
          PROVE  FALSE
      <3>1. PICK l \in 1 .. Len(toClient[r]) : toClient'[r][j] = toClient[r][l]
        BY <1>5
      <3>2. EndAt(toClient[r], n, l)
        BY <2>1, <3>1 DEF EndAt
      <3> QED
        BY <2>1, <3>2 DEF EndedLast
    <2> QED
      BY <1>2, <2>1 DEF EndedLast
  <1>12. Opened'
    BY <1>2, <1>4 DEF Opened
  <1> QED
    BY <1>7, <1>8, <1>9, <1>10, <1>11, <1>12


-----------------------------------------------------------------------------
(* How many chunks a client has, and how many are still to come.           *)

\* The client r has opened the file of a start message, with w chunks in it,
\* or is about to open it.
Expects(r, start, w) ==
    \/ \E file \in incomingAttachments[r] : file.start = start /\ file.written = w
    \/ /\ w = 0 /\ start.type = "attachment_start"
       /\ \E i \in 1 .. Len(toClient[r]) : toClient[r][i] = start

\* What a client hears of its own private file are the echoes, and those of
\* the chunks go to whoever has its name.
Own(r, start) == start.target # Empty /\ start.sender = currentUser[r]

Counted(r, start) == Own(r, start) => ExclusiveNames /\ QuotedNames = {}

\* Who gets the chunks of a file now, and who may get them at all.
Audience(start) ==
    IF start.target # Empty THEN RegisteredAs(start.target) \cup RegisteredAs(start.sender)
    ELSE IF start.groupId # Empty THEN groups[start.groupId]
    ELSE clients

Belongs(r, start) ==
    IF start.target # Empty THEN username[r] # Empty ELSE r \in Audience(start)

\* At the end message every chunk has been written.
AtEnd(r, start, w) ==
    Counted(r, start) =>
      \A i \in 1 .. Len(toClient[r]) : EndAt(toClient[r], start.id, i) =>
        w + ChunksIn(toClient[r], start.id, i) = Chunks

\* While the end has not been read, what is missing is on its way.
Still(r, start, w) ==
    linkUp[r] /\ Counted(r, start) =>
      /\ Belongs(r, start)
      /\ r \in Audience(start) =>
           \A s \in Session : \A i \in 1 .. Len(toServer[s]) :
             EndAt(toServer[s], start.id, i) =>
               w + ChunksIn(toClient[r], start.id, Len(toClient[r]))
                 + ChunksIn(toServer[s], start.id, i) = Chunks

Whole(r, start, w) == AtEnd(r, start, w) /\ Still(r, start, w)

Counts == \A r \in Session : \A start, w : Expects(r, start, w) => Whole(r, start, w)

WholeReceived ==
    \A r \in Session : \A file \in receivedFiles[r] :
      Counted(r, file.start) => file.written = Chunks

Unused ==
    \A s \in Session : session[s] = "none" =>
      incomingAttachments[s] = {} /\ receivedFiles[s] = {}

-----------------------------------------------------------------------------
(* Steps that change nothing about a file.                                 *)

EndsKept(n) ==
    \A s \in Session : \A i \in 1 .. Len(toServer'[s]) :
      EndAt(toServer'[s], n, i) =>
        \E j \in 1 .. Len(toServer[s]) :
          /\ EndAt(toServer[s], n, j)
          /\ ChunksIn(toServer'[s], n, i) = ChunksIn(toServer[s], n, j)

\* A queue is cut at its end, or grows, by no chunk of file n and not its end.
Aside(q, w, n) ==
    \A i \in 1 .. Len(w) :
      IF i <= Len(q) THEN w[i] = q[i] ELSE ~EndAt(w, n, i) /\ ~ChunkAt(w, n, i)

LEMMA AsideCounts ==
    ASSUME NEW q, NEW w, NEW n, Len(q) \in Nat, Len(w) \in Nat, Aside(q, w, n)
    PROVE  /\ \A i \in 1 .. Len(w) : EndAt(w, n, i) =>
                /\ i \in 1 .. Len(q) /\ EndAt(q, n, i)
                /\ ChunksIn(w, n, i) = ChunksIn(q, n, i)
           /\ Len(q) <= Len(w) =>
                ChunksIn(w, n, Len(w)) = ChunksIn(q, n, Len(q))
  <1>1. ASSUME NEW i \in 1 .. Len(w), EndAt(w, n, i)
        PROVE  /\ i \in 1 .. Len(q) /\ EndAt(q, n, i)
               /\ ChunksIn(w, n, i) = ChunksIn(q, n, i)
    <2>1. i \in 1 .. Len(q) /\ w[i] = q[i] /\ i \in Nat
      BY <1>1 DEF Aside
    <2>2. \A j \in 1 .. i : ChunkAt(w, n, j) <=> ChunkAt(q, n, j)
      BY <2>1 DEF Aside, ChunkAt
    <2>3. ChunksIn(w, n, i) = ChunksIn(q, n, i)
      BY <2>1, <2>2, CountSame
    <2> QED
      BY <1>1, <2>1, <2>3 DEF EndAt
  <1>2. ASSUME Len(q) <= Len(w)
        PROVE  ChunksIn(w, n, Len(w)) = ChunksIn(q, n, Len(q))
    <2>1. \A j \in 1 .. Len(q) : ChunkAt(w, n, j) <=> ChunkAt(q, n, j)
      BY <1>2 DEF Aside, ChunkAt
    <2>2. ChunksIn(w, n, Len(q)) = ChunksIn(q, n, Len(q))
      BY <2>1, CountSame
    <2>3. \A j \in Len(q) + 1 .. Len(w) : ~ChunkAt(w, n, j)
      BY DEF Aside
    <2>4. ChunksIn(w, n, Len(w)) = ChunksIn(w, n, Len(q))
      BY <1>2, <2>3, CountBeyond
    <2> QED
      BY <2>2, <2>4
  <1> QED
    BY <1>1, <1>2

\* Whoever belongs to the audience of a file still does, and nobody else.
StaysPut(r, start) ==
    Belongs(r, start) =>
      /\ Belongs(r, start)'
      /\ (r \in Audience(start))' => r \in Audience(start)

LEMMA WholeKept ==
    ASSUME QueueLengths, QueueLengths', NEW r \in Session, NEW start, NEW w,
           Whole(r, start, w),
           currentUser'[r] = currentUser[r],
           Aside(toClient[r], toClient'[r], start.id),
           linkUp'[r] => /\ linkUp[r] /\ Len(toClient[r]) <= Len(toClient'[r])
                         /\ EndsKept(start.id)
                         /\ StaysPut(r, start)
    PROVE  Whole(r, start, w)'
  <1>0. Len(toClient[r]) \in Nat /\ Len(toClient'[r]) \in Nat
    BY DEF QueueLengths
  <1>1. /\ \A i \in 1 .. Len(toClient'[r]) : EndAt(toClient'[r], start.id, i) =>
             /\ i \in 1 .. Len(toClient[r]) /\ EndAt(toClient[r], start.id, i)
             /\ ChunksIn(toClient'[r], start.id, i) = ChunksIn(toClient[r], start.id, i)
        /\ Len(toClient[r]) <= Len(toClient'[r]) =>
             ChunksIn(toClient'[r], start.id, Len(toClient'[r]))
               = ChunksIn(toClient[r], start.id, Len(toClient[r]))
    BY <1>0, AsideCounts
  <1>2. Counted(r, start)' <=> Counted(r, start)
    BY DEF Counted, Own
  <1>3. AtEnd(r, start, w)'
    BY <1>1, <1>2 DEF Whole, AtEnd
  <1>4. ASSUME linkUp'[r], Counted(r, start)
        PROVE  /\ Belongs(r, start)'
               /\ (r \in Audience(start))' =>
                    \A s \in Session : \A i \in 1 .. Len(toServer'[s]) :
                      EndAt(toServer'[s], start.id, i) =>
                        w + ChunksIn(toClient'[r], start.id, Len(toClient'[r]))
                          + ChunksIn(toServer'[s], start.id, i) = Chunks
    <2>1. /\ Belongs(r, start)
          /\ r \in Audience(start) =>
               \A s \in Session : \A i \in 1 .. Len(toServer[s]) :
                 EndAt(toServer[s], start.id, i) =>
                   w + ChunksIn(toClient[r], start.id, Len(toClient[r]))
                     + ChunksIn(toServer[s], start.id, i) = Chunks
      BY <1>4 DEF Whole, Still
    <2>2. Belongs(r, start)' /\ ((r \in Audience(start))' => r \in Audience(start))
      BY <1>4, <2>1 DEF StaysPut
    <2>3. ASSUME r \in Audience(start), NEW s \in Session,
                 NEW i \in 1 .. Len(toServer'[s]), EndAt(toServer'[s], start.id, i)
          PROVE  w + ChunksIn(toClient'[r], start.id, Len(toClient'[r]))
                   + ChunksIn(toServer'[s], start.id, i) = Chunks
      <3>1. PICK j \in 1 .. Len(toServer[s]) :
              /\ EndAt(toServer[s], start.id, j)
              /\ ChunksIn(toServer'[s], start.id, i) = ChunksIn(toServer[s], start.id, j)
        BY <1>4, <2>3 DEF EndsKept
      <3>2. w + ChunksIn(toClient[r], start.id, Len(toClient[r]))
              + ChunksIn(toServer[s], start.id, j) = Chunks
        BY <2>1, <2>3, <3>1
      <3> QED
        BY <1>1, <1>4, <3>1, <3>2
    <2> QED
      BY <2>2, <2>3
  <1>5. Still(r, start, w)'
    BY <1>2, <1>4 DEF Still
  <1> QED
    BY <1>3, <1>5 DEF Whole


LEMMA OperateCounts ==
    ASSUME TypeOK, Placed, Transfers, Counts, NEW s \in Session, Operate(s),
           QueueLengths, QueueLengths', UNCHANGED incomingAttachments
    PROVE  Counts'
  <1>1. /\ ops \in Nat
        /\ UNCHANGED <<toClient, routes, currentUser, linkUp>>
        /\ UNCHANGED <<groups, clients, users, username>>
    BY OperateAppends
  <1>2. \A t \in Session : \A n : \A j \in 1 .. Len(toServer'[t]) :
          EndAt(toServer'[t], n, j) =>
            \/ n = ops + 1
            \/ /\ j \in 1 .. Len(toServer[t]) /\ EndAt(toServer[t], n, j)
               /\ ChunksIn(toServer'[t], n, j) = ChunksIn(toServer[t], n, j)
    BY OperatePlaced
  <1>3. ASSUME NEW r \in Session, NEW start, NEW w, Expects(r, start, w)'
        PROVE  Whole(r, start, w)'
    <2>1. Expects(r, start, w)
      BY <1>1, <1>3 DEF Expects
    <2>2. Underway(start)
      <3>1. start.type \in TransferWord
        BY <2>1 DEF Expects, Placed, Opened, TransferWord
      <3> QED
        BY <2>1, <3>1 DEF Expects, Underway
    <2>3. start.id # ops + 1
      <3>1. start.id \in Nat /\ start.id <= ops
        BY <2>2 DEF Placed, Attributed
      <3> QED
        BY <1>1, <3>1
    <2>4. EndsKept(start.id)
      BY <1>2, <2>3 DEF EndsKept
    <2>5. StaysPut(r, start)
      BY <1>1 DEF StaysPut, Belongs, Audience, RegisteredAs
    <2>6. Aside(toClient[r], toClient'[r], start.id)
      BY <1>1 DEF Aside
    <2>7. Len(toClient[r]) <= Len(toClient'[r])
      BY <1>1 DEF QueueLengths
    <2>8. Whole(r, start, w)
      BY <2>1 DEF Counts
    <2> QED
      BY <1>1, <2>4, <2>5, <2>6, <2>7, <2>8, WholeKept
  <1> QED
    BY <1>3 DEF Counts

LEMMA ShowCounts ==
    ASSUME TypeOK, StateTypeOK, Placed, Counts, WholeReceived,
           QueueLengths, QueueLengths', NEW s \in Session, Show(s)
    PROVE  Counts' /\ WholeReceived'
  <1> DEFINE q  == toClient[s]
             q1 == toClient'[s]
             raw == q[1]
  <1>1. Receive(s) /\ ShowFrame(s, Head(q))
    BY DEF Show
  <1>2. /\ 1 \in 1 .. Len(q) /\ Head(q) = raw /\ Head(q) \in Raw
        /\ Len(q) = Len(q1) + 1
        /\ \A i \in 1 .. Len(q1) : q1[i] = q[i + 1]
        /\ \A t \in Session \ {s} : toClient'[t] = toClient[t]
        /\ UNCHANGED <<toServer, routes, ops, currentUser, linkUp>>
        /\ UNCHANGED <<users, username, groups, clients>>
    BY <1>1, ShowTakes
  <1>3. /\ ShowsFile(raw, incomingAttachments[s], receivedFiles[s],
                     incomingAttachments'[s], receivedFiles'[s])
        /\ \A t \in Session \ {s} : /\ incomingAttachments'[t] = incomingAttachments[t]
                                    /\ receivedFiles'[t] = receivedFiles[t]
    BY <1>1, <1>2, ShowFiles
  <1>4. /\ Len(q) \in Nat /\ Len(q1) \in Nat /\ Ordered(q)
        /\ \A file \in incomingAttachments[s] : file.written \in Nat
    <2>1. incomingAttachments[s] \subseteq ReceivedFile
      BY DEF StateTypeOK
    <2>2. \A file \in ReceivedFile : file.written \in Nat
      BY DEF ReceivedFile
    <2> QED
      BY <2>1, <2>2 DEF QueueLengths, Placed, QueuesOrdered
  <1>5. \A r \in Session : \A start :
          /\ EndsKept(start.id) /\ StaysPut(r, start)
          /\ Counted(r, start)' <=> Counted(r, start)
    BY <1>2 DEF EndsKept, StaysPut, Belongs, Audience, RegisteredAs, Counted, Own
  <1>6. ASSUME NEW r \in Session, r # s, NEW start, NEW w, Expects(r, start, w)'
        PROVE  Whole(r, start, w)'
    <2>1. toClient'[r] = toClient[r] /\ incomingAttachments'[r] = incomingAttachments[r]
      BY <1>2, <1>3, <1>6
    <2>2. Whole(r, start, w)
      BY <1>6, <2>1 DEF Expects, Counts
    <2>3. Aside(toClient[r], toClient'[r], start.id) /\ Len(toClient[r]) <= Len(toClient'[r])
      BY <2>1 DEF Aside, QueueLengths
    <2> QED
      BY <1>2, <1>5, <2>2, <2>3, WholeKept
  \* The chunk a file gains is the one that its queue loses.
  <1>7. ASSUME NEW start, NEW w, Expects(s, start, w)'
        PROVE  \E v \in Nat : /\ Expects(s, start, v)
                              /\ \/ w = v /\ ~ChunkAt(q, start.id, 1)
                                 \/ w = v + 1 /\ ChunkAt(q, start.id, 1)
    <2>1. CASE \E i \in 1 .. Len(q1) : q1[i] = start /\ w = 0
                 /\ start.type = "attachment_start"
      <3>1. PICK i \in 1 .. Len(q1) : q1[i] = start
        BY <2>1
      <3>2. i + 1 \in 1 .. Len(q) /\ q[i + 1] = start
        BY <1>2, <1>4, <3>1
      <3>3. Expects(s, start, 0)
        BY <2>1, <3>2 DEF Expects
      <3>4. ~ChunkAt(q, start.id, 1)
        <4>1. StartAt(q, start.id, i + 1)
          BY <2>1, <3>2 DEF StartAt
        <4>2. PartAt(q, start.id, 1) => i + 1 <= 1
          BY <1>2, <1>4, <3>2, <4>1 DEF Ordered
        <4>3. ~(i + 1 <= 1)
          BY <1>4
        <4> QED
          BY <4>2, <4>3 DEF ChunkAt, PartAt, TransferWord
      <3> QED
        BY <2>1, <3>3, <3>4
    <2>2. ASSUME NEW file \in incomingAttachments'[s], file.start = start, file.written = w
          PROVE  \E v \in Nat : /\ Expects(s, start, v)
                                /\ \/ w = v /\ ~ChunkAt(q, start.id, 1)
                                   \/ w = v + 1 /\ ChunkAt(q, start.id, 1)
      <3>1. CASE raw.type = "attachment_start" /\ file.start = raw /\ file.written = 0
        <4>1. Expects(s, start, 0)
          BY <1>2, <2>2, <3>1 DEF Expects
        <4>2. ~ChunkAt(q, start.id, 1) /\ 0 \in Nat /\ w = 0
          BY <2>2, <3>1 DEF ChunkAt
        <4> QED
          BY <4>1, <4>2
      <3>2. CASE /\ file \in incomingAttachments[s]
                 /\ ~(raw.type = "binary" /\ fileId(file.start) = fileId(raw))
        <4>1. Expects(s, start, w) /\ w \in Nat
          BY <1>4, <2>2, <3>2 DEF Expects
        <4>2. ASSUME ChunkAt(q, start.id, 1) PROVE FALSE
          <5>1. raw.type = "binary" /\ raw.id = start.id
            BY <4>2 DEF ChunkAt
          <5>2. Underway(raw)
            BY <1>2, <5>1 DEF Underway, TransferWord
          <5>3. Underway(file.start)
            BY <3>2 DEF Underway, Placed, Opened, TransferWord
          <5>4. SameFile(file.start, raw)
            BY <2>2, <5>1, <5>2, <5>3 DEF Placed, Attributed
          <5> QED
            BY <2>2, <3>2, <5>1, <5>4 DEF SameFile, fileId
        <4> QED
          BY <4>1, <4>2
      <3>3. CASE /\ raw.type = "binary"
                 /\ \E old \in incomingAttachments[s] :
                      /\ fileId(old.start) = fileId(raw)
                      /\ file.start = old.start
                      /\ file.written = old.written + 1
        <4>1. PICK old \in incomingAttachments[s] :
                /\ fileId(old.start) = fileId(raw)
                /\ file.start = old.start
                /\ file.written = old.written + 1
          BY <3>3
        <4>2. ChunkAt(q, start.id, 1)
          BY <2>2, <3>3, <4>1 DEF ChunkAt, fileId
        <4>3. Expects(s, start, old.written) /\ old.written \in Nat
          BY <1>4, <2>2, <4>1 DEF Expects
        <4> QED
          BY <2>2, <4>1, <4>2, <4>3
      <3> QED
        BY <1>3, <2>2, <3>1, <3>2, <3>3 DEF ShowsFile
    <2> QED
      BY <1>7, <2>1, <2>2 DEF Expects
  <1>8. ASSUME NEW start, NEW w, Expects(s, start, w)'
        PROVE  Whole(s, start, w)'
    <2> DEFINE n == start.id
    <2>1. PICK v \in Nat : /\ Expects(s, start, v)
                           /\ \/ w = v /\ ~ChunkAt(q, n, 1)
                              \/ w = v + 1 /\ ChunkAt(q, n, 1)
      BY <1>7, <1>8
    <2>2. ASSUME NEW k \in 0 .. Len(q1)
          PROVE  w + ChunksIn(q1, n, k) = v + ChunksIn(q, n, k + 1)
      <3>1. \A i \in 1 .. k : ChunkAt(q1, n, i) <=> ChunkAt(q, n, i + 1)
        <4>1. ASSUME NEW i \in 1 .. k
              PROVE  q1[i] = q[i + 1]
          BY <1>2, <1>4, <2>2
        <4> QED
          BY <4>1 DEF ChunkAt
      <3>2. k \in Nat /\ ChunksIn(q1, n, k) \in Nat
        <4>1. k \in Nat
          BY <1>4, <2>2
        <4> QED
          BY <4>1, CountFinite, ZenonT(60)
      <3>3. CASE w = v /\ ~ChunkAt(q, n, 1)
        <4>1. \A i \in 1 .. 1 : ~ChunkAt(q, n, i)
          BY <3>3
        <4>2. ChunksIn(q, n, k + 1) = ChunksIn(q1, n, k)
          BY <3>1, <3>2, <4>1, CountShift
        <4> QED
          BY <3>3, <4>2
      <3>4. CASE w = v + 1 /\ ChunkAt(q, n, 1)
        <4>1. ChunksIn(q, n, k + 1) = ChunksIn(q1, n, k) + 1
          BY <3>1, <3>2, <3>4, CountShift
        <4> QED
          BY <3>2, <3>4, <4>1
      <3> QED
        BY <2>1, <3>3, <3>4
    <2>3. Whole(s, start, v)
      BY <2>1 DEF Counts
    <2>4. Counted(s, start)' <=> Counted(s, start)
      BY <1>5
    <2>5. AtEnd(s, start, w)'
      <3>1. ASSUME Counted(s, start), NEW i \in 1 .. Len(q1), EndAt(q1, n, i)
            PROVE  w + ChunksIn(q1, n, i) = Chunks
        <4>1. i + 1 \in 1 .. Len(q) /\ EndAt(q, n, i + 1)
          BY <1>2, <1>4, <3>1 DEF EndAt
        <4>2. v + ChunksIn(q, n, i + 1) = Chunks
          BY <2>3, <3>1, <4>1 DEF Whole, AtEnd
        <4>3. i \in 0 .. Len(q1)
          BY <1>4
        <4> QED
          BY <2>2, <4>2, <4>3
      <3> QED
        BY <2>4, <3>1 DEF AtEnd
    <2>6. Still(s, start, w)'
      <3>1. ASSUME linkUp[s], Counted(s, start)
            PROVE  Belongs(s, start)
        BY <2>3, <3>1 DEF Whole, Still
      <3>2. ASSUME linkUp[s], Counted(s, start), s \in Audience(start),
                   NEW t \in Session, NEW i \in 1 .. Len(toServer[t]),
                   EndAt(toServer[t], n, i)
            PROVE  w + ChunksIn(q1, n, Len(q1)) + ChunksIn(toServer[t], n, i) = Chunks
        <4>1. v + ChunksIn(q, n, Len(q)) + ChunksIn(toServer[t], n, i) = Chunks
          BY <2>3, <3>2 DEF Whole, Still
        <4>2. Len(q1) \in 0 .. Len(q1)
          BY <1>4
        <4>3. w + ChunksIn(q1, n, Len(q1)) = v + ChunksIn(q, n, Len(q))
          BY <1>2, <2>2, <4>2
        <4> QED
          BY <4>1, <4>3
      <3>3. /\ Belongs(s, start)' <=> Belongs(s, start)
            /\ Audience(start)' = Audience(start)
        BY <1>2 DEF Belongs, Audience, RegisteredAs
      <3> QED
        BY <1>2, <2>4, <3>1, <3>2, <3>3 DEF Still
    <2> QED
      BY <2>5, <2>6 DEF Whole
  <1>9. Counts'
    BY <1>6, <1>8 DEF Counts
  <1>10. ASSUME NEW r \in Session, NEW file \in receivedFiles'[r],
                Counted(r, file.start)
         PROVE  file.written = Chunks
    <2>1. CASE file \in receivedFiles[r]
      BY <1>10, <2>1 DEF WholeReceived
    <2>2. CASE /\ r = s /\ raw.type = "attachment_end"
               /\ file \in incomingAttachments[s] /\ fileId(file.start) = fileId(raw)
      <3> DEFINE n == file.start.id
      <3>1. EndAt(q, n, 1)
        BY <2>2 DEF EndAt, fileId
      <3>2. Expects(s, file.start, file.written)
        BY <2>2 DEF Expects
      <3>3. file.written + ChunksIn(q, n, 1) = Chunks
        BY <1>2, <1>10, <2>2, <3>1, <3>2 DEF Counts, Whole, AtEnd
      <3>4. ChunksIn(q, n, 1) = 0
        <4>1. \A i \in 1 .. 1 : ~ChunkAt(q, n, i)
          BY <2>2 DEF ChunkAt
        <4> QED
          BY <4>1, CountNone
      <3> QED
        BY <1>4, <2>2, <3>3, <3>4
    <2> QED
      BY <1>3, <1>10, <2>1, <2>2 DEF ShowsFile
  <1>11. WholeReceived'
    BY <1>5, <1>10 DEF WholeReceived
  <1> QED
    BY <1>9, <1>11

-----------------------------------------------------------------------------
(* Steps that say nothing of transfers.                                    *)

\* What w says more than q is about no transfer.
Hushed(q, w) ==
    \A i \in 1 .. Len(w) :
      IF i <= Len(q) THEN w[i] = q[i] ELSE w[i].type \notin TransferWord

\* From q, w lost no frame of a transfer but at its end.
Shortened(q, w) ==
    \/ Window(q, 0, w)
    \/ Mute(w)
    \/ Window(q, 1, w) /\ q[1].type \notin TransferWord

LEMMA ShortenedCounts ==
    ASSUME NEW q, NEW w, Len(q) \in Nat, Len(w) \in Nat, Shortened(q, w),
           NEW n, NEW i \in 1 .. Len(w), EndAt(w, n, i)
    PROVE  \E j \in 1 .. Len(q) : /\ EndAt(q, n, j)
                                  /\ ChunksIn(w, n, i) = ChunksIn(q, n, j)
  <1>0. i \in Nat
    OBVIOUS
  <1>1. CASE Window(q, 0, w)
    <2>1. Len(w) <= Len(q) /\ \A j \in 1 .. Len(w) : w[j] = q[j]
      BY <1>1 DEF Window
    <2>2. \A j \in 1 .. i : ChunkAt(w, n, j) <=> ChunkAt(q, n, j)
      BY <2>1 DEF ChunkAt
    <2>3. ChunksIn(w, n, i) = ChunksIn(q, n, i)
      BY <1>0, <2>2, CountSame
    <2>4. i \in 1 .. Len(q) /\ EndAt(q, n, i)
      BY <2>1 DEF EndAt
    <2> QED
      BY <2>3, <2>4
  <1>2. ~Mute(w)
    BY DEF Mute, EndAt, TransferWord
  <1>3. CASE Window(q, 1, w) /\ q[1].type \notin TransferWord
    <2>1. Len(w) + 1 <= Len(q) /\ \A j \in 1 .. Len(w) : w[j] = q[j + 1]
      BY <1>3 DEF Window
    <2>2. \A j \in 1 .. i : ChunkAt(w, n, j) <=> ChunkAt(q, n, j + 1)
      BY <2>1 DEF ChunkAt
    <2>4. ChunksIn(q, n, i + 1) = ChunksIn(w, n, i)
      <3>1. PICK k \in Nat : k = i
        BY <1>0
      <3>2. \A j \in 1 .. k : ChunkAt(w, n, j) <=> ChunkAt(q, n, j + 1)
        BY <2>2, <3>1
      <3>3. ~ChunkAt(q, n, 1)
        BY <1>3 DEF ChunkAt, TransferWord
      <3>4. ChunksIn(q, n, k + 1) = ChunksIn(w, n, k)
        BY <3>2, <3>3, CountBehind
      <3> QED
        BY <3>1, <3>4
    <2>5. i + 1 \in 1 .. Len(q) /\ EndAt(q, n, i + 1)
      BY <2>1 DEF EndAt
    <2> QED
      BY <2>4, <2>5
  <1> QED
    BY <1>1, <1>2, <1>3 DEF Shortened

LEMMA HushedSays ==
    ASSUME NEW q, NEW w, Len(q) \in Nat, Len(w) \in Nat, Hushed(q, w)
    PROVE  /\ Says(q, w, {})
           /\ \A n : Aside(q, w, n)
  BY DEF Hushed, Says, Aside, EndAt, ChunkAt, TransferWord

\* A client about whose files nothing changes.
Settled(r) ==
    /\ currentUser'[r] = currentUser[r]
    /\ linkUp'[r] => /\ linkUp[r] /\ Len(toClient[r]) <= Len(toClient'[r])
                     /\ \A start \in Raw : StaysPut(r, start)

\* A client that has just connected.
Blank(r) == /\ toClient'[r] = <<>>
            /\ incomingAttachments[r] = {} /\ receivedFiles[r] = {}

Silent ==
    /\ UNCHANGED <<incomingAttachments, receivedFiles, ops>>
    /\ routes' \subseteq routes
    /\ \A s \in Session : /\ Shortened(toServer[s], toServer'[s])
                          /\ Hushed(toClient[s], toClient'[s])
                          /\ currentUser'[s] = currentUser[s] \/ Mute(toServer'[s])
    /\ \A r \in Session : Settled(r) \/ Blank(r)

Files == Placed /\ Counts /\ WholeReceived

LEMMA ExpectedIsRaw ==
    ASSUME TypeOK, StateTypeOK, NEW r \in Session, NEW start, NEW w,
           Expects(r, start, w)
    PROVE  start \in Raw
  <1>1. toClient[r] \in Seq(Raw) /\ incomingAttachments[r] \subseteq ReceivedFile
    BY DEF TypeOK, ConnTypeOK, StateTypeOK
  <1>2. \A file \in ReceivedFile : file.start \in Raw
    BY DEF ReceivedFile
  <1>3. \A i \in 1 .. Len(toClient[r]) : toClient[r][i] \in Raw
    BY <1>1, ElementOfSeq
  <1> QED
    BY <1>1, <1>2, <1>3 DEF Expects

LEMMA ExpectedCount ==
    ASSUME StateTypeOK, NEW r \in Session, NEW start, NEW w, Expects(r, start, w)
    PROVE  w \in Nat
  <1>1. incomingAttachments[r] \subseteq ReceivedFile
    BY DEF StateTypeOK
  <1>2. \A file \in ReceivedFile : file.written \in Nat
    BY DEF ReceivedFile
  <1> QED
    BY <1>1, <1>2 DEF Expects

LEMMA SilentKeepsFiles ==
    ASSUME TypeOK, StateTypeOK, QueueLengths, QueueLengths', Files, OneSender,
           Silent
    PROVE  Files'
  <1> USE DEF Files
  <1>0. \A s \in Session : /\ Len(toServer[s]) \in Nat /\ Len(toServer'[s]) \in Nat
                           /\ Len(toClient[s]) \in Nat /\ Len(toClient'[s]) \in Nat
    BY DEF QueueLengths
  <1>1. Passing({})
    <2>1. \A s \in Session : Trimmed(toServer[s], toServer'[s])
      <3>1. 0 \in Nat /\ 1 \in Nat
        OBVIOUS
      <3> QED
        BY <3>1 DEF Silent, Shortened, Trimmed
    <2>2. \A r \in Session : Says(toClient[r], toClient'[r], {})
      BY <1>0, HushedSays DEF Silent
    <2> QED
      BY <2>1, <2>2 DEF Passing, Silent
  <1>2. Placed'
    <2>1. Attributed' /\ Signed' /\ Opened'
      BY <1>1, PassingAttributed
    <2>2. QueuesOrdered' /\ SentWhole' /\ StartedFirst' /\ EndedLast'
      BY <1>1, PassingInOrder
    <2> QED
      BY <2>1, <2>2 DEF Placed
  <1>3. \A n : EndsKept(n)
    <2>1. ASSUME NEW n, NEW s \in Session, NEW i \in 1 .. Len(toServer'[s]),
                 EndAt(toServer'[s], n, i)
          PROVE  \E j \in 1 .. Len(toServer[s]) :
                   /\ EndAt(toServer[s], n, j)
                   /\ ChunksIn(toServer'[s], n, i) = ChunksIn(toServer[s], n, j)
      <3>1. Shortened(toServer[s], toServer'[s])
        BY DEF Silent
      <3> QED
        BY <1>0, <2>1, <3>1, ShortenedCounts
    <2> QED
      BY <2>1 DEF EndsKept
  <1>4. ASSUME NEW r \in Session, NEW start, NEW w, Expects(r, start, w)'
        PROVE  Whole(r, start, w)'
    <2>1. ~Blank(r)
      BY <1>4 DEF Blank, Expects, Silent
    <2>2. Settled(r) /\ Hushed(toClient[r], toClient'[r])
      BY <2>1 DEF Silent
    <2>3. Expects(r, start, w)
      <3>1. incomingAttachments' = incomingAttachments
        BY DEF Silent
      <3>2. ASSUME NEW i \in 1 .. Len(toClient'[r]), toClient'[r][i] = start,
                   start.type = "attachment_start"
            PROVE  i \in 1 .. Len(toClient[r]) /\ toClient[r][i] = start
        BY <1>0, <2>2, <3>2 DEF Hushed, TransferWord
      <3> QED
        BY <1>4, <3>1, <3>2 DEF Expects
    <2>4. start \in Raw
      BY <2>3, ExpectedIsRaw
    <2>5. Aside(toClient[r], toClient'[r], start.id)
      BY <1>0, <2>2, HushedSays
    <2>6. Whole(r, start, w)
      BY <2>3 DEF Counts
    <2> QED
      BY <1>3, <2>2, <2>4, <2>5, <2>6, WholeKept DEF Settled
  <1>5. Counts'
    BY <1>4 DEF Counts
  <1>6. WholeReceived'
    <2>1. ASSUME NEW r \in Session, NEW file \in receivedFiles'[r],
                 Counted(r, file.start)'
          PROVE  file.written = Chunks
      <3>1. Settled(r) /\ file \in receivedFiles[r]
        BY <2>1 DEF Silent, Blank
      <3>2. Counted(r, file.start)
        BY <2>1, <3>1 DEF Settled, Counted, Own
      <3> QED
        BY <3>1, <3>2 DEF WholeReceived
    <2> QED
      BY <2>1 DEF WholeReceived
  <1> QED
    BY <1>2, <1>5, <1>6


LEMMA StaysTheSame ==
    ASSUME UNCHANGED <<users, username, groups, clients>>
    PROVE  \A r, start : StaysPut(r, start)
  BY DEF StaysPut, Belongs, Audience, RegisteredAs

\* The links of a step that leaves a session's queues alone.
LEMMA QueueStays ==
    ASSUME NEW q, Len(q) \in Nat
    PROVE  Shortened(q, q) /\ Hushed(q, q)
  BY DEF Shortened, Window, Hushed

LEMMA QuietIsSilent ==
    ASSUME TypeOK, Membership, QueueLengths, Unused, UNCHANGED stateVars,
           \/ \E s \in Session :
                \/ \E u \in Name : Connect(s, u)
                \/ Accept(s) /\ UNCHANGED controllerVars
                \/ Break(s)
                \/ LoseWrite(s)
           \/ Crash
           \/ UNCHANGED vars
    PROVE  Silent
  <1>0. ConnTypeOK /\ ServerTypeOK /\ ControllerTypeOK
    BY DEF TypeOK
  <1>1. UNCHANGED <<incomingAttachments, receivedFiles>>
    BY DEF stateVars
  <1>2. \A s \in Session : /\ Len(toServer[s]) \in Nat /\ Len(toClient[s]) \in Nat
                           /\ Shortened(toServer[s], toServer[s])
                           /\ Hushed(toClient[s], toClient[s])
    BY QueueStays DEF QueueLengths
  <1>3. ASSUME UNCHANGED <<routes, toServer, toClient, currentUser, ops>>,
               \A r \in Session : linkUp'[r] => linkUp[r],
               \A r \in Session, start \in Raw : StaysPut(r, start)
        PROVE  Silent
    BY <1>1, <1>2, <1>3 DEF Silent, Settled
  <1>4. ASSUME NEW s \in Session, NEW u \in Name, Connect(s, u)
        PROVE  Silent
    <2>1. PICK raw \in connectMessage(u) :
            /\ session[s] = "none"
            /\ toServer'[s] = <<raw>>
            /\ \A t \in Session \ {s} : /\ toServer'[t] = toServer[t]
                                        /\ linkUp'[t] = linkUp[t]
                                        /\ currentUser'[t] = currentUser[t]
            /\ UNCHANGED <<routes, ops, toClient>>
            /\ UNCHANGED <<users, username, groups, clients>>
      BY <1>0, <1>4 DEF Connect, ConnectUser, serverVars, memoryVars, ConnTypeOK,
         ControllerTypeOK
    <2>2. raw.type \notin TransferWord
      BY <2>1, ConnectIsClientFrame DEF TransferWord
    <2>3. Mute(toServer'[s])
      BY <2>1, <2>2 DEF Mute
    <2>4. Blank(s)
      BY <2>1 DEF Blank, Unused, Membership, Fresh
    <2>5. \A r, start : StaysPut(r, start)
      BY <2>1, StaysTheSame
    <2>6. ASSUME NEW r \in Session
          PROVE  /\ Shortened(toServer[r], toServer'[r])
                 /\ Hushed(toClient[r], toClient'[r])
                 /\ currentUser'[r] = currentUser[r] \/ Mute(toServer'[r])
                 /\ Settled(r) \/ Blank(r)
      <3>1. CASE r = s
        BY <1>2, <2>1, <2>3, <2>4, <3>1 DEF Shortened
      <3>2. CASE r # s
        BY <1>2, <2>1, <2>5, <3>2 DEF Settled
      <3> QED
        BY <3>1, <3>2
    <2> QED
      BY <1>1, <2>1, <2>6 DEF Silent
  <1>5. ASSUME NEW s \in Session, Accept(s), UNCHANGED controllerVars
        PROVE  Silent
    <2>1. /\ clients' = clients \cup {s}
          /\ UNCHANGED <<linkUp, toServer, toClient, routes, ops, currentUser>>
          /\ UNCHANGED <<users, username, groups>>
      BY <1>5 DEF Accept, controllerVars
    <2>2. ASSUME NEW r \in Session, NEW start \in Raw
          PROVE  StaysPut(r, start)
      BY <2>1 DEF StaysPut, Belongs, Audience, RegisteredAs
    <2> QED
      BY <1>3, <2>1, <2>2
  <1>6. ASSUME NEW s \in Session, Break(s)
        PROVE  Silent
    <2>1. /\ linkUp' = [linkUp EXCEPT ![s] = FALSE]
          /\ UNCHANGED <<toServer, routes, ops, currentUser>>
          /\ UNCHANGED <<users, username, groups, clients>>
          /\ \E n \in 0 .. Len(toClient[s]) :
               toClient' = [toClient EXCEPT ![s] = SubSeq(@, 1, Len(@) - n)]
      BY <1>6 DEF Break, Disconnect, serverVars, memoryVars, controllerVars
    <2>2. PICK n \in 0 .. Len(toClient[s]) :
            toClient' = [toClient EXCEPT ![s] = SubSeq(@, 1, Len(@) - n)]
      BY <2>1
    <2>3. toClient[s] \in Seq(Raw)
      BY <1>0 DEF ConnTypeOK
    <2>4. /\ toClient'[s] = SubSeq(toClient[s], 1, Len(toClient[s]) - n)
          /\ \A t \in Session \ {s} : /\ toClient'[t] = toClient[t]
                                      /\ linkUp'[t] = linkUp[t]
          /\ ~linkUp'[s]
      BY <1>0, <2>1, <2>2 DEF ConnTypeOK
    <2>5. Hushed(toClient[s], toClient'[s])
      <3>1. /\ Len(toClient'[s]) = Len(toClient[s]) - n
            /\ \A i \in 1 .. Len(toClient[s]) - n : toClient'[s][i] = toClient[s][i]
        BY <1>2, <2>2, <2>3, <2>4, SubSeqProperties
      <3> QED
        BY <1>2, <3>1 DEF Hushed
    <2>6. \A r, start : StaysPut(r, start)
      BY <2>1, StaysTheSame
    <2>7. ASSUME NEW r \in Session
          PROVE  Hushed(toClient[r], toClient'[r]) /\ Settled(r)
      BY <1>2, <2>1, <2>4, <2>5, <2>6 DEF Settled
    <2> QED
      BY <1>1, <1>2, <2>1, <2>7 DEF Silent
  <1>7. ASSUME NEW s \in Session, LoseWrite(s)
        PROVE  Silent
    <2>1. /\ UNCHANGED <<linkUp, toServer, toClient, routes, ops, currentUser>>
          /\ UNCHANGED <<users, username, groups, clients>>
      BY <1>7 DEF LoseWrite, WriteLost, serverVars, memoryVars, controllerVars
    <2> QED
      BY <1>3, <2>1, StaysTheSame
  <1>8. CASE Crash
    <2>1. /\ \A s \in Session : ~linkUp'[s] /\ toServer'[s] = <<>>
          /\ routes' = {}
          /\ UNCHANGED <<toClient, ops, currentUser>>
      BY <1>8 DEF Crash, Restart, controllerVars
    <2>2. \A s \in Session : Shortened(toServer[s], toServer'[s]) /\ Settled(s)
      BY <2>1 DEF Shortened, Mute, Settled
    <2> QED
      BY <1>1, <1>2, <2>1, <2>2 DEF Silent
  <1>9. CASE UNCHANGED vars
    <2>1. /\ UNCHANGED <<linkUp, toServer, toClient, routes, ops, currentUser>>
          /\ UNCHANGED <<users, username, groups, clients>>
      BY <1>9 DEF vars, connVars, serverVars, memoryVars, controllerVars
    <2> QED
      BY <1>3, <2>1, StaysTheSame
  <1> QED
    BY <1>4, <1>5, <1>6, <1>7, <1>8, <1>9

-----------------------------------------------------------------------------
(* Frames of other kinds, from a handler or from removeClient.             *)

Plain(out) == out \in Output /\ \A t \in Session : Mute(out[t])

LEMMA SendPlain ==
    ASSUME NEW raw \in Raw, raw.type \notin TransferWord
    PROVE  \A S : Plain(SendTo(S, raw))
  <1> TAKE S
  <1>1. SendTo(S, raw) \in Output
    BY OutputTypes
  <1> QED
    BY <1>1 DEF Plain, Mute, SendTo

LEMMA BothPlain ==
    ASSUME NEW out1, NEW out2, Plain(out1), Plain(out2)
    PROVE  Plain(Both(out1, out2))
  <1>1. Both(out1, out2) \in Output
    BY OutputTypes DEF Plain
  <1>2. ASSUME NEW t \in Session, NEW i \in 1 .. Len(Both(out1, out2)[t])
        PROVE  Both(out1, out2)[t][i].type \notin TransferWord
    <2>1. PICK a \in Seq(Raw), b \in Seq(Raw) : a = out1[t] /\ b = out2[t]
      BY DEF Plain, Output
    <2>2. Both(out1, out2)[t] = a \o b /\ i \in 1 .. Len(a \o b)
      BY <1>2, <2>1 DEF Both
    <2>3. \/ i \in 1 .. Len(a) /\ (a \o b)[i] = a[i]
          \/ /\ i - Len(a) \in 1 .. Len(b)
             /\ (a \o b)[i] = b[i - Len(a)]
      BY <2>2, ConcatElement, ZenonT(60)
    <2>4. Mute(a) /\ Mute(b)
      BY <2>1 DEF Plain
    <2> QED
      BY <2>2, <2>3, <2>4 DEF Mute
  <1> QED
    BY <1>1, <1>2 DEF Plain, Mute

LEMMA HistoryPlain ==
    ASSUME NEW s \in Session, NEW history \in Seq(Raw), Mute(history)
    PROVE  Plain(sendHistory(s, history))
  <1>1. sendHistory(s, history) \in Output
    BY OutputTypes
  <1>2. \A t \in Session :
          sendHistory(s, history)[t] = IF t = s THEN history ELSE <<>>
    BY DEF sendHistory, Silence
  <1> QED
    BY <1>1, <1>2 DEF Plain, Mute

LEMMA ListPlain ==
    ASSUME NEW S, NEW registered
    PROVE  Plain(broadcastUserList(S, registered))
  <1>1. userList(registered) \in Raw
    BY UserListIsRaw
  <1>2. userList(registered).type = "user_list"
    <2>1. messageTypeToString("UserList") = "user_list"
      BY DEF messageTypeToString
    <2> QED
      BY <2>1 DEF userList, toJson, NewMessage
  <1> QED
    BY <1>1, <1>2, SendPlain DEF broadcastUserList, TransferWord

LEMMA PlainIsHushed ==
    ASSUME TypeOK, NEW out, Plain(out), NEW pending, WriteFrom(pending, out),
           NEW r \in Session
    PROVE  /\ Hushed(toClient[r], toClient'[r])
           /\ Len(toClient[r]) <= Len(toClient'[r])
  <1>1. PICK q \in Seq(Raw), w \in Seq(Raw) : q = toClient[r] /\ w = out[r]
    BY DEF TypeOK, ConnTypeOK, Plain, Output
  <1>2. toClient'[r] = IF linkUp[r] THEN q \o w ELSE q
    BY <1>1 DEF WriteFrom
  <1>3. Mute(w)
    BY <1>1 DEF Plain
  <1>4. /\ Len(q) \in Nat /\ Len(w) \in Nat /\ Len(q \o w) = Len(q) + Len(w)
        /\ \A i \in 1 .. Len(q) + Len(w) :
             (q \o w)[i] = IF i <= Len(q) THEN q[i] ELSE w[i - Len(q)]
    BY LenProperties, ConcatProperties
  <1>5. Hushed(q, q \o w) /\ Hushed(q, q)
    BY <1>3, <1>4 DEF Hushed, Mute
  <1>6. CASE linkUp[r]
    <2>1. PICK x \in Seq(Raw) : x = q \o w
      BY <1>1, ConcatProperties
    <2>2. toClient'[r] = x
      BY <1>2, <1>6, <2>1
    <2>3. Hushed(q, x) /\ Len(q) <= Len(x)
      BY <1>4, <1>5, <2>1
    <2> QED
      BY <1>1, <2>2, <2>3
  <1>7. CASE ~linkUp[r]
    <2>1. toClient'[r] = q
      BY <1>2, <1>7
    <2> QED
      BY <1>1, <1>4, <1>5, <2>1
  <1> QED
    BY <1>6, <1>7


LEMMA ErrorIsSilent ==
    ASSUME TypeOK, References, Membership, QueueLengths, QueueLengths',
           UNCHANGED stateVars, NEW s \in Session,
           ReadError(s) \/ WriteError(s), UNCHANGED controllerVars
    PROVE  Silent
  <1>0. ConnTypeOK /\ ServerTypeOK
    BY DEF TypeOK
  <1>1. UNCHANGED <<incomingAttachments, receivedFiles, ops, currentUser, routes>>
    BY DEF stateVars, controllerVars, ReadError, WriteError
  <1>2. /\ ~linkUp[s] /\ linkUp' = linkUp
        /\ \A t \in Session \ {s} : toServer'[t] = toServer[t]
        /\ \/ toServer'[s] = <<>>
           \/ toServer'[s] = toServer[s]
           \/ toServer'[s] = <<Head(toServer[s])>> /\ toServer[s] # <<>>
        /\ \E pending : removeClient(s, pending)
        /\ username' = username
    BY ErrorRemoves
  <1>3. PICK pending : removeClient(s, pending)
    BY <1>2
  <1>4. /\ clients' = clients \ {s}
        /\ \A u \in Name : users'[u] # NoSession => users'[u] = users[u]
        /\ groups' = [g \in Group |-> groups[g] \ {s}]
    <2>1. clients' = clients \ {s} /\ groups' = [g \in Group |-> groups[g] \ {s}]
      BY <1>3 DEF removeClient
    <2>2. \A u \in Name : users'[u] # NoSession => users'[u] = users[u]
      BY <1>3, RemoveForgets
    <2> QED
      BY <2>1, <2>2
  <1>5. ASSUME NEW r \in Session
        PROVE  /\ Hushed(toClient[r], toClient'[r])
               /\ Len(toClient[r]) <= Len(toClient'[r])
    <2>1. \E out : Plain(out) /\ WriteFrom(pending, out)
      <3>1. Plain(broadcastUserList(clients', users'))
        BY ListPlain
      <3>2. Plain(Silence)
        BY OutputTypes DEF Plain, Mute, Silence
      <3> QED
        BY <1>3, <3>1, <3>2 DEF removeClient
    <2> QED
      BY <2>1, PlainIsHushed
  <1>6. ASSUME NEW r \in Session
        PROVE  Shortened(toServer[r], toServer'[r])
    <2>0. Len(toServer[r]) \in Nat
      BY DEF QueueLengths
    <2>1. CASE toServer'[r] = toServer[r]
      BY <2>0, <2>1, QueueStays
    <2>2. CASE toServer'[r] = <<>>
      BY <2>2 DEF Shortened, Mute
    <2>3. CASE toServer'[r] = <<Head(toServer[r])>> /\ toServer[r] # <<>>
      <3>1. toServer[r] \in Seq(ClientFrame)
        BY <1>0 DEF ConnTypeOK
      <3>2. /\ Len(toServer'[r]) = 1 /\ Len(toServer[r]) >= 1
            /\ toServer'[r][1] = toServer[r][1]
        BY <2>3, <3>1
      <3>3. Window(toServer[r], 0, toServer'[r])
        BY <2>0, <3>2 DEF Window
      <3> QED
        BY <3>3 DEF Shortened
    <2> QED
      BY <1>2, <2>1, <2>2, <2>3
  <1>7. ASSUME NEW r \in Session, linkUp'[r], NEW start \in Raw
        PROVE  StaysPut(r, start)
    <2>1. r # s
      BY <1>2, <1>7
    <2>2. /\ start.target \in Name \cup {Empty} /\ start.sender \in Name \cup {Empty}
          /\ start.groupId \in Group \cup {Empty}
      BY DEF Raw
    <2>3. \A u \in Name \cup {Empty} : r \in RegisteredAs(u)' => r \in RegisteredAs(u)
      BY <1>4 DEF RegisteredAs
    <2>4. CASE start.target # Empty
      BY <1>2, <2>2, <2>3, <2>4 DEF StaysPut, Belongs, Audience
    <2>5. CASE start.target = Empty
      BY <1>4, <2>1, <2>2, <2>5 DEF StaysPut, Belongs, Audience
    <2> QED
      BY <2>4, <2>5
  <1>8. \A r \in Session : Settled(r)
    BY <1>1, <1>2, <1>5, <1>7 DEF Settled
  <1> QED
    BY <1>1, <1>5, <1>6, <1>8 DEF Silent

-----------------------------------------------------------------------------
(* The server's handlers.                                                  *)

\* A handler moves nobody who belongs to the audience of a file.
LEMMA HandleStaysPut ==
    ASSUME TypeOK, References, NEW s \in Session, HandleFrame(s),
           NEW r \in Session, NEW start \in Raw
    PROVE  StaysPut(r, start)
  <1> DEFINE raw == Head(toServer[s])
  <1>0. ServerTypeOK
    BY DEF TypeOK
  <1>1. /\ start.target \in Name \cup {Empty} /\ start.sender \in Name \cup {Empty}
        /\ start.groupId \in Group \cup {Empty}
    BY DEF Raw
  <1>2. clients' = clients
    BY HandlerShape
  <1>3. CASE UNCHANGED <<username, users, groups>>
    BY <1>2, <1>3, StaysTheSame
  <1>4. CASE HandleConnect(s)
    <2>1. /\ username' = [username EXCEPT ![s] = raw.sender]
          /\ users' = [users EXCEPT ![raw.sender] = s]
          /\ groups' = groups
      BY <1>4 DEF HandleConnect, register
    <2>2. username[s] = Empty
      <3>1. raw.type = "connect"
        BY <1>4, ConnectHandled
      <3>2. ReadFrame(s)
        BY HandleReads
      <3>3. 1 \in 1 .. Len(toServer[s]) /\ raw = toServer[s][1]
        BY <3>2, ReadShifts
      <3> QED
        BY <3>1, <3>3 DEF References, ConnectFirst
    <2>3. CASE start.target # Empty
      <3>1. ASSUME username[r] # Empty, NEW u \in Name \cup {Empty},
                   r \in RegisteredAs(u)'
            PROVE  r \in RegisteredAs(u)
        <4>1. r # s
          BY <2>2, <3>1
        <4> QED
          BY <1>0, <2>1, <3>1, <4>1 DEF RegisteredAs, ServerTypeOK
      <3>2. username[r] # Empty => username'[r] # Empty
        BY <1>0, <2>1, <2>2 DEF ServerTypeOK
      <3> QED
        BY <1>1, <2>3, <3>1, <3>2 DEF StaysPut, Belongs, Audience
    <2>4. CASE start.target = Empty
      BY <1>2, <2>1, <2>4 DEF StaysPut, Belongs, Audience
    <2> QED
      BY <2>3, <2>4
  <1>5. CASE HandleJoinGroup(s)
    <2>1. /\ raw.groupId \in Group
          /\ groups' = [groups EXCEPT ![raw.groupId] = @ \cup {s}]
          /\ UNCHANGED <<username, users>>
      <3>1. raw.type \in JoinWord /\ raw \in ClientFrame
        BY <1>5, HandlerWords, HandleReads, HeadType
      <3>2. raw.groupId \in Group
        BY <3>1 DEF ClientFrame, JoinWord, GroupWord
      <3>3. addClientToGroup(s, raw.groupId) /\ UNCHANGED <<username, users>>
        BY <1>5 DEF HandleJoinGroup
      <3>4. raw.groupId # Empty
        BY <3>2, GroupAssumption
      <3> QED
        BY <3>2, <3>3, <3>4 DEF addClientToGroup
    <2>2. \A g \in Group : groups[g] \subseteq groups'[g]
      BY <1>0, <2>1 DEF ServerTypeOK
    <2>3. CASE start.target # Empty
      BY <2>1, <2>3 DEF StaysPut, Belongs, Audience, RegisteredAs
    <2>4. CASE start.target = Empty
      BY <1>1, <1>2, <2>2, <2>4 DEF StaysPut, Belongs, Audience
    <2> QED
      BY <2>3, <2>4
  <1> QED
    BY <1>3, <1>4, <1>5, HandlerShape

LEMMA HandlerPlain ==
    ASSUME TypeOK, References, Membership, NEW s \in Session, HandleFrame(s),
           Head(toServer[s]).type \notin TransferWord
    PROVE  \/ UNCHANGED toClient
           \/ \E out : Plain(out) /\ Write(out)
  <1> DEFINE raw == Head(toServer[s])
  <1>a. ReadFrame(s) /\ ServerTypeOK
    BY HandleReads DEF TypeOK
  <1>b. raw \in Raw
    BY HeadIsRaw
  <1>c. raw.type \in GroupWord => raw.groupId \in Group
    BY <1>a, HeadType DEF ClientFrame
  <1>d. \A S : Plain(SendTo(S, raw))
    BY <1>b, SendPlain
  <1> HIDE DEF raw
  <1>e. /\ \A S, T : Plain(Both(SendTo(S, raw), SendTo(T, raw)))
        /\ Plain(broadcast(raw)) /\ \A g : Plain(sendToGroup(g, raw))
    BY <1>d, BothPlain DEF broadcast, sendToGroup
  <1>1. CASE HandleConnect(s)
    <2>1. Plain(sendHistory(s, publicHistory))
      <3>1. publicHistory \in Seq(Raw) /\ Mute(publicHistory)
        BY <1>a DEF ServerTypeOK, Membership, FilesSay, HistoryOnDisk, Mute, TransferWord
      <3> QED
        BY <3>1, HistoryPlain
    <2>2. Plain(Both(SendTo({s}, raw), Both(sendHistory(s, publicHistory),
                     broadcastUserList(clients, users'))))
      BY <1>d, <2>1, ListPlain, BothPlain
    <2> QED
      BY <1>1, <2>2 DEF HandleConnect, raw
  <1>2. CASE HandleJoinGroup(s)
    <2> DEFINE g == raw.groupId
    <2>1. raw.type \in JoinWord /\ g \in Group
      BY <1>2, <1>c, HandlerWords DEF raw, JoinWord, GroupWord
    <2>2. groupHistory'[g] = groupFile[g]
      BY <1>2, <1>a, <2>1
         DEF HandleJoinGroup, loadGroupHistory, raw, Membership, HistoryOnDisk,
             ServerTypeOK
    <2>3. Plain(sendHistory(s, groupHistory'[g]))
      <3>1. groupFile[g] \in Seq(Raw) /\ Mute(groupFile[g])
        BY <1>a, <2>1 DEF ServerTypeOK, Membership, FilesSay, Mute, TransferWord
      <3> QED
        BY <2>2, <3>1, HistoryPlain
    <2>4. Plain(Both(SendTo({s}, raw), sendHistory(s, groupHistory'[g])))
      BY <1>d, <2>3, BothPlain
    <2> QED
      BY <1>2, <2>4 DEF HandleJoinGroup, raw
  <1>3. CASE HandlePublicMessage(s)
    BY <1>e, <1>3 DEF HandlePublicMessage, raw
  <1>4. CASE HandlePrivateMessage(s)
    BY <1>e, <1>4 DEF HandlePrivateMessage, raw
  <1>5. CASE HandleTyping(s)
    BY <1>d, <1>e, <1>5 DEF HandleTyping, raw, RouteText
  <1>6. CASE HandleGroupMessage(s)
    BY <1>e, <1>6 DEF HandleGroupMessage, raw
  <1>7. CASE HandleUnknown(s)
    BY <1>7 DEF HandleUnknown
  <1>8. ~HandleAttachmentStart(s) /\ ~HandleAttachmentEnd(s) /\ ~HandleBinary(s)
    BY ReceivedWord DEF HandleAttachmentStart, HandleAttachmentEnd, HandleBinary,
       messageTypeToString, TransferWord
  <1> QED
    BY <1>1, <1>2, <1>3, <1>4, <1>5, <1>6, <1>7, <1>8 DEF HandleFrame


LEMMA HandleIsSilent ==
    ASSUME TypeOK, References, Membership, QueueLengths, QueueLengths',
           UNCHANGED stateVars, NEW s \in Session, HandleFrame(s),
           UNCHANGED controllerVars, Head(toServer[s]).type \notin TransferWord
    PROVE  Silent
  <1>1. UNCHANGED <<incomingAttachments, receivedFiles, ops, currentUser>>
    BY DEF stateVars, controllerVars
  <1>2. routes' = routes
    BY RoutesHandled DEF TransferWord
  <1>3. ReadFrame(s) /\ linkUp' = linkUp
    BY HandleReads, HandlerShape
  <1>4. ASSUME NEW r \in Session
        PROVE  /\ Hushed(toClient[r], toClient'[r])
               /\ Len(toClient[r]) <= Len(toClient'[r])
    <2>0. Len(toClient[r]) \in Nat
      BY DEF QueueLengths
    <2>1. CASE UNCHANGED toClient
      BY <2>0, <2>1, QueueStays
    <2>2. CASE \E out : Plain(out) /\ Write(out)
      BY <2>2, PlainIsHushed DEF Write
    <2> QED
      BY <2>1, <2>2, HandlerPlain
  <1>5. ASSUME NEW r \in Session
        PROVE  Shortened(toServer[r], toServer'[r])
    <2>0. Len(toServer[r]) \in Nat /\ Len(toServer'[r]) \in Nat
      BY DEF QueueLengths
    <2>1. CASE r = s
      <3>1. /\ Head(toServer[s]) = toServer[s][1]
            /\ Len(toServer'[s]) = Len(toServer[s]) - 1
            /\ \A i \in 1 .. Len(toServer'[s]) : toServer'[s][i] = toServer[s][i + 1]
        BY <1>3, ReadShifts
      <3>2. Window(toServer[s], 1, toServer'[s])
        BY <2>0, <2>1, <3>1 DEF Window
      <3> QED
        BY <2>1, <3>1, <3>2 DEF Shortened
    <2>2. CASE r # s
      <3>1. toServer'[r] = toServer[r]
        BY <1>3, <2>2, ReadShifts
      <3> QED
        BY <2>0, <3>1, QueueStays
    <2> QED
      BY <2>1, <2>2
  <1>6. \A r \in Session : Settled(r)
    BY <1>1, <1>3, <1>4, HandleStaysPut DEF Settled
  <1> QED
    BY <1>1, <1>2, <1>4, <1>5, <1>6 DEF Silent

-----------------------------------------------------------------------------
(* A frame of a transfer is handled.                                       *)

\* The frame is written once.
Told(q, w, raw) == /\ Len(w) = Len(q) + 1
                   /\ \A i \in 1 .. Len(q) : w[i] = q[i]
                   /\ w[Len(q) + 1] = raw

ToldTo(T, raw) ==
    \A r \in Session : IF linkUp[r] /\ r \in T
                         THEN Told(toClient[r], toClient'[r], raw)
                         ELSE toClient'[r] = toClient[r]

\* Who gets the start of a file of s, and its end.
TextTo(s, raw) ==
    IF raw.target # Empty THEN RegisteredAs(raw.target) \cup {s}
    ELSE IF raw.groupId # Empty THEN groups[raw.groupId]
    ELSE clients

LEMMA SendTells ==
    ASSUME TypeOK, NEW T, NEW raw \in Raw, Write(SendTo(T, raw))
    PROVE  ToldTo(T, raw)
  <1>1. ASSUME NEW r \in Session, linkUp[r], r \in T
        PROVE  Told(toClient[r], toClient'[r], raw)
    <2>1. PICK q \in Seq(Raw) : q = toClient[r]
      BY DEF TypeOK, ConnTypeOK
    <2>a. <<raw>> \in Seq(Raw)
      OBVIOUS
    <2>2. PICK x \in Seq(Raw) : x = q \o <<raw>>
      BY <2>1, <2>a, ConcatProperties
    <2>3. toClient'[r] = x
      BY <1>1, <2>1, <2>2 DEF Write, WriteFrom, SendTo
    <2>4. Told(q, x, raw)
      BY <2>1, <2>2 DEF Told
    <2> QED
      BY <2>1, <2>3, <2>4
  <1>2. ASSUME NEW r \in Session, ~(linkUp[r] /\ r \in T)
        PROVE  toClient'[r] = toClient[r]
    <2>1. toClient[r] \in Seq(Raw)
      BY DEF TypeOK, ConnTypeOK
    <2>2. toClient[r] \o <<>> = toClient[r]
      BY <2>1, ConcatEmptySeq
    <2> QED
      BY <1>2, <2>2 DEF Write, WriteFrom, SendTo
  <1> QED
    BY <1>1, <1>2 DEF ToldTo

LEMMA SendBoth ==
    ASSUME NEW A, NEW B, NEW raw, A \cap B = {}
    PROVE  Both(SendTo(A, raw), SendTo(B, raw)) = SendTo(A \cup B, raw)
  <1>1. <<>> \o <<>> = <<>>
    OBVIOUS
  <1>2. <<raw>> \o <<>> = <<raw>> /\ <<>> \o <<raw>> = <<raw>>
    <2>1. raw \in {raw}
      OBVIOUS
    <2>2. <<raw>> \in Seq({raw})
      BY <2>1
    <2> QED
      BY <2>2, ConcatEmptySeq
  <1>3. ASSUME NEW r \in Session
        PROVE  SendTo(A, raw)[r] \o SendTo(B, raw)[r] = SendTo(A \cup B, raw)[r]
    <2>1. CASE r \in A
      BY <1>2, <2>1 DEF SendTo
    <2>2. CASE r \in B
      BY <1>2, <2>2 DEF SendTo
    <2>3. CASE r \notin A /\ r \notin B
      BY <1>1, <2>3 DEF SendTo
    <2> QED
      BY <2>1, <2>2, <2>3
  <1>4. Both(SendTo(A, raw), SendTo(B, raw))
          = [r \in Session |-> SendTo(A \cup B, raw)[r]]
    BY <1>3 DEF Both
  <1> QED
    BY <1>4 DEF SendTo

\* A frame of a transfer is handled as one.
LEMMA FrameHandler ==
    ASSUME NEW s \in Session, HandleFrame(s)
    PROVE  /\ Head(toServer[s]).type \in {"attachment_start", "attachment_end"} =>
                HandleAttachmentStart(s) \/ HandleAttachmentEnd(s)
           /\ Head(toServer[s]).type = "binary" => HandleBinary(s)
  <1> DEFINE raw == Head(toServer[s])
  <1>1. CASE raw.type = "binary"
    <2>1. \A t : ~Received(s, t)
      BY <1>1, SMTT(40) DEF Received
    <2>2. HandleBinary(s)
      BY <2>1 DEF HandleFrame, HandleConnect, HandlePublicMessage,
         HandlePrivateMessage, HandleTyping, HandleJoinGroup,
         HandleGroupMessage, HandleAttachmentStart, HandleAttachmentEnd,
         HandleUnknown
    <2> QED
      BY <1>1, <2>2
  <1>2. CASE raw.type \in {"attachment_start", "attachment_end"}
    <2>1. fromJson(raw).type \in {"AttachmentStart", "AttachmentEnd"}
      <3>1. raw # Garbled
        BY <1>2 DEF Garbled, NoMessage, NewMessage
      <3>2. /\ stringToMessageType("attachment_start") = "AttachmentStart"
            /\ stringToMessageType("attachment_end") = "AttachmentEnd"
        BY DEF stringToMessageType
      <3>3. fromJson(raw).type = stringToMessageType(raw.type)
        BY <3>1 DEF fromJson
      <3> QED
        BY <1>2, <3>2, <3>3
    <2>2. \A t : Received(s, t) => t \in {"AttachmentStart", "AttachmentEnd"}
      BY <2>1, SMTT(40) DEF Received
    <2>3. HandleAttachmentStart(s) \/ HandleAttachmentEnd(s)
      <3> HIDE DEF raw
      <3> QED
        BY <1>2, <2>2 DEF HandleFrame, HandleConnect, HandlePublicMessage,
           HandlePrivateMessage, HandleTyping, HandleJoinGroup,
           HandleGroupMessage, HandleBinary, HandleUnknown, raw
    <2> QED
      BY <1>2, <2>3
  <1> QED
    BY <1>1, <1>2

LEMMA TransferHeard ==
    ASSUME TypeOK, References, Names, Placed, ChunkRoute,
           NEW s \in Session, HandleFrame(s),
           Head(toServer[s]).type \in TransferWord
    PROVE  \E T :
             /\ ToldTo(T, Head(toServer[s]))
             /\ Head(toServer[s]).type # "binary" => T = TextTo(s, Head(toServer[s]))
             /\ Head(toServer[s]).type = "binary" =>
                  \A start : /\ start.type = "attachment_start"
                             /\ Underway(start)
                             /\ start.id = Head(toServer[s]).id
                             => T = Audience(start)
  <1> DEFINE raw == Head(toServer[s])
  <1>1. /\ ReadFrame(s) /\ raw \in Raw
        /\ 1 \in 1 .. Len(toServer[s]) /\ raw = toServer[s][1]
        /\ users \in [Name -> Session \cup {NoSession}]
    BY HandleReads, HeadIsRaw, ReadShifts DEF TypeOK, ServerTypeOK
  <1>2. Underway(raw)
    BY <1>1 DEF Underway
  <1>3. /\ raw.sender = currentUser[s] /\ raw.target # raw.sender
        /\ \A f : Underway(f) => f.target # f.sender
        /\ \A f, h : Underway(f) /\ Underway(h) /\ f.id = h.id => SameFile(f, h)
    BY <1>1, <1>2 DEF Placed, Attributed, Signed
  <1> HIDE DEF raw
  <1>4. CASE raw.type # "binary"
    <2>1. Write(RouteText(s, raw))
      <3>1. HandleAttachmentStart(s) \/ HandleAttachmentEnd(s)
        <4>1. raw.type \in {"attachment_start", "attachment_end"}
          BY <1>4 DEF raw, TransferWord
        <4> QED
          BY <4>1, FrameHandler DEF raw
      <3> QED
        BY <3>1 DEF HandleAttachmentStart, HandleAttachmentEnd, raw
    <2>2. Write(SendTo(TextTo(s, raw), raw))
      <3>1. CASE raw.target # Empty
        <4>1. RegisteredAs(raw.target) \cap {s} = {}
          <5>1. ASSUME s \in RegisteredAs(raw.target) PROVE FALSE
            <6>1. raw.target \in Name /\ users[raw.target] = s
              BY <5>1 DEF RegisteredAs
            <6>2. username[s] = raw.target
              BY <6>1 DEF References, NamesRead
            <6>3. currentUser[s] = raw.target
              BY <3>1, <6>2 DEF Names, NamedAs
            <6> QED
              BY <1>3, <6>3
          <5> QED
            BY <5>1
        <4>2. Both(SendTo(RegisteredAs(raw.target), raw), SendTo({s}, raw))
                = SendTo(RegisteredAs(raw.target) \cup {s}, raw)
          BY <4>1, SendBoth
        <4> QED
          BY <2>1, <3>1, <4>2 DEF RouteText, TextTo
      <3>2. CASE raw.target = Empty
        BY <2>1, <3>2 DEF RouteText, TextTo, sendToGroup, broadcast
      <3> QED
        BY <3>1, <3>2
    <2>3. ToldTo(TextTo(s, raw), raw)
      BY <1>1, <2>2, SendTells
    <2> QED
      BY <1>4, <2>3 DEF raw
  <1>5. CASE raw.type = "binary"
    <2>1. HandleBinary(s)
      BY <1>5, FrameHandler DEF raw
    <2>2. \E route \in routes : fileId(route) = fileId(raw)
      <3>1. HasRoute(raw) \/ StartAmong(toServer[s], 1 - 1, raw)
        BY <1>1, <1>5 DEF ChunkRoute
      <3> QED
        BY <3>1 DEF HasRoute, StartAmong
    <2>3. PICK route \in routes : /\ fileId(route) = fileId(raw)
                                  /\ Write(RouteBinary(route, raw))
      BY <2>1, <2>2 DEF HandleBinary, raw
    <2>4. Underway(route) /\ route.type = "attachment_start"
      BY DEF Placed, Opened, Underway, TransferWord
    <2>5. Write(SendTo(Audience(route), raw))
      <3>1. CASE route.target # Empty
        <4>1. RegisteredAs(route.target) \cap RegisteredAs(route.sender) = {}
          <5>1. ASSUME NEW t, t \in RegisteredAs(route.target),
                       t \in RegisteredAs(route.sender)
                PROVE  FALSE
            <6>1. /\ route.target \in Name /\ users[route.target] = t
                  /\ route.sender \in Name /\ users[route.sender] = t
                  /\ t # NoSession
              BY <5>1 DEF RegisteredAs
            <6>2. t \in Session
              BY <1>1, <6>1
            <6>3. username[t] = route.target /\ username[t] = route.sender
              BY <6>1, <6>2 DEF References, NamesRead
            <6> QED
              BY <1>3, <2>4, <6>3
          <5> QED
            BY <5>1
        <4>2. Both(SendTo(RegisteredAs(route.target), raw),
                   SendTo(RegisteredAs(route.sender), raw))
                = SendTo(RegisteredAs(route.target) \cup RegisteredAs(route.sender), raw)
          BY <4>1, SendBoth
        <4> QED
          BY <2>3, <3>1, <4>2 DEF RouteBinary, Audience
      <3>2. CASE route.target = Empty
        BY <2>3, <3>2 DEF RouteBinary, Audience, sendToGroup, broadcast
      <3> QED
        BY <3>1, <3>2
    <2>6. ToldTo(Audience(route), raw)
      BY <1>1, <2>5, SendTells
    <2>7. ASSUME NEW start, start.type = "attachment_start", Underway(start),
                 start.id = raw.id
          PROVE  Audience(route) = Audience(start)
      <3>1. route.id = start.id
        BY <2>3, <2>7 DEF fileId
      <3>2. SameFile(route, start)
        BY <1>3, <2>4, <2>7, <3>1
      <3> QED
        BY <2>4, <2>7, <3>2 DEF SameFile, Audience
    <2> QED
      BY <1>5, <2>6, <2>7 DEF raw
  <1> QED
    BY <1>4, <1>5


LEMMA ToldCounts ==
    ASSUME NEW q, NEW w, NEW raw, NEW n, Len(q) \in Nat, Told(q, w, raw)
    PROVE  /\ Len(w) = Len(q) + 1
           /\ \A i \in 1 .. Len(w) :
                \/ i \in 1 .. Len(q) /\ w[i] = q[i]
                \/ i = Len(q) + 1 /\ w[i] = raw
           /\ raw.type = "binary" /\ raw.id = n =>
                ChunksIn(w, n, Len(w)) = ChunksIn(q, n, Len(q)) + 1
           /\ ~(raw.type = "binary" /\ raw.id = n) =>
                ChunksIn(w, n, Len(w)) = ChunksIn(q, n, Len(q))
           /\ raw.id # n \/ raw.type = "attachment_start" => Aside(q, w, n)
  <1>1. PICK k \in Nat : k = Len(q)
    OBVIOUS
  <1>2. /\ Len(w) = k + 1 /\ w[k + 1] = raw
        /\ \A i \in 1 .. k : w[i] = q[i]
    BY <1>1 DEF Told
  <1>3. ChunksIn(w, n, k) = ChunksIn(q, n, k)
    <2>1. \A i \in 1 .. k : ChunkAt(w, n, i) <=> ChunkAt(q, n, i)
      BY <1>2 DEF ChunkAt
    <2> QED
      BY <2>1, CountSame
  <1>4. ASSUME raw.type = "binary", raw.id = n
        PROVE  ChunksIn(w, n, Len(w)) = ChunksIn(q, n, Len(q)) + 1
    <2>1. ChunkAt(w, n, k + 1)
      BY <1>2, <1>4 DEF ChunkAt
    <2>2. ChunksIn(w, n, k + 1) = ChunksIn(w, n, k) + 1
      BY <2>1, CountNext
    <2> QED
      BY <1>1, <1>2, <1>3, <2>2
  <1>5. ASSUME ~(raw.type = "binary" /\ raw.id = n)
        PROVE  ChunksIn(w, n, Len(w)) = ChunksIn(q, n, Len(q))
    <2>1. PICK m \in Nat : m = k + 1
      OBVIOUS
    <2>2. \A i \in k + 1 .. m : ~ChunkAt(w, n, i)
      BY <1>2, <1>5, <2>1 DEF ChunkAt
    <2>3. ChunksIn(w, n, m) = ChunksIn(w, n, k)
      BY <2>1, <2>2, CountBeyond
    <2> QED
      BY <1>1, <1>2, <1>3, <2>1, <2>3
  <1>6. raw.id # n \/ raw.type = "attachment_start" => Aside(q, w, n)
    BY <1>1, <1>2 DEF Aside, EndAt, ChunkAt
  <1>7. \A i \in 1 .. Len(w) :
          \/ i \in 1 .. Len(q) /\ w[i] = q[i]
          \/ i = Len(q) + 1 /\ w[i] = raw
    BY <1>1, <1>2
  <1> QED
    BY <1>1, <1>2, <1>4, <1>5, <1>6, <1>7

LEMMA TransferKeepsFiles ==
    ASSUME TypeOK, StateTypeOK, References, Membership, Names, Transfers, ChunkRoute,
           QueueLengths, QueueLengths', Files, UNCHANGED stateVars,
           NEW s \in Session, HandleFrame(s), UNCHANGED controllerVars,
           Head(toServer[s]).type \in TransferWord
    PROVE  Files'
  <1> USE DEF Files
  <1> DEFINE q   == toServer[s]
             q1  == toServer'[s]
  <1>0. PICK raw : raw = Head(q)
    OBVIOUS
  <1>1. /\ raw \in Raw
        /\ 1 \in 1 .. Len(q) /\ raw = q[1]
        /\ Len(q) = Len(q1) + 1
        /\ \A i \in 1 .. Len(q1) : q1[i] = q[i + 1]
        /\ \A t \in Session \ {s} : toServer'[t] = toServer[t]
    <2>1. ReadFrame(s) /\ raw \in Raw
      BY <1>0, HandleReads, HeadIsRaw
    <2>2. Len(q) \in Nat /\ Len(q1) \in Nat
      BY DEF QueueLengths
    <2> QED
      BY <1>0, <2>1, <2>2, ReadShifts
  <1>2. /\ UNCHANGED <<incomingAttachments, receivedFiles, ops, currentUser>>
        /\ UNCHANGED <<linkUp, users, username, groups, clients>>
    <2>1. HandleAttachmentStart(s) \/ HandleAttachmentEnd(s) \/ HandleBinary(s)
      BY FrameHandler DEF TransferWord
    <2>2. UNCHANGED <<linkUp, users, username, groups, clients>>
      BY <2>1 DEF HandleAttachmentStart, HandleAttachmentEnd, HandleBinary,
         serverVars, memoryVars
    <2> QED
      BY <2>2 DEF stateVars, controllerVars
  <1>3. PICK T : /\ ToldTo(T, raw)
                 /\ raw.type # "binary" => T = TextTo(s, raw)
                 /\ raw.type = "binary" =>
                      \A start : /\ start.type = "attachment_start"
                                 /\ Underway(start)
                                 /\ start.id = raw.id
                                 => T = Audience(start)
    BY <1>0, TransferHeard
  <1>4. /\ \A t \in Session : /\ Len(toServer[t]) \in Nat /\ Len(toServer'[t]) \in Nat
                              /\ Len(toClient[t]) \in Nat /\ Len(toClient'[t]) \in Nat
        /\ Ordered(q)
    BY DEF QueueLengths, Placed, QueuesOrdered
  <1>5. /\ raw.type \in TransferWord /\ raw.sender = currentUser[s]
        /\ Underway(raw) /\ raw.sender \in Name
    <2>1. Underway(raw)
      BY <1>0, <1>1 DEF Underway
    <2> QED
      BY <1>0, <1>1, <2>1 DEF Placed, Attributed, Signed
  <1>6. \/ raw.type = "attachment_start" /\ routes' = routesWithout(raw) \cup {raw}
        \/ raw.type # "attachment_start" /\ routes' \subseteq routes
    BY <1>0, RoutesHandled DEF routesWithout
  <1>7. ASSUME NEW r \in Session
        PROVE  \/ /\ linkUp[r] /\ r \in T
                  /\ Told(toClient[r], toClient'[r], raw)
               \/ ~(linkUp[r] /\ r \in T) /\ toClient'[r] = toClient[r]
    BY <1>3 DEF ToldTo
  <1>8. ASSUME NEW r \in Session, Told(toClient[r], toClient'[r], raw), NEW n
         PROVE  LET c == toClient[r] c1 == toClient'[r] IN
                /\ Len(c1) = Len(c) + 1
                /\ \A i \in 1 .. Len(c1) :
                     \/ i \in 1 .. Len(c) /\ c1[i] = c[i]
                     \/ i = Len(c) + 1 /\ c1[i] = raw
                /\ raw.type = "binary" /\ raw.id = n =>
                     ChunksIn(c1, n, Len(c1)) = ChunksIn(c, n, Len(c)) + 1
                /\ ~(raw.type = "binary" /\ raw.id = n) =>
                     ChunksIn(c1, n, Len(c1)) = ChunksIn(c, n, Len(c))
                /\ raw.id # n \/ raw.type = "attachment_start" => Aside(c, c1, n)
    <2>1. PICK x : x = toClient[r]
      OBVIOUS
    <2>2. PICK y : y = toClient'[r]
      OBVIOUS
    <2>3. Len(x) \in Nat /\ Told(x, y, raw)
      BY <1>4, <1>8, <2>1, <2>2
    <2>4. /\ Len(y) = Len(x) + 1
          /\ \A i \in 1 .. Len(y) :
               \/ i \in 1 .. Len(x) /\ y[i] = x[i]
               \/ i = Len(x) + 1 /\ y[i] = raw
          /\ raw.type = "binary" /\ raw.id = n =>
               ChunksIn(y, n, Len(y)) = ChunksIn(x, n, Len(x)) + 1
          /\ ~(raw.type = "binary" /\ raw.id = n) =>
               ChunksIn(y, n, Len(y)) = ChunksIn(x, n, Len(x))
          /\ raw.id # n \/ raw.type = "attachment_start" => Aside(x, y, n)
      BY <2>3, ToldCounts
    <2> QED
      BY <2>1, <2>2, <2>4
  \* The frame passes, and nothing else.
  <1>9. Passing({raw})
    <2>1. ASSUME NEW t \in Session
          PROVE  Trimmed(toServer[t], toServer'[t])
      <3>1. CASE t = s
        <4>1. Window(toServer[t], 1, toServer'[t]) /\ 1 \in Nat
          BY <1>1, <1>4, <3>1 DEF Window
        <4> QED
          BY <4>1 DEF Trimmed
      <3>2. CASE t # s
        <4>1. Window(toServer[t], 0, toServer'[t]) /\ 0 \in Nat
          BY <1>1, <1>4, <3>2 DEF Window
        <4> QED
          BY <4>1 DEF Trimmed
      <3> QED
        BY <3>1, <3>2
    <2>2. Passes(raw, s)
      BY <1>1, <1>4, <1>5 DEF Passes, Window
    <2>3. ASSUME NEW r \in Session
          PROVE  Says(toClient[r], toClient'[r], {raw})
      <3>1. CASE toClient'[r] = toClient[r]
        BY <1>4, <3>1 DEF Says
      <3>2. CASE Told(toClient[r], toClient'[r], raw)
        BY <1>4, <3>2 DEF Says, Told
      <3> QED
        BY <1>7, <3>1, <3>2
    <2>4. \A f \in routes' : f \in routes \/ (f \in {raw} /\ f.type = "attachment_start")
      BY <1>6 DEF routesWithout
    <2> QED
      BY <1>2, <2>1, <2>2, <2>3, <2>4 DEF Passing
  <1>10. Placed'
    <2>1. Attributed' /\ Signed' /\ Opened'
      BY <1>9, PassingAttributed
    <2>2. QueuesOrdered' /\ SentWhole' /\ StartedFirst' /\ EndedLast'
      BY <1>9, PassingInOrder DEF Transfers
    <2> QED
      BY <2>1, <2>2 DEF Placed
  \* What is behind the frame in its queue, and in the other queues.
  <1>11. ASSUME NEW n, NEW t \in Session, NEW i \in 1 .. Len(toServer'[t]),
                EndAt(toServer'[t], n, i)
         PROVE  /\ t # s => /\ i \in 1 .. Len(toServer[t]) /\ EndAt(toServer[t], n, i)
                            /\ ChunksIn(toServer'[t], n, i) = ChunksIn(toServer[t], n, i)
                            /\ n # raw.id
                /\ t = s => /\ i + 1 \in 1 .. Len(q) /\ EndAt(q, n, i + 1)
                            /\ ChunkAt(q, n, 1) =>
                                 ChunksIn(q, n, i + 1) = ChunksIn(q1, n, i) + 1
                            /\ ~ChunkAt(q, n, 1) =>
                                 ChunksIn(q, n, i + 1) = ChunksIn(q1, n, i)
    <2>1. CASE t # s
      <3>1. toServer'[t] = toServer[t]
        BY <1>1, <2>1
      <3>2. n # raw.id
        <4>1. i \in 1 .. Len(toServer[t]) /\ EndAt(toServer[t], n, i)
          BY <1>11, <3>1
        <4> QED
          BY <1>1, <1>5, <2>1, <4>1 DEF EndAt, Transfers, OneSender, TransferWord
      <3> QED
        BY <1>11, <2>1, <3>1, <3>2
    <2>2. CASE t = s
      <3>1. PICK k \in Nat : k = i
        BY <1>4
      <3>2. \A j \in 1 .. k : ChunkAt(q1, n, j) <=> ChunkAt(q, n, j + 1)
        BY <1>1, <1>4, <2>2, <3>1, SMTT(40) DEF ChunkAt
      <3>3. /\ ~ChunkAt(q, n, 1) => ChunksIn(q, n, k + 1) = ChunksIn(q1, n, k)
            /\ ChunkAt(q, n, 1)  => ChunksIn(q, n, k + 1) = ChunksIn(q1, n, k) + 1
        BY <3>2, CountBehind
      <3>4. i + 1 \in 1 .. Len(q) /\ EndAt(q, n, i + 1)
        BY <1>1, <1>4, <1>11, <2>2 DEF EndAt
      <3> QED
        BY <2>2, <3>1, <3>3, <3>4
    <2> QED
      BY <2>1, <2>2
  <1>12. ASSUME Counted(s, raw), raw.target # Empty, linkUp[s]
         PROVE  username[s] # Empty /\ s \in RegisteredAs(raw.sender)
    <2>1. ExclusiveNames /\ QuotedNames = {}
      BY <1>5, <1>12 DEF Counted, Own
    <2>2. username[s] = raw.sender
      BY <1>1, <1>5, <1>12, <2>1 DEF Names, Introduced, TransferWord
    <2>3. raw.sender # Empty /\ s # NoSession
      BY <1>5, NameAssumption, NoSessionAssumption
    <2>4. users[raw.sender] = s
      BY <1>12, <2>1, <2>2, <2>3 DEF Names, Listed
    <2> QED
      BY <1>5, <2>2, <2>3, <2>4 DEF RegisteredAs
  <1>13. \A r, start : /\ Counted(r, start)' <=> Counted(r, start)
                       /\ Belongs(r, start)' <=> Belongs(r, start)
                       /\ Audience(start)' = Audience(start)
    BY <1>2 DEF Counted, Own, Belongs, Audience, RegisteredAs
  \* A client that expected the file already.
  <1>14. ASSUME NEW r \in Session, NEW start, NEW w, Expects(r, start, w)
         PROVE  Whole(r, start, w)'
    <2> DEFINE n == start.id
               c == toClient[r]
               c1 == toClient'[r]
    <2>0. w \in Nat
      BY <1>14, ExpectedCount
    <2>1. start \in Raw /\ start.type = "attachment_start" /\ Underway(start)
      <3>1. start.type = "attachment_start"
        BY <1>14 DEF Expects, Placed, Opened
      <3> QED
        BY <1>14, <3>1, ExpectedIsRaw DEF Expects, Underway, TransferWord
    <2>2. Whole(r, start, w)
      BY <1>14 DEF Counts
    <2>3. /\ Counted(r, start)' <=> Counted(r, start)
          /\ Belongs(r, start)' <=> Belongs(r, start)
          /\ Audience(start)' = Audience(start)
      BY <1>13
    <2>4. ASSUME linkUp[r], Counted(r, start)
          PROVE  /\ Belongs(r, start)
                 /\ r \in Audience(start) =>
                      \A t \in Session : \A i \in 1 .. Len(toServer[t]) :
                        EndAt(toServer[t], n, i) =>
                          w + ChunksIn(c, n, Len(c)) + ChunksIn(toServer[t], n, i) = Chunks
      BY <2>2, <2>4 DEF Whole, Still
    <2>5. ASSUME raw.id = n
          PROVE  SameFile(start, raw)
      BY <1>5, <2>1, <2>5 DEF Placed, Attributed
    \* Nothing but the frame itself may be an end for r.
    <2>6. ASSUME raw.id = n, NEW i \in 1 .. Len(c1), EndAt(c1, n, i)
          PROVE  /\ linkUp[r] /\ r \in T /\ raw.type = "attachment_end"
                 /\ i = Len(c1) /\ Told(c, c1, raw)
      <3>1. \A j \in 1 .. Len(c) : ~EndAt(c, n, j)
        <4>1. PartAt(q, n, 1)
          BY <1>1, <1>5, <2>6 DEF PartAt
        <4> QED
          BY <1>1, <4>1 DEF Placed, EndedLast
      <3>2. CASE c1 = c
        BY <2>6, <3>1, <3>2
      <3>3. CASE linkUp[r] /\ r \in T /\ Told(c, c1, raw)
        <4>1. /\ Len(c1) = Len(c) + 1
              /\ \/ i \in 1 .. Len(c) /\ c1[i] = c[i]
                 \/ i = Len(c) + 1 /\ c1[i] = raw
          BY <1>4, <3>3, <1>8
        <4>2. i = Len(c1) /\ c1[i] = raw
          BY <2>6, <3>1, <4>1 DEF EndAt
        <4> QED
          BY <2>6, <3>3, <4>2 DEF EndAt
      <3> QED
        BY <1>7, <3>2, <3>3
    <2>7. CASE raw.id # n \/ raw.type = "attachment_start"
      <3>1. Aside(c, c1, n) /\ Len(c) <= Len(c1)
        <4>1. CASE c1 = c
          BY <1>4, <4>1 DEF Aside
        <4>2. CASE Told(c, c1, raw)
          <5>1. Aside(c, c1, n)
            BY <2>7, <4>2, <1>8
          <5>2. Len(c1) = Len(c) + 1
            BY <4>2, <1>8
          <5> QED
            BY <1>4, <5>1, <5>2
        <4> QED
          BY <1>7, <4>1, <4>2
      <3>2. ~ChunkAt(q, n, 1)
        BY <1>1, <2>7 DEF ChunkAt
      <3>3. EndsKept(n)
        <4>1. ASSUME NEW t \in Session, NEW i \in 1 .. Len(toServer'[t]),
                     EndAt(toServer'[t], n, i)
              PROVE  \E j \in 1 .. Len(toServer[t]) :
                       /\ EndAt(toServer[t], n, j)
                       /\ ChunksIn(toServer'[t], n, i) = ChunksIn(toServer[t], n, j)
          BY <1>11, <3>2, <4>1
        <4> QED
          BY <4>1 DEF EndsKept
      <3>4. StaysPut(r, start)
        BY <2>1, HandleStaysPut
      <3> QED
        BY <1>2, <2>2, <3>1, <3>3, <3>4, WholeKept
    <2>8. CASE raw.id = n /\ raw.type = "binary"
      <3>1. AtEnd(r, start, w)'
        BY <2>6, <2>8 DEF AtEnd
      <3>2. ASSUME linkUp[r], Counted(r, start), r \in Audience(start),
                   NEW t \in Session, NEW i \in 1 .. Len(toServer'[t]),
                   EndAt(toServer'[t], n, i)
            PROVE  w + ChunksIn(c1, n, Len(c1)) + ChunksIn(toServer'[t], n, i) = Chunks
        <4>1. ChunkAt(q, n, 1)
          BY <1>1, <2>8 DEF ChunkAt
        <4>2. /\ t = s /\ i + 1 \in 1 .. Len(q) /\ EndAt(q, n, i + 1)
              /\ ChunksIn(q, n, i + 1) = ChunksIn(q1, n, i) + 1
          BY <1>11, <2>8, <3>2, <4>1
        <4>3. ChunksIn(c1, n, Len(c1)) = ChunksIn(c, n, Len(c)) + 1
          <5>1. r \in T
            BY <1>3, <2>1, <2>8, <3>2
          <5>2. Told(c, c1, raw)
            BY <1>7, <3>2, <5>1
          <5> QED
            BY <1>4, <2>8, <5>2, <1>8
        <4>4. w + ChunksIn(c, n, Len(c)) + ChunksIn(q, n, i + 1) = Chunks
          BY <2>4, <3>2, <4>2
        <4>5. ChunksIn(c, n, Len(c)) \in Nat /\ ChunksIn(q1, n, i) \in Nat
          <5>1. i \in Nat /\ Len(c) \in Nat
            BY <1>4
          <5> QED
            BY <5>1, CountFinite
        <4>6. w + (ChunksIn(c, n, Len(c)) + 1) + ChunksIn(q1, n, i)
                = w + ChunksIn(c, n, Len(c)) + (ChunksIn(q1, n, i) + 1)
          BY <2>0, <4>5
        <4> QED
          BY <4>2, <4>3, <4>4, <4>6
      <3>3. Still(r, start, w)'
        BY <1>2, <2>3, <2>4, <3>2 DEF Still
      <3> QED
        BY <3>1, <3>3 DEF Whole
    <2>9. CASE raw.id = n /\ raw.type = "attachment_end"
      <3>1. ASSUME NEW t \in Session, NEW i \in 1 .. Len(toServer'[t]),
                   EndAt(toServer'[t], n, i)
            PROVE  FALSE
        <4>1. t = s /\ i + 1 \in 1 .. Len(q) /\ EndAt(q, n, i + 1)
          BY <1>11, <2>9, <3>1
        <4>2. EndAt(q, n, 1) /\ PartAt(q, n, i + 1)
          BY <1>1, <2>9, <4>1 DEF EndAt, PartAt, TransferWord
        <4>3. i + 1 <= 1
          BY <1>1, <1>4, <4>1, <4>2 DEF Ordered
        <4> QED
          BY <1>4, <4>3
      <3>2. Still(r, start, w)'
        BY <1>2, <2>3, <2>4, <3>1 DEF Still
      <3>3. ASSUME Counted(r, start), NEW i \in 1 .. Len(c1), EndAt(c1, n, i)
            PROVE  w + ChunksIn(c1, n, i) = Chunks
        <4>1. linkUp[r] /\ r \in T /\ i = Len(c1) /\ Told(c, c1, raw)
          BY <2>6, <2>9, <3>3
        <4>2. raw.target = start.target /\ raw.groupId = start.groupId
              /\ raw.sender = start.sender
          BY <2>1, <2>5, <2>9 DEF SameFile
        <4>3. r \in Audience(start)
          <5>1. T = TextTo(s, raw)
            BY <1>3, <2>9
          <5>2. CASE start.target # Empty /\ r = s
            <6>1. Counted(s, raw)
              BY <3>3, <4>2, <5>2 DEF Counted, Own
            <6> QED
              BY <1>12, <4>1, <4>2, <5>2, <6>1 DEF Audience
          <5>3. CASE start.target = Empty \/ r # s
            BY <4>1, <4>2, <5>1, <5>3 DEF TextTo, Audience
          <5> QED
            BY <5>2, <5>3
        <4>4. EndAt(q, n, 1) /\ ~ChunkAt(q, n, 1)
          BY <1>1, <2>9 DEF EndAt, ChunkAt
        <4>5. ChunksIn(q, n, 1) = 0
          <5>1. PICK k \in Nat : k = 1
            OBVIOUS
          <5>2. \A j \in 1 .. k : ~ChunkAt(q, n, j)
            BY <4>4, <5>1
          <5> QED
            BY <5>1, <5>2, CountNone
        <4>6. w + ChunksIn(c, n, Len(c)) + ChunksIn(q, n, 1) = Chunks
          BY <1>1, <2>4, <3>3, <4>1, <4>3, <4>4
        <4>7. ChunksIn(c1, n, Len(c1)) = ChunksIn(c, n, Len(c))
          BY <1>4, <2>9, <4>1, <1>8
        <4>8. w + ChunksIn(c, n, Len(c)) \in Nat
          <5>1. ChunksIn(c, n, Len(c)) \in Nat
            BY <1>4, CountFinite
          <5> QED
            BY <2>0, <5>1
        <4> QED
          BY <4>1, <4>5, <4>6, <4>7, <4>8
      <3>4. AtEnd(r, start, w)'
        BY <2>3, <3>3 DEF AtEnd
      <3> QED
        BY <3>2, <3>4 DEF Whole
    <2> QED
      BY <1>5, <2>7, <2>8, <2>9 DEF TransferWord
  \* A client that is told of a new file.
  <1>15. ASSUME NEW r \in Session, raw.type = "attachment_start",
                linkUp[r], r \in T, Told(toClient[r], toClient'[r], raw)
         PROVE  Whole(r, raw, 0)'
    <2> DEFINE n == raw.id
               c == toClient[r]
               c1 == toClient'[r]
    <2>1. StartAt(q, n, 1) /\ \A j \in 1 .. Len(c) : ~PartAt(c, n, j)
      <3>1. StartAt(q, n, 1)
        BY <1>1, <1>15 DEF StartAt
      <3> QED
        BY <1>1, <3>1 DEF Placed, StartedFirst
    <2>2. AtEnd(r, raw, 0)'
      <3>1. ASSUME NEW i \in 1 .. Len(c1), EndAt(c1, n, i)
            PROVE  FALSE
        <4>1. \/ i \in 1 .. Len(c) /\ c1[i] = c[i]
              \/ i = Len(c) + 1 /\ c1[i] = raw
          BY <1>4, <1>15, <1>8
        <4> QED
          BY <1>15, <2>1, <3>1, <4>1 DEF EndAt, PartAt, TransferWord
      <3> QED
        BY <3>1 DEF AtEnd
    <2>3. ASSUME Counted(r, raw)
          PROVE  Belongs(r, raw)
      <3>1. T = TextTo(s, raw)
        BY <1>3, <1>15
      <3>2. CASE raw.target # Empty /\ r = s
        BY <1>12, <1>15, <2>3, <3>2 DEF Belongs
      <3>3. CASE raw.target # Empty /\ r # s
        <4>1. raw.target \in Name /\ users[raw.target] = r
          BY <1>15, <3>1, <3>3 DEF TextTo, RegisteredAs
        <4>2. username[r] = raw.target
          BY <4>1 DEF References, NamesRead
        <4> QED
          BY <3>3, <4>2 DEF Belongs
      <3>4. CASE raw.target = Empty
        BY <1>15, <3>1, <3>4 DEF TextTo, Belongs, Audience
      <3> QED
        BY <3>2, <3>3, <3>4
    <2>4. ASSUME NEW t \in Session, NEW i \in 1 .. Len(toServer'[t]),
                 EndAt(toServer'[t], n, i)
          PROVE  0 + ChunksIn(c1, n, Len(c1)) + ChunksIn(toServer'[t], n, i) = Chunks
      <3>1. ~ChunkAt(q, n, 1)
        BY <1>1, <1>15 DEF ChunkAt
      <3>2. /\ t = s /\ i + 1 \in 1 .. Len(q) /\ EndAt(q, n, i + 1)
            /\ ChunksIn(q, n, i + 1) = ChunksIn(q1, n, i)
        BY <1>11, <2>4, <3>1
      <3>3. ChunksIn(q, n, i + 1) = Chunks
        BY <1>1, <2>1, <3>2 DEF Placed, SentWhole
      <3>4. ChunksIn(c, n, Len(c)) = 0
        <4>1. \A j \in 1 .. Len(c) : ~ChunkAt(c, n, j)
          BY <2>1 DEF ChunkAt, PartAt, TransferWord
        <4> QED
          BY <1>4, <4>1, CountNone
      <3>5. ChunksIn(c1, n, Len(c1)) = ChunksIn(c, n, Len(c))
        BY <1>4, <1>15, <1>8
      <3> QED
        BY <3>2, <3>3, <3>4, <3>5, ChunksAssumption
    <2>5. Still(r, raw, 0)'
      BY <1>13, <2>3, <2>4 DEF Still
    <2> QED
      BY <2>2, <2>5 DEF Whole
  <1>16. ASSUME NEW r \in Session, NEW start, NEW w, Expects(r, start, w)'
         PROVE  Whole(r, start, w)'
    <2>1. CASE Expects(r, start, w)
      BY <1>14, <2>1
    <2>2. CASE ~Expects(r, start, w)
      <3>1. PICK i \in 1 .. Len(toClient'[r]) :
              toClient'[r][i] = start /\ w = 0 /\ start.type = "attachment_start"
        BY <1>2, <1>16, <2>2 DEF Expects
      <3>2. /\ linkUp[r] /\ r \in T
            /\ Told(toClient[r], toClient'[r], raw)
        <4>1. CASE toClient'[r] = toClient[r]
          BY <2>2, <3>1, <4>1 DEF Expects
        <4> QED
          BY <1>7, <4>1
      <3>3. \/ i \in 1 .. Len(toClient[r]) /\ toClient'[r][i] = toClient[r][i]
            \/ toClient'[r][i] = raw
        BY <1>4, <3>1, <3>2 DEF Told
      <3>4. start = raw /\ w = 0
        BY <2>2, <3>1, <3>3 DEF Expects
      <3> QED
        BY <1>15, <3>1, <3>2, <3>4
    <2> QED
      BY <2>1, <2>2
  <1>17. Counts'
    BY <1>16 DEF Counts
  <1>18. WholeReceived'
    BY <1>2, <1>13 DEF WholeReceived
  <1> QED
    BY <1>10, <1>17, <1>18

-----------------------------------------------------------------------------
(* The whole argument.                                                     *)

LEMMA UnusedKept ==
    ASSUME TypeOK, StateTypeOK, Membership, Unused, [AppNext]_appVars
    PROVE  Unused'
  <1> SUFFICES ASSUME NEW t \in Session, session'[t] = "none"
               PROVE  incomingAttachments'[t] = {} /\ receivedFiles'[t] = {}
    BY DEF Unused
  <1>1. session[t] = "none"
    BY UnusedBefore
  <1>2. /\ incomingAttachments[t] = {} /\ receivedFiles[t] = {}
        /\ toClient[t] = <<>>
    BY <1>1 DEF Unused, Membership, Fresh
  <1>3. CASE UNCHANGED stateVars
    BY <1>2, <1>3 DEF stateVars
  <1>4. ASSUME NEW s \in Session, Show(s)
        PROVE  incomingAttachments'[t] = {} /\ receivedFiles'[t] = {}
    <2>1. Head(toClient[s]) \in Raw /\ toClient[s] # <<>>
      BY <1>4, Taken DEF Show
    <2>2. t # s
      BY <1>2, <2>1
    <2> QED
      BY <1>2, <1>4, <2>1, <2>2, ShowFiles DEF Show
  <1> QED
    BY <1>3, <1>4, StepKinds

LEMMA FilesKept ==
    ASSUME Ground, Ground', Names, Transfers, ChunkRoute, Files, Unused,
           [AppNext]_appVars
    PROVE  Files'
  <1>0. /\ TypeOK /\ StateTypeOK /\ References /\ Membership
        /\ QueueLengths /\ QueueLengths'
    <2>1. TypeOK /\ TypeOK' /\ StateTypeOK /\ References /\ Membership
      BY DEF Ground
    <2>2. QueueLengths'
      BY <2>1, LenProperties DEF TypeOK, ConnTypeOK, QueueLengths
    <2> QED
      BY <2>1, <2>2, LengthsOfQueues
  <1>1. ASSUME NEW s \in Session, Show(s)
        PROVE  Files'
    BY <1>0, <1>1, ShowPlaced, ShowCounts DEF Files
  <1>2. ASSUME NEW s \in Session, Operate(s), UNCHANGED stateVars
        PROVE  Files'
    <2>1. UNCHANGED <<incomingAttachments, receivedFiles>>
      BY <1>2 DEF stateVars
    <2>2. Placed' /\ Counts'
      BY <1>0, <1>2, <2>1, OperatePlaced, OperateCounts DEF Files
    <2>3. UNCHANGED currentUser
      BY <1>0, <1>2, <2>1, OperateAppends DEF Files, Placed
    <2>4. WholeReceived'
      BY <2>1, <2>3 DEF Files, WholeReceived, Counted, Own
    <2> QED
      BY <2>2, <2>4 DEF Files
  <1>3. ASSUME Silent
        PROVE  Files'
    BY <1>0, <1>3, SilentKeepsFiles DEF Transfers
  <1>4. CASE UNCHANGED stateVars /\ Quiet
    <2>1. CASE \E s \in Session : Operate(s)
      BY <1>2, <1>4, <2>1
    <2>2. CASE ~\E s \in Session : Operate(s)
      <3>1. Silent
        BY <1>0, <1>4, <2>2, QuietIsSilent DEF Quiet
      <3> QED
        BY <1>3, <3>1
    <2> QED
      BY <2>1, <2>2
  <1>5. ASSUME NEW s \in Session, ReadError(s) \/ WriteError(s),
               UNCHANGED controllerVars, UNCHANGED stateVars
        PROVE  Files'
    BY <1>0, <1>3, <1>5, ErrorIsSilent
  <1>6. ASSUME NEW s \in Session, HandleFrame(s), UNCHANGED controllerVars,
               UNCHANGED stateVars
        PROVE  Files'
    <2>1. CASE Head(toServer[s]).type \in TransferWord
      BY <1>0, <1>6, <2>1, TransferKeepsFiles
    <2>2. CASE Head(toServer[s]).type \notin TransferWord
      BY <1>0, <1>3, <1>6, <2>2, HandleIsSilent
    <2> QED
      BY <2>1, <2>2
  <1> QED
    BY <1>1, <1>4, <1>5, <1>6, StepKinds

LEMMA FilesHold == EscapedNames = {} => (AppSpec => [](Files /\ Unused))
  <1> SUFFICES ASSUME EscapedNames = {} PROVE AppSpec => [](Files /\ Unused)
    OBVIOUS
  <1>1. AppInit => Files /\ Unused
    <2> SUFFICES ASSUME AppInit PROVE Files /\ Unused
      OBVIOUS
    <2>1. /\ \A s \in Session : toServer[s] = <<>> /\ toClient[s] = <<>>
          /\ \A s \in Session : incomingAttachments[s] = {} /\ receivedFiles[s] = {}
          /\ routes = {}
      BY DEF AppInit, Init, ConnInit, ServerInit, ControllerInit, StateInit
    <2>2. \A s \in Session : 1 .. Len(toServer[s]) = {} /\ 1 .. Len(toClient[s]) = {}
      BY <2>1
    <2>3. \A f : ~Underway(f)
      BY <2>1, <2>2 DEF Underway
    <2>4. Attributed /\ Signed /\ QueuesOrdered /\ SentWhole /\ StartedFirst
          /\ EndedLast /\ Opened
      BY <2>1, <2>2, <2>3 DEF Attributed, Signed, QueuesOrdered, Ordered, SentWhole,
         StartedFirst, EndedLast, Opened
    <2>5. \A r \in Session : \A start, w : ~Expects(r, start, w)
      BY <2>1, <2>2 DEF Expects
    <2> QED
      BY <2>1, <2>4, <2>5 DEF Files, Placed, Counts, WholeReceived, Unused
  <1>2. ASSUME Ground, Ground', Names, Transfers, ChunkRoute, Files, Unused,
               [AppNext]_appVars
        PROVE  Files' /\ Unused'
    BY <1>2, FilesKept, UnusedKept DEF Ground
  <1>3. AppSpec => [](Names /\ Transfers /\ ChunkRoute)
    BY ApplicationIsSystem, NamesHold, TransfersHold, PTL
  <1> QED
    BY <1>1, <1>2, <1>3, GroundHolds, PTL DEF AppSpec

(* A file that a client shows has every chunk of the one that was sent,    *)
(* however the transfers overlap and whoever comes or goes meanwhile,      *)
(* whoever shares a name and whoever the server has no name for, as long   *)
(* as it reads none as another: only a client's own private file, which    *)
(* the server echoes to whoever has its name, is left to the next theorem. *)
THEOREM FilesOfOthersWhole ==
    EscapedNames = {} =>
      (AppSpec => [](\A s \in Session : \A file \in receivedFiles[s] :
                       ~Own(s, file.start) => file.written = Chunks))
  <1> SUFFICES ASSUME EscapedNames = {}
               PROVE  AppSpec => [](\A s \in Session : \A file \in receivedFiles[s] :
                                      ~Own(s, file.start) => file.written = Chunks)
    OBVIOUS
  <1>1. Files => \A s \in Session : \A file \in receivedFiles[s] :
                    ~Own(s, file.start) => file.written = Chunks
    BY DEF Files, WholeReceived, Counted
  <1> QED
    BY <1>1, FilesHold, PTL

(* With names that belong to one person at a time and that the server      *)
(* reads as they are, this is so for every file that a client shows, its   *)
(* own private ones among them.                                            *)
THEOREM FilesWhole ==
    ExclusiveNames /\ QuotedNames = {} /\ EscapedNames = {} =>
      (AppSpec => []CompletedAttachmentIsWhole)
  <1> SUFFICES ASSUME ExclusiveNames, QuotedNames = {}, EscapedNames = {}
               PROVE  AppSpec => []CompletedAttachmentIsWhole
    OBVIOUS
  <1>1. Files => CompletedAttachmentIsWhole
    BY DEF Files, WholeReceived, Counted, CompletedAttachmentIsWhole
  <1> QED
    BY <1>1, FilesHold, PTL
=============================================================================
