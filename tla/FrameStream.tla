------------------------------ MODULE FrameStream ------------------------------
(***************************************************************************)
(* Frames over the byte stream of a TCP connection, in either direction:   *)
(* network/TcpNetworkClient.cpp writes to server/ClientSession.cpp, and    *)
(* ClientSession writes to TcpNetworkClient.  A frame is a big-endian      *)
(* length, a type byte and a body; the stream has no boundaries.           *)
(*                                                                         *)
(* The header has its four bytes, and a byte has Base values: 256 in the   *)
(* code, few in a model, so that lengths wrap within reach.  The client's  *)
(* QTcpSocket keeps what it cannot write yet in one buffer.  The server    *)
(* starts an async_write for each frame while others are unfinished; each  *)
(* writes what the socket has room for, and asks for the rest behind those *)
(* that wait already.                                                      *)
(***************************************************************************)
EXTENDS Integers, SequencesExt

CONSTANTS
    Base,          \* the values of a byte
    Directions,    \* the directions that are looked at
    RoomToServer, RoomToClient,   \* bytes the kernels hold for each
    MaxBody,       \* bound: bytes of a body
    MaxFrames      \* bound: frames that are sent

HeaderSize == 4
Byte  == 0 .. Base - 1
Width == Base ^ HeaderSize         \* 2^32 for quint32

\* As int: quint32 turned into a signed number.
Signed(n) == IF n >= Width \div 2 THEN n - Width ELSE n

Frame == [ type : {0, 1}, body : UNION { [1 .. n -> Byte] : n \in 1 .. MaxBody } ]

ASSUME BaseAssumption == Base \in Nat /\ Base >= 2
ASSUME DirectionsAssumption == Directions \subseteq {"toServer", "toClient"}
ASSUME RoomAssumption == {RoomToServer, RoomToClient} \subseteq Nat \ {0}

\* No frame of the program is nearly as long as a length that wraps.
ASSUME LengthAssumption ==
    MaxBody \in Nat /\ MaxFrames \in Nat /\ HeaderSize + 1 + MaxBody < Width \div 2

VARIABLES
    direction,
    writes,    \* what each unfinished write still has to write
    wire,      \* bytes in the kernels
    buffer,    \* the client's buffer, or what async_read has read so far
    reading,   \* server: the part of a frame it reads
    need,      \* server: the bytes its async_read waits for
    sent, got  \* history: frames sent, frames handed to a handler

streamVars == <<direction, writes, wire, buffer, reading, need, sent, got>>

StreamTypeOK ==
    /\ direction \in Directions
    /\ \A i \in DOMAIN writes : writes[i] \in Seq(Byte) \ {<<>>}
    /\ wire \in Seq(Byte)
    /\ buffer \in Seq(Byte)
    /\ reading \in {"header", "payload"}
    /\ need \in 1 .. Width - 1
    /\ direction = "toServer" => Len(buffer) < need
    /\ sent \in Seq(Frame)
    /\ \A i \in DOMAIN got :
         got[i].type \in {0, 1} /\ got[i].body \in Seq(Byte)

StreamInit ==
    /\ direction \in Directions
    /\ writes = <<>> /\ wire = <<>> /\ buffer = <<>>
    /\ reading = "header" /\ need = HeaderSize
    /\ sent = <<>> /\ got = <<>>

-----------------------------------------------------------------------------
(* Writing.                                                                *)

encodeBigEndianLength(n) ==
    [i \in 1 .. HeaderSize |-> (n \div Base ^ (HeaderSize - i)) % Base]

decodeBigEndianLength(bytes) ==
    FoldLeft(LAMBDA n, b : n * Base + b, 0, bytes)

\* sendMessage and sendBinary on either side.
Encode(f) == encodeBigEndianLength(Len(f.body) + 1) \o <<f.type>> \o f.body

SendFrame(f) ==
    /\ Len(sent) < MaxFrames
    /\ sent' = Append(sent, f)
    /\ writes' = Append(writes, Encode(f))
    /\ UNCHANGED <<direction, wire, buffer, reading, need, got>>

Room == (IF direction = "toServer" THEN RoomToServer ELSE RoomToClient)
          - Len(wire)

\* The next k bytes leave the program; the rest keeps its place or loses it.
WriteSome ==
    /\ writes # <<>>
    /\ Room > 0
    /\ LET first == Head(writes)
           k     == IF Room < Len(first) THEN Room ELSE Len(first)
           rest  == SubSeq(first, k + 1, Len(first))
       IN  /\ wire' = wire \o SubSeq(first, 1, k)
           /\ writes' = IF rest = <<>> THEN Tail(writes)
                        ELSE IF direction = "toServer"
                          THEN <<rest>> \o Tail(writes)
                          ELSE Append(Tail(writes), rest)
    /\ UNCHANGED <<direction, buffer, reading, need, sent, got>>

-----------------------------------------------------------------------------
(* TcpNetworkClient::processBuffer, as its loop: the frames it hands on    *)
(* and what it leaves in the buffer.                                       *)

\* Faulty: the header is not counted.
CompleteWithoutHeader(b, n) == Len(b) >= Signed(n)

Complete(b, n) == Len(b) >= Signed((HeaderSize + n) % Width)

RECURSIVE processBuffer(_)
processBuffer(b) ==
    LET n     == decodeBigEndianLength(SubSeq(b, 1, HeaderSize))
        cut   == (HeaderSize + n) % Width
        frame == SubSeq(b, HeaderSize + 1, Min({HeaderSize + n, Len(b)}))
        after == processBuffer(SubSeq(b, cut + 1, Len(b)))
    IN
    IF Len(b) < HeaderSize \/ (n # 0 /\ ~Complete(b, n))
      THEN [frames |-> <<>>, rest |-> b]
    ELSE IF frame = <<>> \/ Head(frame) \notin {0, 1} THEN after
    ELSE [after EXCEPT !.frames =
            << [type |-> Head(frame), body |-> Tail(frame)] >> \o @]

\* readyRead: some of what was written has arrived.
ReadyRead ==
    /\ direction = "toClient"
    /\ \E k \in 1 .. Len(wire) :
         LET done == processBuffer(buffer \o SubSeq(wire, 1, k)) IN
         /\ wire' = SubSeq(wire, k + 1, Len(wire))
         /\ got' = got \o done.frames
         /\ buffer' = done.rest
    /\ UNCHANGED <<direction, writes, reading, need, sent>>

-----------------------------------------------------------------------------
(* ClientSession::readHeader and readPayload: an async_read takes what     *)
(* arrives until it has all it waits for, and its handler starts the next. *)

readHeader == reading' = "header" /\ need' = HeaderSize

readPayload(size) == reading' = "payload" /\ need' = size

\* Faulty: the header is left in front of the payload.
emptiedKept(bytes) == bytes

emptied(bytes) == <<>>

HeaderRead(bytes) ==
    LET payloadSize == decodeBigEndianLength(bytes) IN
    /\ IF payloadSize = 0 THEN readHeader ELSE readPayload(payloadSize)
    /\ UNCHANGED got

PayloadRead(bytes) ==
    /\ got' = IF Head(bytes) = 0 \/ (Head(bytes) = 1 /\ Len(bytes) > 1)
                THEN Append(got, [type |-> Head(bytes), body |-> Tail(bytes)])
                ELSE got
    /\ readHeader

ReadSome ==
    /\ direction = "toServer"
    /\ \E k \in 1 .. Min({Len(wire), need - Len(buffer)}) :
         LET bytes == buffer \o SubSeq(wire, 1, k) IN
         /\ wire' = SubSeq(wire, k + 1, Len(wire))
         /\ IF Len(bytes) < need
              THEN buffer' = bytes /\ UNCHANGED <<reading, need, got>>
              ELSE /\ buffer' = emptied(bytes)
                   /\ \/ reading = "header"  /\ HeaderRead(bytes)
                      \/ reading = "payload" /\ PayloadRead(bytes)
    /\ UNCHANGED <<direction, writes, sent>>

-----------------------------------------------------------------------------
Transport == WriteSome \/ ReadyRead \/ ReadSome

StreamNext == (\E f \in Frame : SendFrame(f)) \/ Transport

(* The kernels deliver what they hold, and both event loops run: a write   *)
(* or a read that can make progress does.                                  *)
StreamSpec ==
    StreamInit /\ [][StreamNext]_streamVars /\ WF_streamVars(Transport)

\* The frames that have been sent and not handed to a handler.
Undelivered == SubSeq(sent, Len(got) + 1, Len(sent))

Channel == INSTANCE FrameChannel WITH queue <- Undelivered, got <- got

(* Whatever pieces the stream is read and written in, frames arrive whole, *)
(* in order, each once, and every one in the end: the links of Connection. *)
ImplementsChannel == Channel!Spec

(* What a handler has been given is what was sent, in that order.          *)
DeliveredInOrder == IsPrefix(got, sent)
=============================================================================
