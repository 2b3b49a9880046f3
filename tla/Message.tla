------------------------------- MODULE Message -------------------------------
(***************************************************************************)
(* The shared protocol of Campus Connect: logic/Message.{h,cpp}, and the   *)
(* one frame that is written without it, the connect frame of              *)
(* network/TcpNetworkClient.cpp.                                           *)
(*                                                                         *)
(* A message is a record with the source's fields.  The source keeps       *)
(* every payload in one string, `content'; here it is split by what it     *)
(* carries, so that any two messages can be compared:                      *)
(*    content  the word of a typing message ("typing" or "stopped")        *)
(*    id       which text it is, or the millisecond of a file id           *)
(*    users    the names of a user list                                    *)
(* The timestamp is wording and is left out.                               *)
(*                                                                         *)
(* `raw' is what travels in a frame: the JSON object, a record whose type  *)
(* is the protocol's word.  The frame-type byte is folded into that word:  *)
(* the payload of a binary frame (type byte 1) has type "binary", which    *)
(* no JSON text has.                                                       *)
(***************************************************************************)
EXTENDS Naturals

CONSTANTS Name,         \* user names
          Group,        \* group identifiers
          QuotedNames,  \* the names with a quote or a backslash in them that
                        \* JSON cannot read
          EscapedNames  \* the names with a backslash in them that JSON reads
                        \* as an escape, and so as another name

\* The empty string of a field that is not used.
Empty == ""

ASSUME NameAssumption  == Empty \notin Name
ASSUME EscapeAssumption == QuotedNames \cup EscapedNames \subseteq Name
ASSUME GroupAssumption == Empty \notin Group

MessageType ==
    { "Connect", "ConnectAck", "PublicMessage", "PrivateMessage",
      "CreateGroup", "JoinGroup", "GroupMessage", "Typing", "UserList",
      "AttachmentStart", "AttachmentEnd", "Error", "History", "AIRequest",
      "AIResponse", "Unknown" }

messageTypeToString(t) ==
    CASE t = "Connect"         -> "connect"
      [] t = "ConnectAck"      -> "connect_ack"
      [] t = "PublicMessage"   -> "public_message"
      [] t = "PrivateMessage"  -> "private_message"
      [] t = "CreateGroup"     -> "create_group"
      [] t = "JoinGroup"       -> "join_group"
      [] t = "GroupMessage"    -> "group_message"
      [] t = "Typing"          -> "typing"
      [] t = "UserList"        -> "user_list"
      [] t = "AttachmentStart" -> "attachment_start"
      [] t = "AttachmentEnd"   -> "attachment_end"
      [] t = "Error"           -> "error"
      [] t = "History"         -> "history"
      [] t = "AIRequest"       -> "ai_request"
      [] t = "AIResponse"      -> "ai_response"
      [] OTHER                 -> "unknown"

stringToMessageType(w) ==
    CASE w = "connect"          -> "Connect"
      [] w = "connect_ack"      -> "ConnectAck"
      [] w = "public_message"   -> "PublicMessage"
      [] w = "private_message"  -> "PrivateMessage"
      [] w = "create_group"     -> "CreateGroup"
      [] w = "join_group"       -> "JoinGroup"
      [] w = "group_message"    -> "GroupMessage"
      [] w = "typing"           -> "Typing"
      [] w = "user_list"        -> "UserList"
      [] w = "attachment_start" -> "AttachmentStart"
      [] w = "attachment_end"   -> "AttachmentEnd"
      [] w = "error"            -> "Error"
      [] w = "history"          -> "History"
      [] w = "ai_request"       -> "AIRequest"
      [] w = "ai_response"      -> "AIResponse"
      [] OTHER                  -> "Unknown"

-----------------------------------------------------------------------------
(* Message::Message, with the fields each sender leaves empty.             *)

NewMessage(t, from, to, g, word, n, names) ==
    [ type |-> t, sender |-> from, target |-> to, groupId |-> g,
      content |-> word, id |-> n, users |-> names ]

NoMessage == NewMessage("Unknown", Empty, Empty, Empty, "", 0, {})

toJson(m) == [m EXCEPT !.type = messageTypeToString(@)]

\* A payload that is no JSON object becomes the default message.
Garbled == [NoMessage EXCEPT !.type = "garbled"]

fromJson(raw) ==
    IF raw = Garbled THEN NoMessage
                     ELSE [raw EXCEPT !.type = stringToMessageType(@)]

\* Faulty: the first frame is an acknowledgement.
connectMessageAck(u) ==
    { toJson(NewMessage("ConnectAck", u, Empty, Empty, "", 0, {})) }

\* Faulty: the frame is made before the name is there.
connectMessageUnnamed(u) ==
    { toJson(NewMessage("Connect", Empty, Empty, Empty, "", 0, {})) }

\* What JSON makes of a name that stands in a text as it is.  Which other
\* name an escape spells is left open.
ReadAs(u) == IF u \in EscapedNames THEN Name \ {u} ELSE {u}

(* The client writes its first frame with QString::arg, not with toJson:   *)
(* nothing in the name is escaped.  This is what the server can find in    *)
(* it: a quote or a backslash in the name's place ends or bends the JSON   *)
(* string and the text parses no more, or it is an escape and the text     *)
(* parses to another name.                                                 *)
connectMessage(u) ==
    IF u \in QuotedNames THEN {Garbled}
    ELSE { toJson(NewMessage("Connect", read, Empty, Empty, "", 0, {})) :
             read \in ReadAs(u) }

\* The payload of a binary frame: the file id and one chunk of the file.
chunkPacket(u, n) ==
    [ NewMessage("Unknown", u, Empty, Empty, "", n, {}) EXCEPT !.type = "binary" ]

\* fileId is the sender's name and the clock's millisecond.
fileId(m) == <<m.sender, m.id>>

-----------------------------------------------------------------------------
RawWord == { messageTypeToString(t) : t \in MessageType }
             \cup { "binary", "garbled" }

Raw == [ type    : RawWord,
         sender  : Name \cup {Empty},
         target  : Name \cup {Empty},
         groupId : Group \cup {Empty},
         content : {"", "typing", "stopped"},
         id      : Nat,
         users   : SUBSET Name ]

\* What the windows let a client write: a group is named where one is meant.
GroupWord == {"create_group", "join_group", "group_message"}

ClientFrame == { raw \in Raw :
                   /\ raw.type \in GroupWord => raw.groupId \in Group
                   /\ raw.type = "connect" => raw.sender \in Name }
=============================================================================
