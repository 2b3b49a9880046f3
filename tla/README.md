# Campus Connect: specifications, model checking and proofs

Campus Connect is a chat for a local network: a Boost.Asio server
(`server.cpp`, `src/server/`) and a Qt client (`src/main.cpp`, `src/gui/`,
`src/logic/`, `src/network/`) that exchange JSON messages and binary chunks in
length-prefixed frames over TCP. This directory holds TLA+ modules of its server,
its protocol, its byte streams, the logic of its clients and the recorders and
cameras of their windows, the TLC configurations that check them on small
instances, and theorems about them that TLAPS checks for all instances.

All paths below are relative to the repository; `ServerController.cpp:61` means
`src/server/ServerController.cpp`, line 61.

## 1. The system

### Components

| Component | State | Operations | Module |
|---|---|---|---|
| `Message` | type, sender, target, groupId, content | `toJson`, `fromJson`, the two conversions of the type | `Message` |
| `TcpServer`, `ClientSession` | the socket, the user name, the pending read and writes | accept, read a frame, write a frame, end on an error | `Connection`, `ServerController`; the two reads of a frame and `async_write`: `FrameStream` |
| `ServerController` | `clients`, `users`, `groups`, `publicHistory`, `groupHistory`, `activeAttachmentRoutes`, and the history files | one handler for each message type, `handleBinary`, `registerClient`, `removeClient` | `ServerController` |
| `TcpNetworkClient` | socket, receive buffer | connect, send text, send binary, take frames apart | `Connection`, `FrameStream` |
| `ChatController`, sending | `currentUser`, `joinedGroups` of `ChatState` | connect, send public, private and group texts, typing, attachments; create and join groups | `ChatController` |
| `ChatController`, receiving, and `ChatState` | messages, online users, open attachments, typing users | `handleIncomingMessage`, `handleIncomingBinary` | `ChatState`; typing users: `TypingStatus` |
| `ChatWindow`, `GroupWindow` | text field, selected group, voice recorder, camera dialog | text changes, buttons, recorder and capture signals | texts and groups: `ChatController`, `TypingStatus`; voice and camera: `VoiceMessage`, `CameraDialog`, `ChatWindow`, `GroupWindow` |
| `PrivateWindow` | voice recorder, camera dialog | buttons, recorder signals | `ChatController`, `PrivateWindow` |
| `LoginWindow`, `main` | none | connect once | `ConnectUser` of `ChatController` |

Not modelled: `MessageRenderer` (one message to HTML), `InputValidator` (two
predicates on a string), the `uic` and `rcc` output, and `ServerState` and
`MockNetworkClient`, which no program of `CMakeLists.txt` uses. Section 5 gives
the reasons, and what is left out of the components that are modelled.

### How they interact

A window calls an operation of its `ChatController`, which writes frames to the
socket and returns. The server's `io_context` runs on one thread
(`server.cpp:9-13`): each completion of an accept, a read or a failed write runs a
handler to its end, which changes `ServerController` and starts writes on any
number of other sessions. A client's Qt event loop takes whole frames off its
socket and calls `handleIncomingMessage` or `handleIncomingBinary`, which change
`ChatState`; windows read it with a timer. Server and client share nothing else.

### What is hard here

* Handlers run one at a time, but in any order: between sessions, and within a
  session between the read loop, which may hold a read that has already completed,
  and each write that fails later. All of them call `removeClient`.
* A name says nothing about a session: `users` maps a name to the last session that
  connected under it, and the removal of any session of that name erases it.
* A client is among `clients` before it has told its name.
* The histories exist three times: in memory, on disk, and in every window. A crash
  empties the first; a group's history is loaded only by a join.
* A chunk of an attachment names neither its sender nor its audience; it is routed by
  a map that other transfers and other sessions change between its start and its end.
* Nothing tells a client that its frame was dropped, and nothing reconnects it. Nothing tells
  the server that a link is dead, if it broke without a word and is not written to.
* `async_write` is started for each frame without a queue, and frames arrive in pieces,
  cut anywhere, with lengths computed in 32 bits.
* Who types is told by words that follow the text field, and forgotten by messages; the
  frames of both, of several windows and of a change of group meet on their way.
* `stop()` of a recorder is a request. Its file is finished later, its signal comes later,
  errors come as often as they like, `record()` may be refused; meanwhile the user deletes,
  sends, records again, or closes the dialog.

### What makes each component correct

* Server: no container refers to a dead session, and dead sessions leave
  (`NoDangling`, `DeadSessionsLeave`); a connected client is known by its name and
  registered under it (`SessionKnowsItsUser`, `OnlineSessionsListed`); members of a
  group are routed to (`MembersAreRouted`); memory and disk agree (`HistoryOnDisk`);
  chunks find their route (`ChunksHaveRoute`). To its members each room is one log that
  everybody is shown (`PublicRoomImplemented`, `GroupRoomsImplemented`).
* The connection: frames arrive whole, in order, once, and at all (`ImplementsChannel`);
  nothing is handed on that was not sent (`DeliveredInOrder`).
* Clients: what they show is what the server has, once everything on its way has
  arrived (`PublicViewComplete`, `GroupViewComplete`, `UserListFresh`); two people see
  one conversation (`ConversationsAgree`); a file that is shown is whole
  (`CompletedAttachmentIsWhole`); what is said is shown (`EveryPublicMessageShown`); who is
  marked as typing has text in his field (`TypingHasText`, `GroupTypingHasText` with an
  exception, `GroupTypingOnlyWithText` without).
* Windows: what can be sent is the last recording that was made, with its file closed and not
  empty (`PendingVoiceIsLast`), never one that was thrown away (`DeletedVoiceNeverSent`, with one
  exception); the controls agree with the members
  (`VoiceControlsAgree`); a camera dialog sends only finished files and does not get stuck
  (`ListenersSendWhole`, `CameraNeverStuck`).

## 2. The modules

    Message            the protocol: types, records, JSON, first frame, chunk
      Connection       one TCP link for each session, seen from both ends
        ServerController   the server's state and handlers, accept, removal, crash
        ChatController     what each operation of a user writes
          ChatState        what each client shows of the frames it takes
      ChatSystem       ServerController + ChatController: Spec, safety
        CampusConnect  ChatSystem + ChatState: AppSpec, what the clients show
          CampusRooms  CampusConnect implements ChatRoom, for each of its rooms
          SilentLinks  CampusConnect under fairness: what happens in the end
        TypingStatus   ChatSystem + text fields, group selector and typing users
      ChatRoom         the abstract room
    FrameStream        the bytes of one direction of a connection
      FrameChannel     the abstract channel it implements
    Media              Qt Multimedia and the file system, as the windows use them
      VoiceMessage       state of a window's voice message
      CameraDialog       state of the camera dialog
        ChatWindow         the handlers of both in the chat window
          GroupWindow      and of the group window, where they differ
          ClientWindows    a window of any of the three kinds: Spec, properties
        PrivateWindow      the handlers of the private window
    ChatSystemProofs, MembershipProofs, NamesProofs, RoomsProofs,
    AttachmentsProofs, ConversationsProofs, TypingProofs,
    ClientWindowsProofs                              theorems
    MCChatSystem, MCCampusConnect, MCTypingStatus    symmetry, for TLC; an initial state
    MCSilentLinks, MCFrameStream, MCClientWindows

**Message.** A message is a record with the source's fields. The source packs every
payload into one string; here it is split into the word of a typing message, an
identifier of the text or file, and the names of a user list. A frame is such a record
with the protocol's word for a type; the frame-type byte is folded into it as the word
`binary`. The JSON conversion is modelled by what it does: `toJson` and `fromJson`
exchange words and types, and text that does not parse gives the default message. The
first frame of a client is not written by `toJson`: `connectMessage` is the set of the frames
that the server can find in it, one that does not parse if the name holds a quote or a backslash that
ends the string or bends it (`QuotedNames`), and one with another name if what it holds is an
escape to JSON (`EscapedNames`); which other name is left open.

**Connection.** Each client process connects once (`LoginWindow` closes after a success
and nothing reconnects), so a session is a process, and a person who reconnects is another
session with the same name. `session[s]` is the stage of the server's `ClientSession`;
`toServer` and `toClient` are the frames on their way. The break of a link splits
`toClient` into what the kernels have taken and the writes that are still outstanding
(`failing`): each of these completes with an error and runs one handler, or, as long as
the socket is open, is taken by the kernel after all and lost (`WriteLost`). A failed write
closes the socket, which leaves at most the frame whose read had completed.

**ServerController.** One action for each case of the switch in `handleMessage`, one for
`handleBinary`, `Accept` for `acceptNext`, `start` and `registerClient`, `ReadError` and
`WriteError` for the two kinds of error, each with the whole of `removeClient`, and
`Restart`. What a handler writes is a function from sessions to the frames written to
each; `Write` adds them to `toClient` or, on a broken link, to `failing`. The order of
writes to different sockets cannot be seen, so vectors without duplicates are sets. A crash
in the middle of a handler needs no action of its own: each handler writes its file before
it writes to a socket, a crash before the file was written is one before the handler, and
the frames not yet sent are frames that are never read.

**ChatController.** One action for each operation with the checks that the controller and
the window make. `SendFrames` drops the frames on a broken link and nobody is told.
Creating and joining a group change `joinedGroups` at once, as `GroupWindow.cpp:555` and
`:582` do. A file of `Chunks` chunks is written in one action, since `sendAttachmentFile`
runs to its end in the event loop.

**ChatState.** `ShowFrame` is the receiving half of the controller. An attachment whose
file cannot be opened is ignored to its end, as the code does; that choice is the
environment's. `receivedFiles` records, for each file that was shown, how many chunks had
been written to it.

**ChatSystem, CampusConnect.** The compositions. `Connect`, `Operate` and `Receive` are
steps of a client, `ServerStep` a completion handler, `Break`, `LoseWrite` and `Crash` the
environment. `CampusConnect` extends the step in which a client takes a frame by what it
then shows, so that each of its behaviours is one of `ChatSystem` (proved).

**ChatRoom, CampusRooms.** What the server and the clients promise together, said without
either: a room is a log, who is in it, and what each member is shown. `Say` puts a message
in the log and on every member's screen in one step. `CampusRooms` gives the mapping: the
log is the file on disk (it outlives the server), the members are the sessions the server
has registered and whose link is up, and a member's transcript is what his window shows
followed by what is on its way to him. Every step of the application is then one of the
room's, or none: an operation and the reading of a frame change nothing, the handler of a
message is `Say`, a join is `Enter` or, of a group one is in, `EnterAgain` (which is the
second copy of the history that the code sends), and a broken link, an ended session and
a restart are `Leave`. What is common to the views is `Kept(q, S)`, the messages of a sequence
that are in a set: `Said(t)`, `SaidIn(g)` and `PrivatelySaid(s, u)` are the sets for the public room,
a group and a conversation.

**TypingStatus.** Adds to `ChatSystem` what the windows write when text changes, is sent, or
another group is selected (`ChatWindow.cpp`, `GroupWindow.cpp`), the selector's items, and
the typing users of `ChatState`. `refreshGroups` clears the selector and fills it again, so
its first item is selected for a moment and hears `stopped` as well; sending a text writes
`stopped` up to three times. A chat window is open, and a group window or none: its opening selects the
first group, which hears `stopped`, and its closing writes nothing (`openGroupWindow`,
`closeGroupWindow`); for any length of time between them there may be no field at all. Links do not
break: nothing takes the mark of a user who has gone. `leftTyping` remembers groups that were left in
the middle of a text, by another choice or by closing the window, which the code does not tell; it
states exactly what is excepted from `GroupTypingHasText`, and `GroupTypingOnlyWithText` excepts nothing.

**SilentLinks.** `CampusConnect` with fairness, and with `silent`, the sessions whose link broke without a word
and to which nothing was written since. A machine that closes its connections tells the server; one that
loses its power or its cable does not, and what the server learns of it then is that something it
wrote is not acknowledged. `ClientSession.cpp:35-48` starts a read and sets neither a timeout nor a
keepalive, so that the read of such a link need never complete. `Hear` says, for each link that breaks, which
of the two it was, and takes a session from `silent` when something is written to it.

**FrameStream, FrameChannel.** One direction of a connection as bytes. A byte has `Base`
values and the header four bytes, so that a length is a number below `Base ^ 4` as it is
one below 2^32 in the code, `quint32` addition wraps and the conversion to `int` is signed.
On the way to the server, `QTcpSocket` keeps one buffer of unsent bytes. On the way to the
client each `async_write` writes what the socket has room for and asks for the rest
behind the others that wait (`WriteSome`). `processBuffer` is the client's loop; `ReadSome`
is the server's `async_read` of a header or a payload. `Undelivered` is the refinement
mapping's queue. `LengthAssumption` keeps bodies below the length at which `int` turns negative; the
longest of the program are chunks of 64 KB and the texts of people.

**Media.** External: what the windows rely on in `QMediaRecorder`, `QImageCapture` and `QFile`,
no more than the calls they make. `record()` may be refused or, on a recorder that has not
stopped, ignored; `stop()` asks; a file is `open` until the recorder closes it, then
`whole`, `cut` after an error, or `empty`; the size of an open file is anything; an open file can
be removed or not (`unlinks`), as systems differ. `take` numbers the recordings, so that
a file can be told from another of the same name: names hold the second, and two recordings
of one second have one name.

**VoiceMessage, CameraDialog, ChatWindow, GroupWindow, PrivateWindow, ClientWindows.** The
state of a window's voice message is its members, what its controls show, and its recorder; of
the dialog, the locals of `onCameraClicked`, which buttons are enabled, its recorder and the
captures not reported. Every slot and lambda is one action. The three windows repeat one code
with differences, and the modules keep the differences: `GroupWindow` adds that a group must be
selected, at the start, at the stop and when sending; `PrivateWindow` does not listen to the errors
of its recorder, and its dialog does not wait for the captures it sends. The window's own buttons cannot be clicked while the modal dialog is open;
its recorder's signals still come. `sentVoice`, `deletedVoices`, `regiven` and `outcome` are history
variables. A recording that is started within the second of the last one gets its name, whether or
not the last one's file could be removed (`VoiceNames`), as `ChatWindow.cpp:864-872` has it, which looks
neither at the result of `QFile::remove` nor at that of `record()`; `regiven` has the recordings that were still
being written then.

**Definitions marked Faulty** are used by no specification. Each changes one definition in
the way a plausible mistake would (a removal only once, a list made before the name is
erased, an off-by-one in the history loop, a missing echo), and each shows that some run
would notice: `PROJECT.json` names the property it breaks.

### Assumptions about the environment

* The links of `Connection` deliver frames in order and whole. `FrameStream` shows that the
  framing gives this to the server always, and to the client as long as its kernel takes
  each frame at once; `stream_torn` shows that it does not otherwise.
* Files open and lines are appended whole.
* `ExclusiveNames`: the server accepts any name at any time. Where a property needs it,
  `ExclusiveNames = TRUE` restricts people, not the code: a name is used again only when
  its old session has left the server. Each property that needs this fails without it, and
  two of the findings are those failures.
* `QuotedNames` and `EscapedNames` are the names that do not survive the first frame. Where a property
  needs it, they are empty, which restricts people again; one of the findings is what happens otherwise.

### Fairness

`Fairness` of `SilentLinks` promises, for each session, that a completion handler that
is due runs (`Due`) and that a client whose link is up takes its next frame. The first is what
`io_context::run` does with one thread and no handler that blocks; the second is the Qt
event loop of a running client. Due are the accepts, the reads that have something to read, the
writes that fail, and the failing reads of links that are not silent: of a broken link of which
the kernel has been told or has found out by writing to it. The failing read of a silent link may
happen and may not. Nothing is promised of users, of links that break, of crashes, or of a client whose link
is down: it may have exited.

`StreamSpec` is fair to `Transport`: the kernels deliver what they hold, and a write or a read
that can make progress does, since both ends' event loops run. `FrameChannel` asks of
its implementation that a frame sent is delivered, and `ImplementsChannel` includes that. The windows
promise no liveness: that a user clicks, or a recorder reports, cannot be assumed;
`CameraNeverStuck` is the safety property in its place.

## 3. What is checked

All runs use TLC on the whole state space of the instance. `CHECK_DEADLOCK` is off because
the system rightly stops when the bounded operations are used up and everything has been
delivered; the windows stop when the names for files are used up.

| Run | Properties | Instance |
|---|---|---|
| `app_public` | `AppTypeOK`, `PublicViewComplete`, `UserListFresh`, `OnlineSessionsListed`, `SessionKnowsItsUser`, `PublicRoomImplemented` | 3 sessions, 2 names, 2 messages, 1 break, 1 restart, exclusive names |
| `app_groups` | `GroupViewComplete`, `HistoryOnDisk`, `MembersAreRouted`, `NoDangling`, `GroupRoomsImplemented` | 2 sessions, 2 names, one of them quoted and one escaped, 1 group, 3 operations, 1 break, 1 restart, any names |
| `app_attachments` | `ConversationsAgree`, `ChunksHaveRoute`, `CompletedAttachmentIsWhole` | 2 sessions, 1 group, 2 operations (texts, typing, attachments), 1 break, exclusive names |
| `app_live` | `EveryPublicMessageShown`, `DeadSessionsLeave` | 2 sessions, 1 message, 1 break, silent or not, fairness, no symmetry |
| `app_typing` | `TypingTypeOK`, `TypingHasText`, `GroupTypingHasText` | 2 sessions, 2 groups, 3 operations (edits, texts, groups) from the start and 3 from the state in which both are in both groups, any openings and closings of the window, no break |
| `stream` | `StreamTypeOK`, `ImplementsChannel` | both directions, 3 frames with bodies of 1 or 2 bytes, `Base` 2, room for 3 bytes to the server and 21 to the client, fairness; 212 000 states |
| `windows` | `WindowsTypeOK`, `PendingVoiceIsLast`, `VoiceControlsAgree`, `ListenersSendWhole`, `CameraNeverStuck`, `DeletedVoiceNeverSent` | each kind of window, 3 files, 3 recordings; 1.9 million states |
| `typing_left` | `GroupTypingOnlyWithText` is violated | 2 sessions, 1 group, 3 operations |
| `system_reconnect` | `OnlineSessionsListed` is violated | any names, no operation |
| `system_quoted` | `SessionKnowsItsUser` is violated | one quoted name |
| `app_echo` | `CompletedAttachmentIsWhole` is violated | 3 sessions, any names, 1 private attachment |
| `stream_torn` | `DeliveredInOrder` is violated | to the client, room for 9 bytes, frames of 6 and 7 |

Bounds, and why they are enough for what the runs ask:

* `Session`: two are two people; the third is the reconnection of one of them, which is
  what the removal of an old session interferes with.
* `MaxOps` bounds the operations of all users together. Two messages have an order;
  three operations of a group are a join, a message and a join again, or two joins around
  a message, on either side of a restart.
* `MaxBreaks` and `MaxRestarts`: one break gives every order of a failed write, a completed
  read and the read error of one session; one restart separates what is loaded from what
  was said.
* `MaxBacklog` bounds the frames a linked client may leave unread when the server runs its
  next handler. It keeps the queues short; one handler may still write any number of frames.
  Frames of one link are taken in their order whenever they are taken, and what a client
  writes does not depend on what it has unread, except for the membership an echo repeats.
* `Chunks` is one: a chunk either finds its route or not, and any number of other frames may
  come between it and its start.
* `app_typing`: for one to see another type in a group takes two joins, for a change between groups two each.
  So that these do not use up the bound, the run also begins in `JoinedInit` of `MCTypingStatus`, where both are
  in both groups; the program gets there (TLC finds it from `TypingInit` with four operations). From there three
  operations are a text begun, a change of group and a text again, or the same against a message of another.
* `app_attachments`: two messages of two people cross, or one is written before the other has come. That the
  conversations also agree when somebody reconnects was checked with three sessions; that takes longer than a
  regular run should, and the theorem `ConversationsSame` has no bound.
* `app_live`: the message is the write that finds out a silent link, and so is the user list that
  another client's coming or going writes; the run without either is one in which the session stays.
* `stream`: with three frames, a frame that is misread has one before and one behind it. Three
  bytes of room cut every header and every frame; 21 bytes are all three frames, so that no write
  is cut. With `Base` 2 the lengths (up to 3) stay far from 2^4 as they do from 2^32 in the code.
* `windows`: two recordings are one and the one that follows it, which is what late signals
  confuse, and the third is recorded over one that was; names may be used again within their second, so three
  leave two for the camera, a photo and a video or two of one kind.

Symmetry: sessions are interchangeable, and names that the server reads as they are. The liveness run
uses none.

### What the runs show

With exclusive names, the server and all clients agree: whoever is connected is known,
listed and reachable, shows the whole history in the server's order and the current user
list, and has one view of each conversation; a file that is shown is whole. Each room is a `ChatRoom`:
between the steps that add to its log, come or go, nobody's screen changes. Without
exclusive names the histories, memberships and containers still stay sound (`app_groups`), and each
group is a `ChatRoom` still.

Nobody is left marked as typing while he is there and his field is empty, except in a group
that he left in the middle of a text: `GroupWindow.cpp:134` tells the new group that he stopped,
not the old one, where the mark stays until he selects it again or writes to it, and a window that is closed
tells nobody (`typing_left`). Neither is the mark
of a user who disconnects taken away by anything; `app_typing` has no breaks for that reason.

A session whose link broke leaves the server, unless the link broke without a word and nothing is
written to it; then it may stay, listed, for good. The next message or user list finds it out.

However late the recorder is, what a window offers is the last recording that was made, closed and not
empty, though an error may have cut it short; what was thrown away is not sent, and the controls agree with
the members, with one exception that the properties name. Names of recordings hold the second, and nobody looks
whether the old file was removed (`ChatWindow.cpp:864`, `GroupWindow.cpp:1018-1026`, `PrivateWindow.cpp:716-732`).
On Windows (`README.md:7`) the file of a recorder that is finishing is not. A recording asked for within the same
second is then ignored by the recorder, and the late signal offers the old one, thrown away, in its place:
`DeletedVoiceNeverSent` without `\ regiven`, and `VoiceControlsAgree` without its exception, are violated
with one name and two recordings. No document says what such a user is offered, so this is
no finding. The camera of the
chat and the group window sends finished files only. The private window's does not wait: `AcceptedCaptureIsSent`,
the property without the restriction to windows that listen, fails there (a photo is sent
from a file the capture may still be writing). No document of the repository promises otherwise, so it is
no finding here; `ListenersSendWhole` says what holds.

Findings:

* `system_reconnect`, `ServerController.cpp:61`: a person who reconnects before the server
  has noticed that the old link is gone is erased from `users` with the old session. The
  new session stays connected and can write, but is in no user list and gets no private
  message until it connects again.
* `system_quoted`, `TcpNetworkClient.cpp:55`: the connect frame is put together without
  escaping, so a name with a quote or a backslash is never registered, or with some escapes
  registered as another one, although `connectUser` reports success.
* `app_echo`, `ServerController.cpp:255`: start and end of a private attachment are
  echoed to the session they came from, its chunks to the session registered under the sender's
  name. When these differ, the sender shows an empty file as complete.
* `stream_torn`, `ClientSession.cpp:123`: each frame starts its `async_write` while others are
  unfinished. When a receiver reads more slowly than it is written to, pieces of two frames
  are mixed, and it reads lengths out of the middle of other frames.
* `typing_left`, `GroupWindow.cpp:134` and `ChatWindow.cpp:839`: a group that is left in the middle of a
  text, by another choice or by closing the window, is not told, and goes on showing its user as typing.

## 4. What is proved

The theorems about the chat system hold for every set of sessions, names and
groups and for every bound, `ClientWindowsProofs` for every number of files and recordings and every set of kinds. They assume the `ASSUME`s of the modules: the empty string is
no name and no group, `NoSession` is no session, bounds are numbers. TLC evaluates these in
every run.

* `TypeCorrect`: `Spec => []TypeOK`. The types carry more than shapes: `toServer` holds
  only frames the windows can write (`ClientFrame`: a group is named where one is meant,
  and a connect frame names a user), which is what lets `HandleJoinGroup` index its maps, and
  `failing` is never negative. The argument goes from frames (`MessageIsRaw` and the lemmas
  after it) over what one handler writes (`OutputTypes`, `WriteType`) to one lemma for each
  group of actions.
* `NoDanglingSessions`: `Spec => []NoDangling`. `NoDangling` is not inductive: it says nothing
  of live sessions, and `removeClient` finds a session's entry in `users` only by the name the
  session has then. The invariant `References` adds what is needed: `clients` holds active
  sessions, `users` and `groups` hold sessions that still read, an entry of `users` is under the
  name its session has (`NamesRead`), and the frame that gives a session its name is the first it
  reads, while it has none (`ConnectFirst`). Without the last, a second connect frame would leave an
  entry behind that no removal finds. `RemoveForgets` is the step that uses it, `ReferencesHold`
  the theorem about the invariant.
* `HistoriesOnDisk` and `MembersRouted` (`MembershipProofs`): `Spec => []HistoryOnDisk` and
  `Spec => []MembersAreRouted`. The window makes its user a member before the server has heard of it,
  and `GroupMessage` appends to a history without loading the file; both are right because, in one client's
  queue, a request for a group is always in front of the messages to it (`JoinFirst`, `Routed`). The rest
  of `Membership` is what keeps that true: a group with members is loaded (`GroupsLoaded`), an
  echoed request reaches only one who is a member already, so that a client joins nothing by listening
  (`EchoMember`), the files hold no requests that a replay could be taken for (`FilesSay`), a link that is up
  has a session with no failed write (`LinkStages`), and a session not yet used has left nothing (`Fresh`).
* `UsersKnown` and `UsersListed` (`NamesProofs`): `SessionKnowsItsUser` if no name holds a quote or an escape, and
  `OnlineSessionsListed` if names are exclusive in time and none is read as another; the runs `system_quoted` and
  `system_reconnect` show that neither holds without its assumption. A session has no name or its user's
  (`NamedAs`), and while it has none its connect frame is the next to be read (`Introduced`). A removal erases the
  entry of the name, whoever holds it; under the second assumption nobody else can, because a session that is
  removed is not gone, and of two sessions of one user one is (`OneUser`), for good (`GoneStays`).
* `ChunksRouted` (`MembershipProofs`): `Spec => []ChunksHaveRoute`, for files of any length. The route of a
  file is made by its start message and erased by its end message, and a chunk carries only the file id; so the
  invariant says where the frames with one id are: all in one client's queue (`OneSender`, from ids that the
  clock has not reached before, `IdsUsed`), with no chunk behind its end (`EndLast`). `WindowsKeep` is the
  lemma that makes it cheap: whatever is read or lost, a queue only loses frames at its ends.
* `ApplicationIsSystem` (`RoomsProofs`, like what follows): `AppSpec => Spec`, by which all of these hold of the
  application (`NoDanglingInApplication`), and `AppTypeCorrect`: `AppSpec => []AppTypeOK`.

`ClientWindowsProofs`:

* `PendingVoice`, `DeletedVoice`, `VoiceControls` and `WindowsTypes`: `Spec => []` of
  `PendingVoiceIsLast`, `VoiceControlsAgree`, `WindowsTypeOK`, and `Spec => DeletedVoiceNeverSent`.
  None of the first three is inductive without the others. The argument is about what a late signal
  can find. The recorder's signal prepares the path the window holds, so the path, if there is one, must be that of
  the last recording (`PathIsLast`): a deletion, a send and a new recording all clear it or replace it. The file of a
  recorder that runs is open or was removed, and holds its last take (`RecorderFile`);
  what was thrown away is older, gone, or among `regiven`, still under its name because it could not be removed
  (`TakesCounted`, `LastNotDeleted`). While something is pending the recorder
  has stopped, so no later signal can change it (`NothingLate`). The dialog shares the disk and the
  clock, so that its files must be known to be others than the voice's (`CameraApart`, `NamesGiven`, `VideoFile`).
  `WindowsCorrect` has the conjunction, one step for each action of each window.

* `CapturesWhole` and `CameraUsable`: `Spec => []` of `ListenersSendWhole` and `CameraNeverStuck`, for the
  windows whose dialog listens to its captures. Neither is inductive: what may be sent is the captured file, and
  whether it is finished was decided when it was captured. `CaptureInv` adds that a captured file is finished or gone
  (`CaptureFinished`), that a video ends as expected only in the file the dialog waits for and not after an error
  (`VideoAwaited`), and `CameraNeverStuck` without a recorder that ends unexpectedly (`CaptureAnswered`), whose signal
  enables nothing.

`TypingProofs`, about `TypingStatus`, in which links do not break:

* `TypingTypes`, `TypingTold` and `GroupTypingTold`: `TypingSpec => []` of `TypingTypeOK`, `TypingHasText` and
  `GroupTypingHasText`. The two properties speak of the moment when no mark is on its way. The invariant says what
  holds before: a mark passes three stages, the sender's queue, the reader's queue and the reader's screen, and
  the last mark on each stage tells the truth about the text field, if there is none on a stage before it (`Agree`,
  `StagesAgree`). One lemma says how each stage changes as a queue grows or shrinks. The rest of `TypingInv` is what makes
  a frame pass all three: nobody but the sessions accepted is written to (`LinksStand`), a mark in a queue carries the
  name of its writer and goes to all or to a group (`MarksSigned`), one on its way or on a screen is of a member of the
  audience (`MarksAddressed`, `ShownAddressed`), so that a later mark reaches all that an earlier one did, and histories
  hold none (`HistoriesUnmarked`).

`RoomsProofs`, about what the clients show:

* `PublicViewsComplete`, `GroupViewsComplete`, `UserListsFresh`: `AppSpec => []` of `PublicViewComplete`,
  `GroupViewComplete` and `UserListFresh`, and `PublicRoomRefines`, `GroupRoomsRefine`: the public room and every group
  implement `ChatRoom`, that is `AppSpec => PublicRoomImplemented` and `AppSpec => GroupRoomsImplemented`.
* First the sequences. `Kept` is a recursive function; `KeptAppend` and `KeptConcat` say what it does with the end
  of a sequence and with two of them, by induction on sequences. An induction theorem with an operator for a parameter
  is not used: the induction is over the *set* of sequences for which the fact holds (`SequencesFromEmpty`), from the
  library's theorem that a well-founded relation has minimal elements in every nonempty set.
* Then what is said. A view is what the screen has and what is on its way, so that a client that takes a frame
  changes no view (`ShowIsCalm`), and a handler extends the views of those it writes to by what it writes
  (`Hears`, with one lemma for each handler); all other steps are calm too for whoever is served after them (`StepKinds`).
* `Rooms` is the invariant beside those of `ChatSystemProofs` and `MembershipProofs`: who is served is among
  the clients and has no name before its connect frame was read (`Seated`); a group's file holds that group's messages
  (`FilesNamed`); and whoever is in a group for the server, asks for it or has messages of it on their way is in it
  for his window (`MembersKnow`, `AskersKnow`, `HearersKnow`). Without the last three the view would lose messages when they arrive,
  because `ChatState` drops those of groups it has not joined. `RoomsHold` is the theorem about it.
* With these, each step of the application is a `RoomStep`, a step of a log, of who is present and of their views,
  for the public room (`EveryStepPublic`) and for each group (`EveryStepGroup`). That everyone has the whole log
  (`RoomStaysComplete`) and that it is a step of `ChatRoom` (`RoomStepIsNext`) are then lemmas about sequences alone.
* The user list needs no invariant but these: a list is written to every client in the same step in which
  `users` changes, and what counts is the last on its way.

`AttachmentsProofs`, about the files that the clients show:

* `FilesWhole`: `AppSpec => []CompletedAttachmentIsWhole`, if names are exclusive in time and hold neither quote
  nor escape, and `FilesOfOthersWhole`: without exclusive names and with quotes the same of every file but a client's own
  private one. Both take that no name is read as another (`EscapedNames = {}`): the proof uses that nobody is the target of his
  own private file. The other assumptions are needed for that one: its start and end are echoed to the session they came from, its chunks to
  whoever is registered under the sender's name. `app_echo` shows what happens when that is another session, and a
  client whose connect frame does not parse is registered under no name, so that it shows its own file empty.
* The property says nothing before the end message, so the invariant counts. For a file that a client has open
  or is about to open, `Whole` says: the chunks that are written, those on their way to the client and those in front
  of the end in the sender's queue are together `Chunks`, as long as the client is in the file's audience (`Still`); and
  once the end is on its way to the client, the first two alone are (`AtEnd`). Who was told of the start stays in a
  group, or among the clients, until his link breaks; in the audience of a private file he may be no more, when his name
  is erased with another session's, but then he gets no end either, and he cannot come back into it, because he has his
  name already and a connect frame is read once (`Belongs`, `StaysPut`).
* `Placed` says where the frames of a transfer can be: one whose start is unread is whole in one queue (`SentWhole`), nobody has
  heard of it before (`StartedFirst`), nothing of it is left in front when its end is told (`EndedLast`), its
  start is first and its end last wherever they are (`QueuesOrdered`), and a file id tells sender and audience (`Attributed`).
  It rests on `Transfers` and `ChunkRoute` of `MembershipProofs`: the route of a chunk is that of its own file.
* Then the steps. Those that say nothing of a file are one case (`Silent`, `SilentKeepsFiles`), which most handlers, the
  removals, the links and a restart are shown to be (`QuietIsSilent`, `ErrorIsSilent`, `HandleIsSilent`). What is left is a
  client that sends (`OperatePlaced`, `OperateCounts`), one that reads (`ShowPlaced`, `ShowCounts`), and the
  server that passes a frame of a transfer on (`TransferKeepsFiles`). `FilesHold` is the theorem about the invariant.

`ConversationsProofs`, about the private messages that two clients show:

* `ConversationsSame`: `AppSpec => []ConversationsAgree`, if names are exclusive in time and none is read as another. A private message is written to
  whoever is registered under the target and back to the session it came from, and is kept nowhere; that these two are the
  ones who see the conversation takes the invariants of `NamesProofs`. Without the assumption the property fails for the
  reason `app_echo` shows: of two sessions of one name, the echo goes to the one that wrote and the answer to the one registered.
* The property says nothing of a client whose connect frame is unread, nor of who wrote what. The invariant `Talks` does: of
  two members one view is the end of the other (`Agreed`); a private message in a queue has its writer for its sender
  (`Authored`); nobody has spoken to a client the server does not know yet (`Unspoken`), and a session that was not
  used shows nothing (`Unopened`).
* Every step but the handler of a private message leaves the views of whoever is linked after it as they were (`Carried`,
  `StepCarried`, with the lemmas of `RoomsProofs` about what each handler says). Only the handler of a connect frame makes a
  member (`MemberSteps`), who then starts with nothing (`NewcomerHearsNothing`), so that his view is the end of any other. A
  private message between two members reaches each exactly once (`PrivateReaches`) and is appended to both views or
  to neither (`PrivateAgrees`).

Only model-checked: the liveness properties (`EveryPublicMessageShown`, `DeadSessionsLeave`) and the refinement of
`FrameChannel`, which has fairness; and the types of `FrameStream`, whose `processBuffer` is a recursive operator,
as the loop it models is, which excludes theorems about that module.

## 5. Not modelled, and what is left

* `MessageRenderer`, `InputValidator`: pure functions on strings whose content is HTML and formats; no
  state, nothing that another component depends on.
* The `uic` and `rcc` output: generated.
* `ServerState`, `MockNetworkClient`: in no program; the tests are not part of the system.
* Inside modelled components: the strings into which user lists and attachment headers are packed
  (a comma in a name, a bar in a file name: hazards at `ChatController.cpp:24` and `ServerController.cpp:76`);
  two files of one name in one millisecond (`ChatController.cpp:255`); files that cannot be opened, disks that are full
  and read errors (`ServerController.cpp:25`, `ChatController.cpp:277`, `:372`); the routes and open files of a transfer
  that never ends (`ServerController.cpp:180`), which leak and disturb nothing; to whom a recording goes when
  the group is changed while it is made (`GroupWindow.cpp:600`), which the code leaves to whoever is selected
  at the time of sending. Each is listed with its reason under the hazards of `PROJECT.json`.
* Theorems worth adding: every safety invariant of the chat system, of the typing marks and of the windows is a theorem;
  what is left is `FrameStream`. The safety part of its refinement needs `processBuffer` as a recursive function of the buffer and
  that four digits to the base of the code hold every length up to the limit, which is arithmetic with exponents.

## 6. Running

    tlc -config MCAppPublic.cfg MCCampusConnect
    tlc -config MCAppLive.cfg MCSilentLinks
    tlc -config MCTyping.cfg MCTypingStatus
    tlc -config MCStream.cfg MCFrameStream
    tlc -config MCWindows.cfg MCClientWindows
    tlapm ChatSystemProofs.tla
    tlapm MembershipProofs.tla
    tlapm NamesProofs.tla
    tlapm RoomsProofs.tla
    tlapm AttachmentsProofs.tla
    tlapm ConversationsProofs.tla
    tlapm TypingProofs.tla
    tlapm ClientWindowsProofs.tla

The other configurations `MCApp*` belong to `MCCampusConnect`, `MCSystem*` to `MCChatSystem`, `MCTypingLeft` to
`MCTypingStatus`, `MCStreamTorn` to `MCFrameStream`. Each run ends within four minutes with two workers, each proof within ten.
