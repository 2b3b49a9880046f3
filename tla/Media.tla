-------------------------------- MODULE Media --------------------------------
(***************************************************************************)
(* What the windows use of Qt Multimedia and of the file system, taken     *)
(* from how they use it: QMediaRecorder, QImageCapture, QFile and          *)
(* QFileInfo.                                                              *)
(*                                                                         *)
(* A recorder writes one file at a time.  record() does something only on  *)
(* a stopped recorder, and may be refused there as well; stop() asks for   *)
(* the end, the file is closed and the stopped signal sent some time       *)
(* later.  A signal sent from within a call is one that follows at once:   *)
(* what the callers do after stop() does not depend on it.  An error may   *)
(* be reported, more than once, as long as the recorder has not stopped.   *)
(***************************************************************************)
EXTENDS Naturals

CONSTANT MaxFiles      \* bound: names that the clock gives to files

ASSUME MaxFilesAssumption == MaxFiles \in Nat \ {0}

None  == 0             \* the empty path
Files == 1 .. MaxFiles

VARIABLES
    disk,      \* for each name what the file holds
    clock,     \* the last name given: names are times
    unlinks    \* FALSE: the system refuses to remove a file that is open

mediaVars == <<disk, clock, unlinks>>

(* "open" is a file that a recorder or a capture is producing: it may not  *)
(* be there yet, be empty or hold a part.  "cut" is one closed after an    *)
(* error, "empty" one into which nothing was recorded.                     *)
FileState == {"absent", "open", "empty", "cut", "whole"}

\* take numbers the recordings of one recorder, to tell what a name holds.
Absent == [state |-> "absent", take |-> 0]

MediaTypeOK ==
    /\ disk \in [Files -> [state : FileState, take : Nat]]
    /\ clock \in 0 .. MaxFiles
    /\ unlinks \in BOOLEAN

MediaInit ==
    /\ disk = [f \in Files |-> Absent]
    /\ clock = 0
    /\ unlinks \in BOOLEAN

\* A name nothing has had before.
NextName == clock + 1

-----------------------------------------------------------------------------
(* The file system.                                                        *)

Exists(d, f)   == f # None /\ d[f].state \in {"empty", "cut", "whole"}
Recorded(d, f) == f # None /\ d[f].state \in {"cut", "whole"}

\* What QFileInfo may say of a file that exists and is not empty.
Readable(d, f) ==
    IF f # None /\ d[f].state = "open" THEN BOOLEAN ELSE {Recorded(d, f)}

Removed(d, f) ==
    IF f = None \/ (d[f].state = "open" /\ ~unlinks)
      THEN d
      ELSE [d EXCEPT ![f] = Absent]

-----------------------------------------------------------------------------
(* The recorder: its state, the file it writes, its recordings so far.     *)

RecorderState == {"stopped", "recording", "finalizing", "failing"}

Recorder == [state : RecorderState, output : {None} \cup Files, take : Nat]

Idle == [state |-> "stopped", output |-> None, take |-> 0]

Started(r, f) ==
    [state |-> "recording", output |-> f, take |-> r.take + 1]

Opened(d, r, f) == [d EXCEPT ![f] = [state |-> "open", take |-> r.take + 1]]

Stopping(r) ==
    IF r.state = "recording" THEN [r EXCEPT !.state = "finalizing"] ELSE r

\* An error may be reported, or the stopped signal sent.
MayFail(r)   == r.state # "stopped"
MayFinish(r) == r.state \in {"finalizing", "failing"}

Failing(r)  == [r EXCEPT !.state = "failing"]
Stopped(r)  == [r EXCEPT !.state = "stopped"]

\* The disk once the recorder has closed its file.
Closed(r, d) ==
    LET how == IF r.state = "failing" THEN {"cut", "empty"}
                                      ELSE {"whole", "empty"}
    IN  IF d[r.output].state = "open"
          THEN { [d EXCEPT ![r.output].state = h] : h \in how }
          ELSE {d}
=============================================================================
