----------------------------- MODULE CameraDialog -----------------------------
(***************************************************************************)
(* The state of the camera dialog and what its handlers have in common;    *)
(* they are in ChatWindow, for it and the group window, and PrivateWindow. *)
(* The dialog is modal: while it is open its window's own buttons cannot   *)
(* be clicked, but the signals of the window's recorder still arrive.      *)
(***************************************************************************)
EXTENDS Media

VARIABLES
    dialog,    \* the locals of onCameraClicked
    video,     \* videoRecorder
    photos,    \* captures that imageCapture has not reported yet
    outcome    \* history: how the last dialog ended, and what it had sent

cameraVars == <<dialog, video, photos, outcome>>

Buttons == {"take", "start", "stop", "send", "delete"}

Dialog == [ open                 : BOOLEAN,
            capturedFilePath     : {None} \cup Files,
            pendingVideoFilePath : {None} \cup Files,
            isVideoRecording     : BOOLEAN,
            enabled              : SUBSET Buttons ]

NoDialog == [ open                 |-> FALSE,
              capturedFilePath     |-> None,
              pendingVideoFilePath |-> None,
              isVideoRecording     |-> FALSE,
              enabled              |-> {} ]

CameraTypeOK ==
    /\ dialog \in Dialog
    /\ video \in Recorder
    /\ photos \in SUBSET Files
    /\ outcome \in [accepted : BOOLEAN, sent : FileState]

CameraInit ==
    /\ dialog = NoDialog
    /\ video = Idle
    /\ photos = {}
    /\ outcome = [accepted |-> FALSE, sent |-> "absent"]

-----------------------------------------------------------------------------
(* createCameraOutputPath: names hold the millisecond, each is new.        *)
createCameraOutputPath(f) ==
    /\ f = NextName
    /\ f \in Files
    /\ clock' = f

OpenDialog(buttons) ==
    /\ ~dialog.open
    /\ dialog' = [NoDialog EXCEPT !.open = TRUE, !.enabled = buttons]
    /\ UNCHANGED <<video, photos, outcome, disk, clock>>

(* exec() has returned and onCameraClicked ends: recorder, captures and    *)
(* connections go with it, and what they were writing is cut.              *)
CloseDialog(accepted, sent) ==
    /\ dialog' = NoDialog
    /\ video' = Idle
    /\ photos' = {}
    /\ disk' = [ f \in Files |->
                   IF f = video.output \/ f \in photos
                     THEN IF disk[f].state = "open"
                            THEN [disk[f] EXCEPT !.state = "cut"] ELSE disk[f]
                     ELSE disk[f] ]
    /\ outcome' = [accepted |-> accepted, sent |-> sent]
    /\ UNCHANGED clock

\* A capture begins to write its file.
captureToFile(d, f) ==
    /\ photos' = photos \cup {f}
    /\ disk' = [d EXCEPT ![f] = [state |-> "open", take |-> 0]]

\* record(): the recorder starts on f, or ignores the call for it still runs.
recordVideo(d, f) ==
    \/ /\ video.state = "stopped"
       /\ video' = Started(video, f)
       /\ disk' = Opened(d, video, f)
    \/ /\ video.state # "stopped"
       /\ disk' = d
       /\ UNCHANGED video

Enabled(b) == dialog.open /\ b \in dialog.enabled

\* Stopping a recorder that is about to go makes no difference to its file.
closeCamera ==
    /\ dialog.open
    /\ CloseDialog(FALSE, "absent")
=============================================================================
