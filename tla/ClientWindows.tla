----------------------------- MODULE ClientWindows -----------------------------
(***************************************************************************)
(* A window of the client, of each of the three kinds, with its recorder,  *)
(* its camera dialog and the files they leave.  Clicks, signals of the     *)
(* two recorders and reports of captures come in every order the enabled   *)
(* buttons allow.                                                          *)
(***************************************************************************)
EXTENDS GroupWindow

CONSTANT Kinds         \* the kinds of window that are looked at

ASSUME KindsAssumption == Kinds \subseteq {"chat", "group", "private"}

VARIABLE kind          \* the kind of this window

Private == INSTANCE PrivateWindow

vars == <<mediaVars, voiceVars, cameraVars, hasGroup, kind>>

WindowsTypeOK ==
    /\ MediaTypeOK
    /\ VoiceTypeOK
    /\ CameraTypeOK
    /\ hasGroup \in BOOLEAN
    /\ kind \in Kinds

Init ==
    /\ MediaInit
    /\ VoiceInit
    /\ CameraInit
    /\ hasGroup = FALSE
    /\ kind \in Kinds

VoiceMoves ==
    /\ \/ kind = "chat"    /\ VoiceStep         /\ UNCHANGED hasGroup
       \/ kind = "group"   /\ GroupVoiceStep
       \/ kind = "private" /\ Private!VoiceStep /\ UNCHANGED hasGroup
    /\ UNCHANGED <<cameraVars, kind, unlinks>>

CameraMoves ==
    /\ \/ kind = "chat"    /\ CameraStep         /\ UNCHANGED hasGroup
       \/ kind = "group"   /\ GroupCameraStep
       \/ kind = "private" /\ Private!CameraStep /\ UNCHANGED hasGroup
    /\ UNCHANGED <<voiceVars, kind, unlinks>>

Next == VoiceMoves \/ CameraMoves

Spec == Init /\ [][Next]_vars

-----------------------------------------------------------------------------
\* The two windows that wait for what their recorders and captures report.
Listening == kind # "private"

(* What can be sent or deleted is the last recording that the recorder has *)
(* made, its file is closed and not empty: however late the signals of the *)
(* recorder come, and whatever was recorded, deleted or refused meanwhile, *)
(* no earlier recording is offered and none that is still being written.   *)
(* An error may have cut it short; preparePendingVoice, which looks only   *)
(* at the path it finds, offers what the error left.                       *)
PendingVoiceIsLast ==
    voice.hasPendingVoice =>
        /\ audio.state = "stopped"
        /\ Recorded(disk, voice.pendingVoiceFilePath)
        /\ disk[voice.pendingVoiceFilePath].take = audio.take

(* No step sends a recording that the user has deleted or recorded over,   *)
(* though its recorder may still be finishing it, or its file be there,    *)
(* when the next one is asked for.  Excepted is what was recorded over     *)
(* within its own second while it could not be removed.                    *)
DeletedVoiceNeverSent ==
    [][sentVoice' # sentVoice => sentVoice' \notin deletedVoices \ regiven]_vars

(* The controls say what the members say: delete is there while there is   *)
(* something to delete, the time runs while the window believes that it    *)
(* records, and nothing is pending meanwhile.  Late signals, errors and    *)
(* clicks each change some of these and not the others.  The exception is  *)
(* that of DeletedVoiceNeverSent.                                          *)
VoiceControlsAgree ==
    /\ voice.deleteVoiceButton = voice.hasPendingVoice
    /\ voice.recordingTimer = voice.isRecording
    /\ Listening /\ audio.take \notin regiven =>
         /\ (voice.voiceButton = "stop") = voice.isRecording
         /\ ~(voice.isRecording /\ voice.hasPendingVoice)

\* A capture that was to be sent was sent, and not before it was finished.
AcceptedCaptureIsSent ==
    outcome.accepted => outcome.sent = "whole"

(* The same of the windows that listen: the camera dialog closes on "send" *)
(* only if it has sent a finished photo or video, however stops, errors    *)
(* and the captures' reports come.                                         *)
ListenersSendWhole == Listening => AcceptedCaptureIsSent

(* The dialog never gets stuck: whenever its capturing buttons are         *)
(* disabled, a report that enables them is still to come or the video can  *)
(* be stopped.                                                             *)
CameraNeverStuck ==
    (Listening /\ dialog.open /\ ~({"take", "start"} \subseteq dialog.enabled)) =>
        \/ photos # {}
        \/ MayFinish(video)
        \/ video.state = "recording" /\ Enabled("stop") /\ dialog.isVideoRecording
=============================================================================
