----------------------------- MODULE PrivateWindow -----------------------------
(***************************************************************************)
(* gui/PrivateWindow.cpp: the voice messages and the camera of a private   *)
(* conversation.  The window hears of no error of its recorder, and its    *)
(* camera dialog listens to no signal at all: it takes a capture for done  *)
(* when the button is clicked, keeps every button enabled, and closes      *)
(* after "send" whether or not the file could be sent.                     *)
(***************************************************************************)
EXTENDS VoiceMessage, CameraDialog

preparePendingVoice(v, d) ==
    IF Recorded(d, v.pendingVoiceFilePath)
      THEN [v EXCEPT !.hasPendingVoice = TRUE, !.deleteVoiceButton = TRUE]
      ELSE v

clearPendingVoice(v) ==
    [v EXCEPT !.isRecording = FALSE, !.recordingTimer = FALSE,
              !.pendingVoiceFilePath = None, !.hasPendingVoice = FALSE,
              !.deleteVoiceButton = FALSE, !.voiceButton = "mic"]

recorderStateChanged ==
    /\ AudioStops
    /\ voice' = preparePendingVoice(voice, disk')

unnoticedError ==
    /\ AudioFails
    /\ UNCHANGED voice

startVoiceRecording(f) ==
    /\ ~voice.isRecording
    /\ StartsOn(f)
    /\ voice' = [clearPendingVoice(voice) EXCEPT
                   !.pendingVoiceFilePath = f, !.isRecording = TRUE,
                   !.recordingTimer = TRUE, !.voiceButton = "stop"]

stopVoiceRecording ==
    /\ voice.isRecording
    /\ StopsRecording
    /\ voice' = [voice EXCEPT !.isRecording = FALSE, !.recordingTimer = FALSE,
                              !.voiceButton = "mic"]

onVoiceClicked ==
    \/ stopVoiceRecording
    \/ \E f \in Files : startVoiceRecording(f)

onDeleteVoiceClicked ==
    /\ voice.deleteVoiceButton
    /\ Deletes
    /\ voice' = clearPendingVoice(voice)

sendPendingVoiceMessage == Sends

onSendClicked ==
    /\ voice.hasPendingVoice
    /\ sendPendingVoiceMessage
    /\ voice' = [voice EXCEPT !.pendingVoiceFilePath = None,
                              !.hasPendingVoice = FALSE,
                              !.deleteVoiceButton = FALSE,
                              !.voiceButton = "mic"]

VoiceStep ==
    \/ recorderStateChanged
    \/ unnoticedError
    \/ /\ ~dialog.open
       /\ onVoiceClicked \/ onDeleteVoiceClicked \/ onSendClicked

-----------------------------------------------------------------------------
onCameraClicked == OpenDialog(Buttons)

takePhoto(f) ==
    /\ dialog.open
    /\ createCameraOutputPath(f)
    /\ captureToFile(disk, f)
    /\ dialog' = [dialog EXCEPT !.capturedFilePath = f]
    /\ UNCHANGED <<video, outcome>>

startVideo(f) ==
    /\ dialog.open
    /\ createCameraOutputPath(f)
    /\ recordVideo(disk, f) \/ (disk' = disk /\ UNCHANGED video)
    /\ dialog' = [dialog EXCEPT !.pendingVideoFilePath = f,
                                !.isVideoRecording = TRUE]
    /\ UNCHANGED <<photos, outcome>>

stopVideo ==
    /\ dialog.open
    /\ video' = Stopping(video)
    /\ dialog' = [dialog EXCEPT
                    !.capturedFilePath = dialog.pendingVideoFilePath,
                    !.isVideoRecording = FALSE]
    /\ UNCHANGED <<photos, outcome, disk, clock>>

\* What it may answer.
sendAttachmentFile(f) == Readable(disk, f)

\* The answer is not asked for.
sendCapture ==
    /\ dialog.open
    /\ dialog.capturedFilePath # None
    /\ \E sent \in sendAttachmentFile(dialog.capturedFilePath) :
         CloseDialog(TRUE, IF sent THEN disk[dialog.capturedFilePath].state
                                   ELSE "absent")

deleteCapture ==
    /\ dialog.open
    /\ disk' = Removed(disk, dialog.capturedFilePath)
    /\ dialog' = [dialog EXCEPT !.capturedFilePath = None]
    /\ UNCHANGED <<video, photos, outcome, clock>>

\* The files are written all the same.
unheardSignals ==
    /\ \/ \E f \in photos :
            /\ photos' = photos \ {f}
            /\ \/ disk' = [disk EXCEPT ![f] = Absent]
               \/ /\ disk[f].state = "open"
                  /\ disk' = [disk EXCEPT ![f].state = "whole"]
            /\ UNCHANGED video
       \/ /\ MayFail(video)
          /\ video' = Failing(video)
          /\ UNCHANGED <<photos, disk>>
       \/ /\ MayFinish(video)
          /\ video' = Stopped(video)
          /\ disk' \in Closed(video, disk)
          /\ UNCHANGED photos
    /\ dialog.open
    /\ UNCHANGED <<dialog, outcome, clock>>

CameraStep ==
    \/ onCameraClicked
    \/ \E f \in Files : takePhoto(f) \/ startVideo(f)
    \/ stopVideo
    \/ sendCapture
    \/ deleteCapture
    \/ closeCamera
    \/ unheardSignals
=============================================================================
