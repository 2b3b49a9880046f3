------------------------------ MODULE ChatWindow ------------------------------
(***************************************************************************)
(* gui/ChatWindow.cpp: the voice messages and the camera of the public     *)
(* room.  What is typed is TypingStatus, what is shown MessageRenderer.    *)
(***************************************************************************)
EXTENDS VoiceMessage, CameraDialog

\* Faulty: an empty file will do.
preparePendingVoiceEmpty(v, d) ==
    IF Exists(d, v.pendingVoiceFilePath)
      THEN [v EXCEPT !.hasPendingVoice = TRUE, !.deleteVoiceButton = TRUE]
      ELSE v

preparePendingVoice(v, d) ==
    IF Recorded(d, v.pendingVoiceFilePath)
      THEN [v EXCEPT !.hasPendingVoice = TRUE, !.deleteVoiceButton = TRUE]
      ELSE v

clearPendingVoice(v) ==
    [v EXCEPT !.isRecording = FALSE, !.recordingTimer = FALSE,
              !.pendingVoiceFilePath = None, !.hasPendingVoice = FALSE,
              !.deleteVoiceButton = FALSE, !.voiceButton = "mic"]

\* Faulty: the file is the one that the recorder has written.
recorderStateChangedActual ==
    /\ AudioStops
    /\ voice' = preparePendingVoice(
                  [voice EXCEPT !.pendingVoiceFilePath = audio.output], disk')

\* setupVoiceRecorder connects these two.
recorderStateChanged ==
    /\ AudioStops
    /\ voice' = preparePendingVoice(voice, disk')

\* Faulty: the time runs on.
errorOccurredTimed ==
    /\ AudioFails
    /\ voice' = [voice EXCEPT !.isRecording = FALSE, !.hasPendingVoice = FALSE,
                              !.deleteVoiceButton = FALSE,
                              !.voiceButton = "mic"]

errorOccurred ==
    /\ AudioFails
    /\ voice' = [voice EXCEPT !.isRecording = FALSE, !.hasPendingVoice = FALSE,
                              !.recordingTimer = FALSE,
                              !.deleteVoiceButton = FALSE,
                              !.voiceButton = "mic"]

\* An error reported from within record() is undone by what follows it.
startVoiceRecording(f) ==
    /\ ~voice.isRecording
    /\ StartsOn(f)
    /\ voice' = [clearPendingVoice(voice) EXCEPT
                   !.pendingVoiceFilePath = f, !.isRecording = TRUE,
                   !.recordingTimer = TRUE, !.voiceButton = "stop"]

stopVoiceRecording ==
    /\ voice.isRecording
    /\ StopsRecording
    /\ voice' = [voice EXCEPT !.isRecording = FALSE, !.recordingTimer = FALSE,
                              !.voiceButton = "mic"]

onVoiceClicked ==
    \/ stopVoiceRecording
    \/ \E f \in Files : startVoiceRecording(f)

onDeleteVoiceClicked ==
    /\ voice.deleteVoiceButton
    /\ Deletes
    /\ voice' = clearPendingVoice(voice)

sendPendingVoiceMessage == Sends

\* Faulty: the path is forgotten and the voice is still pending.
onSendClickedPending ==
    /\ voice.hasPendingVoice
    /\ sendPendingVoiceMessage
    /\ voice' = [voice EXCEPT !.pendingVoiceFilePath = None,
                              !.deleteVoiceButton = FALSE,
                              !.voiceButton = "mic"]

\* A file that has gone leaves the voice pending, and the click does nothing.
onSendClicked ==
    /\ voice.hasPendingVoice
    /\ sendPendingVoiceMessage
    /\ voice' = [voice EXCEPT !.pendingVoiceFilePath = None,
                              !.hasPendingVoice = FALSE,
                              !.deleteVoiceButton = FALSE,
                              !.voiceButton = "mic"]

VoiceStep ==
    \/ recorderStateChanged
    \/ errorOccurred
    \/ /\ ~dialog.open
       /\ onVoiceClicked \/ onDeleteVoiceClicked \/ onSendClicked

-----------------------------------------------------------------------------
(* The camera dialog, the same in the chat and in the group window.        *)

\* The dialog opens with nothing to stop, send or delete.
onCameraClicked == OpenDialog({"take", "start"})

imageSaved(f) ==
    /\ f \in photos
    /\ photos' = photos \ {f}
    /\ disk' = [disk EXCEPT ![f].state = "whole"]
    /\ dialog' = [dialog EXCEPT
                    !.capturedFilePath = f,
                    !.enabled = @ \cup {"send", "delete", "take", "start"}]
    /\ UNCHANGED <<video, outcome, clock>>

\* Faulty: the buttons wait for a capture that succeeds.
imageFailedQuietly(f) ==
    /\ f \in photos
    /\ photos' = photos \ {f}
    /\ disk' = [disk EXCEPT ![f] = Absent]
    /\ UNCHANGED <<dialog, video, outcome, clock>>

imageFailed(f) ==
    /\ f \in photos
    /\ photos' = photos \ {f}
    /\ disk' = [disk EXCEPT ![f] = Absent]
    /\ dialog' = [dialog EXCEPT !.enabled = @ \cup {"take", "start"}]
    /\ UNCHANGED <<video, outcome, clock>>

\* The video is kept if the recorder's end was expected and left a file.
KeepVideo(d) ==
    IF Exists(d, dialog.pendingVideoFilePath)
      THEN [dialog EXCEPT !.capturedFilePath = dialog.pendingVideoFilePath,
                          !.enabled = @ \cup {"send", "delete"}]
      ELSE dialog

videoStopped ==
    /\ MayFinish(video)
    /\ video' = Stopped(video)
    /\ disk' \in Closed(video, disk)
    /\ dialog' = IF dialog.isVideoRecording
                   THEN [KeepVideo(disk') EXCEPT
                           !.isVideoRecording = FALSE,
                           !.enabled = (@ \cup {"take", "start"}) \ {"stop"}]
                   ELSE dialog
    /\ UNCHANGED <<photos, outcome, clock>>

VideoError(v) ==
    [v EXCEPT !.isVideoRecording = FALSE,
              !.enabled = (@ \cup {"take", "start"}) \ {"stop"}]

videoFailed ==
    /\ MayFail(video)
    /\ video' = Failing(video)
    /\ dialog' = VideoError(dialog)
    /\ UNCHANGED <<photos, outcome, disk, clock>>

Capturing == {"take", "start", "send", "delete"}

takePhoto(f) ==
    /\ Enabled("take")
    /\ createCameraOutputPath(f)
    /\ captureToFile(Removed(disk, dialog.capturedFilePath), f)
    /\ dialog' = [dialog EXCEPT !.capturedFilePath = None,
                                !.enabled = @ \ Capturing]
    /\ UNCHANGED <<video, outcome>>

\* A recorder that refuses to start reports its error from within the call.
startVideo(f) ==
    LET d == Removed(disk, dialog.capturedFilePath)
        v == [dialog EXCEPT !.capturedFilePath = None,
                            !.pendingVideoFilePath = f,
                            !.isVideoRecording = TRUE,
                            !.enabled = (@ \ Capturing) \cup {"stop"}]
    IN
    /\ Enabled("start")
    /\ createCameraOutputPath(f)
    /\ \/ recordVideo(d, f) /\ dialog' = v
       \/ /\ video.state = "stopped"
          /\ disk' = d
          /\ dialog' = VideoError(v)
          /\ UNCHANGED video
    /\ UNCHANGED <<photos, outcome>>

\* Faulty: the video is taken for finished when the button is clicked.
stopVideoAtOnce ==
    /\ Enabled("stop")
    /\ dialog.isVideoRecording
    /\ video' = Stopping(video)
    /\ dialog' = [dialog EXCEPT
                    !.capturedFilePath = dialog.pendingVideoFilePath,
                    !.enabled = @ \cup {"send", "delete"}]
    /\ UNCHANGED <<photos, outcome, disk, clock>>

stopVideo ==
    /\ Enabled("stop")
    /\ dialog.isVideoRecording
    /\ video' = Stopping(video)
    /\ UNCHANGED <<dialog, photos, outcome, disk, clock>>

deleteCapture ==
    /\ Enabled("delete")
    /\ disk' = Removed(disk, dialog.capturedFilePath)
    /\ dialog' = [dialog EXCEPT !.capturedFilePath = None,
                                !.pendingVideoFilePath = None,
                                !.enabled = @ \ {"send", "delete"}]
    /\ UNCHANGED <<video, photos, outcome, clock>>

\* What it may answer.
sendAttachmentFile(f) == Readable(disk, f)

\* A capture that cannot be sent leaves the dialog as it was.
sendCapture ==
    /\ Enabled("send")
    /\ TRUE \in sendAttachmentFile(dialog.capturedFilePath)
    /\ CloseDialog(TRUE, disk[dialog.capturedFilePath].state)

CameraSignals ==
    \/ \E f \in photos : imageSaved(f) \/ imageFailed(f)
    \/ videoStopped
    \/ videoFailed

CameraButtons ==
    \/ \E f \in Files : takePhoto(f) \/ startVideo(f)
    \/ stopVideo
    \/ deleteCapture
    \/ sendCapture
    \/ closeCamera

CameraStep ==
    \/ onCameraClicked
    \/ CameraSignals
    \/ CameraButtons
=============================================================================
