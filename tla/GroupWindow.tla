------------------------------ MODULE GroupWindow ------------------------------
(***************************************************************************)
(* gui/GroupWindow.cpp: the voice messages and the camera of the groups.   *)
(* The handlers are those of the chat window, written out again, but for   *)
(* the selected group: without one nothing is recorded, captured or sent.  *)
(* A voice message goes to the group that is selected when it is sent,     *)
(* whichever it was when it was recorded.  The choice of the group is in   *)
(* TypingStatus.                                                           *)
(***************************************************************************)
EXTENDS ChatWindow

VARIABLE hasGroup      \* a group is selected; none is ever left

groupRecorderSignals == recorderStateChanged \/ errorOccurred

\* The pending voice is dropped before the group is asked for; without a
\* group there is none to drop.
groupStartVoiceRecording(f) == hasGroup /\ startVoiceRecording(f)

groupStopVoiceRecording == stopVoiceRecording

groupOnDeleteVoiceClicked == onDeleteVoiceClicked

groupOnSendClicked == hasGroup /\ onSendClicked

groupOnVoiceClicked ==
    \/ groupStopVoiceRecording
    \/ \E f \in Files : groupStartVoiceRecording(f)

\* onCreateClicked or onJoinClicked, or the refresh after it.
selectFirstGroup ==
    /\ ~hasGroup
    /\ hasGroup' = TRUE
    /\ UNCHANGED <<voiceVars, disk, clock>>

GroupVoiceStep ==
    \/ /\ \/ groupRecorderSignals
          \/ /\ ~dialog.open
             /\ \/ groupOnVoiceClicked
                \/ groupOnDeleteVoiceClicked
                \/ groupOnSendClicked
       /\ UNCHANGED hasGroup
    \/ selectFirstGroup

-----------------------------------------------------------------------------
groupOnCameraClicked == hasGroup /\ onCameraClicked

groupCameraSignals == CameraSignals

\* What is sent goes to the group selected when the dialog was opened.
groupCameraButtons == CameraButtons

GroupCameraStep ==
    /\ groupOnCameraClicked \/ groupCameraSignals \/ groupCameraButtons
    /\ UNCHANGED hasGroup
=============================================================================
