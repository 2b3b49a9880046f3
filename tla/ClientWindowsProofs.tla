-------------------------- MODULE ClientWindowsProofs --------------------------
(***************************************************************************)
(* Proofs about ClientWindows, for every number of files and recordings    *)
(* and every choice of windows.                                            *)
(*                                                                         *)
(* PendingVoiceIsLast says what a late signal may make pending, so the     *)
(* invariant has to say what a late signal can find: while the recorder    *)
(* runs, the window's path is the file it writes or a name that holds      *)
(* nothing (RecorderFile).  That rests on a new name holding nothing       *)
(* (NamesGiven), on the camera having names of its own (CameraApart), and  *)
(* on the path being the last name given to a recording (PathIsLast).  A   *)
(* name given again while its file is still being written is the one way   *)
(* in which a late signal finds what was recorded over: NothingLate and    *)
(* LastNotDeleted except it, by regiven.                                   *)
(***************************************************************************)
EXTENDS ClientWindows, TLAPS

path == voice.pendingVoiceFilePath

\* The names of the camera's files.
CameraFiles ==
    ({dialog.capturedFilePath, dialog.pendingVideoFilePath, video.output}
       \cup photos) \ {None}

NamesGiven ==
    /\ \A f \in Files : f > clock => disk[f] = Absent
    /\ voiceName <= clock
    /\ audio.output <= clock
    /\ \A f \in CameraFiles : f <= clock

CameraApart == CameraFiles \cap {voiceName, audio.output} = {}

PathIsLast ==
    /\ path \in {None, voiceName}
    /\ audio.state # "stopped" => path # None

RecorderFile ==
    audio.state # "stopped" =>
        /\ audio.output # None
        /\ disk[audio.output] \in
             {Absent, [state |-> "open", take |-> audio.take]}
        /\ voiceName # audio.output => disk[voiceName] = Absent

VideoFile == video.state # "stopped" => video.output # None

\* What an ending recorder would make pending is not there while the window
\* believes that it records, unless it is what was recorded over.
NothingLate ==
    (Listening /\ voice.isRecording /\ MayFinish(audio)) =>
        disk[path] = Absent \/ audio.take \in regiven

TakesCounted ==
    /\ \A t \in deletedVoices : t <= audio.take
    /\ voiceName # None => disk[voiceName].take <= audio.take

(* The recording under the last name, where it is the last recording, has  *)
(* not been deleted, unless it could not be.                               *)
LastNotDeleted ==
    ( /\ voiceName # None
      /\ disk[voiceName] # Absent
      /\ disk[voiceName].take = audio.take )
    => audio.take \notin deletedVoices \ regiven

WindowsInv ==
    /\ WindowsTypeOK
    /\ NamesGiven
    /\ CameraApart
    /\ PathIsLast
    /\ RecorderFile
    /\ VideoFile
    /\ NothingLate
    /\ TakesCounted
    /\ LastNotDeleted
    /\ PendingVoiceIsLast
    /\ VoiceControlsAgree

-----------------------------------------------------------------------------
(* What a window is in before anything happens.                            *)
LEMMA InitInv == Init => WindowsInv
<1> SUFFICES ASSUME Init PROVE WindowsInv
    OBVIOUS
<1> USE MaxFilesAssumption, MaxTakesAssumption
    DEF Init, MediaInit, VoiceInit, CameraInit, NoVoice, NoDialog, Idle, Absent,
        None, Files
<1>1. WindowsTypeOK
  <2>1. MediaTypeOK
    BY DEF MediaTypeOK, FileState
  <2>2. VoiceTypeOK
    BY DEF VoiceTypeOK, VoiceMembers, Voice, Recorder, RecorderState
  <2>3. CameraTypeOK
    BY DEF CameraTypeOK, Dialog, Recorder, RecorderState, FileState
  <2> QED
    BY <2>1, <2>2, <2>3 DEF WindowsTypeOK
<1>2. NamesGiven /\ CameraApart
  BY DEF NamesGiven, CameraApart, CameraFiles
<1>3. PathIsLast /\ RecorderFile /\ VideoFile /\ NothingLate
  BY DEF PathIsLast, path, RecorderFile, VideoFile, NothingLate, MayFinish
<1>4. TakesCounted /\ LastNotDeleted
  BY DEF TakesCounted, LastNotDeleted, path
<1>5. PendingVoiceIsLast /\ VoiceControlsAgree
  BY DEF PendingVoiceIsLast, VoiceControlsAgree
<1> QED
  BY <1>1, <1>2, <1>3, <1>4, <1>5 DEF WindowsInv

(* The moves of a voice message are the same in the three windows, but for *)
(* the errors.                                                             *)
LEMMA VoiceMovesCases ==
  ASSUME WindowsInv, VoiceMoves
  PROVE  /\ UNCHANGED <<cameraVars, kind, unlinks>>
         /\ hasGroup' \in BOOLEAN
         /\ \/ recorderStateChanged
            \/ Listening /\ errorOccurred
            \/ ~Listening /\ AudioFails /\ UNCHANGED voice
            \/ \E f \in Files : startVoiceRecording(f)
            \/ stopVoiceRecording
            \/ onDeleteVoiceClicked
            \/ onSendClicked
            \/ UNCHANGED <<voiceVars, disk, clock>>
<1>1. hasGroup \in BOOLEAN /\ UNCHANGED <<cameraVars, kind, unlinks>>
  BY DEF WindowsInv, WindowsTypeOK, VoiceMoves
<1>2. CASE kind = "chat" /\ VoiceStep /\ UNCHANGED hasGroup
  BY <1>1, <1>2 DEF VoiceStep, onVoiceClicked, Listening
<1>3. CASE kind = "group" /\ GroupVoiceStep
  BY <1>1, <1>3
  DEF GroupVoiceStep, groupRecorderSignals, groupOnVoiceClicked,
      groupStartVoiceRecording, groupStopVoiceRecording,
      groupOnDeleteVoiceClicked, groupOnSendClicked, selectFirstGroup, Listening
<1>4. CASE kind = "private" /\ Private!VoiceStep /\ UNCHANGED hasGroup
  <2> USE DEF None, Private!None, Files, Private!Files
  <2>1. Private!recorderStateChanged => recorderStateChanged
    BY DEF recorderStateChanged, Private!recorderStateChanged,
           preparePendingVoice, Private!preparePendingVoice, AudioStops,
           Private!AudioStops, MayFinish, Private!MayFinish, Stopped,
           Private!Stopped, Closed, Private!Closed, Recorded,
           Private!Recorded
  <2>2. \A f : Private!startVoiceRecording(f) => startVoiceRecording(f)
    BY DEF startVoiceRecording, Private!startVoiceRecording,
           clearPendingVoice, Private!clearPendingVoice, StartsOn,
           Private!StartsOn, VoiceNames, Private!VoiceNames, NextName,
           Private!NextName, RecordVoice, Private!RecordVoice, Started,
           Private!Started, Opened, Private!Opened, Removed, Private!Removed,
           Absent, Private!Absent, Discarded, Private!Discarded,
           StillOpen, Private!StillOpen
  <2>3. Private!stopVoiceRecording => stopVoiceRecording
    BY DEF stopVoiceRecording, Private!stopVoiceRecording, StopsRecording,
           Private!StopsRecording, Stopping, Private!Stopping
  <2>4. Private!onDeleteVoiceClicked => onDeleteVoiceClicked
    BY DEF onDeleteVoiceClicked, Private!onDeleteVoiceClicked,
           clearPendingVoice, Private!clearPendingVoice, Deletes,
           Private!Deletes, Stopping, Private!Stopping, Removed,
           Private!Removed, Absent, Private!Absent, Discarded,
           Private!Discarded
  <2>5. Private!onSendClicked => onSendClicked
    BY DEF onSendClicked, Private!onSendClicked, sendPendingVoiceMessage,
           Private!sendPendingVoiceMessage, Sends, Private!Sends, Readable,
           Private!Readable, Recorded, Private!Recorded
  <2>6. Private!unnoticedError => AudioFails /\ UNCHANGED voice
    BY DEF Private!unnoticedError, AudioFails, Private!AudioFails, MayFail, Private!MayFail, Failing,
           Private!Failing
  <2> QED
    BY <1>1, <1>4, <2>1, <2>2, <2>3, <2>4, <2>5, <2>6
    DEF Private!VoiceStep, Private!onVoiceClicked, Listening
<1> QED
  BY <1>2, <1>3, <1>4 DEF VoiceMoves

-----------------------------------------------------------------------------
(* The steps of a voice message leave the camera's state alone.            *)
LEMMA CameraKept ==
  ASSUME WindowsInv, UNCHANGED cameraVars
  PROVE  CameraTypeOK' /\ VideoFile' /\ CameraFiles' = CameraFiles
BY DEF WindowsInv, WindowsTypeOK, cameraVars, CameraTypeOK, VideoFile, CameraFiles

(* A recorder that closes its file touches no other, and makes none.       *)
LEMMA ClosedDisk ==
  ASSUME NEW d \in [Files -> [state : FileState, take : Nat]],
         NEW r, r.output \in Files, NEW e \in Closed(r, d)
  PROVE  /\ e \in [Files -> [state : FileState, take : Nat]]
         /\ \A f \in Files : e[f].take = d[f].take
         /\ \A f \in Files : f # r.output => e[f] = d[f]
         /\ \A f \in Files : e[f] = Absent <=> d[f] = Absent
<1>1. CASE d[r.output].state # "open"
  BY <1>1 DEF Closed
<1>2. CASE d[r.output].state = "open"
  <2>1. PICK h \in {"cut", "whole", "empty"} : e = [d EXCEPT ![r.output].state = h]
    BY <1>2 DEF Closed
  <2>2. d[r.output] \in [state : FileState, take : Nat]
    OBVIOUS
  <2>3. [d[r.output] EXCEPT !.state = h] = [state |-> h, take |-> d[r.output].take]
    BY <2>2
  <2>4. e = [d EXCEPT ![r.output] = [state |-> h, take |-> d[r.output].take]]
    BY <2>1, <2>3
  <2> QED
    BY <1>2, <2>4 DEF FileState, Absent
<1> QED
  BY <1>1, <1>2

(* The recorder has closed its file, perhaps long after the click.         *)
LEMMA StopsInv ==
  ASSUME WindowsInv, UNCHANGED <<cameraVars, kind, unlinks>>, hasGroup' \in BOOLEAN,
         recorderStateChanged
  PROVE  WindowsInv'
<1> DEFINE o == audio.output
<1> USE MaxFilesAssumption DEF None, Files, path
<1>1. /\ disk \in [Files -> [state : FileState, take : Nat]]
      /\ voice \in Voice
      /\ audio \in Recorder
      /\ voiceName \in {None} \cup Files
  BY DEF WindowsInv, WindowsTypeOK, MediaTypeOK, VoiceTypeOK, VoiceMembers
<1>2. /\ audio.state # "stopped"
      /\ o \in Files
      /\ disk[o] \in {Absent, [state |-> "open", take |-> audio.take]}
      /\ voiceName # o => disk[voiceName] = Absent
      /\ path # None /\ path = voiceName
      /\ ~voice.hasPendingVoice
  BY <1>1 DEF recorderStateChanged, AudioStops, MayFinish, WindowsInv,
              RecorderFile, PathIsLast, PendingVoiceIsLast, Recorder
<1>3. /\ audio' = [audio EXCEPT !.state = "stopped"]
      /\ UNCHANGED <<voiceName, sentVoice, deletedVoices, regiven, clock>>
      /\ voice' = preparePendingVoice(voice, disk')
      /\ disk' \in Closed(audio, disk)
  BY DEF recorderStateChanged, AudioStops, Stopped
<1>4. /\ disk' \in [Files -> [state : FileState, take : Nat]]
      /\ \A f \in Files : disk'[f].take = disk[f].take
      /\ \A f \in Files : f # o => disk'[f] = disk[f]
      /\ \A f \in Files : disk'[f] = Absent <=> disk[f] = Absent
  BY <1>1, <1>2, <1>3, ClosedDisk, SMTT(40)
<1>5. /\ voice' \in Voice
      /\ voice'.pendingVoiceFilePath = path
      /\ voice'.isRecording = voice.isRecording
      /\ voice'.recordingTimer = voice.recordingTimer
      /\ voice'.voiceButton = voice.voiceButton
      /\ voice'.hasPendingVoice =>
           Recorded(disk', path) /\ voice'.deleteVoiceButton
      /\ ~voice'.hasPendingVoice =>
           voice'.deleteVoiceButton = voice.deleteVoiceButton
  BY <1>1, <1>2, <1>3 DEF preparePendingVoice, Voice
<1>6. audio' \in Recorder /\ audio'.state = "stopped" /\ audio'.output = o
      /\ audio'.take = audio.take
  BY <1>1, <1>3 DEF Recorder, RecorderState
<1>7. CameraTypeOK' /\ VideoFile' /\ CameraFiles' = CameraFiles
  BY CameraKept
<1>8. WindowsTypeOK'
  <2>1. MediaTypeOK'
    BY <1>3, <1>4 DEF WindowsInv, WindowsTypeOK, MediaTypeOK
  <2>2. VoiceTypeOK'
    BY <1>2, <1>3, <1>5, <1>6
    DEF WindowsInv, WindowsTypeOK, VoiceTypeOK, VoiceMembers
  <2> QED
    BY <2>1, <2>2, <1>7 DEF WindowsInv, WindowsTypeOK
<1>9. NamesGiven' /\ CameraApart'
  BY <1>3, <1>4, <1>6, <1>7 DEF WindowsInv, NamesGiven, CameraApart
<1>10. PathIsLast' /\ RecorderFile'
  BY <1>2, <1>3, <1>5, <1>6 DEF PathIsLast, RecorderFile
<1>11. NothingLate'
  BY <1>6 DEF NothingLate, MayFinish
<1>12. TakesCounted' /\ LastNotDeleted'
  BY <1>1, <1>2, <1>3, <1>4, <1>5, <1>6
  DEF WindowsInv, TakesCounted, LastNotDeleted
<1>13. PendingVoiceIsLast'
  BY <1>1, <1>2, <1>4, <1>5, <1>6 DEF PendingVoiceIsLast, Recorded, Absent
<1>14. VoiceControlsAgree'
  <2>1. Listening /\ voice.isRecording =>
          disk'[path] = Absent \/ audio.take \in regiven
    BY <1>1, <1>2, <1>4
    DEF WindowsInv, NothingLate, recorderStateChanged, AudioStops
  <2>2. Listening' = Listening
    BY DEF Listening
  <2> QED
    BY <1>1, <1>2, <1>3, <1>5, <1>6, <2>1, <2>2
    DEF WindowsInv, VoiceControlsAgree, Recorded, Absent, Voice
<1> QED
  BY <1>7, <1>8, <1>9, <1>10, <1>11, <1>12, <1>13, <1>14 DEF WindowsInv

(* An error, whether or not the window hears of it.                        *)
LEMMA FailsInv ==
  ASSUME WindowsInv, UNCHANGED <<cameraVars, kind, unlinks>>, hasGroup' \in BOOLEAN,
         AudioFails, (Listening /\ errorOccurred) \/ (~Listening /\ UNCHANGED voice)
  PROVE  WindowsInv'
<1> USE MaxFilesAssumption DEF None, Files, path
<1>1. voice \in Voice /\ audio \in Recorder
  BY DEF WindowsInv, WindowsTypeOK, VoiceTypeOK, VoiceMembers
<1>2. audio.state # "stopped" /\ ~voice.hasPendingVoice
  BY DEF AudioFails, MayFail, WindowsInv, PendingVoiceIsLast
<1>3. /\ audio' \in Recorder /\ audio'.state = "failing"
      /\ audio'.output = audio.output /\ audio'.take = audio.take
      /\ UNCHANGED <<voiceName, sentVoice, deletedVoices, regiven, disk, clock>>
  BY <1>1 DEF AudioFails, Failing, Recorder, RecorderState
<1>4. /\ voice' \in Voice
      /\ voice'.pendingVoiceFilePath = path
      /\ ~voice'.hasPendingVoice
      /\ voice' = voice \/ ( /\ ~voice'.isRecording
                             /\ ~voice'.recordingTimer
                             /\ ~voice'.deleteVoiceButton
                             /\ voice'.voiceButton = "mic" )
      /\ Listening => ~voice'.isRecording
  BY <1>1, <1>2 DEF errorOccurred, Voice
<1>5. CameraTypeOK' /\ VideoFile' /\ CameraFiles' = CameraFiles
  BY CameraKept
<1>6. WindowsTypeOK'
  <2>1. MediaTypeOK'
    BY <1>3 DEF WindowsInv, WindowsTypeOK, MediaTypeOK
  <2>2. VoiceTypeOK'
    BY <1>3, <1>4 DEF WindowsInv, WindowsTypeOK, VoiceTypeOK, VoiceMembers
  <2> QED
    BY <2>1, <2>2, <1>5 DEF WindowsInv, WindowsTypeOK
<1>7. NamesGiven' /\ CameraApart'
  BY <1>3, <1>5 DEF WindowsInv, NamesGiven, CameraApart
<1>8. PathIsLast' /\ RecorderFile'
  BY <1>2, <1>3, <1>4 DEF WindowsInv, PathIsLast, RecorderFile
<1>9. NothingLate'
  BY <1>4 DEF NothingLate, Listening
<1>10. TakesCounted' /\ LastNotDeleted'
  BY <1>3, <1>4 DEF WindowsInv, TakesCounted, LastNotDeleted
<1>11. PendingVoiceIsLast'
  BY <1>4 DEF PendingVoiceIsLast
<1>12. VoiceControlsAgree'
  BY <1>1, <1>2, <1>3, <1>4
  DEF WindowsInv, VoiceControlsAgree, Listening, Voice
<1> QED
  BY <1>5, <1>6, <1>7, <1>8, <1>9, <1>10, <1>11, <1>12 DEF WindowsInv

(* The click that ends a recording only asks for its end.                  *)
LEMMA StopInv ==
  ASSUME WindowsInv, UNCHANGED <<cameraVars, kind, unlinks>>, hasGroup' \in BOOLEAN,
         stopVoiceRecording
  PROVE  WindowsInv'
<1> USE MaxFilesAssumption DEF None, Files, path
<1>1. voice \in Voice /\ audio \in Recorder
  BY DEF WindowsInv, WindowsTypeOK, VoiceTypeOK, VoiceMembers
<1>2. /\ audio' \in Recorder
      /\ audio'.state = "stopped" <=> audio.state = "stopped"
      /\ audio'.output = audio.output /\ audio'.take = audio.take
      /\ UNCHANGED <<voiceName, sentVoice, deletedVoices, regiven, disk, clock>>
  BY <1>1
  DEF stopVoiceRecording, StopsRecording, Stopping, Recorder, RecorderState
<1>3. /\ voice' \in Voice
      /\ voice'.pendingVoiceFilePath = path
      /\ voice'.hasPendingVoice = voice.hasPendingVoice
      /\ voice'.deleteVoiceButton = voice.deleteVoiceButton
      /\ ~voice'.isRecording /\ ~voice'.recordingTimer
      /\ voice'.voiceButton = "mic"
  BY <1>1 DEF stopVoiceRecording, Voice
<1>4. CameraTypeOK' /\ VideoFile' /\ CameraFiles' = CameraFiles
  BY CameraKept
<1>5. WindowsTypeOK'
  <2>1. MediaTypeOK'
    BY <1>2 DEF WindowsInv, WindowsTypeOK, MediaTypeOK
  <2>2. VoiceTypeOK'
    BY <1>2, <1>3 DEF WindowsInv, WindowsTypeOK, VoiceTypeOK, VoiceMembers
  <2> QED
    BY <2>1, <2>2, <1>4 DEF WindowsInv, WindowsTypeOK
<1>6. NamesGiven' /\ CameraApart'
  BY <1>2, <1>4 DEF WindowsInv, NamesGiven, CameraApart
<1>7. PathIsLast' /\ RecorderFile'
  BY <1>2, <1>3 DEF WindowsInv, PathIsLast, RecorderFile
<1>8. NothingLate'
  BY <1>3 DEF NothingLate
<1>9. TakesCounted' /\ LastNotDeleted'
  BY <1>2, <1>3 DEF WindowsInv, TakesCounted, LastNotDeleted
<1>10. PendingVoiceIsLast'
  BY <1>2, <1>3 DEF WindowsInv, PendingVoiceIsLast
<1>11. VoiceControlsAgree'
  BY <1>1, <1>2, <1>3 DEF WindowsInv, VoiceControlsAgree, Voice, Listening
<1> QED
  BY <1>4, <1>5, <1>6, <1>7, <1>8, <1>9, <1>10, <1>11 DEF WindowsInv

(* What is pending is under the last name, its recorder has stopped.       *)
LEMMA PendingFile ==
  ASSUME WindowsInv, voice.hasPendingVoice
  PROVE  /\ audio.state = "stopped"
         /\ path \in Files /\ path = voiceName
         /\ disk[path].state \in {"cut", "whole"}
         /\ disk[path].take = audio.take
BY DEF WindowsInv, PendingVoiceIsLast, PathIsLast, path, Recorded, None,
       WindowsTypeOK, VoiceTypeOK, VoiceMembers

(* The pending recording is deleted.                                       *)
LEMMA DeleteInv ==
  ASSUME WindowsInv, UNCHANGED <<cameraVars, kind, unlinks>>, hasGroup' \in BOOLEAN,
         onDeleteVoiceClicked
  PROVE  WindowsInv'
<1> USE MaxFilesAssumption DEF None, Files, path
<1>1. /\ disk \in [Files -> [state : FileState, take : Nat]]
      /\ voice \in Voice /\ audio \in Recorder
  BY DEF WindowsInv, WindowsTypeOK, MediaTypeOK, VoiceTypeOK, VoiceMembers
<1>2. /\ voice.hasPendingVoice
      /\ audio.state = "stopped"
      /\ path \in Files /\ path = voiceName
      /\ disk[path].state \in {"cut", "whole"}
      /\ disk[path].take = audio.take
  <2>1. voice.hasPendingVoice
    BY DEF onDeleteVoiceClicked, WindowsInv, VoiceControlsAgree
  <2> QED
    BY <2>1, PendingFile
<1>3. /\ audio' = audio
      /\ disk' = [disk EXCEPT ![path] = Absent]
      /\ deletedVoices' \in {deletedVoices, deletedVoices \cup {audio.take}}
      /\ UNCHANGED <<voiceName, sentVoice, regiven, clock>>
  BY <1>1, <1>2
  DEF onDeleteVoiceClicked, Deletes, Stopping, Removed, Discarded
<1>4. /\ voice' \in Voice
      /\ voice'.pendingVoiceFilePath = None
      /\ ~voice'.hasPendingVoice /\ ~voice'.deleteVoiceButton
      /\ ~voice'.isRecording /\ ~voice'.recordingTimer
      /\ voice'.voiceButton = "mic"
  BY <1>1 DEF onDeleteVoiceClicked, clearPendingVoice, Voice
<1>5. CameraTypeOK' /\ VideoFile' /\ CameraFiles' = CameraFiles
  BY CameraKept
<1>6. WindowsTypeOK'
  <2>1. MediaTypeOK'
    BY <1>1, <1>2, <1>3
    DEF WindowsInv, WindowsTypeOK, MediaTypeOK, Absent, FileState
  <2>2. VoiceTypeOK'
    BY <1>1, <1>3, <1>4
    DEF WindowsInv, WindowsTypeOK, VoiceTypeOK, VoiceMembers, Recorder
  <2> QED
    BY <2>1, <2>2, <1>5 DEF WindowsInv, WindowsTypeOK
<1>7. NamesGiven' /\ CameraApart'
  BY <1>1, <1>2, <1>3, <1>5 DEF WindowsInv, NamesGiven, CameraApart
<1>8. PathIsLast' /\ RecorderFile'
  BY <1>2, <1>3, <1>4 DEF PathIsLast, RecorderFile
<1>9. NothingLate'
  BY <1>4 DEF NothingLate
<1>10. TakesCounted' /\ LastNotDeleted'
  BY <1>1, <1>2, <1>3
  DEF WindowsInv, TakesCounted, LastNotDeleted, Absent, Recorder
<1>11. PendingVoiceIsLast' /\ VoiceControlsAgree'
  BY <1>4 DEF PendingVoiceIsLast, VoiceControlsAgree, Voice
<1> QED
  BY <1>5, <1>6, <1>7, <1>8, <1>9, <1>10, <1>11 DEF WindowsInv

(* The pending recording is sent.                                          *)
LEMMA SendInv ==
  ASSUME WindowsInv, UNCHANGED <<cameraVars, kind, unlinks>>, hasGroup' \in BOOLEAN,
         onSendClicked
  PROVE  WindowsInv'
<1> USE MaxFilesAssumption DEF None, Files, path
<1>1. /\ disk \in [Files -> [state : FileState, take : Nat]]
      /\ voice \in Voice /\ audio \in Recorder
  BY DEF WindowsInv, WindowsTypeOK, MediaTypeOK, VoiceTypeOK, VoiceMembers
<1>2. audio.state = "stopped" /\ path \in Files
  BY PendingFile DEF onSendClicked
<1>3. /\ sentVoice' = disk[path].take
      /\ UNCHANGED <<audio, voiceName, deletedVoices, regiven, disk, clock>>
  BY DEF onSendClicked, sendPendingVoiceMessage, Sends
<1>4. /\ voice' \in Voice
      /\ voice'.pendingVoiceFilePath = None
      /\ ~voice'.hasPendingVoice /\ ~voice'.deleteVoiceButton
      /\ voice'.isRecording = voice.isRecording
      /\ voice'.recordingTimer = voice.recordingTimer
      /\ voice'.voiceButton = "mic"
  BY <1>1 DEF onSendClicked, Voice
<1>5. CameraTypeOK' /\ VideoFile' /\ CameraFiles' = CameraFiles
  BY CameraKept
<1>6. WindowsTypeOK'
  <2>1. MediaTypeOK'
    BY <1>3 DEF WindowsInv, WindowsTypeOK, MediaTypeOK
  <2>2. VoiceTypeOK'
    BY <1>1, <1>2, <1>3, <1>4
    DEF WindowsInv, WindowsTypeOK, VoiceTypeOK, VoiceMembers
  <2> QED
    BY <2>1, <2>2, <1>5 DEF WindowsInv, WindowsTypeOK
<1>7. NamesGiven' /\ CameraApart'
  BY <1>3, <1>5 DEF WindowsInv, NamesGiven, CameraApart
<1>8. PathIsLast' /\ RecorderFile' /\ NothingLate'
  BY <1>2, <1>3, <1>4 DEF PathIsLast, RecorderFile, NothingLate, MayFinish
<1>9. TakesCounted' /\ LastNotDeleted'
  BY <1>2, <1>3, <1>4, PendingFile
  DEF WindowsInv, TakesCounted, LastNotDeleted, onSendClicked
<1>10. PendingVoiceIsLast'
  BY <1>4 DEF PendingVoiceIsLast
<1>11. VoiceControlsAgree'
  BY <1>1, <1>3, <1>4
  DEF WindowsInv, VoiceControlsAgree, Voice, onSendClicked, Listening
<1> QED
  BY <1>5, <1>6, <1>7, <1>8, <1>9, <1>10, <1>11 DEF WindowsInv

(* A new recording: it starts, or the recorder does not care.              *)
LEMMA StartInv ==
  ASSUME WindowsInv, UNCHANGED <<cameraVars, kind, unlinks>>, hasGroup' \in BOOLEAN,
         NEW f \in Files, startVoiceRecording(f)
  PROVE  WindowsInv'
<1> DEFINE d == Removed(disk, path)
<1> USE MaxFilesAssumption DEF None, Files, path
<1>1. /\ disk \in [Files -> [state : FileState, take : Nat]]
      /\ clock \in 0 .. MaxFiles
      /\ unlinks \in BOOLEAN
      /\ voice \in Voice /\ path \in {None} \cup Files
      /\ audio \in Recorder /\ audio.take \in Nat
      /\ voiceName \in {None} \cup Files
      /\ deletedVoices \subseteq Nat /\ regiven \subseteq Nat
  BY DEF WindowsInv, WindowsTypeOK, MediaTypeOK, VoiceTypeOK, VoiceMembers,
         Voice, Recorder
<1>2. /\ d \in [Files -> [state : FileState, take : Nat]]
      /\ \A g \in Files : d[g] \in {disk[g], Absent}
      /\ \A g \in Files : g # path => d[g] = disk[g]
      /\ unlinks /\ path # None => d[path] = Absent
  BY <1>1 DEF Removed, Absent, FileState
<1>3. /\ f = clock + 1 \/ f = voiceName
      /\ clock' = IF f = clock + 1 THEN f ELSE clock
      /\ voiceName' = f
      /\ deletedVoices' = deletedVoices \cup Discarded(voice)
      /\ regiven' = regiven \cup StillOpen(d, f)
      /\ sentVoice' = sentVoice
      /\ \/ /\ audio.state = "stopped"
            /\ audio' = [state |-> "recording", output |-> f, take |-> audio.take + 1]
            /\ disk' = [d EXCEPT ![f] = [state |-> "open", take |-> audio.take + 1]]
         \/ audio' = audio /\ disk' = d
  BY DEF startVoiceRecording, StartsOn, VoiceNames, NextName, RecordVoice,
         Started, Opened
<1>4. /\ voice' \in Voice
      /\ voice'.pendingVoiceFilePath = f
      /\ ~voice'.hasPendingVoice /\ ~voice'.deleteVoiceButton
      /\ voice'.isRecording /\ voice'.recordingTimer
      /\ voice'.voiceButton = "stop"
  BY <1>1 DEF startVoiceRecording, clearPendingVoice, Voice
<1>5. /\ voiceName <= clock /\ audio.output <= clock
      /\ path \in {None, voiceName}
      /\ \A g \in CameraFiles : g <= clock
      /\ \A g \in Files : g > clock => disk[g] = Absent
      /\ CameraFiles \cap {voiceName, audio.output} = {}
  BY DEF WindowsInv, NamesGiven, PathIsLast, CameraApart
<1>6. f # voiceName => f = clock + 1 /\ f # path /\ d[f] = Absent
  BY <1>1, <1>2, <1>3, <1>5
<1>7. f \notin CameraFiles
  <2>1. f = clock + 1 => ~(f <= clock)
    BY <1>1
  <2> QED
    BY <1>3, <1>5, <2>1
<1>8. audio.state # "stopped" /\ f # audio.output => d[f] = Absent
  <2>1. CASE f = voiceName
    BY <1>1, <1>2, <2>1 DEF WindowsInv, RecorderFile
  <2>2. CASE f # voiceName
    BY <1>6, <2>2
  <2> QED
    BY <2>1, <2>2
<1>9. audio.state # "stopped" => d[f] = Absent \/ audio.take \in regiven'
  <2> SUFFICES ASSUME audio.state # "stopped", d[f] # Absent
               PROVE  audio.take \in regiven'
    OBVIOUS
  <2>1. f = audio.output /\ d[f] = disk[f]
    BY <1>2, <1>8
  <2>2. disk[f] = [state |-> "open", take |-> audio.take]
    BY <2>1 DEF WindowsInv, RecorderFile
  <2> QED
    BY <1>3, <2>1, <2>2 DEF StillOpen
<1>10. /\ audio' \in Recorder
       /\ disk' \in [Files -> [state : FileState, take : Nat]]
       /\ clock' \in 0 .. MaxFiles
       /\ clock <= clock' /\ f <= clock'
  <2>1. /\ clock' \in 0 .. MaxFiles
        /\ clock <= clock' /\ f <= clock'
    BY <1>1, <1>3, <1>5
  <2>2. CASE audio' = audio /\ disk' = d
    BY <1>1, <1>2, <2>1, <2>2
  <2>3. CASE /\ audio' = [state |-> "recording", output |-> f, take |-> audio.take + 1]
             /\ disk' = [d EXCEPT ![f] = [state |-> "open", take |-> audio.take + 1]]
    <3>1. audio.take + 1 \in Nat
      BY <1>1
    <3>2. audio' \in Recorder
      BY <2>3, <3>1 DEF Recorder, RecorderState
    <3>3. disk' \in [Files -> [state : FileState, take : Nat]]
      BY <1>2, <2>3, <3>1 DEF FileState
    <3> QED
      BY <2>1, <3>2, <3>3
  <2> QED
    BY <1>3, <2>2, <2>3
<1>11. /\ Discarded(voice) \subseteq {t \in Nat : t <= audio.take}
       /\ StillOpen(d, f) \subseteq Nat
  BY <1>1, <1>2, <1>5 DEF Discarded, StillOpen, WindowsInv, TakesCounted
<1>12. CameraTypeOK' /\ VideoFile' /\ CameraFiles' = CameraFiles
  BY CameraKept
<1>13. WindowsTypeOK'
  <2>1. MediaTypeOK'
    BY <1>1, <1>10 DEF MediaTypeOK
  <2>2. VoiceTypeOK'
    BY <1>1, <1>3, <1>4, <1>10, <1>11
    DEF WindowsInv, WindowsTypeOK, VoiceTypeOK, VoiceMembers
  <2> QED
    BY <2>1, <2>2, <1>12 DEF WindowsInv, WindowsTypeOK
<1>14. NamesGiven'
  <2>1. \A g \in Files : g > clock' => disk'[g] = Absent
    <3> SUFFICES ASSUME NEW g \in Files, g > clock' PROVE disk'[g] = Absent
      OBVIOUS
    <3>1. g > clock /\ g # f
      BY <1>1, <1>10, SMTT(40)
    <3>2. d[g] = Absent
      BY <1>2, <1>5, <3>1
    <3> QED
      BY <1>2, <1>3, <3>1, <3>2
  <2>2. audio'.output <= clock'
    BY <1>1, <1>3, <1>5, <1>10 DEF Recorder
  <2>3. \A g \in CameraFiles : g <= clock'
    <3> SUFFICES ASSUME NEW g \in CameraFiles PROVE g <= clock'
      OBVIOUS
    <3>1. g \in Nat
      BY DEF CameraFiles, WindowsInv, WindowsTypeOK, CameraTypeOK, Dialog, Recorder
    <3> QED
      BY <1>1, <1>5, <1>10, <3>1
  <2> QED
    BY <1>3, <1>10, <1>12, <2>1, <2>2, <2>3 DEF NamesGiven
<1>15. CameraApart'
  BY <1>3, <1>5, <1>7, <1>12 DEF CameraApart
<1>16. PathIsLast'
  BY <1>3, <1>4 DEF PathIsLast
<1>17. RecorderFile'
  <2>1. CASE audio' = audio /\ disk' = d
    <3> SUFFICES ASSUME audio.state # "stopped"
                 PROVE  /\ audio.output # None
                        /\ d[audio.output] \in
                             {Absent, [state |-> "open", take |-> audio.take]}
                        /\ f # audio.output => d[f] = Absent
      BY <1>3, <2>1 DEF RecorderFile
    <3> QED
      BY <1>1, <1>2, <1>8 DEF WindowsInv, RecorderFile, Recorder
  <2>2. CASE /\ audio' = [state |-> "recording", output |-> f, take |-> audio.take + 1]
             /\ disk' = [d EXCEPT ![f] = [state |-> "open", take |-> audio.take + 1]]
    BY <1>2, <1>3, <2>2 DEF RecorderFile
  <2> QED
    BY <1>3, <2>1, <2>2
<1>18. NothingLate'
  BY <1>3, <1>4, <1>6, <1>9 DEF NothingLate, MayFinish
<1>19. TakesCounted' /\ LastNotDeleted'
  <2>1. CASE audio' = audio /\ disk' = d
    <3>1. TakesCounted'
      BY <1>1, <1>2, <1>3, <1>6, <1>11, <2>1
      DEF WindowsInv, TakesCounted, Absent
    <3>2. LastNotDeleted'
      <4>1. CASE f # voiceName
        BY <1>3, <1>6, <2>1, <4>1 DEF LastNotDeleted
      <4>2. CASE f = voiceName /\ path # None
        <5>1. path = f
          BY <1>1, <1>5, <4>2
        <5>2. d[f] = Absent \/ d[f].state = "open"
          BY <1>1, <5>1 DEF Removed
        <5>3. d[f] # Absent => d[f].take \in regiven'
          BY <1>3, <5>2 DEF StillOpen
        <5> QED
          BY <1>3, <2>1, <5>3 DEF LastNotDeleted
      <4>3. CASE f = voiceName /\ path = None
        <5>1. d = disk /\ Discarded(voice) = {}
          BY <4>3 DEF Removed, Discarded
        <5> QED
          BY <1>3, <2>1, <4>3, <5>1 DEF WindowsInv, LastNotDeleted
      <4> QED
        BY <4>1, <4>2, <4>3
    <3> QED
      BY <3>1, <3>2
  <2>2. CASE /\ audio' = [state |-> "recording", output |-> f, take |-> audio.take + 1]
             /\ disk' = [d EXCEPT ![f] = [state |-> "open", take |-> audio.take + 1]]
    <3>1. \A t \in deletedVoices' : t <= audio.take
      BY <1>3, <1>11 DEF WindowsInv, TakesCounted
    <3>2. \A t \in deletedVoices' : t \in Nat
      BY <1>1, <1>3, <1>11
    <3>3. audio'.take = audio.take + 1 /\ disk'[f].take = audio.take + 1
      BY <1>2, <2>2
    <3> QED
      BY <1>1, <1>3, <3>1, <3>2, <3>3 DEF TakesCounted, LastNotDeleted
  <2> QED
    BY <1>3, <2>1, <2>2
<1>20. PendingVoiceIsLast' /\ VoiceControlsAgree'
  BY <1>4 DEF PendingVoiceIsLast, VoiceControlsAgree, Voice
<1> QED
  BY <1>12, <1>13, <1>14, <1>15, <1>16, <1>17, <1>18, <1>19, <1>20 DEF WindowsInv

-----------------------------------------------------------------------------
(* A step of a camera dialog, whichever it is, changes its own files and   *)
(* takes a new name for a new one.                                         *)
CameraEffect ==
    /\ disk' \in [Files -> [state : FileState, take : Nat]]
    /\ CameraTypeOK'
    /\ VideoFile'
    /\ clock' = clock \/ (clock' = clock + 1 /\ clock' \in Files)
    /\ \A f \in Files \ CameraFiles : f <= clock => disk'[f] = disk[f]
    /\ \A f \in Files : f > clock' => disk'[f] = Absent
    /\ \A f \in CameraFiles' :
         f \in CameraFiles \/ (f = clock + 1 /\ clock' = clock + 1)

LEMMA CameraEffectInv ==
  ASSUME WindowsInv, UNCHANGED <<voiceVars, kind, unlinks>>, hasGroup' \in BOOLEAN,
         CameraEffect
  PROVE  WindowsInv'
<1> USE MaxFilesAssumption DEF None, Files, path
<1>1. /\ voice' = voice /\ audio' = audio /\ voiceName' = voiceName
      /\ deletedVoices' = deletedVoices /\ sentVoice' = sentVoice
      /\ regiven' = regiven
      /\ unlinks' = unlinks /\ kind' = kind
  BY DEF voiceVars
<1>2. /\ voiceName \in {None} \cup Files /\ path \in {None} \cup Files
      /\ audio.output \in {None} \cup Files
      /\ clock \in 0 .. MaxFiles
      /\ CameraFiles \subseteq Files /\ CameraFiles' \subseteq Files
  <2>1. voiceName \in {None} \cup Files /\ clock \in 0 .. MaxFiles
    BY DEF WindowsInv, WindowsTypeOK, VoiceTypeOK, VoiceMembers, MediaTypeOK
  <2>2. path \in {None} \cup Files
    BY DEF WindowsInv, WindowsTypeOK, VoiceTypeOK, VoiceMembers, Voice
  <2>3. audio.output \in {None} \cup Files
    BY DEF WindowsInv, WindowsTypeOK, VoiceTypeOK, VoiceMembers, Recorder
  <2>4. CameraTypeOK /\ CameraTypeOK'
    BY DEF WindowsInv, WindowsTypeOK, CameraEffect
  <2>5. CameraFiles \subseteq Files /\ CameraFiles' \subseteq Files
    <3>1. /\ dialog \in Dialog /\ video \in Recorder /\ photos \subseteq Files
          /\ dialog' \in Dialog /\ video' \in Recorder /\ photos' \subseteq Files
      BY <2>4 DEF CameraTypeOK
    <3>2. /\ dialog.capturedFilePath \in {None} \cup Files
          /\ dialog.pendingVideoFilePath \in {None} \cup Files
          /\ dialog'.capturedFilePath \in {None} \cup Files
          /\ dialog'.pendingVideoFilePath \in {None} \cup Files
      BY <3>1 DEF Dialog
    <3>3. /\ video.output \in {None} \cup Files
          /\ video'.output \in {None} \cup Files
      BY <3>1 DEF Recorder
    <3> QED
      BY <3>1, <3>2, <3>3 DEF CameraFiles
  <2> QED
    BY <2>1, <2>2, <2>3, <2>5
<1>3. /\ voiceName # None => disk'[voiceName] = disk[voiceName]
      /\ audio.output # None => disk'[audio.output] = disk[audio.output]
      /\ path # None => disk'[path] = disk[path] /\ path = voiceName
  BY <1>2 DEF WindowsInv, CameraApart, NamesGiven, PathIsLast, CameraEffect
<1>4. clock \in Nat /\ clock' \in 0 .. MaxFiles /\ clock <= clock'
  BY <1>2 DEF CameraEffect
<1>5. WindowsTypeOK'
  BY <1>1, <1>4
  DEF WindowsInv, WindowsTypeOK, MediaTypeOK, VoiceTypeOK, VoiceMembers,
      CameraEffect
<1>6. NamesGiven'
  <2>1. ASSUME NEW f \in CameraFiles'
        PROVE  f <= clock'
    <3>1. f \in Nat
      BY <1>2 DEF Files
    <3>2. f \in CameraFiles \/ (f = clock + 1 /\ clock' = clock + 1)
      BY DEF CameraEffect
    <3>3. CASE f \in CameraFiles
      <4>1. f <= clock
        BY <3>3 DEF WindowsInv, NamesGiven
      <4> QED
        BY <1>4, <3>1, <4>1
    <3>4. CASE f = clock + 1 /\ clock' = clock + 1
      BY <1>4, <3>4
    <3> QED
      BY <3>2, <3>3, <3>4
  <2> QED
    BY <1>1, <1>2, <1>4, <2>1 DEF WindowsInv, NamesGiven, CameraEffect
<1>7. CameraApart'
  <2>1. voiceName # clock + 1 /\ audio.output # clock + 1
    BY <1>2 DEF WindowsInv, NamesGiven
  <2> QED
    BY <1>1, <2>1 DEF WindowsInv, CameraApart, CameraEffect
<1>8. PathIsLast' /\ RecorderFile' /\ VideoFile'
  BY <1>1, <1>2, <1>3
  DEF WindowsInv, PathIsLast, RecorderFile, CameraEffect
<1>9. NothingLate'
  BY <1>1, <1>2, <1>3
  DEF WindowsInv, NothingLate, Listening, MayFinish, PathIsLast
<1>10. TakesCounted' /\ LastNotDeleted'
  BY <1>1, <1>2, <1>3 DEF WindowsInv, TakesCounted, LastNotDeleted
<1>11. PendingVoiceIsLast' /\ VoiceControlsAgree'
  BY <1>1, <1>3
  DEF WindowsInv, PendingVoiceIsLast, VoiceControlsAgree, Listening, Recorded
<1> QED
  BY <1>5, <1>6, <1>7, <1>8, <1>9, <1>10, <1>11 DEF WindowsInv

LEMMA CameraFacts ==
  ASSUME WindowsInv
  PROVE  /\ disk \in [Files -> [state : FileState, take : Nat]]
         /\ clock \in Nat
         /\ CameraTypeOK /\ VideoFile
         /\ CameraFiles \subseteq Files
         /\ \A f \in Files : f > clock => disk[f] = Absent
         /\ \A f \in CameraFiles : f <= clock
<1>1. /\ disk \in [Files -> [state : FileState, take : Nat]]
      /\ clock \in 0 .. MaxFiles
      /\ CameraTypeOK /\ VideoFile
  BY DEF WindowsInv, WindowsTypeOK, MediaTypeOK
<1>2. CameraFiles \subseteq Files
  BY <1>1 DEF CameraFiles, CameraTypeOK, Dialog, Recorder
<1>3. clock \in Nat
  BY <1>1, MaxFilesAssumption
<1> QED
  BY <1>1, <1>2, <1>3 DEF WindowsInv, NamesGiven

\* A step that takes no new name.
LEMMA NoNewFile ==
  ASSUME WindowsInv, clock' = clock, CameraTypeOK', VideoFile',
         CameraFiles' \subseteq CameraFiles,
         disk' \in [Files -> [state : FileState, take : Nat]],
         \A g \in Files : disk'[g] = disk[g] \/ g \in CameraFiles
  PROVE  CameraEffect
<1>1. \A g \in Files : g > clock => g \notin CameraFiles
  BY MaxFilesAssumption, CameraFacts DEF Files
<1> QED
  BY <1>1, CameraFacts DEF CameraEffect

\* A step that takes a new one.
LEMMA NewFile ==
  ASSUME WindowsInv, NEW f \in Files, f = clock + 1, clock' = clock + 1,
         CameraTypeOK', VideoFile', CameraFiles' \subseteq CameraFiles \cup {f},
         disk' \in [Files -> [state : FileState, take : Nat]],
         \A g \in Files :
           g # f => disk'[g] = disk[g] \/ (g \in CameraFiles /\ disk'[g] = Absent)
  PROVE  CameraEffect
<1>1. \A g \in Files : g <= clock => g # f
  BY MaxFilesAssumption, CameraFacts DEF Files
<1>2. \A g \in Files : g > clock' => g > clock /\ g # f
  BY MaxFilesAssumption, CameraFacts DEF Files
<1> QED
  BY <1>1, <1>2, CameraFacts DEF CameraEffect

(* A capture that is removed is one of the camera's files.                 *)
LEMMA RemovedCapture ==
  ASSUME WindowsInv
  PROVE  /\ Removed(disk, dialog.capturedFilePath) \in
              [Files -> [state : FileState, take : Nat]]
         /\ \A g \in Files :
              \/ Removed(disk, dialog.capturedFilePath)[g] = disk[g]
              \/ /\ g \in CameraFiles
                 /\ Removed(disk, dialog.capturedFilePath)[g] = Absent
<1>1. disk \in [Files -> [state : FileState, take : Nat]]
  BY DEF WindowsInv, WindowsTypeOK, MediaTypeOK
<1>2. dialog.capturedFilePath \in {None} \cup Files
  BY DEF WindowsInv, WindowsTypeOK, CameraTypeOK, Dialog
<1> QED
  BY <1>1, <1>2 DEF Removed, CameraFiles, Absent, FileState, None

(* The steps of the dialog in the chat and in the group window.            *)
LEMMA CameraStepEffect ==
  ASSUME WindowsInv, CameraStep
  PROVE  CameraEffect
<1> USE MaxFilesAssumption DEF None, Files
<1>1. /\ disk \in [Files -> [state : FileState, take : Nat]]
      /\ clock \in Nat
      /\ CameraTypeOK /\ VideoFile
      /\ CameraFiles \subseteq Files
      /\ \A f \in Files : f > clock => disk[f] = Absent
      /\ \A f \in CameraFiles : f <= clock
  BY CameraFacts
<1>2. CASE onCameraClicked
  BY <1>1, <1>2
  DEF onCameraClicked, OpenDialog, CameraEffect, CameraFiles, VideoFile, NoDialog,
      CameraTypeOK, Dialog, Buttons
<1>3. ASSUME NEW f \in photos, imageSaved(f) \/ imageFailed(f)
      PROVE  CameraEffect
  <2>1. f \in Files /\ f \in CameraFiles
    BY <1>1 DEF CameraTypeOK, CameraFiles
  <2>2. /\ dialog' \in Dialog
        /\ dialog'.capturedFilePath \in {dialog.capturedFilePath, f}
        /\ dialog'.pendingVideoFilePath = dialog.pendingVideoFilePath
        /\ photos' = photos \ {f}
        /\ UNCHANGED <<video, outcome, clock>>
    <3>1. dialog \in Dialog
      BY <1>1 DEF CameraTypeOK
    <3>2. CASE imageSaved(f)
      BY <2>1, <3>1, <3>2 DEF imageSaved, Dialog, Buttons
    <3>3. CASE imageFailed(f)
      BY <3>1, <3>3 DEF imageFailed, Dialog, Buttons
    <3> QED
      BY <1>3, <3>2, <3>3
  <2>3. /\ disk' \in [Files -> [state : FileState, take : Nat]]
        /\ \A g \in Files : g # f => disk'[g] = disk[g]
    BY <1>1, <1>3, <2>1 DEF imageSaved, imageFailed, FileState, Absent
  <2>4. CameraTypeOK' /\ VideoFile'
    BY <1>1, <2>2 DEF CameraTypeOK, VideoFile
  <2>5. CameraFiles' \subseteq CameraFiles
    BY <2>1, <2>2 DEF CameraFiles
  <2> QED
    BY <2>1, <2>2, <2>3, <2>4, <2>5, NoNewFile
<1>4. CASE videoStopped
  <2>1. video.output \in Files /\ disk' \in Closed(video, disk)
    BY <1>1, <1>4 DEF videoStopped, MayFinish, VideoFile, CameraTypeOK, Recorder
  <2>2. disk \in [Files -> [state : FileState, take : Nat]]
    BY <1>1
  <2>3. /\ disk' \in [Files -> [state : FileState, take : Nat]]
        /\ \A f \in Files : f # video.output => disk'[f] = disk[f]
        /\ \A f \in Files : disk'[f] = Absent <=> disk[f] = Absent
    BY <2>1, <2>2, ClosedDisk, SMTT(40)
  <2>4. /\ dialog' \in Dialog
        /\ dialog'.capturedFilePath \in
             {dialog.capturedFilePath, dialog.pendingVideoFilePath}
        /\ dialog'.pendingVideoFilePath = dialog.pendingVideoFilePath
        /\ UNCHANGED <<photos, outcome, clock>>
    <3>1. dialog \in Dialog
      BY <1>1 DEF CameraTypeOK
    <3>2. /\ KeepVideo(disk') \in Dialog
          /\ KeepVideo(disk').capturedFilePath \in
               {dialog.capturedFilePath, dialog.pendingVideoFilePath}
          /\ KeepVideo(disk').pendingVideoFilePath = dialog.pendingVideoFilePath
      BY <3>1 DEF KeepVideo, Dialog, Buttons
    <3>3. CASE dialog.isVideoRecording
      <4>1. dialog' = [KeepVideo(disk') EXCEPT !.isVideoRecording = FALSE,
                         !.enabled = (@ \cup {"take", "start"}) \ {"stop"}]
        BY <1>4, <3>3 DEF videoStopped
      <4> QED
        BY <1>4, <3>2, <4>1 DEF videoStopped, Dialog, Buttons
    <3>4. CASE ~dialog.isVideoRecording
      BY <1>4, <3>1, <3>4 DEF videoStopped
    <3> QED
      BY <3>3, <3>4
  <2>5. /\ video' \in Recorder /\ video'.state = "stopped"
        /\ video'.output = video.output
    BY <1>1, <1>4 DEF videoStopped, Stopped, CameraTypeOK, Recorder, RecorderState
  <2>6. CameraTypeOK' /\ VideoFile'
    BY <1>1, <2>4, <2>5 DEF CameraTypeOK, VideoFile
  <2>7. CameraFiles' \subseteq CameraFiles /\ video.output \in CameraFiles
    BY <2>1, <2>4, <2>5 DEF CameraFiles
  <2> QED
    BY <2>3, <2>4, <2>6, <2>7, NoNewFile
<1>5. CASE videoFailed
  BY <1>1, <1>5
  DEF videoFailed, MayFail, Failing, VideoError, CameraEffect, CameraFiles,
      VideoFile, CameraTypeOK, Dialog, Recorder, RecorderState, Buttons
<1>6. ASSUME NEW f \in Files, takePhoto(f)
      PROVE  CameraEffect
  <2> DEFINE d == Removed(disk, dialog.capturedFilePath)
  <2>1. /\ d \in [Files -> [state : FileState, take : Nat]]
        /\ \A g \in Files : d[g] = disk[g] \/ (g \in CameraFiles /\ d[g] = Absent)
    BY <1>1, RemovedCapture
  <2>2. /\ dialog' \in Dialog /\ dialog'.capturedFilePath = None
        /\ dialog'.pendingVideoFilePath = dialog.pendingVideoFilePath
        /\ photos' = photos \cup {f}
        /\ UNCHANGED <<video, outcome>>
        /\ f = clock + 1 /\ clock' = clock + 1
    BY <1>1, <1>6
    DEF takePhoto, createCameraOutputPath, NextName, captureToFile, CameraTypeOK,
        Dialog, Buttons
  <2>3. disk' = [d EXCEPT ![f] = [state |-> "open", take |-> 0]]
    BY <1>6 DEF takePhoto, captureToFile
  <2>4. /\ disk' \in [Files -> [state : FileState, take : Nat]]
        /\ \A g \in Files : g # f => disk'[g] = d[g]
    BY <2>1, <2>3 DEF FileState
  <2>5. CameraTypeOK' /\ VideoFile'
    BY <1>1, <2>2 DEF CameraTypeOK, VideoFile
  <2>6. CameraFiles' \subseteq CameraFiles \cup {f}
    BY <2>2 DEF CameraFiles
  <2> QED
    BY <2>1, <2>2, <2>4, <2>5, <2>6, NewFile, SMTT(40)
<1>7. ASSUME NEW f \in Files, startVideo(f)
      PROVE  CameraEffect
  <2> DEFINE d == Removed(disk, dialog.capturedFilePath)
  <2>1. /\ d \in [Files -> [state : FileState, take : Nat]]
        /\ \A g \in Files : d[g] = disk[g] \/ (g \in CameraFiles /\ d[g] = Absent)
    BY <1>1, RemovedCapture
  <2>2. /\ dialog' \in Dialog /\ dialog'.capturedFilePath = None
        /\ dialog'.pendingVideoFilePath = f
        /\ UNCHANGED <<photos, outcome>>
        /\ f = clock + 1 /\ clock' = clock + 1
    <3> DEFINE v == [dialog EXCEPT !.capturedFilePath = None,
                                   !.pendingVideoFilePath = f,
                                   !.isVideoRecording = TRUE,
                                   !.enabled = (@ \ Capturing) \cup {"stop"}]
    <3>1. dialog \in Dialog
      BY <1>1 DEF CameraTypeOK
    <3>2. /\ v \in Dialog /\ v.capturedFilePath = None
          /\ v.pendingVideoFilePath = f
      BY <3>1 DEF Dialog, Buttons, Capturing
    <3>3. /\ VideoError(v) \in Dialog /\ VideoError(v).capturedFilePath = None
          /\ VideoError(v).pendingVideoFilePath = f
      BY <3>2 DEF VideoError, Dialog, Buttons
    <3>4. dialog' \in {v, VideoError(v)}
      BY <1>7 DEF startVideo
    <3>5. /\ UNCHANGED <<photos, outcome>>
          /\ f = clock + 1 /\ clock' = clock + 1
      BY <1>7 DEF startVideo, createCameraOutputPath, NextName
    <3> QED
      BY <3>2, <3>3, <3>4, <3>5
  <2>3. \/ disk' = d /\ video' = video
        \/ video' = Started(video, f) /\ disk' = Opened(d, video, f)
    BY <1>7 DEF startVideo, recordVideo
  <2>4. /\ disk' \in [Files -> [state : FileState, take : Nat]]
        /\ \A g \in Files : g # f => disk'[g] = d[g]
    <3>1. video.take + 1 \in Nat
      BY <1>1 DEF CameraTypeOK, Recorder
    <3>2. [state |-> "open", take |-> video.take + 1] \in
            [state : FileState, take : Nat]
      BY <3>1 DEF FileState
    <3> QED
      BY <2>1, <2>3, <3>2 DEF Opened
  <2>5. /\ video' \in Recorder /\ video'.output \in {video.output, f}
        /\ VideoFile'
    BY <1>1, <2>3
    DEF Started, CameraTypeOK, VideoFile, Recorder, RecorderState
  <2>6. CameraTypeOK'
    BY <1>1, <2>2, <2>5 DEF CameraTypeOK
  <2>7. CameraFiles' \subseteq CameraFiles \cup {f}
    BY <2>2, <2>5 DEF CameraFiles
  <2> QED
    BY <2>1, <2>2, <2>4, <2>5, <2>6, <2>7, NewFile
<1>8. CASE stopVideo
  BY <1>1, <1>8
  DEF stopVideo, Stopping, CameraEffect, CameraFiles, VideoFile, CameraTypeOK,
      Recorder, RecorderState
<1>9. CASE deleteCapture
  BY <1>1, <1>9
  DEF deleteCapture, Removed, CameraEffect, CameraFiles, VideoFile, CameraTypeOK,
      Dialog, Buttons, FileState, Absent
<1>10. ASSUME NEW a \in BOOLEAN, NEW w \in FileState, CloseDialog(a, w)
       PROVE  CameraEffect
  BY <1>1, <1>10, SMTT(40)
  DEF CloseDialog, NoDialog, Idle, CameraEffect, CameraFiles, VideoFile,
      CameraTypeOK, Dialog, Recorder, RecorderState, FileState, Absent
<1>11. CASE sendCapture
  <2>1. /\ dialog.capturedFilePath \in Files
        /\ CloseDialog(TRUE, disk[dialog.capturedFilePath].state)
    BY <1>1, <1>11
    DEF sendCapture, sendAttachmentFile, Readable, Recorded, CameraTypeOK, Dialog
  <2>2. disk[dialog.capturedFilePath].state \in FileState
    BY <1>1, <2>1
  <2> QED
    BY <1>10, <2>1, <2>2
<1>12. CASE closeCamera
  BY <1>10, <1>12 DEF closeCamera, FileState
<1> QED
  BY <1>2, <1>3, <1>4, <1>5, <1>6, <1>7, <1>8, <1>9, <1>11, <1>12
  DEF CameraStep, CameraSignals, CameraButtons

(* The steps of the dialog in the private window.                          *)
LEMMA PrivateStepEffect ==
  ASSUME WindowsInv, Private!CameraStep
  PROVE  CameraEffect
<1> USE MaxFilesAssumption DEF None, Files, Private!None, Private!Files
<1>1. /\ disk \in [Files -> [state : FileState, take : Nat]]
      /\ clock \in Nat
      /\ CameraTypeOK /\ VideoFile
      /\ CameraFiles \subseteq Files
      /\ \A f \in Files : f > clock => disk[f] = Absent
      /\ \A f \in CameraFiles : f <= clock
  BY CameraFacts
<1>2. CASE Private!onCameraClicked
  BY <1>1, <1>2
  DEF Private!onCameraClicked, Private!OpenDialog, Private!NoDialog,
      Private!Buttons, CameraEffect, CameraFiles, VideoFile, CameraTypeOK,
      Dialog, Buttons
<1>3. ASSUME NEW f \in Files, Private!takePhoto(f)
      PROVE  CameraEffect
  <2>1. /\ dialog' \in Dialog /\ dialog'.capturedFilePath = f
        /\ dialog'.pendingVideoFilePath = dialog.pendingVideoFilePath
        /\ photos' = photos \cup {f}
        /\ UNCHANGED <<video, outcome>>
        /\ f = clock + 1 /\ clock' = clock + 1
    BY <1>1, <1>3
    DEF Private!takePhoto, Private!createCameraOutputPath, Private!NextName,
        Private!captureToFile, CameraTypeOK, Dialog
  <2>2. disk' = [disk EXCEPT ![f] = [state |-> "open", take |-> 0]]
    BY <1>3 DEF Private!takePhoto, Private!captureToFile
  <2>3. /\ disk' \in [Files -> [state : FileState, take : Nat]]
        /\ \A g \in Files : g # f => disk'[g] = disk[g]
    BY <1>1, <2>2 DEF FileState
  <2>4. CameraTypeOK' /\ VideoFile'
    BY <1>1, <2>1 DEF CameraTypeOK, VideoFile
  <2>5. CameraFiles' \subseteq CameraFiles \cup {f}
    BY <2>1 DEF CameraFiles
  <2> QED
    BY <2>1, <2>3, <2>4, <2>5, NewFile
<1>4. ASSUME NEW f \in Files, Private!startVideo(f)
      PROVE  CameraEffect
  <2>1. /\ dialog' \in Dialog /\ dialog'.pendingVideoFilePath = f
        /\ dialog'.capturedFilePath = dialog.capturedFilePath
        /\ UNCHANGED <<photos, outcome>>
        /\ f = clock + 1 /\ clock' = clock + 1
    BY <1>1, <1>4
    DEF Private!startVideo, Private!createCameraOutputPath, Private!NextName,
        CameraTypeOK, Dialog
  <2>2. \/ disk' = disk /\ video' = video
        \/ video' = Started(video, f) /\ disk' = Opened(disk, video, f)
    BY <1>4
    DEF Private!startVideo, Private!recordVideo, Private!Started, Private!Opened,
        Started, Opened
  <2>3. /\ disk' \in [Files -> [state : FileState, take : Nat]]
        /\ \A g \in Files : g # f => disk'[g] = disk[g]
    <3>1. video.take + 1 \in Nat
      BY <1>1 DEF CameraTypeOK, Recorder
    <3>2. [state |-> "open", take |-> video.take + 1] \in
            [state : FileState, take : Nat]
      BY <3>1 DEF FileState
    <3> QED
      BY <1>1, <2>2, <3>2 DEF Opened
  <2>4. /\ video' \in Recorder /\ video'.output \in {video.output, f}
        /\ VideoFile'
    BY <1>1, <2>2
    DEF Started, CameraTypeOK, VideoFile, Recorder, RecorderState
  <2>5. CameraTypeOK'
    BY <1>1, <2>1, <2>4 DEF CameraTypeOK
  <2>6. CameraFiles' \subseteq CameraFiles \cup {f}
    BY <2>1, <2>4 DEF CameraFiles
  <2> QED
    BY <2>1, <2>3, <2>4, <2>5, <2>6, NewFile
<1>5. CASE Private!stopVideo
  <2>1. /\ dialog' \in Dialog
        /\ dialog'.capturedFilePath = dialog.pendingVideoFilePath
        /\ dialog'.pendingVideoFilePath = dialog.pendingVideoFilePath
        /\ UNCHANGED <<photos, outcome, disk, clock>>
    BY <1>1, <1>5 DEF Private!stopVideo, CameraTypeOK, Dialog
  <2>2. /\ video' \in Recorder /\ video'.output = video.output
        /\ VideoFile'
    BY <1>1, <1>5
    DEF Private!stopVideo, Private!Stopping, VideoFile, CameraTypeOK, Recorder,
        RecorderState
  <2>3. CameraTypeOK' /\ CameraFiles' \subseteq CameraFiles
    BY <1>1, <2>1, <2>2 DEF CameraTypeOK, CameraFiles
  <2> QED
    BY <1>1, <2>1, <2>2, <2>3, NoNewFile
<1>6. ASSUME NEW a \in BOOLEAN, NEW w \in FileState, Private!CloseDialog(a, w)
      PROVE  CameraEffect
  BY <1>1, <1>6, SMTT(40)
  DEF Private!CloseDialog, Private!NoDialog, Private!Idle, CameraEffect,
      CameraFiles, VideoFile, CameraTypeOK, Dialog, Recorder, RecorderState,
      FileState, Absent
<1>7. CASE Private!sendCapture
  <2>1. dialog.capturedFilePath \in Files
    BY <1>1, <1>7 DEF Private!sendCapture, CameraTypeOK, Dialog
  <2>2. disk[dialog.capturedFilePath].state \in FileState /\ "absent" \in FileState
    BY <1>1, <2>1 DEF FileState
  <2>3. \E w \in FileState : Private!CloseDialog(TRUE, w)
    BY <1>7, <2>2 DEF Private!sendCapture
  <2> QED
    BY <1>6, <2>3
<1>8. CASE Private!deleteCapture
  <2>1. /\ dialog' \in Dialog /\ dialog'.capturedFilePath = None
        /\ dialog'.pendingVideoFilePath = dialog.pendingVideoFilePath
        /\ UNCHANGED <<video, photos, outcome, clock>>
    BY <1>1, <1>8 DEF Private!deleteCapture, CameraTypeOK, Dialog
  <2>2. disk' = Removed(disk, dialog.capturedFilePath)
    BY <1>8
    DEF Private!deleteCapture, Private!Removed, Private!Absent, Removed, Absent
  <2>3. /\ disk' \in [Files -> [state : FileState, take : Nat]]
        /\ \A g \in Files : disk'[g] = disk[g] \/ g \in CameraFiles
    BY <2>2, RemovedCapture
  <2>4. CameraTypeOK' /\ VideoFile' /\ CameraFiles' \subseteq CameraFiles
    BY <1>1, <2>1 DEF CameraTypeOK, VideoFile, CameraFiles
  <2> QED
    BY <2>1, <2>3, <2>4, NoNewFile
<1>9. CASE Private!closeCamera
  BY <1>6, <1>9 DEF Private!closeCamera, FileState
<1>10. CASE Private!unheardSignals
  <2>1. ASSUME NEW f \in photos, photos' = photos \ {f}, video' = video,
               \/ disk' = [disk EXCEPT ![f] = Absent]
               \/ /\ disk[f].state = "open"
                  /\ disk' = [disk EXCEPT ![f].state = "whole"]
        PROVE  CameraEffect
    <3>1. f \in Files /\ f \in CameraFiles
      BY <1>1, <2>1 DEF CameraTypeOK, CameraFiles
    <3>2. /\ disk' \in [Files -> [state : FileState, take : Nat]]
          /\ \A g \in Files : g # f => disk'[g] = disk[g]
      <4>1. CASE disk' = [disk EXCEPT ![f] = Absent]
        BY <1>1, <3>1, <4>1 DEF FileState, Absent
      <4>2. CASE disk' = [disk EXCEPT ![f].state = "whole"]
        BY <1>1, <3>1, <4>2 DEF FileState
      <4> QED
        BY <2>1, <4>1, <4>2
    <3>3. CameraTypeOK' /\ VideoFile' /\ CameraFiles' \subseteq CameraFiles
      BY <1>1, <1>10, <2>1
      DEF Private!unheardSignals, CameraTypeOK, VideoFile, CameraFiles
    <3> QED
      BY <1>10, <3>1, <3>2, <3>3, NoNewFile DEF Private!unheardSignals
  <2>2. CASE /\ MayFail(video) /\ video' = Failing(video)
             /\ UNCHANGED <<photos, disk>>
    <3>1. /\ video' \in Recorder /\ video'.output = video.output
          /\ VideoFile'
      BY <1>1, <2>2
      DEF MayFail, Failing, VideoFile, CameraTypeOK, Recorder, RecorderState
    <3>2. CameraTypeOK' /\ CameraFiles' \subseteq CameraFiles
      BY <1>1, <1>10, <2>2, <3>1
      DEF Private!unheardSignals, CameraTypeOK, CameraFiles
    <3> QED
      BY <1>1, <1>10, <2>2, <3>1, <3>2, NoNewFile DEF Private!unheardSignals
  <2>3. CASE /\ MayFinish(video) /\ video' = Stopped(video)
             /\ disk' \in Closed(video, disk) /\ UNCHANGED photos
    <3>1. video.output \in Files
      BY <1>1, <2>3 DEF MayFinish, VideoFile, CameraTypeOK, Recorder
    <3>2. disk \in [Files -> [state : FileState, take : Nat]]
      BY <1>1
    <3>3. /\ disk' \in [Files -> [state : FileState, take : Nat]]
          /\ \A f \in Files : f # video.output => disk'[f] = disk[f]
      BY <2>3, <3>1, <3>2, ClosedDisk
    <3>4. /\ video' \in Recorder /\ video'.output = video.output
          /\ VideoFile'
      BY <1>1, <2>3
      DEF Stopped, VideoFile, CameraTypeOK, Recorder, RecorderState
    <3>5. /\ CameraTypeOK' /\ CameraFiles' \subseteq CameraFiles
          /\ video.output \in CameraFiles
      BY <1>1, <1>10, <2>3, <3>1, <3>4
      DEF Private!unheardSignals, CameraTypeOK, CameraFiles
    <3> QED
      BY <1>10, <3>3, <3>4, <3>5, NoNewFile DEF Private!unheardSignals
  <2> QED
    BY <1>10, <2>1, <2>2, <2>3
    DEF Private!unheardSignals, Private!Absent, Private!MayFail, Private!Failing,
        Private!MayFinish, Private!Stopped, Private!Closed,
        Absent, MayFail, Failing, MayFinish, Stopped, Closed
<1> QED
  BY <1>2, <1>3, <1>4, <1>5, <1>7, <1>8, <1>9, <1>10 DEF Private!CameraStep

-----------------------------------------------------------------------------
LEMMA CameraMovesInv ==
  ASSUME WindowsInv, CameraMoves
  PROVE  WindowsInv'
<1>1. UNCHANGED <<voiceVars, kind, unlinks>> /\ hasGroup' \in BOOLEAN
  BY DEF CameraMoves, GroupCameraStep, WindowsInv, WindowsTypeOK
<1>2. CameraStep \/ Private!CameraStep
  BY DEF CameraMoves, GroupCameraStep, CameraStep, groupOnCameraClicked,
         groupCameraSignals, groupCameraButtons
<1>3. CameraEffect
  BY <1>2, CameraStepEffect, PrivateStepEffect
<1> QED
  BY <1>1, <1>3, CameraEffectInv

LEMMA VoiceMovesInv ==
  ASSUME WindowsInv, VoiceMoves
  PROVE  WindowsInv'
<1>1. UNCHANGED <<cameraVars, kind, unlinks>> /\ hasGroup' \in BOOLEAN
  BY VoiceMovesCases
<1>2. CASE recorderStateChanged
  BY <1>1, <1>2, StopsInv
<1>3. CASE Listening /\ errorOccurred
  BY <1>1, <1>3, FailsInv DEF errorOccurred
<1>4. CASE ~Listening /\ AudioFails /\ UNCHANGED voice
  BY <1>1, <1>4, FailsInv
<1>5. ASSUME NEW f \in Files, startVoiceRecording(f)
      PROVE  WindowsInv'
  BY <1>1, <1>5, StartInv
<1>6. CASE stopVoiceRecording
  BY <1>1, <1>6, StopInv
<1>7. CASE onDeleteVoiceClicked
  BY <1>1, <1>7, DeleteInv
<1>8. CASE onSendClicked
  BY <1>1, <1>8, SendInv
<1>9. CASE UNCHANGED <<voiceVars, disk, clock>>
  <2>1. CameraEffect
    BY <1>1, <1>9, CameraFacts, CameraKept DEF CameraEffect
  <2> QED
    BY <1>1, <1>9, <2>1, CameraEffectInv
<1> QED
  BY <1>2, <1>3, <1>4, <1>5, <1>6, <1>7, <1>8, <1>9, VoiceMovesCases

LEMMA NextInv == WindowsInv /\ [Next]_vars => WindowsInv'
<1> SUFFICES ASSUME WindowsInv, [Next]_vars PROVE WindowsInv'
    OBVIOUS
<1>1. CASE Next
  BY <1>1, VoiceMovesInv, CameraMovesInv DEF Next
<1>2. CASE UNCHANGED vars
  <2>1. CameraEffect
    BY <1>2, CameraFacts, CameraKept DEF CameraEffect, vars, mediaVars
  <2> QED
    BY <1>2, <2>1, CameraEffectInv DEF vars, mediaVars, WindowsInv, WindowsTypeOK
<1> QED
  BY <1>1, <1>2

(* WindowsInv holds throughout, in every window.                           *)
THEOREM WindowsCorrect == Spec => []WindowsInv
BY InitInv, NextInv, PTL DEF Spec

(* Every variable of a window keeps its type; in particular nothing is     *)
(* pending without a path, and no step takes a name beyond the last.       *)
THEOREM WindowsTypes == Spec => []WindowsTypeOK
<1>1. WindowsInv => WindowsTypeOK
  BY DEF WindowsInv
<1> QED
  BY <1>1, WindowsCorrect, PTL

(* What a window offers to send is the last recording made, its file       *)
(* closed and not empty, however late the signals of its recorder come     *)
(* and whether or not earlier files could be removed.                      *)
THEOREM PendingVoice == Spec => []PendingVoiceIsLast
<1>1. WindowsInv => PendingVoiceIsLast
  BY DEF WindowsInv
<1> QED
  BY <1>1, WindowsCorrect, PTL

(* The controls agree with the members, in the windows that listen to the  *)
(* recorder's errors also while they record, as long as the last take was  *)
(* not recorded over within its second while it could not be removed.      *)
THEOREM VoiceControls == Spec => []VoiceControlsAgree
<1>1. WindowsInv => VoiceControlsAgree
  BY DEF WindowsInv
<1> QED
  BY <1>1, WindowsCorrect, PTL

(* A recording that the user deleted or recorded over is not sent, unless  *)
(* its name was given again while it could not be removed: only the        *)
(* pending one is sent, it is the last, and LastNotDeleted says the rest.  *)
THEOREM DeletedVoice == Spec => DeletedVoiceNeverSent
<1>1. WindowsInv /\ [Next]_vars =>
        [sentVoice' # sentVoice => sentVoice' \notin deletedVoices \ regiven]_vars
  <2> SUFFICES ASSUME WindowsInv, Next, sentVoice' # sentVoice
               PROVE  sentVoice' \notin deletedVoices \ regiven
      BY DEF vars, voiceVars
  <2>1. VoiceMoves
    BY DEF Next, CameraMoves, voiceVars
  <2>2. onSendClicked
    BY <2>1, VoiceMovesCases
    DEF recorderStateChanged, AudioStops, errorOccurred, AudioFails,
        startVoiceRecording, StartsOn, stopVoiceRecording, StopsRecording,
        onDeleteVoiceClicked, Deletes, voiceVars
  <2>3. voice.hasPendingVoice /\ sentVoice' = disk[path].take
    BY <2>2 DEF onSendClicked, sendPendingVoiceMessage, Sends, path
  <2>4. /\ path \in Files /\ path = voiceName
        /\ disk[path].state \in {"cut", "whole"}
        /\ disk[path].take = audio.take
    BY <2>3, PendingFile
  <2> QED
    BY <2>3, <2>4, MaxFilesAssumption
    DEF WindowsInv, LastNotDeleted, Absent, None, Files
<1> QED
  BY <1>1, WindowsCorrect, PTL DEF Spec, DeletedVoiceNeverSent

-----------------------------------------------------------------------------
(* The camera of the windows that listen.  What the dialog holds to be a   *)
(* capture is a finished file or gone (CaptureFinished), for a video ends  *)
(* as expected only in the file that the dialog waits for, and not after   *)
(* an error (VideoAwaited).  CaptureAnswered is CameraNeverStuck without   *)
(* the recorder that ends unexpected: its signal enables nothing.          *)
CaptureFinished ==
    LET f == dialog.capturedFilePath IN
    f # None => disk[f].state \in {"absent", "empty", "whole"}

VideoAwaited ==
    LET f == dialog.pendingVideoFilePath IN
    (dialog.isVideoRecording /\ f # None) =>
        \/ disk[f].state \in {"absent", "whole"}
        \/ /\ disk[f].state = "open"
           /\ f = video.output
           /\ video.state \in {"recording", "finalizing"}

CaptureAnswered ==
    (dialog.open /\ ~({"take", "start"} \subseteq dialog.enabled)) =>
        \/ photos # {}
        \/ /\ dialog.isVideoRecording
           /\ MayFinish(video) \/ (video.state = "recording" /\ Enabled("stop"))

CaptureInv ==
    Listening => /\ CaptureFinished
                 /\ VideoAwaited
                 /\ CaptureAnswered
                 /\ AcceptedCaptureIsSent


LEMMA InitCapture == Init => CaptureInv
BY DEF Init, CameraInit, NoDialog, Idle, CaptureInv, CaptureFinished, VideoAwaited,
       CaptureAnswered, AcceptedCaptureIsSent, None

(* A voice message has names of its own, the camera's files stay.          *)
LEMMA VoiceKeepsCaptures ==
  ASSUME WindowsInv, VoiceMoves, NEW g \in CameraFiles
  PROVE  disk'[g] = disk[g]
<1> USE MaxFilesAssumption DEF None, Files, path
<1>1. /\ disk \in [Files -> [state : FileState, take : Nat]]
      /\ g \in Files /\ g <= clock /\ clock \in Nat
      /\ audio.output \in {None} \cup Files
      /\ path \in {None, voiceName}
      /\ path \in {None} \cup Files
      /\ g # voiceName /\ g # audio.output
  BY CameraFacts
  DEF WindowsInv, WindowsTypeOK, VoiceTypeOK, VoiceMembers, Recorder, Voice,
      PathIsLast, CameraApart
<1>2. Removed(disk, path) \in [Files -> [state : FileState, take : Nat]]
  BY <1>1 DEF Removed, FileState, Absent
<1>3. Removed(disk, path)[g] = disk[g]
  BY <1>1 DEF Removed
<1>4. CASE recorderStateChanged
  <2>1. audio.output \in Files /\ disk' \in Closed(audio, disk)
    BY <1>1, <1>4 DEF recorderStateChanged, AudioStops, MayFinish, WindowsInv,
                      RecorderFile
  <2> QED
    BY <1>1, <2>1, ClosedDisk, SMTT(40)
<1>5. ASSUME NEW f \in Files, startVoiceRecording(f)
      PROVE  disk'[g] = disk[g]
  <2>1. f # g
    BY <1>1, <1>5 DEF startVoiceRecording, StartsOn, VoiceNames, NextName
  <2>2. RecordVoice(Removed(disk, path), f)
    BY <1>5 DEF startVoiceRecording, StartsOn
  <2> DEFINE d == Removed(disk, path)
  <2>3. disk' = d \/ disk' = [d EXCEPT ![f] = [state |-> "open", take |-> audio.take + 1]]
    BY <2>2 DEF RecordVoice, Opened
  <2>4. d \in [Files -> [state : FileState, take : Nat]]
    BY <1>2
  <2> HIDE DEF d
  <2>5. disk'[g] = d[g]
    BY <1>1, <2>1, <2>3, <2>4
  <2> QED
    BY <1>3, <2>5 DEF d
<1>6. CASE onDeleteVoiceClicked
  BY <1>3, <1>6 DEF onDeleteVoiceClicked, Deletes
<1> QED
  BY <1>4, <1>5, <1>6, VoiceMovesCases
  DEF errorOccurred, AudioFails, stopVoiceRecording, StopsRecording, onSendClicked,
      sendPendingVoiceMessage, Sends

LEMMA VoiceMovesCapture ==
  ASSUME WindowsInv, CaptureInv, VoiceMoves
  PROVE  CaptureInv'
<1>1. UNCHANGED <<cameraVars, kind>>
  BY VoiceMovesCases
<1>2. dialog \in Dialog
  BY DEF WindowsInv, WindowsTypeOK, CameraTypeOK
<1>3. /\ dialog.capturedFilePath # None =>
           disk'[dialog.capturedFilePath] = disk[dialog.capturedFilePath]
      /\ dialog.pendingVideoFilePath # None =>
           disk'[dialog.pendingVideoFilePath] = disk[dialog.pendingVideoFilePath]
  BY VoiceKeepsCaptures DEF CameraFiles
<1> QED
  BY <1>1, <1>3
  DEF CaptureInv, CaptureFinished, VideoAwaited, CaptureAnswered,
      AcceptedCaptureIsSent, Listening, cameraVars, Enabled

(* A step of the dialog that leaves how the last one ended as it was.      *)
LEMMA CameraStepCapture ==
  ASSUME WindowsInv, CaptureInv, Listening, CameraStep, UNCHANGED <<kind, unlinks>>
  PROVE  CaptureInv'
<1> DEFINE c == dialog.capturedFilePath
           p == dialog.pendingVideoFilePath
           d == Removed(disk, c)
<1> USE MaxFilesAssumption DEF None, Files, Absent
<1>1. /\ disk \in [Files -> [state : FileState, take : Nat]]
      /\ clock \in Nat
      /\ dialog \in Dialog
      /\ video \in Recorder
      /\ VideoFile
      /\ c \in {None} \cup Files
      /\ p \in {None} \cup Files
      /\ photos \subseteq Files
      /\ c <= clock /\ p <= clock
      /\ \A f \in Files : f > clock => disk[f] = Absent
  <2>1. /\ disk \in [Files -> [state : FileState, take : Nat]]
        /\ clock \in Nat
        /\ CameraTypeOK /\ VideoFile
        /\ \A f \in Files : f > clock => disk[f] = Absent
        /\ \A f \in CameraFiles : f <= clock
    BY CameraFacts
  <2> QED
    BY <2>1 DEF CameraTypeOK, Dialog, CameraFiles
<1>2. CaptureFinished /\ VideoAwaited /\ CaptureAnswered /\ AcceptedCaptureIsSent
  BY DEF CaptureInv
<1>3. SUFFICES /\ CaptureFinished' /\ VideoAwaited' /\ CaptureAnswered'
               /\ AcceptedCaptureIsSent'
  BY DEF CaptureInv
<1>4. /\ d \in [Files -> [state : FileState, take : Nat]]
      /\ \A g \in Files : d[g] = disk[g] \/ (g = c /\ d[g] = Absent)
  BY <1>1 DEF Removed, FileState
<1>5. CASE onCameraClicked
  BY <1>2, <1>5
  DEF onCameraClicked, OpenDialog, NoDialog, CaptureFinished, VideoAwaited,
      CaptureAnswered, AcceptedCaptureIsSent
<1>6. ASSUME NEW f \in photos, imageSaved(f)
      PROVE  /\ CaptureFinished' /\ VideoAwaited' /\ CaptureAnswered'
             /\ AcceptedCaptureIsSent'
  <2>1. f \in Files
    BY <1>1
  <2>2. /\ dialog'.capturedFilePath = f
        /\ dialog'.pendingVideoFilePath = p
        /\ dialog'.isVideoRecording = dialog.isVideoRecording
        /\ {"take", "start"} \subseteq dialog'.enabled
        /\ UNCHANGED <<video, outcome>>
    BY <1>1, <1>6 DEF imageSaved, Dialog
  <2>3. /\ disk'[f].state = "whole"
        /\ \A g \in Files : g # f => disk'[g] = disk[g]
    BY <1>1, <1>6, <2>1 DEF imageSaved
  <2> QED
    BY <1>1, <1>2, <2>1, <2>2, <2>3
    DEF CaptureFinished, VideoAwaited, CaptureAnswered, AcceptedCaptureIsSent
<1>7. ASSUME NEW f \in photos, imageFailed(f)
      PROVE  /\ CaptureFinished' /\ VideoAwaited' /\ CaptureAnswered'
             /\ AcceptedCaptureIsSent'
  <2>1. f \in Files
    BY <1>1
  <2>2. /\ dialog'.capturedFilePath = c
        /\ dialog'.pendingVideoFilePath = p
        /\ dialog'.isVideoRecording = dialog.isVideoRecording
        /\ {"take", "start"} \subseteq dialog'.enabled
        /\ UNCHANGED <<video, outcome>>
    BY <1>1, <1>7 DEF imageFailed, Dialog
  <2>3. /\ disk'[f].state = "absent"
        /\ \A g \in Files : g # f => disk'[g] = disk[g]
    BY <1>1, <1>7, <2>1 DEF imageFailed
  <2> QED
    BY <1>1, <1>2, <2>1, <2>2, <2>3, SMTT(40)
    DEF CaptureFinished, VideoAwaited, CaptureAnswered, AcceptedCaptureIsSent
<1>8. CASE videoStopped
  <2>1. /\ MayFinish(video) /\ video' = Stopped(video)
        /\ video.output \in Files /\ disk' \in Closed(video, disk)
        /\ UNCHANGED <<photos, outcome>>
    BY <1>1, <1>8 DEF videoStopped, MayFinish, VideoFile, Recorder
  <2>2. /\ \A g \in Files : disk[g].state # "open" => disk'[g] = disk[g]
        /\ \A g \in Files : g # video.output => disk'[g] = disk[g]
        /\ video.state # "failing" /\ disk[video.output].state = "open" =>
               disk'[video.output].state \in {"whole", "empty"}
    <3>1. CASE disk[video.output].state = "open"
      <4>1. PICK h \in {"cut", "whole", "empty"} :
              /\ disk' = [disk EXCEPT ![video.output].state = h]
              /\ video.state # "failing" => h # "cut"
        BY <2>1, <3>1 DEF Closed
      <4>2. /\ disk'[video.output].state = h
            /\ \A g \in Files : g # video.output => disk'[g] = disk[g]
        BY <1>1, <2>1, <4>1
      <4> QED
        BY <1>1, <2>1, <3>1, <4>1, <4>2
    <3>2. CASE disk[video.output].state # "open"
      BY <2>1, <3>2 DEF Closed
    <3> QED
      BY <3>1, <3>2
  <2>3. CASE ~dialog.isVideoRecording
    <3>1. dialog' = dialog
      BY <1>8, <2>3 DEF videoStopped
    <3> QED
      BY <1>1, <1>2, <2>1, <2>2, <2>3, <3>1
      DEF CaptureFinished, VideoAwaited, CaptureAnswered, AcceptedCaptureIsSent
  <2>4. CASE dialog.isVideoRecording
    <3>1. dialog' = [KeepVideo(disk') EXCEPT !.isVideoRecording = FALSE,
                       !.enabled = (@ \cup {"take", "start"}) \ {"stop"}]
      BY <1>8, <2>4 DEF videoStopped
    <3>2. /\ KeepVideo(disk') \in Dialog
          /\ \/ KeepVideo(disk').capturedFilePath = c
             \/ /\ KeepVideo(disk').capturedFilePath = p
                /\ Exists(disk', p)
      BY <1>1 DEF KeepVideo, Dialog, Buttons
    <3>3. /\ ~dialog'.isVideoRecording
          /\ {"take", "start"} \subseteq dialog'.enabled
          /\ dialog'.capturedFilePath = KeepVideo(disk').capturedFilePath
      BY <3>1, <3>2 DEF Dialog
    <3>4. Exists(disk', p) => disk'[p].state \in {"empty", "whole"}
      BY <1>1, <1>2, <2>2, <2>4 DEF VideoAwaited, Exists
    <3>5. c # None => disk'[c].state \in {"absent", "empty", "whole"}
      BY <1>1, <1>2, <2>2 DEF CaptureFinished
    <3> QED
      BY <1>2, <2>1, <3>2, <3>3, <3>4, <3>5
      DEF CaptureFinished, VideoAwaited, CaptureAnswered, AcceptedCaptureIsSent
  <2> QED
    BY <2>3, <2>4
<1>9. CASE videoFailed
  <2>1. /\ dialog'.capturedFilePath = c
        /\ ~dialog'.isVideoRecording
        /\ {"take", "start"} \subseteq dialog'.enabled
        /\ UNCHANGED <<outcome, disk>>
    BY <1>1, <1>9 DEF videoFailed, VideoError, Dialog
  <2> QED
    BY <1>2, <2>1
    DEF CaptureFinished, VideoAwaited, CaptureAnswered, AcceptedCaptureIsSent
<1>10. ASSUME NEW f \in Files, takePhoto(f)
       PROVE  /\ CaptureFinished' /\ VideoAwaited' /\ CaptureAnswered'
              /\ AcceptedCaptureIsSent'
  <2>1. /\ dialog'.capturedFilePath = None
        /\ dialog'.pendingVideoFilePath = p
        /\ dialog'.isVideoRecording = dialog.isVideoRecording
        /\ photos' # {}
        /\ UNCHANGED <<video, outcome>>
    BY <1>1, <1>10 DEF takePhoto, captureToFile, Dialog
  <2>2. disk' = [d EXCEPT ![f] = [state |-> "open", take |-> 0]] /\ f = clock + 1
    BY <1>10 DEF takePhoto, captureToFile, createCameraOutputPath, NextName
  <2>3. p # None => disk'[p] = disk[p] \/ disk'[p] = Absent
    BY <1>1, <1>4, <2>2, SMTT(40)
  <2> QED
    BY <1>2, <2>1, <2>3
    DEF CaptureFinished, VideoAwaited, CaptureAnswered, AcceptedCaptureIsSent
<1>11. ASSUME NEW f \in Files, startVideo(f)
       PROVE  /\ CaptureFinished' /\ VideoAwaited' /\ CaptureAnswered'
              /\ AcceptedCaptureIsSent'
  <2> DEFINE v == [dialog EXCEPT !.capturedFilePath = None,
                                 !.pendingVideoFilePath = f,
                                 !.isVideoRecording = TRUE,
                                 !.enabled = (@ \ Capturing) \cup {"stop"}]
  <2>1. /\ v \in Dialog /\ v.capturedFilePath = None
        /\ v.pendingVideoFilePath = f
        /\ v.isVideoRecording /\ v.open = dialog.open
        /\ "stop" \in v.enabled
    BY <1>1 DEF Dialog, Buttons, Capturing
  <2>2. /\ f = clock + 1 /\ dialog.open
        /\ UNCHANGED <<photos, outcome>>
    BY <1>11 DEF startVideo, createCameraOutputPath, NextName, Enabled
  <2>3. d[f] = Absent
    BY <1>1, <1>4, <2>2, SMTT(40)
  <2>4. \/ recordVideo(d, f) /\ dialog' = v
        \/ dialog' = VideoError(v)
    BY <1>11 DEF startVideo
  <2>5. CASE dialog' = VideoError(v)
    <3>1. /\ dialog'.capturedFilePath = None
          /\ ~dialog'.isVideoRecording
          /\ {"take", "start"} \subseteq dialog'.enabled
      BY <2>1, <2>5 DEF VideoError, Dialog
    <3> QED
      BY <1>2, <2>2, <3>1
      DEF CaptureFinished, VideoAwaited, CaptureAnswered, AcceptedCaptureIsSent
  <2>6. CASE /\ video.state = "stopped" /\ video' = Started(video, f)
             /\ disk' = Opened(d, video, f) /\ dialog' = v
    <3>1. video'.state = "recording" /\ video'.output = f
      BY <2>6 DEF Started
    <3>2. disk'[f].state = "open"
      BY <1>4, <2>6 DEF Opened
    <3> QED
      BY <1>2, <2>1, <2>2, <2>6, <3>1, <3>2
      DEF CaptureFinished, VideoAwaited, CaptureAnswered, AcceptedCaptureIsSent,
          Enabled
  <2>7. CASE /\ video.state # "stopped" /\ disk' = d
             /\ video' = video /\ dialog' = v
    <3>1. video.state = "recording" \/ MayFinish(video)
      BY <1>1, <2>7 DEF MayFinish, Recorder, RecorderState
    <3> QED
      BY <1>2, <2>1, <2>2, <2>3, <2>7, <3>1
      DEF CaptureFinished, VideoAwaited, CaptureAnswered, AcceptedCaptureIsSent,
          Enabled, MayFinish
  <2> QED
    BY <2>4, <2>5, <2>6, <2>7 DEF recordVideo
<1>12. CASE stopVideo
  <2>1. /\ video'.output = video.output
        /\ video.state \in {"recording", "finalizing"} =>
             video'.state = "finalizing"
        /\ MayFinish(video) => MayFinish(video')
        /\ UNCHANGED <<dialog, photos, outcome, disk>>
    BY <1>1, <1>12 DEF stopVideo, Stopping, MayFinish, Recorder
  <2> QED
    BY <1>2, <2>1
    DEF CaptureFinished, VideoAwaited, CaptureAnswered, AcceptedCaptureIsSent,
        MayFinish
<1>13. CASE deleteCapture
  <2>1. /\ dialog'.capturedFilePath = None
        /\ dialog'.pendingVideoFilePath = None
        /\ dialog'.isVideoRecording = dialog.isVideoRecording
        /\ dialog'.open = dialog.open
        /\ dialog'.enabled = dialog.enabled \ {"send", "delete"}
        /\ UNCHANGED <<video, photos, outcome>>
    BY <1>1, <1>13 DEF deleteCapture, Dialog
  <2> QED
    BY <1>2, <2>1
    DEF CaptureFinished, VideoAwaited, CaptureAnswered, AcceptedCaptureIsSent,
        Enabled
<1>14. CASE sendCapture
  <2>1. TRUE \in Readable(disk, c) /\ CloseDialog(TRUE, disk[c].state)
    BY <1>14 DEF sendCapture, sendAttachmentFile
  <2>2. disk[c].state = "whole"
    BY <1>2, <2>1 DEF Readable, Recorded, CaptureFinished
  <2> QED
    BY <2>1, <2>2
    DEF CloseDialog, NoDialog, CaptureFinished, VideoAwaited, CaptureAnswered,
        AcceptedCaptureIsSent
<1>15. CASE closeCamera
  BY <1>15
  DEF closeCamera, CloseDialog, NoDialog, CaptureFinished, VideoAwaited,
      CaptureAnswered, AcceptedCaptureIsSent
<1> QED
  BY <1>5, <1>6, <1>7, <1>8, <1>9, <1>10, <1>11, <1>12, <1>13, <1>14, <1>15
  DEF CameraStep, CameraSignals, CameraButtons

LEMMA NextCapture == WindowsInv /\ CaptureInv /\ [Next]_vars => CaptureInv'
<1> SUFFICES ASSUME WindowsInv, CaptureInv, [Next]_vars PROVE CaptureInv'
    OBVIOUS
<1>1. CASE VoiceMoves
  BY <1>1, VoiceMovesCapture
<1>2. CASE CameraMoves
  <2>1. UNCHANGED <<kind, unlinks>>
    BY <1>2 DEF CameraMoves
  <2>2. CASE ~Listening
    BY <2>1, <2>2 DEF CaptureInv, Listening
  <2>3. CASE Listening
    <3>1. CameraStep
      BY <1>2, <2>3
      DEF CameraMoves, GroupCameraStep, CameraStep, groupOnCameraClicked,
          groupCameraSignals, groupCameraButtons, Listening
    <3> QED
      BY <2>1, <2>3, <3>1, CameraStepCapture
  <2> QED
    BY <2>2, <2>3
<1>3. CASE UNCHANGED vars
  BY <1>3
  DEF vars, mediaVars, cameraVars, CaptureInv, CaptureFinished, VideoAwaited,
      CaptureAnswered, AcceptedCaptureIsSent, Listening, Enabled
<1> QED
  BY <1>1, <1>2, <1>3 DEF Next

LEMMA CaptureCorrect == Spec => []CaptureInv
BY InitCapture, NextCapture, WindowsCorrect, PTL DEF Spec

(* The dialog of a window that listens closes on "send" only with a        *)
(* finished capture sent, whatever was stopped, failed, deleted or begun   *)
(* anew in whatever order.                                                 *)
THEOREM CapturesWhole == Spec => []ListenersSendWhole
<1>1. CaptureInv => ListenersSendWhole
  BY DEF CaptureInv, ListenersSendWhole
<1> QED
  BY <1>1, CaptureCorrect, PTL

(* Its capturing buttons never stay disabled with nothing to come that     *)
(* enables them.                                                           *)
THEOREM CameraUsable == Spec => []CameraNeverStuck
<1>1. CaptureInv => CameraNeverStuck
  BY DEF CaptureInv, CaptureAnswered, CameraNeverStuck
<1> QED
  BY <1>1, CaptureCorrect, PTL
=============================================================================
