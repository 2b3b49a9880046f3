----------------------------- MODULE VoiceMessage -----------------------------
(***************************************************************************)
(* The state that each of the three windows keeps of a voice message, and  *)
(* what their handlers have in common.  The handlers themselves are in     *)
(* ChatWindow, GroupWindow and PrivateWindow.                              *)
(***************************************************************************)
EXTENDS Media

CONSTANT MaxTakes      \* bound: recordings of the window

ASSUME MaxTakesAssumption == MaxTakes \in Nat

VARIABLES
    voice,         \* the members of the window
    audio,         \* its recorder, audioRecorder
    voiceName,     \* the name the last recording was given
    sentVoice,     \* history: the take that was sent last
    deletedVoices, \* history: the takes that the user threw away
    regiven        \* history: the takes whose file was still being written
                   \* when its name was given again

voiceVars == <<voice, audio, voiceName, sentVoice, deletedVoices, regiven>>

(* recordingTimer: it runs; deleteVoiceButton: it is visible; voiceButton: *)
(* what it shows, a microphone or the sign to stop.                        *)
Voice == [ isRecording          : BOOLEAN,
           hasPendingVoice      : BOOLEAN,
           pendingVoiceFilePath : {None} \cup Files,
           recordingTimer       : BOOLEAN,
           deleteVoiceButton    : BOOLEAN,
           voiceButton          : {"mic", "stop"} ]

\* What is pending has a path.
VoiceMembers ==
    { v \in Voice : v.hasPendingVoice => v.pendingVoiceFilePath # None }

NoVoice == [ isRecording          |-> FALSE,
             hasPendingVoice      |-> FALSE,
             pendingVoiceFilePath |-> None,
             recordingTimer       |-> FALSE,
             deleteVoiceButton    |-> FALSE,
             voiceButton          |-> "mic" ]

VoiceTypeOK ==
    /\ voice \in VoiceMembers
    /\ audio \in Recorder
    /\ voiceName \in {None} \cup Files
    /\ sentVoice \in Nat
    /\ deletedVoices \in SUBSET Nat
    /\ regiven \in SUBSET Nat

VoiceInit ==
    /\ voice = NoVoice
    /\ audio = Idle
    /\ voiceName = None
    /\ sentVoice = 0
    /\ deletedVoices = {}
    /\ regiven = {}

(* A file's name is the second at which its recording started: two of one  *)
(* second have one name, whether or not the first file could be removed.   *)
VoiceNames == {NextName, voiceName} \cap Files

\* The recording that goes when the pending file is removed.
Discarded(v) ==
    IF v.pendingVoiceFilePath # None /\ disk[v.pendingVoiceFilePath] # Absent
      THEN {disk[v.pendingVoiceFilePath].take}
      ELSE {}

\* The recording whose file has a name that is now given again, if the
\* recorder has not closed it and the system would not remove it.
StillOpen(d, f) == IF d[f].state = "open" THEN {d[f].take} ELSE {}

\* audioRecorder->record(): it starts, or the call is refused or ignored.
RecordVoice(d, f) ==
    \/ /\ audio.state = "stopped"
       /\ audio' = Started(audio, f)
       /\ disk' = Opened(d, audio, f)
    \/ /\ disk' = d
       /\ UNCHANGED audio

\* The recorder has closed its file and says so.
AudioStops ==
    /\ MayFinish(audio)
    /\ audio' = Stopped(audio)
    /\ disk' \in Closed(audio, disk)
    /\ UNCHANGED <<voiceName, sentVoice, deletedVoices, regiven, clock>>

AudioFails ==
    /\ MayFail(audio)
    /\ audio' = Failing(audio)
    /\ UNCHANGED <<voiceName, sentVoice, deletedVoices, regiven, disk, clock>>

\* A window's startVoiceRecording, once it has dropped the pending voice.
StartsOn(f) ==
    LET d == Removed(disk, voice.pendingVoiceFilePath) IN
    /\ audio.take < MaxTakes
    /\ f \in VoiceNames
    /\ clock' = IF f = NextName THEN f ELSE clock
    /\ voiceName' = f
    /\ RecordVoice(d, f)
    /\ deletedVoices' = deletedVoices \cup Discarded(voice)
    /\ regiven' = regiven \cup StillOpen(d, f)
    /\ UNCHANGED sentVoice

StopsRecording ==
    /\ audio' = Stopping(audio)
    /\ UNCHANGED <<voiceName, sentVoice, deletedVoices, regiven, disk, clock>>

\* The recording stops, if there is one, before its file is removed.
Deletes ==
    /\ audio' = IF voice.isRecording THEN Stopping(audio) ELSE audio
    /\ disk' = Removed(disk, voice.pendingVoiceFilePath)
    /\ deletedVoices' = deletedVoices \cup Discarded(voice)
    /\ UNCHANGED <<voiceName, sentVoice, regiven, clock>>

\* The pending file is sent as it is.
Sends ==
    /\ TRUE \in Readable(disk, voice.pendingVoiceFilePath)
    /\ sentVoice' = disk[voice.pendingVoiceFilePath].take
    /\ UNCHANGED <<audio, voiceName, deletedVoices, regiven, disk, clock>>
=============================================================================
