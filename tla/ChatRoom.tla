------------------------------- MODULE ChatRoom -------------------------------
(***************************************************************************)
(* What a room of the application is to its members, be it the public one  *)
(* or a group: one log that only grows.  Whoever enters is shown the whole *)
(* of it, perhaps behind something he had heard before; from then on every *)
(* member is shown exactly what is added, at once and in the same order.   *)
(* A message is in the log for good and on everybody's screen in one step: *)
(* what is still on its way is, to the members, what they are shown.       *)
(***************************************************************************)
EXTENDS Sequences, Naturals

CONSTANT Person

VARIABLES
    log,
    present,      \* the members
    transcript    \* what each of them is shown, <<>> for the others

roomVars == <<log, present, transcript>>

Init ==
    /\ log = <<>>
    /\ present = {}
    /\ transcript = [p \in Person |-> <<>>]

Say(m) ==
    /\ log' = Append(log, m)
    /\ transcript' = [p \in Person |-> IF p \in present
                                         THEN Append(transcript[p], m)
                                         ELSE <<>>]
    /\ UNCHANGED present

EndsWith(whole, part) ==
    \E n \in 0 .. Len(whole) : part = SubSeq(whole, n + 1, Len(whole))

\* The log does not change; what p is shown ends with the whole of it.
Enter(p) ==
    /\ p \notin present
    /\ present' = present \cup {p}
    /\ EndsWith(transcript'[p], log)
    /\ transcript' = [transcript EXCEPT ![p] = transcript'[p]]
    /\ UNCHANGED log

\* Who enters again is shown all of it again.
EnterAgain(p) ==
    /\ p \in present
    /\ transcript' = [transcript EXCEPT ![p] = @ \o log]
    /\ UNCHANGED <<log, present>>

Leave(gone) ==
    /\ present' = present \ gone
    /\ transcript' = [p \in Person |-> IF p \in gone THEN <<>>
                                                     ELSE transcript[p]]
    /\ UNCHANGED log

Next ==
    \/ Len(log') = Len(log) + 1 /\ Say(log'[Len(log')])
    \/ \E p \in Person : Enter(p) \/ EnterAgain(p)
    \/ \E gone \in SUBSET present : Leave(gone)

Spec == Init /\ [][Next]_roomVars
=============================================================================
