------------------------------ MODULE SilentLinks ------------------------------
(***************************************************************************)
(* What happens in the end: CampusConnect under fairness.                  *)
(*                                                                         *)
(* The server learns that a link is broken from the kernel.  It is told at *)
(* once when the client's machine closes the connection; otherwise (the    *)
(* machine lost its power, a cable was pulled) when something written to   *)
(* the link is not acknowledged for long enough.  The server sets neither  *)
(* a timeout nor a keepalive on its sockets, so that the read of a link    *)
(* which broke without a word and is never written to need not complete.   *)
(* `silent' keeps those links apart, and no fairness is assumed of them.   *)
(***************************************************************************)
EXTENDS CampusConnect

VARIABLE silent     \* sessions whose link broke without a word, and to which
                    \* nothing has been written since

liveVars == <<appVars, silent>>

\* Which of the links that break in a step do so without a word.
Hear ==
    \E S \in SUBSET { s \in Session :
                        linkUp[s] /\ ~linkUp'[s] /\ failing'[s] = 0 } :
        silent' = S \cup { s \in silent : failing'[s] = failing[s] }

LiveInit == AppInit /\ silent = {}

LiveNext == AppNext /\ Hear

(* The completion handlers that are ready, or that will be: async_accept,  *)
(* the reads and the writes of a session.                                  *)
Due(s) ==
    /\ BacklogBounded
    /\ \/ Accept(s)
       \/ HandleFrame(s)
       \/ s \notin silent /\ ReadError(s)
       \/ WriteError(s)
    /\ UNCHANGED <<controllerVars, restarts, breaks, stateVars>>
    /\ Hear

(* The io_context runs every completion handler in the end, and the Qt     *)
(* event loop of a running client reads what has arrived.  Nothing is      *)
(* promised for a client whose link is broken: it may have exited.         *)
Fairness ==
    \A s \in Session :
        /\ WF_liveVars(Due(s))
        /\ WF_liveVars(linkUp[s] /\ Show(s) /\ Hear)

LiveSpec == LiveInit /\ [][LiveNext]_liveVars /\ Fairness

-----------------------------------------------------------------------------
(* A public message that a client has written is shown in the end by it    *)
(* and by whoever is connected, unless a link breaks.                      *)
EveryPublicMessageShown ==
    \A s, t \in Session, n \in 1 .. MaxOps :
        ( /\ Member(t) /\ linkUp[s]
          /\ \E i \in 1 .. Len(toServer[s]) :
               /\ toServer[s][i].type = "public_message"
               /\ toServer[s][i].id = n )
        ~> ( \/ ~linkUp[s] \/ ~linkUp[t]
             \/ \E i \in 1 .. Len(publicMessages[t]) :
                  publicMessages[t][i].id = n )

(* A client whose link broke leaves the server in the end, with all of its *)
(* failed writes, although a failed write, a read that had completed and   *)
(* the read error come in any order; unless the link broke without a word  *)
(* and nothing is written to it: then nothing tells the server.  One write *)
(* is enough, a user list or a message of anybody.                         *)
DeadSessionsLeave ==
    \A s \in Session :
        (session[s] # "none" /\ ~linkUp[s] /\ s \notin silent) ~> Gone(s)
=============================================================================
