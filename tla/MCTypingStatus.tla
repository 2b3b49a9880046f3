---------------------------- MODULE MCTypingStatus -----------------------------
(* TypingStatus on small instances, from the start and from a later state, *)
(* so that the bound on the operations is not used up by joining.          *)
EXTENDS TypingStatus, TLC

Symmetry == Permutations(Session) \cup Permutations(Name)
              \cup Permutations(Group)

(* Everybody is connected and registered and has created or joined every   *)
(* group, in an order of his own; the group windows are open on the group  *)
(* that came last, nothing has been typed and everything has been read.    *)
JoinedInit ==
    /\ session       = [s \in Session |-> "active"]
    /\ linkUp        = [s \in Session |-> TRUE]
    /\ failing       = [s \in Session |-> 0]
    /\ toServer      = [s \in Session |-> <<>>]
    /\ toClient      = [s \in Session |-> <<>>]
    /\ currentUser   \in Bijection(Session, Name)
    /\ joinedGroups  = [s \in Session |-> Group]
    /\ ops           = 0
    /\ clients       = Session
    /\ username      = currentUser
    /\ users         = AntiFunction(currentUser)
    /\ groups        = [g \in Group |-> Session]
    /\ loadedGroups  = Group
    /\ publicHistory = <<>>
    /\ groupHistory  = [g \in Group |-> <<>>]
    /\ routes        = {}
    /\ publicFile    = <<>>
    /\ groupFile     = [g \in Group |-> <<>>]
    /\ restarts      = 0
    /\ breaks        = 0
    /\ publicDraft   = [s \in Session |-> FALSE]
    /\ groupWindow   = [s \in Session |-> TRUE]
    /\ groupDraft    = [s \in Session |-> FALSE]
    /\ groupSelector \in [Session -> SetToSeqs(Group)]
    /\ selected      = [s \in Session |-> Last(groupSelector[s])]
    /\ publicTyping  = [s \in Session |-> {}]
    /\ groupTyping   = [s \in Session |-> [g \in Group |-> {}]]
    /\ leftTyping    = [s \in Session |-> {}]

SpecFromBoth == (TypingInit \/ JoinedInit) /\ [][TypingNext]_typingVars
=============================================================================
