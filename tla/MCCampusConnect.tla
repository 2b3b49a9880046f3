---------------------------- MODULE MCCampusConnect ----------------------------
(* CampusConnect and its rooms on small instances: the sessions and the    *)
(* names that the server reads as they are are interchangeable.            *)
EXTENDS CampusRooms, TLC

Symmetry == Permutations(Session)
              \cup Permutations(Name \ (QuotedNames \cup EscapedNames))
=============================================================================
