----------------------------- MODULE MCChatSystem -----------------------------
(* ChatSystem on small instances: sessions are interchangeable, and so are *)
(* the names that the server reads as they are.                            *)
EXTENDS ChatSystem, TLC

Symmetry == Permutations(Session)
              \cup Permutations(Name \ (QuotedNames \cup EscapedNames))
=============================================================================
