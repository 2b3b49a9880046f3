------------------------------ MODULE CampusRooms ------------------------------
(***************************************************************************)
(* The public room and the groups of CampusConnect, shown to be rooms in   *)
(* the sense of ChatRoom.                                                  *)
(***************************************************************************)
EXTENDS CampusConnect

(* Each room of the application as its members see it: the log is the file *)
(* on the server's disk, which outlives it.                                *)
Members == { s \in Session : Member(s) }

PublicRoom ==
    INSTANCE ChatRoom WITH
      Person     <- Session,
      log        <- Parsed(publicFile),
      present    <- Members,
      transcript <- [s \in Session |->
                       IF s \in Members THEN PublicView(s) ELSE <<>>]

ServedIn(g) == { s \in groups[g] : Served(s) }

GroupRoom(g) ==
    INSTANCE ChatRoom WITH
      Person     <- Session,
      log        <- Parsed(groupFile[g]),
      present    <- ServedIn(g),
      transcript <- [s \in Session |->
                       IF s \in ServedIn(g) THEN GroupView(s, g) ELSE <<>>]

(* The public room is a ChatRoom, through memory and disk, the replay of   *)
(* the history and what is written while it is replayed, links that break  *)
(* and restarts: nobody's screen changes but by what the log does.         *)
PublicRoomImplemented == PublicRoom!Spec

(* So is each group, for whoever is served in it.                          *)
GroupRoomsImplemented ==
    /\ \A g \in Group : GroupRoom(g)!Init
    /\ [][ \A g \in Group :
             [GroupRoom(g)!Next]_(GroupRoom(g)!roomVars) ]_appVars
=============================================================================
