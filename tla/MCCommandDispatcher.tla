------------------------ MODULE MCCommandDispatcher ------------------------
(* A small instance of CommandDispatcher: one device, first known by its   *)
(* fallback id and then by its MAC address, and a handful of commands.     *)
EXTENDS CommandDispatcher

CONSTANTS c1, c2, long, fallback, mac, macColon

FallbackId == [text |-> fallback, mac |-> NoMac]
MacId      == [text |-> mac, mac |-> "M"]
\* The same address as the server spells it, with separators.
MacColonId == [text |-> macColon, mac |-> "M"]

MCIds == {c1, c2, long, EmptyString}
\* The long id begins with c2, and that is all the ring keeps of it.
MCStored == [id \in MCIds |-> IF id = long THEN c2 ELSE id]
MCDeviceIds == {FallbackId, MacId, MacColonId}
MCOwnIds == {FallbackId, MacId}

Command(id, device, type, complete, deadline) ==
    [id |-> id, fits |-> TRUE, parses |-> TRUE, device |-> device,
     type |-> type, complete |-> complete, deadline |-> deadline]

\* Three commands compete for the window: a playable one that may expire, one
\* the handler refuses, and one with a long id for the device's first id.
MCMessages ==
    {Command(c1, MacColonId, "play_message", TRUE, TRUE),
     Command(c2, MacId, "sync_plan", FALSE, FALSE),
     Command(long, FallbackId, "complete_registration", TRUE, FALSE)}
=============================================================================
