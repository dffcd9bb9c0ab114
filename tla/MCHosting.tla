------------------------------ MODULE MCHosting ------------------------------
(***************************************************************************)
(* Instances of Hosting for TLC.  Conversations share nothing, so each     *)
(* behaviour is about one: chat, of alice and bob, who may switch hosting  *)
(* on and off, or room, a group of alice and a bot.                        *)
(***************************************************************************)
EXTENDS Hosting

CONSTANTS alice, bob, bot, chat, room, m1, m2

VARIABLE scene   \* the conversation

MCParticipants == [c \in {chat, room} |-> IF c = chat THEN {alice, bob} ELSE {alice, bot}]
MCChatOf == [m \in HumanMsgs |-> IF m = m1 THEN chat ELSE room]
MCAuthorOf == [m \in HumanMsgs |-> IF m = m1 THEN bob ELSE alice]
MCAtUsers == [m \in HumanMsgs |-> IF m = m1 THEN {} ELSE {bot}]

MCInit == HostingInit /\ scene \in {chat, room}
MCNext ==
    /\ HostingNext /\ UNCHANGED scene
    /\ \A n \in DOMAIN trigLog' : trigLog'[n].chat = scene
    /\ IF scene = chat THEN UNCHANGED roster ELSE UNCHANGED enabled
MCSpec == MCInit /\ [][MCNext]_<<hostingVars, scene>> /\ HostingFairness
=============================================================================
