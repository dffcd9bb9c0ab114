------------------------------- MODULE MCStore -------------------------------
(***************************************************************************)
(* The services over their tables, for TLC: calls that interleave          *)
(* statement by statement on PostgreSQL rows (and, for media, on objects). *)
(* They share no row with each other, so a behaviour is one scene: the     *)
(* archive, pulling from it, a pair of friends, a group's members or its   *)
(* title, registration codes or accounts, sessions, a connection of one,   *)
(* uploads, ids, agents.                                                   *)
(***************************************************************************)
EXTENDS MCPersist, Pull, MCFriends, Groups, Identity, Commands, Media, IdGen, MCAssembly

CONSTANTS u1, i2

VARIABLE scene

Scenes ==
    {"archive", "pull", "friends", "members", "title", "codes", "accounts", "sessions", "commands", "media", "ids", "agents"}

storeVars == <<
    persistSystemVars, pullVars, friendsVars, groupVars, identityVars, sessionVars, commandVars, mediaVars,
    idgenVars, assemblyVars, scene>>

StoreInit ==
    /\ PersistInit /\ PullInit /\ FriendsInit /\ GroupsInit /\ IdentityInit
    /\ CommandsInit /\ MediaInit /\ IdGenInit /\ AssemblyInit
    /\ scene \in Scenes
    /\ scene # "pull" => single /\ visibleStart = 0 /\ scrolls = [r \in Readers |-> NoScroll("asc")]
    /\ title.name = title.description /\ title.name = CHOOSE t \in Texts : TRUE
    /\ scene # "accounts" => assistant = "none"

(* Message ids are only compared: the first message has the first of them.  *)
MCArchiveNext == PersistSystemNext /\ (toPostgres' # <<>> => toPostgres'[1].srv = 1)

(* One user makes the group; its title is changed in a scene of its own. *)
MCGroupsNext(ops) ==
    /\ GroupsNext
    /\ creator' \in {NoCreator, u1}
    /\ \A c \in GroupCalls : groupOps'[c].op \in ops \cup {"none"}

(* Codes compete where a registration fails after its code was accepted,    *)
(* which leaves the address to be tried again, and accounts where one code, *)
(* which does not expire, lets every registration through to the end, and   *)
(* test accounts want one of the two identifiers.                           *)
MCCodesNext ==
    /\ IdentityNext
    /\ \A c \in IdentityCalls : idCalls'[c].op \in {"none", "code", "register"} /\ idCalls'[c].ident # i2
    /\ UNCHANGED accountVars
MCAccountsNext ==
    /\ IdentityNext
    /\ Len(codes') <= 1 /\ \A n \in DOMAIN codes' : codes'[n].age # "expired"
    /\ \A c \in IdentityCalls : /\ idCalls'[c].op = "register" => idCalls'[c].guess = 1
                                /\ idCalls'[c].op = "test" => idCalls'[c].ident # i2

(* Two logins are enough to take a session away from a connection, and one  *)
(* time to live to end it.                                                  *)
MCCommandsNext == CommandsNext /\ Len(tokens') <= 2 /\ time' <= TokenTTL

(* The second instance returns one id. *)
MCIdGenNext == IdGenNext /\ Len(minted'[1]) <= 1

(* New users, and agents the assistant makes, come one at a time beside     *)
(* definitions, and a definition asks for a tool that agent.create would    *)
(* refuse.                                                                  *)
MCAssemblyNext ==
    /\ AssemblyNext
    /\ assemblies'[e1].op # "define" /\ assemblies'[e2].op \notin {"create", "ensure"} /\ agents'[bot] # "disabled"
    /\ \A c \in AssemblyCalls : assemblies'[c].op = "define" => assemblies'[c].tools = {"python.execute"}

StoreNext ==
    /\ \/ scene = "archive" /\ MCArchiveNext
       \/ scene = "pull" /\ PullNext
       \/ scene = "friends" /\ FriendsNext
       \/ scene = "members" /\ MCGroupsNext(GroupOp \ {"UpdateGroup"})
       \/ scene = "title" /\ MCGroupsNext({"UpdateGroup"})
       \/ scene = "codes" /\ MCCodesNext
       \/ scene = "accounts" /\ MCAccountsNext
       \/ scene = "sessions" /\ SessionsNext /\ UNCHANGED commandVars
       \/ scene = "commands" /\ MCCommandsNext
       \/ scene = "media" /\ MediaNext
       \/ scene = "ids" /\ MCIdGenNext
       \/ scene = "agents" /\ MCAssemblyNext
    /\ UNCHANGED scene
    /\ scene # "archive" => UNCHANGED persistSystemVars
    /\ scene # "pull" => UNCHANGED pullVars
    /\ scene # "friends" => UNCHANGED friendsVars
    /\ scene \notin {"members", "title"} => UNCHANGED groupVars
    /\ scene \notin {"codes", "accounts"} => UNCHANGED identityVars
    /\ scene \notin {"sessions", "commands"} => UNCHANGED <<sessionVars, commandVars>>
    /\ scene # "media" => UNCHANGED mediaVars
    /\ scene # "ids" => UNCHANGED idgenVars
    /\ scene # "agents" => UNCHANGED assemblyVars

(* Calls of a kind are alike. *)
StoreSymmetry == Permutations(IdentityCalls) \cup Permutations(GroupCalls)

StoreSpec == StoreInit /\ [][StoreNext]_storeVars
=============================================================================
