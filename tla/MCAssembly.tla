----------------------------- MODULE MCAssembly -----------------------------
(***************************************************************************)
(* Instances of Assembly for TLC: the default assistant and one agent that *)
(* agent.create may make, with two calls in progress at a time.            *)
(***************************************************************************)
EXTENDS Assembly

CONSTANTS ast, bot, e1, e2

MCToolChoices == {{"im.get_conversation_context"}, {"python.execute"}}
=============================================================================
