------------------------------ MODULE Assembly ------------------------------
(***************************************************************************)
(* What an agent is made of (service/agent/rpc/internal/agentlogic): its   *)
(* account, its row in agents, and the rows that bind prompts and tools to *)
(* it.  Three calls assemble agents, each in several separate statements:  *)
(*   define   UpdateAgentDefinition (assembly.go)                          *)
(*   create   CreateAgentFromTool, the agent.create tool (assembly.go)     *)
(*   ensure   EnsureForUser of user-rpc, run for every new account, which  *)
(*            calls EnsureDefaultAssistant (default_assistant.go)          *)
(*                                                                         *)
(* A statement sees what is committed when it starts.  The delete of       *)
(* ReplaceForAgent therefore takes only the row versions it saw, also when *)
(* it has to wait for another transaction that deletes the same rows.      *)
(***************************************************************************)
EXTENDS Naturals, Sequences, FiniteSets

CONSTANTS
    AgentIds,         \* agent accounts; an agent is named by its account
    Assistant,        \* the account of the default assistant
    ToolChoices,      \* the sets of tools a definition may ask for
    AssemblyCalls,    \* calls that may be in progress at a time
    MaxDefinitions    \* bound: prompts written by define and create

ASSUME AssemblyConstants == Assistant \in AgentIds /\ MaxDefinitions \in Nat

VARIABLES
    agents,       \* what there is of an agent: "none", only the "account", or a row by status
    bindings,     \* agent_prompt_bindings and agent_tool_bindings, committed
    prompts,      \* prompts written so far; prompt 0 is the default assistant's
    assemblies,   \* the calls in progress
    befriended,   \* agents some user has as a friend
    edited        \* history: agents UpdateAgentDefinition was called for

assemblyVars == <<agents, bindings, prompts, assemblies, befriended, edited>>

(* DefaultAssistant*Name: what EnsureDefaultAssistant binds, in its order. *)
AssistantTools == <<"python.execute", "agent.create", "time.now", "web.search">>

(* validateCreatableTool: the tools agent.create may hand out. *)
LowRisk == {"im.get_conversation_context"}

NoAssembly == [op |-> "none", agent |-> Assistant, prompt |-> 0, tools |-> {}, at |-> "idle", seen |-> {}, todo |-> <<>>]

Of(a, t) == {b \in bindings : b.agent = a /\ b.table = t}
Row(a, t, r) == [agent |-> a, table |-> t, ref |-> r]

AssemblyInit ==
    /\ agents = [a \in AgentIds |-> IF a = Assistant THEN "account" ELSE "none"]
    /\ bindings = {} /\ prompts = 0
    /\ assemblies = [c \in AssemblyCalls |-> NoAssembly]
    /\ befriended = {} /\ edited = {}
-----------------------------------------------------------------------------
(* Statements on the binding tables. *)

(* Mutant of DeleteBindings: outside of a transaction. *)
DeleteBindingsNow(c, t, next) ==
    LET k == assemblies[c]
    IN  /\ bindings' = bindings \ Of(k.agent, t)
        /\ assemblies' = [assemblies EXCEPT ![c].seen = {}, ![c].at = next]

(* delete from ... where agent_id = $1: the versions it sees. *)
DeleteBindings(c, t, next) ==
    LET k == assemblies[c]
    IN  /\ assemblies' = [assemblies EXCEPT ![c].seen = Of(k.agent, t), ![c].at = next]
        /\ UNCHANGED bindings

(* The inserts and the commit.  A row of the key that the delete did not    *)
(* take is a unique violation: the transaction is rolled back and the call  *)
(* fails.  What is deleted here, another delete that waits does not find    *)
(* any more, and a row written again is not the one it saw.                 *)
InsertBindings(c, t, refs, next) ==
    LET k    == assemblies[c]
        left == Of(k.agent, t) \ k.seen
    IN  IF refs \cap {b.ref : b \in left} # {}
        THEN assemblies' = [assemblies EXCEPT ![c] = NoAssembly] /\ UNCHANGED bindings
        ELSE /\ bindings' = (bindings \ k.seen) \cup {Row(k.agent, t, r) : r \in refs}
             /\ assemblies' =
                  [d \in AssemblyCalls |->
                     IF d # c THEN [assemblies[d] EXCEPT !.seen = @ \ k.seen]
                     ELSE IF next = "idle" THEN NoAssembly
                     ELSE [k EXCEPT !.seen = {}, !.at = next]]

(* BindOne: the row when it is there, an insert when it is not. *)
BindOne(a, t, r) ==
    IF \E b \in Of(a, t) : b.ref = r THEN UNCHANGED bindings
    ELSE bindings' = bindings \cup {Row(a, t, r)}
-----------------------------------------------------------------------------
(* The calls. *)

Starts(c, op, a, ts, at) ==
    /\ assemblies[c] = NoAssembly
    /\ assemblies' = [assemblies EXCEPT ![c] = [NoAssembly EXCEPT !.op = op, !.agent = a, !.tools = ts, !.at = at]]

(* UpdateAgentDefinition up to its first write: the agent exists and the    *)
(* tools are bindable; the caller made the agent, is the agent or an admin. *)
UpdateAgentDefinition(c, a, ts) ==
    /\ agents[a] \in {"active", "disabled"}
    /\ Starts(c, "define", a, ts, "prompt")
    /\ edited' = edited \cup {a}
    /\ UNCHANGED <<agents, bindings, prompts, befriended>>

(* resolveCreatableTools: one tool that is not low-risk and the call fails. *)
CreatableTools(ts) == ts \subseteq LowRisk

(* authorizeAgentCreateCaller: only the active default assistant. *)
CreateAgentFromTool(c, a, ts) ==
    /\ agents[Assistant] = "active" /\ CreatableTools(ts)
    /\ agents[a] = "none" /\ \A d \in AssemblyCalls : assemblies[d].agent # a
    /\ Starts(c, "create", a, ts, "account")
    /\ UNCHANGED <<agents, bindings, prompts, befriended, edited>>

(* accounts.Create of user-rpc. *)
CreateAgentAccount(c) ==
    /\ assemblies[c].at = "account"
    /\ agents' = [agents EXCEPT ![assemblies[c].agent] = "account"]
    /\ assemblies' = [assemblies EXCEPT ![c].at = "agent"]
    /\ UNCHANGED <<bindings, prompts, befriended, edited>>

(* CreateAgent for the new account; account_id is unique in agents. *)
CreateItsAgent(c) ==
    /\ assemblies[c].at = "agent"
    /\ IF agents[assemblies[c].agent] = "account"
       THEN /\ agents' = [agents EXCEPT ![assemblies[c].agent] = "active"]
            /\ assemblies' = [assemblies EXCEPT ![c].at = "prompt"]
       ELSE assemblies' = [assemblies EXCEPT ![c] = NoAssembly] /\ UNCHANGED agents
    /\ UNCHANGED <<bindings, prompts, befriended, edited>>

(* CreatePrompt: a prompt of its own, with a version nobody else has. *)
CreatePrompt(c) ==
    /\ assemblies[c].at = "prompt" /\ prompts < MaxDefinitions
    /\ prompts' = prompts + 1
    /\ assemblies' = [assemblies EXCEPT ![c].prompt = prompts + 1, ![c].at = "deletePrompts"]
    /\ UNCHANGED <<agents, bindings, befriended, edited>>

(* ReplacePromptBindings and then ReplaceToolBindings. *)
ReplaceBindings(c) ==
    /\ LET k    == assemblies[c]
           last == IF k.op = "create" THEN "befriend" ELSE "idle"
       IN  \/ k.at = "deletePrompts" /\ DeleteBindings(c, "prompt", "insertPrompts")
           \/ k.at = "insertPrompts" /\ InsertBindings(c, "prompt", {k.prompt}, "deleteTools")
           \/ k.at = "deleteTools" /\ DeleteBindings(c, "tool", "insertTools")
           \/ k.at = "insertTools" /\ InsertBindings(c, "tool", k.tools, last)
    /\ UNCHANGED <<agents, prompts, befriended, edited>>

(* The last step of agent.create and of EnsureForUser. *)
Befriend(c) ==
    /\ assemblies[c].at = "befriend"
    /\ befriended' = befriended \cup {assemblies[c].agent}
    /\ assemblies' = [assemblies EXCEPT ![c] = NoAssembly]
    /\ UNCHANGED <<agents, bindings, prompts, edited>>

(* A new user: EnsureForUser has the assistant ensured. *)
EnsureForUser(c) ==
    /\ Starts(c, "ensure", Assistant, {}, "ensureAgent")
    /\ UNCHANGED <<agents, bindings, prompts, befriended, edited>>

(* ensureAgent: created when there is none, switched on when it is off. *)
EnsureAgent(c) ==
    /\ assemblies[c].at = "ensureAgent"
    /\ agents' = [agents EXCEPT ![Assistant] = "active"]
    /\ assemblies' = [assemblies EXCEPT ![c].at = "bindPrompt"]
    /\ UNCHANGED <<bindings, prompts, befriended, edited>>

(* ensurePrompt and BindPrompt: the default prompt is bound. *)
EnsurePrompt(c) ==
    /\ assemblies[c].at = "bindPrompt"
    /\ BindOne(Assistant, "prompt", 0)
    /\ assemblies' = [assemblies EXCEPT ![c].at = "bindTools", ![c].todo = AssistantTools]
    /\ UNCHANGED <<agents, prompts, befriended, edited>>

(* The four ensure*Tool upserts, each followed by BindTool. *)
EnsureTool(c) ==
    LET k == assemblies[c]
    IN  /\ k.at = "bindTools"
        /\ BindOne(Assistant, "tool", Head(k.todo))
        /\ assemblies' = [assemblies EXCEPT ![c].todo = Tail(@),
                                            ![c].at = IF Tail(k.todo) = <<>> THEN "befriend" ELSE @]
        /\ UNCHANGED <<agents, prompts, befriended, edited>>

(* A statement fails, a unique key is taken in between, or the process      *)
(* dies: the call ends where it is and nothing it did is undone.            *)
AssemblyFails(c) ==
    /\ assemblies[c] # NoAssembly
    /\ assemblies' = [assemblies EXCEPT ![c] = NoAssembly]
    /\ UNCHANGED <<agents, bindings, prompts, befriended, edited>>

(* CreateAgent of the management API, for an agent account without a row. *)
CreateAgent(a, status) ==
    /\ agents[a] = "account"
    /\ agents' = [agents EXCEPT ![a] = status]
    /\ UNCHANGED <<bindings, prompts, assemblies, befriended, edited>>

UpdateAgentStatus(a, status) ==
    /\ agents[a] \in {"active", "disabled"} \ {status}
    /\ agents' = [agents EXCEPT ![a] = status]
    /\ UNCHANGED <<bindings, prompts, assemblies, befriended, edited>>

AssemblyNext ==
    \/ \E c \in AssemblyCalls :
          \/ \E a \in AgentIds, ts \in ToolChoices :
                UpdateAgentDefinition(c, a, ts) \/ CreateAgentFromTool(c, a, ts)
          \/ CreateAgentAccount(c) \/ CreateItsAgent(c) \/ CreatePrompt(c) \/ ReplaceBindings(c) \/ Befriend(c)
          \/ EnsureForUser(c) \/ EnsureAgent(c) \/ EnsurePrompt(c) \/ EnsureTool(c)
          \/ AssemblyFails(c)
    \/ \E a \in AgentIds, status \in {"active", "disabled"} : CreateAgent(a, status) \/ UpdateAgentStatus(a, status)

AssemblySpec == AssemblyInit /\ [][AssemblyNext]_assemblyVars
-----------------------------------------------------------------------------
(* An agent that a user has as a friend can answer: it has its row and a    *)
(* system prompt, and unless someone edited its definition, one that        *)
(* agent.create made has low-risk tools only.  The calls of the saga commit *)
(* one by one, may stop anywhere and overlap with edits of the same agent.  *)
FriendlyIsReady ==
    \A a \in befriended :
       /\ agents[a] \in {"active", "disabled"}
       /\ Of(a, "prompt") # {}
       /\ a \notin edited \cup {Assistant} => {b.ref : b \in Of(a, "tool")} \subseteq LowRisk

(* "绑定的 ReplaceForAgent 是单表原子操作（delete+insert 同事务）"               *)
(* (registry_writes.go:12) and "幂等确保 ... 非事务、可重入"                     *)
(* (default_assistant.go:197): whatever calls overlap or are repeated, an    *)
(* agent has one active system prompt.                                      *)
OneActivePrompt == \A a \in AgentIds : Cardinality(Of(a, "prompt")) <= 1
=============================================================================
