------------------------------ MODULE Identity -------------------------------
(***************************************************************************)
(* How an account comes to be: auth-rpc RequestRegistrationEmailCode and   *)
(* Register, user-rpc CreateUser, CreateTestAccount and the provisioning   *)
(* of the default assistant, which calls agent-rpc and friends-rpc, and    *)
(* auth-rpc EnsureTestCredential.  Each call spans three databases and no  *)
(* transaction: every statement or remote call is one step, other calls    *)
(* run in between, and after any step a call may fail and stay half done.  *)
(*                                                                         *)
(* Everybody registers one email address, which is what calls compete for. *)
(***************************************************************************)
EXTENDS Integers, Sequences, FiniteSets

CONSTANTS
    Identifiers,       \* identifiers people choose
    IdentityCalls,     \* calls that may be in progress at a time
    MaxAttempts,       \* maxVerificationAttempts
    MaxCodes           \* bound: codes requested

ASSUME IdentityConstants == MaxAttempts \in Nat \ {0} /\ MaxCodes \in Nat /\ IsFiniteSet(IdentityCalls)

VARIABLES
    codes,       \* auth_email_verification_tokens of the address, by created_at
    accounts,    \* accounts: by identifier
    credentials, \* auth_credentials: identifiers with a password
    friendly,    \* accounts befriended with the assistant
    assistant,   \* the assistant's account: "none", "legacy" (old identifier) or "current"
    assembled,   \* its agent row, prompt and tools are in place
    idCalls      \* calls in progress

identityVars == <<codes, accounts, credentials, friendly, assistant, assembled, idCalls>>
accountVars == <<accounts, credentials, friendly, assistant, assembled>>

NoCall == [op |-> "none", ident |-> "none", guess |-> 0, code |-> 0, at |-> "idle", locked |-> {}, todo |-> {}]

IdentityInit ==
    /\ codes = <<>>
    /\ accounts = [i \in Identifiers |-> "none"]
    /\ credentials = {} /\ friendly = {}
    /\ assistant \in {"none", "legacy"} /\ assembled = FALSE
    /\ idCalls = [c \in IdentityCalls |-> NoCall]

CallGoes(c, at) == idCalls' = [idCalls EXCEPT ![c].at = at]
Ends(c) == idCalls' = [idCalls EXCEPT ![c] = NoCall]

(* A call, a client that tries code number `guess', 0 for a wrong one. *)
BeginCall(c, op, i, guess) ==
    /\ idCalls[c] = NoCall
    /\ idCalls' = [idCalls EXCEPT ![c] =
          [NoCall EXCEPT !.op = op, !.ident = i, !.guess = guess,
                         !.at = CASE op = "register" -> "exists" [] op = "code" -> "cooldown"
                                  [] op = "test" -> "existing"  [] op = "backfill" -> "assistant"]]
    /\ UNCHANGED <<codes, accountVars>>

(* An error, a deadline or the end of the process.  An open transaction is  *)
(* rolled back: its code will never be seen.                                *)
CallFails(c) ==
    /\ idCalls[c] # NoCall
    /\ codes' = IF idCalls[c].at = "insert" THEN [codes EXCEPT ![idCalls[c].code].state = "void"] ELSE codes
    /\ Ends(c)
    /\ UNCHANGED accountVars
-----------------------------------------------------------------------------
(* Codes. *)

Committed == {n \in DOMAIN codes : codes[n].state \in {"live", "used"}}
Latest == CHOOSE n \in Committed : \A k \in Committed : k <= n

CooldownPasses(n) ==
    /\ codes[n].age = "fresh" /\ codes' = [codes EXCEPT ![n].age = "old"]
    /\ UNCHANGED <<accountVars, idCalls>>
CodeExpires(n) ==
    /\ codes[n].age = "old" /\ codes' = [codes EXCEPT ![n].age = "expired"]
    /\ UNCHANGED <<accountVars, idCalls>>

CheckCooldown(c) ==
    /\ idCalls[c].at = "cooldown"
    /\ IF Committed # {} /\ codes[Latest].age = "fresh" THEN Ends(c) ELSE CallGoes(c, "supersede")
    /\ UNCHANGED <<codes, accountVars>>

(* The mail is sent, and SupersedeAndInsert begins: it takes the unconsumed *)
(* codes it can see, which are not those of a transaction still open.       *)
Supersede(c) ==
    /\ idCalls[c].at = "supersede" /\ Len(codes) < MaxCodes
    /\ codes' = Append(codes, [state |-> "open", age |-> "fresh", attempts |-> 0, passed |-> 0])
    /\ idCalls' = [idCalls EXCEPT ![c].at = "insert", ![c].code = Len(codes) + 1,
                                  ![c].locked = {n \in Committed : codes[n].state = "live"}]
    /\ UNCHANGED accountVars

InsertCode(c) ==
    /\ idCalls[c].at = "insert"
    /\ codes' = [n \in DOMAIN codes |->
                   IF n = idCalls[c].code THEN [codes[n] EXCEPT !.state = "live"]
                   ELSE IF n \in idCalls[c].locked THEN [codes[n] EXCEPT !.state = "used"] ELSE codes[n]]
    /\ Ends(c) /\ UNCHANGED accountVars
-----------------------------------------------------------------------------
(* Register. *)

ExistsByIdentifier(c) ==
    /\ idCalls[c].at = "exists"
    /\ IF accounts[idCalls[c].ident] # "none" THEN Ends(c) ELSE CallGoes(c, "email")
    /\ UNCHANGED <<codes, accountVars>>

(* EmailExists joins auth_credentials: an account without a password is not seen. *)
EnsureEmailAvailable(c) ==
    /\ idCalls[c].at = "email"
    /\ IF \E i \in credentials : accounts[i] = "user" THEN Ends(c) ELSE CallGoes(c, "latest")
    /\ UNCHANGED <<codes, accountVars>>

(* The latest code, unused, in time, not tried too often, and the right one. *)
CheckLatest(c) ==
    /\ idCalls[c].at = "latest"
    /\ IF /\ Committed # {} /\ codes[Latest].state = "live" /\ codes[Latest].age # "expired"
          /\ codes[Latest].attempts < MaxAttempts
       THEN idCalls' = [idCalls EXCEPT ![c].code = Latest,
                                       ![c].at = IF idCalls[c].guess = Latest THEN "consume" ELSE "attempt"]
       ELSE Ends(c)
    /\ UNCHANGED <<codes, accountVars>>

IncrementAttempts(c) ==
    /\ idCalls[c].at = "attempt"
    /\ codes' = [codes EXCEPT ![idCalls[c].code].attempts = @ + 1]
    /\ Ends(c) /\ UNCHANGED accountVars

LetThrough(row) ==
    [row EXCEPT !.state = "used", !.attempts = row.attempts + 1, !.passed = row.passed + 1]

FreeCode(n) == \A d \in IdentityCalls : n \notin idCalls[d].locked

(* Mutant of Consume: the row is updated whatever became of it. *)
ConsumeAnyway(c) ==
    /\ idCalls[c].at = "consume" /\ FreeCode(idCalls[c].code)
    /\ codes' = [codes EXCEPT ![idCalls[c].code] = LetThrough(@)]
    /\ CallGoes(c, "create")
    /\ UNCHANGED accountVars

(* One statement; it waits for a transaction that supersedes the code. *)
Consume(c) ==
    /\ idCalls[c].at = "consume" /\ FreeCode(idCalls[c].code)
    /\ IF codes[idCalls[c].code].state = "live"
       THEN /\ codes' = [codes EXCEPT ![idCalls[c].code] = LetThrough(@)]
            /\ CallGoes(c, "create")
       ELSE Ends(c) /\ UNCHANGED codes
    /\ UNCHANGED accountVars

(* CreateUser and CreateTestAccount insert account and profile in one        *)
(* transaction; identifiers are unique, and so are email addresses, which   *)
(* test accounts have none of.                                              *)
InsertAccount(c) ==
    LET i == idCalls[c].ident
        type == IF idCalls[c].op = "test" THEN "test" ELSE "user"
    IN  /\ idCalls[c].at = "create"
        /\ IF accounts[i] = "none" /\ (type = "user" => \A j \in Identifiers : accounts[j] # "user")
           THEN accounts' = [accounts EXCEPT ![i] = type] /\ CallGoes(c, "assistant")
           ELSE Ends(c) /\ UNCHANGED accounts
        /\ UNCHANGED <<codes, credentials, friendly, assistant, assembled>>

(* An identifier a test account has is a retry: straight to the password. *)
FindTestAccount(c) ==
    /\ idCalls[c].at = "existing"
    /\ CASE accounts[idCalls[c].ident] = "none" -> CallGoes(c, "create")
         [] accounts[idCalls[c].ident] = "test" -> CallGoes(c, "credential")
         [] accounts[idCalls[c].ident] = "user" -> Ends(c)
    /\ UNCHANGED <<codes, accountVars>>

(* InsertCredential; EnsureTestCredential upserts. *)
InsertCredential(c) ==
    /\ idCalls[c].at = "credential"
    /\ credentials' = credentials \cup {idCalls[c].ident}
    /\ Ends(c)
    /\ UNCHANGED <<codes, accounts, friendly, assistant, assembled>>
-----------------------------------------------------------------------------
(* The default assistant: EnsureForUser, and Backfill when user-rpc starts. *)

(* ensureAssistantAccount: the account, or the one with the old identifier, *)
(* or none of them, found by one query after the other.                     *)
FindAssistant(c) ==
    /\ \/ idCalls[c].at = "assistant" /\ CallGoes(c, IF assistant = "current" THEN "assemble" ELSE "legacy")
       \/ idCalls[c].at = "legacy" /\ CallGoes(c, IF assistant = "legacy" THEN "rename" ELSE "createAssistant")
    /\ UNCHANGED <<codes, accountVars>>

RenameAssistant(c) ==
    /\ idCalls[c].at = "rename"
    /\ IF assistant = "legacy" THEN assistant' = "current" /\ CallGoes(c, "assemble")
       ELSE Ends(c) /\ UNCHANGED assistant
    /\ UNCHANGED <<codes, accounts, credentials, friendly, assembled>>

CreateAssistant(c) ==
    /\ idCalls[c].at = "createAssistant"
    /\ IF assistant = "none" THEN assistant' = "current" /\ CallGoes(c, "assemble")
       ELSE Ends(c) /\ UNCHANGED assistant
    /\ UNCHANGED <<codes, accounts, credentials, friendly, assembled>>

(* agent-rpc EnsureDefaultAssistant, which may be repeated. *)
EnsureDefaultAssistant(c) ==
    /\ idCalls[c].at = "assemble"
    /\ assembled' = TRUE /\ CallGoes(c, IF idCalls[c].op = "backfill" THEN "list" ELSE "befriend")
    /\ UNCHANGED <<codes, accounts, credentials, friendly, assistant>>

ListUsers(c) ==
    /\ idCalls[c].at = "list"
    /\ idCalls' = [idCalls EXCEPT ![c].at = "befriend", ![c].todo = {i \in Identifiers : accounts[i] = "user"}]
    /\ UNCHANGED <<codes, accountVars>>

(* Mutant of EnsureAssistantFriendship: its failure is not the caller's. *)
EnsureAssistantFriendshipOrNot(c) ==
    /\ idCalls[c].at = "befriend" /\ idCalls[c].op # "backfill"
    /\ friendly' \in {friendly, friendly \cup {idCalls[c].ident}} /\ CallGoes(c, "credential")
    /\ UNCHANGED <<codes, accounts, credentials, assistant, assembled>>

(* friends-rpc EnsureFriendship for the new account. *)
EnsureAssistantFriendship(c) ==
    /\ idCalls[c].at = "befriend" /\ idCalls[c].op # "backfill"
    /\ friendly' = friendly \cup {idCalls[c].ident} /\ CallGoes(c, "credential")
    /\ UNCHANGED <<codes, accounts, credentials, assistant, assembled>>

(* For the listed users, one after the other. *)
BackfillFriendship(c) ==
    /\ idCalls[c].at = "befriend" /\ idCalls[c].op = "backfill"
    /\ IF idCalls[c].todo = {} THEN Ends(c) /\ UNCHANGED friendly
       ELSE \E i \in idCalls[c].todo :
               friendly' = friendly \cup {i} /\ idCalls' = [idCalls EXCEPT ![c].todo = @ \ {i}]
    /\ UNCHANGED <<codes, accounts, credentials, assistant, assembled>>

IdentityNext ==
    \/ \E n \in DOMAIN codes : CooldownPasses(n) \/ CodeExpires(n)
    \/ \E c \in IdentityCalls :
          \/ \E i \in Identifiers, g \in 0 .. Len(codes) : BeginCall(c, "register", i, g)
          \/ \E i \in Identifiers : BeginCall(c, "test", i, 0)
          \/ BeginCall(c, "code", "none", 0) \/ BeginCall(c, "backfill", "none", 0)
          \/ CheckCooldown(c) \/ Supersede(c) \/ InsertCode(c)
          \/ ExistsByIdentifier(c) \/ EnsureEmailAvailable(c) \/ CheckLatest(c) \/ IncrementAttempts(c)
          \/ Consume(c) \/ FindTestAccount(c) \/ InsertAccount(c) \/ InsertCredential(c)
          \/ FindAssistant(c) \/ RenameAssistant(c) \/ CreateAssistant(c)
          \/ EnsureDefaultAssistant(c) \/ ListUsers(c) \/ EnsureAssistantFriendship(c) \/ BackfillFriendship(c)
          \/ CallFails(c)

IdentitySpec == IdentityInit /\ [][IdentityNext]_identityVars
-----------------------------------------------------------------------------
(* A code lets one registration through: two calls that read it while it    *)
(* was unused, or while a newer one was being inserted, do not both pass.   *)
OnePassPerCode == \A n \in DOMAIN codes : codes[n].passed <= 1

(* The count of attempts is read before a guess is compared and raised      *)
(* after it, so calls in progress together can pass maxVerificationAttempts, *)
(* by one less than their number: no code has more guesses answered.        *)
GuessesBounded ==
    \A n \in DOMAIN codes : codes[n].attempts <= MaxAttempts - 1 + Cardinality(IdentityCalls)

(* A user who can log in has a default assistant to talk to: its account,   *)
(* its agent and the friendship are there before the password is, whichever *)
(* remote call failed, however calls raced to create it.                    *)
UsersHaveAssistant ==
    \A i \in credentials : accounts[i] = "user" => i \in friendly /\ assistant = "current" /\ assembled

(* What a registration code guards against: being used twice, being guessed.*)
CodesHold == OnePassPerCode /\ GuessesBounded
=============================================================================
