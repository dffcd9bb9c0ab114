# TLA+ models of agents_im

agents_im is an instant messenger in which AI agents are accounts like any
other: a set of Go services over PostgreSQL, Redis and Kafka, WebSocket gateways
and an agent runtime. This directory models the parts of it that run
concurrently, fail half way and have to come out right all the same: the path of
a message from `SendMessage` to the tables, to the sockets of its receivers and
to the agents that answer it, and around it the services that decide who exists,
who is logged in, who is whose friend, what is in a group, an upload or an agent.

Source paths below are relative to `src/`. `PROJECT.json` maps every definition to
the lines it stands for and lists the hazards, runs, mutants, findings and
theorems.

## 1. The system

```
 client --SendMessage--> msg-rpc --> [msg.toTransfer.v1] --> msgtransfer (hot path)
                                                      |  Redis: seq counter, dedup, cache, has-read
                             +------------------------+---------------------+
                             v                        v                     v
                    [msg.toPostgres.v1]      [agent.trigger.v1]      [msg.toPush.v1]
                             |                        |                     |
                 msgtransfer (persist)          agent-rpc              push service
                             |            coalescer, rounds           |           |
                     PostgreSQL tables          |                 gateways   [msg.toOfflinePush.v1]
                     ^ mark as read, pull       +-> SendMessage      |
                     |               hosting, runs, tools         sockets, presence (Redis)
                  msg-rpc

 auth-rpc, user-rpc, friends-rpc, groups-rpc, media-rpc, agent-rpc: rows of PostgreSQL,
 sessions in Redis, objects in S3; they call one another while an account or agent is made
```

### 1.1 Inventory

| Component | State | Operations | Interacts with | What is hard | What makes it correct |
|---|---|---|---|---|---|
| msg-rpc send (`service/msg/rpc`, `send_message_logic.go`) | none of its own | `SendMessage`: validate, allocate `server_msg_id`, publish with acks=all | toTransfer | a client retries a call whose first record was written | one stored message per `client_msg_id` |
| msgtransfer hot path (`service/msgtransfer/internal/chain/handler.go`, `seq.go`, `store.go`) | batch in memory; Redis counter, dedup records, cache, has-read markers | `HandleBatch`, `handleConversation`, `Malloc`, three produces, `DedupSet` | reads toTransfer and max(messages.seq), writes three topics | crash or failed call between any two of ten calls; cancelled workers; replays; loss of Redis data | nothing acknowledged is lost; seqs of a conversation increase; fanout only of what is archived |
| Kafka loop (`pkg/messaging/kafka.go`) | offset, batch | poll, handle, retry the same batch in place, commit | every consumer | order of handling and commit; a poison record | an offset is committed after its effects |
| msgtransfer persist (`chain/persist.go`, `model/writer.go`) | offset, batch | `PersistBatch`: one transaction per conversation over messages, conversation_threads, user_conversation_states | toPostgres, tables shared with msg-rpc | replays of half-done batches, unique violations, boundary of visible_start_seq | every accepted message is stored once, visible to all it is for; threads cover rows |
| msg-rpc read state and pull | read markers | `MarkConversationAsRead`, `RepairDirect`, `QuerySeqState`, `PullMessages` | tables | runs between two persist transactions; a page is three statements | markers stay in range and never go back; paging skips and repeats nothing |
| msggateway and presence (`service/msggateway/internal/ws`, `pkg/presence/redis.go`) | `ConnectionManager`, `conn:<id>`, `user:<id>:connections`, token buckets | upgrade, register, takeover, heartbeat, commands, deferred cleanup, expiry, list with cleaning | push, auth sessions, clients, Redis | cleanup of a replaced connection beside its successor; multi-call Redis updates; a session replaced while a command waits | a live connection can be pushed to; presence comes to agree with the sockets; a replaced session executes nothing |
| push (`service/push/internal`) | offset, dialed gateways | `HandleBatch`, `Broadcast`, `refreshConns`, offline produce | toPush, gateways by gRPC, toOfflinePush | one gateway of several fails, dies or is not known yet | nobody is dropped; nobody reachable is declared offline; the consumer never stops |
| agent private chat (`service/agent/rpc/internal/consumer`, `orchestrator/private_coalescer.go`, `privconv`) | row with state, lease, pending, rounds, memory | `AppendPending`, `drive`, `CommitRound`, `DiscardPending`, `maybeSummarize`, `ApplySummary` | agent.trigger, LLM runner, msg-rpc | messages that arrive during a round, leases, stale snapshots across LLM calls | every message is answered, at the latest with the next one, by one loop at a time, in a context that is in order and complete |
| agent hosting and group triggers (`orchestrator/hosting.go`, `schedule.go`, `runner.go`, `response_writer.go`, `aghosting`) | trigger ledger with idempotency keys, hosting switches, running goroutines | `HandleMessageCreated`, `ScheduleTrigger`, `TryStart`, run, write-back, notice, `Finish` | agent.trigger, msg-rpc, admin replay | asynchronous runs, replays, a TTL on running rows, failed mark-as-read or write-back | one run and one reply per trigger; agents do not answer agents; nothing stays wedged |
| agent runtime and sandbox (`runtime/eino/deepseek_runtime.go`, `pkg/pythonexec/k8s_executor.go`) | transcript; Job, ConfigMap and pods of the run | the tool loop, `Execute`: create, wait, read logs, delete | LLM, Kubernetes | calls of one run share object names; any call to the cluster fails | a run ends, cleans up, and a call reports the status of its own job |
| LLM observability (`pkg/llmobs/async.go`) | bounded queue | `Observe`, worker, `Close` | exporter | full queue; Close beside Observe | what was accepted before Close is exported when Close returns |
| agent management (`agentlogic`, `model/registry_writes.go`) | agents, prompt and tool bindings | `UpdateAgentDefinition`, `CreateAgentFromTool`, `EnsureDefaultAssistant` | user-rpc, friends-rpc | five commits per call, calls that overlap | an agent someone has as a friend is complete and has one prompt |
| idgen (`pkg/idgen`) | last millisecond, sequence | `Next`, `waitNextMillis` | all services | sequence wrap, clock steps, packed fields | ids are unique and carry their facet |
| auth (`service/auth/rpc`, `pkg/middleware/active_session_store.go`) | email codes, credentials, active session per device | code request, `Register`, `Login`, `Validate` | user-rpc, gateway | registration over three databases; shared hash with one TTL | a code passes once, guesses are bounded, a login lasts until it expires or is replaced |
| user (`service/user/rpc`) | accounts | `CreateUser`, `CreateTestAccount`, `EnsureForUser`, `Backfill` | agent-rpc, friends-rpc | partial failure | a user who can log in has the assistant |
| friends (`service/friends/rpc`) | two directed rows per pair | add, accept, reject, delete, `EnsureFriendship` | groups, agents | row locks lock nothing where there is no row | friendship needs both sides' wish, and has both directions |
| groups (`service/groups/rpc`) | group row, member rows | create, join, add, leave, kick, update | msg-rpc | check, then write, without locks | the creator stays owner; the limit is passed by no more than the calls that overlap |
| media (`service/media/rpc`) | media_objects, objects in S3 | intent, client upload, complete, sweep | S3 | stops between stat, copy, remove and MarkReady | a ready row's object exists; a finished upload is not lost |
| admin, third-party mail, configuration, middleware, web, deployment | rows, files | CRUD, views, I/O | - | - | - |

## 2. Modules

| Module | Stands for | State and actions |
|---|---|---|
| `AcceptedLog` | the topic msg.toPostgres.v1 | messages, their events and the log that `Transfer` writes and `Persist` reads; both extend it |
| `Transfer` | msgtransfer hot path under the Kafka loop | `toTransfer`, `committed`, `polled`, `phase` are topic and loop; `worker[c]` is the goroutine of conversation `c` with its program counter, fresh messages, reserved seqs and loop index; `seqKey`, `dedup`, `cache`, `hasRead` are the Redis keys. One action per Redis, PostgreSQL or Kafka call: `DedupGet`, `MallocExists`/`Query`/`SetNX`/`Incr`, `CacheMessage`, `SetHasRead`, `PublishToPostgres`, `PublishAgentTrigger`, `PublishToPush`, `DedupSet`. `Fail` is a failed or cancelled call, `Crash` a dead process, `Archive` what the persist consumer may do to max(seq), `LoseRedis` and `ExpireDedup` the loss of keys (`LossySpec` only). |
| `Persist` | persist consumer, its three tables, mark-as-read | `messages`, `threads`, `states` are the tables, `pCommitted`.. the loop. `PersistBatch(c)` is one transaction, `PersistError` a refused or failed one, `MarkConversationAsRead` includes `RepairDirect` and the roll-back that `QuerySeqState` can cause. `PublishAccepted` is what the transfer consumer may append. |
| `Archive` | abstract: what a sender is promised | acknowledged messages and their rows; store once, in seq order, eventually |
| `Pipeline` | `Transfer` and `Persist` over toPostgres and messages | all variables of both; the steps of the one leave those of the other alone, except for `toPostgres` and for `maxRow`, which follows `messages` |
| `Pull` | `PullMessages` while rows are appended | `scrolls[r]` is a reader that pages up or down, with the call it has in progress: `QuerySeqState`, `UserScopedBounds`, `GetMessagesInRange` are three statements; a page is any list that `order by seq limit n` admits (`FirstOnes`) |
| `Gateway` | gateways and presence | `pc[c]` is where the `HandleWebSocket` call of a connection is, `list[x]` a `ListUserConnections` call in progress; one action per Redis command or pipeline. A takeover is `Register`, the manager's critical section, and then one `CloseReplaced` for each connection in `replaced[c]`, which the handler of `c` took out of the manager and has still to close. Expiry of keys, broken writes, instance crashes |
| `Push` | push service over `Gateway` | loop variables, `dialed` (the broadcaster's connections), `call[g]` (the BatchPushOneMsg call on gateway g), `toOfflinePush` |
| `Coalescer` | agent private chat | the row, the topic's offsets, `loop[n]` (the drive goroutine that message n fired); one action per statement on the row. `AppendPending` is `ClaimPending` (the insert or the first update), or `NotClaimed` and then `AppendOnly` (the second update); `stmt` is the statement it is at |
| `Hosting` | hosted chats and agents mentioned in groups | `trigLog` and the consumer, `ledger` (agent_trigger_idempotency), `runs` (the goroutines of runAcceptedTriggerAsync, each at its next call), `chatLog` (what was written back); hosting switches, membership, admin replay, TTL, timeouts, crashes |
| `Runtime` | one agent run and its sandbox | `run`, `asked`, `returned` are the tool loop and transcript; `execution` is `KubernetesExecutor.Execute` in progress; `configMap`, `job`, `pods` the cluster; `FindJobPod` finds any pod with the job's label, and a result keeps whose pods it was read from (`read`) and which were there when the job was created (`left`) |
| `Sink` | `AsyncSink` | the channel, the worker, its select between queue and done, `Close` called by several |
| `Assembly` | what an agent is made of | `bindings` committed, `assemblies[c]` a call with the statement it is at; the delete of a replacement takes the rows it saw |
| `Identity` | registration, test accounts, default assistant | `codes`, `accounts`, `credentials`, `friendly`; `idCalls[c]` a call with the statement or RPC it is at; `CallFails` after any of them |
| `Sessions` | active sessions | the Redis hash of an account with its one TTL, tokens with their expiry, `time` |
| `Commands` | the command loop of one connection over `Sessions` | read, `ValidateActiveSession`, the token bucket, dispatch; a wall clock that may be set back |
| `Friends` | friendships | `rows` committed, `txs[c]` the transaction of a call with its own writes and row locks (READ COMMITTED) |
| `Groups` | one group | `members`, `title`; `groupOps[c]` a call between its check and its write |
| `Media` | uploads | rows, temporary and final objects, calls at the statement or S3 call they are at, the sweeper |
| `IdGen` | id generators | clock, last time, sequence and packed fields of each instance |
| `TransferProofs` | theorems about `Transfer` | section 5 |
| `PipelineProofs` | theorems about `Pipeline`, on top of `TransferProofs` and `PersistProofs` | section 5 |
| `PersistProofs`, `PushProofs`, `CoalescerProofs` | theorems about `Persist`, about `Gateway` and `Push`, about `Coalescer` | section 5 |
| `AgentProofs` | theorems about `Hosting`, `Sink`, `Runtime`, `Assembly`, `MCAgent` | section 5 |
| `AccountProofs` | theorems about `Sessions`, `Commands`, `Identity`, `IdGen` | section 5 |
| `ServiceProofs` | theorems about `Media`, `Groups`, `Friends`, `Pull` | section 5 |
| `MCTransfer`, `MCPersist`, `MCPipeline`, `MCPush`, `MCHosting`, `MCFriends`, `MCAssembly` | instances for TLC | constants, and the choice of scenes |
| `MCAgent`, `MCStore` | several components in one run | components that share no state: the variable `scene`, chosen in the initial state, says which of them moves, so a run is the sum of its scenes and not their product |

`Pipeline` extends `Transfer` and `Persist`, which share the variable `toPostgres`,
and maps its state to `Archive` with INSTANCE; `Push` extends `Gateway`, `Commands`
extends `Sessions`. The environment actions of the separate
modules (`Archive(c)` in Transfer, `PublishAccepted` in Persist) are the assumptions
each is checked under, and Pipeline discharges them: `KeepsContracts`, which is proved.

Abstractions that hold throughout:

- a message is its client key, the pair (sender, client_msg_id); the offset of its
  record on toTransfer stands for the `server_msg_id`, because each `SendMessage`
  call allocates one and writes one record;
- a topic is one log (one partition). Records are keyed by conversation, so the
  order within a conversation, which is what the properties speak of, is that of
  the partition;
- a Redis pipeline, a Lua script and a PostgreSQL statement outside of a
  transaction are one step; two calls are two steps. A transaction is one step when
  its rows are written by nothing else meanwhile (Persist), and statement by
  statement with its locks where other transactions overlap (`Friends`, `Assembly`,
  `Identity`, `AppendPending` in `Coalescer`). Under READ COMMITTED an insert that
  conflicts and an update that matches no row lock nothing, so what they found may
  be gone at the next statement; a statement that did change the row is the last of
  its transaction in `AppendPending`, so it and the commit are one step;
- a call that reports an error after the server applied it is the call followed by
  a failure of the worker's next call (Transfer) or a disjunct of its own (Coalescer,
  Hosting, Runtime);
- time is not measured, except where a property is about it (`Sessions`, `Commands`,
  `IdGen`): a timeout or expiry may happen whenever the code does not exclude it.

## 3. Runs

Properties that a mutant of the code must break are listed with their mutants in
`PROJECT.json`. Sizes are distinct states.

| Run | Instance | Shows |
|---|---|---|
| `Transfer_safe` (1.6 million) | two conversations, the second with older rows and an empty push fanout, three client keys and records, batches of two, one fault | `SeqStrictlyIncreasing`, `NoAcceptedLoss`, `PublishedInOrder` (`FanoutIsArchived`, `DedupMeansPublished`), `NoRepublish` |
| `Transfer_replay` | one conversation, one fault | violated: `OneSeqPerMessage` (finding 1) |
| `Persist_mention` | a group with one message of content type `at` | violated: `EventuallyArchived` (finding 2) |
| `Pipeline_e2e` (43 thousand) | a single chat, two keys, two records, one fault | `KeepsContracts` (`ImplementsTransfer`, `ImplementsPersist`), `ImplementsArchive`, `ConsumersCatchUp` |
| `Push_safe` (350 thousand) | scene "connections": two connections of one user to one gateway, two faults; scene "push": two gateways, one connection, two records, one fault | `ServedOrTakenOver`, `Settles`; `NothingDropped`, `CatchesUp` |
| `Push_offline` | the same without gateway faults | violated: `NoFalseOffline` (finding 3) |
| `Agent_safe` (225 thousand) | four messages to an agent without a fault, three with one, two rounds kept; a hosted chat and a group, two records, two faults; a run with two tool calls and one fault of the cluster; a queue of two with four observations | `ContextSound` (`NothingSkipped`, `HistoryInOrder`), `OneLoop`, `AnsweredWithNext`, `PendingRecovered`; `OncePerTrigger` (one run, one message), `SucceededIsWritten`, `NoRecursion`, `NeverWedged`; `SandboxSound` (`StatusIsOwn`, `OutputFromOwnOrLeft`, `CleansUp`), `RunEnds`; `FlushedOnClose` |
| `Coalescer_memory` | four messages, four rounds kept, no fault | violated: `NothingForgotten` (finding 4) |
| `Hosting_notice` | the hosting scenes | violated: `SucceededIsAnswered` (finding 5) |
| `Store_safe` (571 thousand) | twelve scenes, below | `CommittedIsArchived`, `TablesAgree` (`ThreadCoversRows`, `NothingHidden`, `ReadMarkersInRange`), `OnlyForward` (`RowsAppendInSeqOrder`, `NeverBackwards`); `PagingSound` (`PagesExact`, `EndMeansAll`); `FriendsByConsent`; `MembershipSound` (`LimitOverrunBounded`, `CreatorOwns`); `CodesHold` (`OnePassPerCode`, `GuessesBounded`), `UsersHaveAssistant`; `LoginLasts`, `ReplacedIsSilent`, `RateBounded`; `UploadsKept` (`ReadyIsStored`, `UploadSurvives`); `IdsSound` (`UniqueIds`, `FacetSurvives`); `FriendlyIsReady` |
| `Friends_race` | one pair of users, two calls at a time | violated: `BothDirections` (finding 6) |
| `Assembly_prompts` | the assistant and one agent, two calls at a time | violated: `OneActivePrompt` (finding 7) |

A property in parentheses is a conjunct, defined by its own name in the module, of
the one before it. `Transfer`, `Persist`, `Push` and the agent service also have a type
invariant.

### Why the bounds are enough

Every bound is a CONSTANT. What matters is that the cases the properties are about
happen within it.

- *Transfer*: three records give a retry in the same batch, in the next batch and
  while the first is being handled; batches of two give a produce loop with two
  rounds and two workers that cancel each other. The theorems of section 5 remove
  these bounds for all its safety properties, as they do for the other components.
- *Pipeline*: two records are a message and its retry, or two messages whose batches
  overlap with their archiving; a failure makes the replay that gives a message
  two records on toPostgres.
- *Gateway*: two connections are a connection and its successor; presence is shared
  per user, so a second user adds no interaction. Two faults allow a failed Redis
  call and a broken write or crash together.
- *Push*: the gateway that has the connection is up, down, just started or not dialed;
  the other stays up, and its calls may fail. The two records are two messages to the
  same user, so that a delivery of the one does not hide the loss of the other, or a
  message without receivers, which HandleBatch skips, and one with. They are published
  first: a poll takes one or both, and one published later is as good as one polled
  later. In the scene "connections" nobody reads the broadcaster's set, so it follows
  the gateways in the same step.
- *Coalescer*: four messages make two rounds that coalesce messages and two that
  overlap with a summary; cutting to two rounds and summarising to one happen
  together. With a fault, three messages are one that is left pending and two that
  find it.
- *Hosting*: two records are a message and its replay or resend; two faults are a
  failed run and a failure, timeout or crash of the run that retries it, or an
  expiry of the running row and a crash.
- *Runtime*: two tool calls are the two of one response or of two responses, in
  particular two python.execute that share the names of their objects, and reach
  the limit; a tool that is not approved is asked for too.
- *Sink*: a queue of two is full with a third event, two callers close it.
- *Archive scene*: three records over a single chat and a group that bob joins after
  its first message, in batches of up to three, allow a batch of two conversations
  of which the second fails; mark-as-read is called with every seq.
- *Pull*: five seqs with dropped ones among them, pages of one and two in both
  orders, and rows appended between any two statements.
- *Friends*: pairs share no row; two calls at a time is what one can overtake another
  with, and calls go on without end.
- *Groups*: a limit of two and four users let two joins pass the limit together.
- *Identity*: two codes are a code and the one that supersedes it, two calls race for
  a code, a guess or an identifier; one attempt is allowed, so a second is too many.
- *Sessions* and *Commands*: three logins from two device types over two lifetimes of
  a token; for a connection two logins, and a bucket of one token that takes two
  units of time to refill, on a clock that goes back.
- *Media*: two ids with the same content, two calls, the client's upload and the
  sweeper.
- *IdGen*: two machines, two sequence numbers per millisecond, two milliseconds that fit
  the field and one that does not, and three ids force a wrap, a wait and a clock that
  steps back while waiting; the widths of the fields are constants, small here.
- *Assembly*: a definition beside an ensured assistant or the creation of an agent, two
  definitions one after the other; two at a time are in `Assembly_prompts`.

Deadlock checking is off in all runs: an instance whose bounded input is used up
and whose consumers have caught up has stopped legitimately. That nothing stops
earlier is what the liveness properties say.

### Fairness

Weak fairness, and only of what runs by itself:

- the loops of the consumers and their workers (`RunLoop`, `HandleConversation`,
  `PersistLoop`, `PushLoop`, `HandleEvent`, `ConsumeTriggers`): goroutines that are never
  blocked for ever, since their calls return with a result or an error. Fault actions
  have no fairness and are bounded: calls fail finitely often, as the in-place retry
  of `kafka.go` presupposes;
- `RefreshConns`: a ticker;
- `BatchPushOneMsg`, or the failure of a call to a gateway that is down: the RPC has
  a deadline;
- in `Gateway`: the handler of a connection, the pongs of a client whose socket is
  open, and Redis' expiry of keys nobody refreshes. No fairness for clients that
  connect or leave, none for a crashed gateway to come back;
- `SomeDrive` in `Coalescer`: not all goroutines that can go on rest; `LeaseExpires` has
  none;
- `SomeRun` in `Hosting`: the goroutine of a run, whose calls have the run's deadline;
  none for the TTL of a ledger row;
- `RunLoop` in `Runtime`: the tool loop with the waiting for a job, which has a deadline;
  none for the cluster, so a pod may never finish;
- the components of `MCStore` have none: their properties are safety properties, and
  a call may stop after any statement. Calls of a kind are alike, and `Store_safe` has
  the calls of registration and of groups as symmetry sets, which is sound without
  liveness.

`Settles` and `AnsweredWithNext` have the form `[]<>`: with clients that keep reconnecting,
presence need not stay settled.

## 4. Findings

Each is a run that TLC must find violated, against a statement of the repository;
quotations and lines are in `PROJECT.json`.

1. *A replay takes a second seq* (`Transfer_replay`). A failure after `Malloc` and
   before `DedupSet` makes the batch run again; the dedup record is not there, and
   `INCRBY` hands out a new seq. The comment in `handler.go` calls everything before
   the record idempotent. The table keeps the first seq (`on conflict do nothing`),
   so the archive is right, but pushes and agent triggers go out under two seqs and
   `max_seq` of the thread is above the last stored message.
2. *Content type `at` is never stored* (`Persist_mention`). msg-rpc accepts it, the
   enum table of the writer does not know it, and the topic stands still.
3. *False offline* (`Push_offline`). A gateway that came up less than a refresh
   period ago is not asked, the others answer "routed", and its users are declared
   offline without an error.
4. *A forgotten round* (`Coalescer_memory`). The last round of a loop is summarised
   after `CommitRound` released the running lock, so a second loop's summary can be
   overwritten by an older one whose rounds are gone.
5. *A reply hidden by its own failure notice* (`Hosting_notice`). Notice and reply of a
   trigger use one client_msg_id; the retry that succeeds is dropped as a duplicate.
6. *Friends in one direction* (`Friends_race`). `AddFriend` locks a row that is not
   there, and writes pending over a friendship accepted meanwhile.
7. *Two active prompts* (`Assembly_prompts`). Replacements of an agent's bindings that
   overlap each delete what they saw and insert their own; every later run of the
   agent fails.

Met while modelling, and not stated as runs, because no document says otherwise or
because they are outside an instance, or because a passing run states precisely what
happens instead:

- After Redis lost a counter with records in flight, a record with a taken seq is
  refused for ever; advancing the counter, as the log line advises
  (`persist.go:57`), changes later seqs only.
- A client retry after the 7-day dedup record expired leaves `last_message_id`
  pointing at an id that has no row (`store.go:17`).
- Hosting: a run that times out calls `Finish` with the context that ended, so its row
  stays running until the TTL; a group run or a mark-as-read that comes before the
  message is archived fails and is not retried, and messages of type `at` are never
  archived (finding 2), which is how a group mentions an agent; a run in flight
  replies although hosting was switched off meanwhile; the judge does not drop
  messages of system origin.
- Groups: `UpdateGroup` writes name and description it read earlier (lost update);
  joins that count together pass the limit, by at most the number of calls that
  overlap; an owner and the last other member who leave together empty the group in
  spite of the check (`leavegrouplogic.go:38`).
- Registration: a failure after `CreateUser` leaves an account without a password whose
  identifier and address stay taken, and a used code; a repeated `CreateTestAccount`
  skips `EnsureForUser`, and `Backfill` lists only user accounts.
- Friends: two `AddFriend` calls that cross both stay pending.
- Agents: `UpdateAgentDefinition` changes prompt and tools in two commits;
  `CreateAgentFromTool` may leave an account without an agent, as its comment says.
- Sessions: two logins may store their sessions in the other order than they are
  answered; a login whose answer is lost displaces the old session. The session is
  checked at every command but the token's expiry only at the handshake, and pushes
  are not checked, so a connection may outlive its token.
- The rate limiter stops refilling while a clock that was set back catches up.
- Private chats, a lost wake-up: `AppendPending`'s first update finds the row running and
  does nothing, which locks nothing; `CommitRound` or `DiscardPending` consumes the batch
  and sets the row idle; the second update (`agent_private_conversations_model.go:130`)
  appends to the idle row, and `fired = false` starts no loop. The message stays
  unanswered until the next one of the chat, although the comment before the second
  update (line 128) says that the `CommitRound` of the round in flight will consume it. So
  `Agent_safe` checks what does hold: `AnsweredWithNext` admits this one case and no
  other, `PendingRecovered` starts from it too, and `TypeOK` says that a running row has
  pending messages but not that an idle one has none.
- Sandbox: `findJobPod` returns the first of all pods with the label `job-name`, which is
  the same for all calls of a run. Exit code and output of a call may be those of the
  pod of an earlier call that is still being collected, also when the call's own job
  succeeded. `SandboxSound` therefore promises the call's own *status*, and of the
  output only that its pod is the call's own or was there when its job was created. A
  ConfigMap that could not be deleted makes later calls of the run fail.
- A takeover leaves a window: from `Register` to `closeWithCode`, which waits for the
  write mutex of the replaced connection, that one is served and open but in no
  manager, so a push does not reach it. `ServedOrTakenOver` says that there is no other
  such window.
- Sink: `Observe` still enqueues after `Close`, and nothing calls `Close`.
- Ids: a clock set back over a restart repeats ids, and node ids hashed from host
  names can be equal.

## 5. What is proved

Every theorem holds for every value of the constants: any number of conversations,
users, records, calls, faults and so on, and every limit. The assumptions are the
named ASSUMEs of the modules, which give the types of the constants (a limit is a
positive natural, a bound a natural, a placeholder no member of the set it is a
placeholder for). Four say a little more: `GroupConstants` and `IdentityConstants`
have finite sets of users and of calls, because the limits count them, and
`GroupConstants` has at least one call; `IdGenConstants` has machine numbers that fit
their field, which `NewSnowflake` and `NewRoutedFlake` check; `PipelineConstants` starts
from an empty messages table and has the bounds of `Persist` wide enough for what
`Transfer` can write within its own, so that no bound of the model stands between the
two. Each `[]P` below follows
from an inductive invariant, whose parts are named in the text.

**Transfer** (`TransferProofs`)

- `TypeCorrect`: `Spec => []TypeOK`. `TypeOK` is not inductive: that an event written
  to a topic is well typed needs that the loop index of a worker points into its list
  and that the list holds records of the batch in memory. `WorkerInv` says this, and
  `TypeInv == TypeOK /\ WorkerInv` is inductive.
- `SeqsIncrease`: `Spec => []SeqStrictlyIncreasing`. The strengthening `ConvInv(c)` has
  three cases. While the counter is missing, nothing of `c` was published, max(seq)
  is still the initial one, and a seed read from it is right; when it is there, it is
  at least the initial maximum and every published seq is at most the counter; a
  worker that has reserved seqs holds a range under the counter, and everything
  published lies below the next seq of the range. The first case is where `EXISTS`,
  query, `SET NX` and `INCRBY` being four calls matters.
- `NoLoss`, `NoLossLossy`: `[]NoAcceptedLoss` for `Spec` and for `LossySpec`, in which
  Redis may lose everything between any two calls and dedup records expire.
  `LossInv`: committed records and keys with a dedup record are out on all their
  topics; each record of an active worker's batch is out or among its fresh messages
  (`Covered`: `DedupGet` drops a record only for a dedup record or an earlier record
  of the same key, the least-number principle gives that one); the produce loop has
  put out what lies behind its index (`Produced`); a worker that is done finished;
  nothing is committed unless all workers are done.
- `FanoutFollowsArchive`, `FanoutFollowsArchiveKept`: `[]PublishedInOrder`, for both
  specifications. `OrderInv` adds to `LossInv` the event a worker is at: which of the
  logs has it already (`Written`), and that a dedup record names an event that is on
  toPostgres with that seq and server_msg_id (`RecordsResolve`).
- `NeverRepublished`: `Spec => NoRepublish`, an action property. It needs
  `Unrecorded(c)`: between the `DedupGet` loop and its own records nobody records a
  worker's messages.

**Persist** (`PersistProofs`): `ArchiveTyped`, `NoCommitWithoutRow`, `TablesAlwaysAgree`
(`[]` of `PersistTypeOK`, `CommittedIsArchived`, `TablesAgree`) and the action property
`TablesOnlyForward`. The key is `RowsArePrefix`: the rows of a conversation belong to a
prefix of its records. A crash can make the next batch shorter than the one whose
first transactions went through, so rows may be ahead of the batch, and "the last
message of the batch moves the thread" is right only because a record without a row
comes after all records that have one. `StartBelowRows` and `LastIsRow` carry the
boundary of visible_start_seq and the thread's last message.

**Pipeline** (`PipelineProofs`)

- `ContractsKept`: `PipelineSpec => KeepsContracts`, that is `Spec` of `Transfer` and
  `PersistSpec` of `Persist`, both at once. Neither consumer's invariant can be
  had first: that a produce of the transfer consumer is a `PublishAccepted` needs that
  its seq is new and above all seqs of its conversation (`SeqInv`), and that a
  transaction of the persist consumer is an `Archive` step of `Transfer` needs that rows
  come from the log (`PersistInv`). So one invariant, `PipelineInv`, is shown inductive
  for the composition. It has `TypeInv`, `SeqInv` and `LossInv` of `Transfer`, `PersistInv`
  of `Persist`, `maxRow = DurableMax`, and two parts of its own. `FirstInv`: a
  committed message is recorded for dedup, so the message a worker finds fresh has its
  first record in the batch, and an event on toPostgres carries the server_msg_id of
  the first record of its message. `AttemptInv`: the seqs handed out are no more than the pairs
  of a record and an attempt at its batch, counted through an injection, which is why
  the bounds in `PipelineConstants` suffice.
- `TogetherSafe`: what is proved of each consumer alone holds of the two together
  (`SeqStrictlyIncreasing`, `NoAcceptedLoss`, `PublishedInOrder`, `NoRepublish`,
  `CommittedIsArchived`, `TablesAgree`, `OnlyForward`). It is `ContractsKept` and the
  theorems of the parts.
- `NeverDropped`: `[]NothingDropped` of `PipelineProofs`. A message whose record the
  transfer consumer has committed has a row, or its event waits on toPostgres
  beyond the persist consumer's committed offset. There is no moment, crash or not, at
  which both consumers are done with a message that is not in the table.
- `StoredUnderFirstId`: `[]StoredAsFirstSent`. The row of a message carries the
  server_msg_id of its first record on toTransfer, however often the client
  sent it or the batch was replayed.
- `ArchiveImplemented`: `PipelineSpec => A!Safety`, the safety part of
  `ImplementsArchive`. `SendMessage` is `Acknowledge`, a transaction that inserts rows is
  `Store`, everything else stutters. What has to be shown is `Store`'s order: rows a
  transaction inserts have seqs above all rows of the conversation (`RowsArePrefix` and
  the order of the log), they are distinct, and their messages were acknowledged.

**Gateway and Push** (`PushProofs`): `GatewayServes`, `PushServes` (`[]ServedOrTakenOver`
for the gateways alone and under the push service), `PushTyped`, `NoSilentDrop`
(`[]NothingDropped`). `ServedOrTakenOver` says nothing of a connection that is still
closing its predecessors, and may itself be replaced meanwhile: inductive is
`ManagedOrListed`, which speaks of it from `Register` on, together with the types, which
say whose list it can be on. `NothingDropped` needs what the handler has achieved so far: records of the batch before the current
one are handled (`BatchSoFar`), users a gateway reported have the message on one of
their own connections, and in the produce phase whoever is not offline has it
(`DeliveredIsWritten`).

**Coalescer** (`CoalescerProofs`): `CoalescerTyped`, `OneLoopAtATime` (`[]OneLoop`) and
`ContextStaysSound` (`[]ContextSound`). They hold with other loops between any two
statements of `AppendPending`. Beside the property `CoalescerInv` says: a loop's
batch is the pending messages as they were, so what came since is newer
(`LoopsSound`); everything appended or handled waits, was run or failed (`AllSeen`);
rounds are not empty and no newer than the last append (`RoundsSound`); a summary in
progress ends at a message that no round straddles, with its fold and the memory it
saw before it and everything pending behind it (`SummariesSound`). The last is what
makes a summary harmless to the order although it is applied to a row that has moved
on; that it can still forget a round is finding 4.

**Hosting, Sink, Runtime, Assembly** (`AgentProofs`)

- `TriggersRunOnce`, `SuccessIsTold`, `AgentsDoNotAnswerAgents`, `HostingTyped`. The
  invariant: a record with an event id of the human kind is the only one the judge
  lets through (`HumansCause`), the scheduler works on one agent of such a record
  (`SchedSound`), a claimed trigger without a run is nobody's (`ClaimIsHeld`), and a run
  reports success after its message is in the chat (`SuccessIsWritten`).
- `CloseFlushes`: `[]FlushedOnClose`, from the order of exported, in flight and queued
  events, and that what the first Close was promised is among them.
- `SandboxIsOwn`: `[]SandboxSound`. `OwnPods`: a pod under the run's name is the call's
  own or was there when its job was created, so every pod it reads is; `OwnObjects`: what a call created stays under the
  run's name until that call deletes it; `NothingStray`: unless something was
  stranded, whatever exists belongs to the call in progress.
- `FriendsCanAnswer`: `[]FriendlyIsReady`, from how far each call has come with its agent
  (`CallSound`), that an account is created for an id no other call works on, and
  that a replacement deletes and inserts in one commit.
- `AgentTyped`: `AgentSpec => []AgentTypeOK`, from `CoalescerInv` and `HostingInv`, since a
  step of one scene leaves the others alone.

**Sessions, Commands, Identity, IdGen** (`AccountProofs`)

- `LoginsLast`: `[]LoginLasts`. No token outlives a hash renewed now, and the hash has
  the last login of each device for as long as its token lives.
- `ReplacedStaysSilent`, `RateIsBounded`. A late command stays invalid, because an
  answered token is not recorded again; every token of the bucket was there first
  or was earned up to the last refill, whatever the wall clock does.
- `CodesAreSafe`: `[]CodesHold`. Guesses made and guesses in flight together are
  bounded (`GuessesCounted`): a call joins while fewer than the limit were made, so all
  others were in flight already. `AssistantBeforePassword`: `[]UsersHaveAssistant`, from
  what each call has provisioned at each of its steps (`Provisioned`).
- `IdsAreSound`: `[]IdsSound`. Every id was packed from a time and a sequence number
  that lie behind what its machine will mint next (`Behind`); `Pack` is injective and
  `AccountFacet` inverts it, by lemmas on division.

**Media, Groups, Friends, Pull** (`ServiceProofs`)

- `MediaKeepsUploads`: `[]UploadsKept`, from what a `CompleteUpload` read, checked and
  copied staying true beside other calls (`CompleteIsCurrent`).
- `GroupsKeepTheirRules`: `[]MembershipSound`. Members and inserts in flight are counted
  together (`RoomForInserts`).
- `FriendsConsent`: `[]FriendsByConsent`. Whoever will make a friendship has the other's
  row locked and the other still wants it (`OtherAsked`); whoever deletes one row only
  saw that the other is no friendship (`OtherNotFriend`).
- `PagesAreExact`: `[]PagingSound`. `PullInv` adds what a call in progress knows: its
  bounds were right when they were read and rows come only above them, and a scroll
  down that has rows and has not ended has a visible row to come, so its next cursor is
  a seq and never the 0 that `normalizePullRange` takes for "from the newest".

Only model-checked:

- liveness (`ConsumersCatchUp`, `Settles`, `CatchesUp`, `AnsweredWithNext`, `PendingRecovered`,
  `NeverWedged`, `RunEnds`), which is outside the prover's reach, and with it the
  liveness half of `ImplementsArchive`;
- the violations of section 4, which are counterexamples.

So each invariant, each safety action property and each safety refinement that a
passing run checks is also a theorem.

`ApplySummary` describes the rounds it keeps by the increasing list of their positions
(`InOrder`, the `order by ord` of the statement), and `Select` of `Pull` its page by
`FirstOnes`, and not by a recursive filter or sort, which could only be reasoned about
by induction.

## 6. What is not modelled

The models stand for about a tenth of the implementation's lines. Most of the rest
has no state that a step of another actor could disturb, and a model of it would only
repeat it: generated protobuf code (more than a quarter of all lines), the goctl
handlers, clients and type files of the services, configuration, logging and tracing,
the conversion of rows to messages, listing queries, the admin views, the web
frontends and the deployment. Code with rules or rows of its own that is left out:

- the validation of a message in msg-rpc (`message_rules.go`) and the checks of
  friendship, membership and media that precede a send: they read other services'
  rows and change none;
- what an agent run is told (`ai_hosting_request_builder.go`, `normalize.go`): the
  construction of a prompt;
- audit rows of runs, tool calls, Python executions and file reads, each inserted or
  updated by key and read by administrators only;
- feedback and task reports: single rows with a status, one statement per call;
- profiles and the settings of accounts: single-statement updates.

Within the modelled parts:

- Malformed records on toPostgres, which the persist consumer skips: only
  msgtransfer writes there.
- A client that uses one `client_msg_id` for two payloads or two conversations; the
  payload hash of the dedup record is stored and never compared.
- The TTL of the hot message cache; no modelled code reads the cache.
- `user:<id>:online`, which is written and never read.
- The consumer of toOfflinePush, which only writes an audit line.
- What a WebSocket command asks of msg-rpc (`SendMessage` and mark-as-read are in
  `Transfer` and `Persist`); the origin check; a static list of gateway targets.
- Session validation on a heartbeat in `Gateway`: an invalid session is a client that
  leaves; `Commands` has the check.
- Effects of an RPC that come after its deadline.
- The read marker that `drive` sets in msg-rpc: its failure is logged only.
- Records on agent.trigger out of seq order for the private chat: a message that was
  re-sequenced (finding 1) comes back under a higher seq. `Coalescer` has each message
  once, in order; `Hosting` has replays and duplicates.
- The tools' own work; a tool call answers or fails. Effects of tools that ran before
  a run failed are not undone by the code either.
- Consumer group rebalancing between several replicas of a consumer.
- In `Identity` everybody registers one email address; in `Groups` there is one group;
  in `Runtime` one run: objects are named after runs.
- The components marked `not_modelled` in `PROJECT.json`, with the reasons there.

## 7. Plan

Done: every module of section 2 and the theorems of section 5. Next: `Pipeline` with dedup
expiry (`last_message_id`) and with loss of Redis data.
