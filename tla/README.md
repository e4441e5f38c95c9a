# Giulia: formal models

TLA+ models of the parts of Giulia that are hard to test: delegated jobs that
travel through a queue shared by several pods, turns that wait for a human, the
shared clients and caches around them, what agents know of each other, and the
gateway that cleans, condenses and routes their requests to language models. Each module is written
from the Python source; PROJECT.json names, for every definition, the lines it
stands for. Paths below are relative to `src/packages/giulia/giulia/` unless
they begin with `gateway:`, which is `src/packages/giulia_gateway/giulia_gateway/`.

## The system

An *agent* is a Starlette process around a Google ADK runner. Agents delegate
work to each other over HTTP, ask humans for approval through a table, register
themselves with a registry, and reach language models through a gateway.

| Component | State | Operations | Interacts by |
|---|---|---|---|
| In-memory delegation backend (`agents/delegation/backends.py` 34-111) | an asyncio queue, the set of task ids seen, one worker task | enqueue, start, stop, worker loop, drain | calls from the accept handler and the lifespan; calls the turn handler |
| Redis delegation backend (`backends.py` 114-325, `redis_backend.py`) | a stream with one consumer group per agent, a hash per task, one worker task per pod, a client that its coroutines share and the worker replaces | claim, add, mark, read, status writes, acknowledge, start, stop | Redis commands of several pods |
| Turn of a delegated job (`delegation/handler.py` 253-398) | the flag table `_hitl_pending_by_inv`, rows of `agent_task_log` | run, retry once, log | called by the worker; calls the runner; the agent's tools set the flag |
| Human approvals (`orchestration/approvals.py`, `starlette.py`) | append-only table `workflow_approvals`; the latest row of an id is its state | dispatch, create, resolve, resume | HTTP from reviewers; posts a resume job to the delegation endpoint |
| Delegation tool (`delegation/tools.py`, `handler.py` 401-549) | none of its own; rows of `agent_task_log` | log, POST, log | HTTP to another agent |
| SQL client (`sql.py`, `providers/database.py`) | pool and connector, lazily opened; the pool a transaction swaps in | open, close, queries, transaction | shared by every task of a process |
| Registry server (`registry/`) | table `agents` | register, get, update, delete, search | HTTP |
| Registry client (`agents/registry_client/`, `agents/utils/cache.py`, `agents/orchestration/heartbeat_db.py`) | a TTL cache, a bearer token, a heartbeat task | discover, resolve, register, beat | HTTP to the registry; writes the table `agents` itself |
| Push notifications (`agents/push_notifications/`) | inbox per task, set of expected tokens | send, register, receive | HTTP from other agents |
| Agent authentication (`agents/auth/`, `agents/middlewares/api_key.py`) | cache of Google tokens | mint, verify, dispatch | every request to an agent |
| A2A factory and application (`agents/a2a/`, `agents/core/giulia_agent.py`) | an OAuth token per client; the lifespan | refresh, resolve a peer with retries, start, stop | the registry, the peers |
| Gateway keys (`gateway: api_keys.py`) | pool, positive and negative cache | init, close, verify | SQL, one coroutine per request |
| Gateway requests (`gateway: request_cleaner.py`, `app.py`) | none between requests | clean, estimate, split, condense, route, relay | HTTP to providers |
| Google Chat, configuration, telemetry, artifacts, skills, layer check | start-up state | | external APIs |

### What is hard, and what makes each part correct

- **Delegation.** A job must reach the handler at most once over retries of the
  sender, several pods, commands that raise after they were applied, pods that
  die between two commands and workers cancelled in the middle of a job. Work
  must not stop because one handler raised. An answer "duplicate" must mean that
  somebody has the job.
- **Turns and approvals.** Database inserts and HTTP calls are awaits: two
  reviewers interleave between the read of the pending row and the insert of a
  decision; a turn is retried after it has already dispatched; the resume job
  competes for its id with earlier ones. The log must not call a turn complete
  that waits for a human; the agent must be told decisions that are on record.
- **Shared clients and caches.** `open()` and `verify_key()` test a field, await,
  then write it; `transaction()` swaps a field that other tasks use. A cache must
  not outlive what it caches, and a pool that was created must be closed.
- **Registry.** `save` reads, awaits an embedding and upserts: updates can be
  lost and deleted agents can come back. A heartbeat must come before the last
  one expires; a lookup must not return what is long gone, nor lose a peer while
  the registry fails.
- **Calls between agents.** Lifetimes are counted from the wrong end of a call;
  answers are lost after their effect; a peer pushes before it answers. No token
  may expire on its way, no push of one's own call be refused, and the log must
  not claim a delivery that never was.
- **Request cleaning.** A pure algorithm on sequences, under two calls that run at
  once: every tool result that is sent answers a call that is sent, nothing is
  lost between history and tail, and the tail fits its budget.

PROJECT.json lists every hazard at its line, with the property that watches it
or the reason why none does yet.

## The modules

### DelegationQueue: what a backend promises

Accepted jobs wait, run and are over; a job is accepted once, begins once, and
may be dropped before it begins. `DelegationMemory` and `DelegationRedis` are
shown to implement it. The job is a task id in the first. In the second it is a
*stream entry*, because the Redis backend deliberately enqueues a task again
once it has failed.

### DelegationMemory

One event loop: what happens between two awaits that can suspend is a step.
`Enqueue` is one step (`Queue.put` on an unbounded queue does not suspend);
`stop` is two (`StopBegin` puts the sentinel, `StopEnd` is after the await of the
worker); the worker is idle in `get`, busy in the handler, or done. `unfinished`
is the count `Queue.join` waits on. `ended` and `beforeStop` are history.

### DelegationRedis

One Redis command is one step. The stream is the sequence of all entries ever
added, `cursor` the last one the consumer group delivered, `pel` the entries
delivered and not acknowledged, `status` the field of the task hashes. `call[c]`
is an accept handler and names its next command (`claim` HSETNX, `check` HGET,
`reclaim` HSET, `add` XADD, `mark` the second status write); `worker[p]` is the
worker of a pod with the entry it holds. Faults: a command that raises, with its
effect applied or not (`CallRaises`, `ReadReplyLost`, `SetStatusInTryRaises`,
`SetFailedRaises`, `AckRaises`), a reconnect that raises, and `Crash`. `Stop` is
the graceful stop: CancelledError skips `except Exception` but not `finally`, so
the held entry is acknowledged. It is no fault, and yet it can lose an entry: a
worker that is cancelled in its XREADGROUP may have been given an entry that it
never sees, and one that is cancelled in its XACK may leave the entry pending.
`cuts` is history and counts the stops that come at such a moment (`CutBy`).

Left out: the fields of a job, creation of stream and group (idempotent), the
sleeps between reads. A command on a client that was closed is here one that raises.
redis-py is external, and a command is applied once or not at all: the client of a
cluster (`redis_backend.py` 72-87) sends a command again itself after a connection
error, so that an XADD whose first reply was lost may be applied twice, or an HSETNX
report a claim of its own as somebody else's, without raising. What is shown of
entries and claims is shown without that.

### RedisClient

The client that the coroutines of one pod share. `shared` is `_pool`; `user[u]` says
of each accept handler, and of the worker with the backend's `start()` and `stop()`
(which the lifespan calls one after another), where it is, which client it was given
(`has`) and which one it is creating or closing (`hand`). `Get` and `Renew` are
`get_delegation_redis` without and with `force_new`, up to the first await; `Place` is
the second look under the lock, after which `Discarded` closes the client that came
second, the only await the lock is held over. `AuthenticationFails`, `Drop`, `Closed`
and `Renew` are the worker's reconnect, `StopWorker`, `Drop` and `Closed` `stop()`,
which may cancel the worker in any of these awaits. redis-py is external (`BreaksOff`,
`Reconnects`): a failed initialize() has cleaned up, a failed aclose() may not have,
and a closed client connects again when it is used. `stray` is history and names the
clients that came to be open in the last two ways.

Left out: `warm_up_delegation_redis`, which nothing in `src/` calls.

### HumanApproval

The round trip in one process: `Take`, `AgentRaises`, `AgentReturns`,
`LogCompleted`, `LogError` and `TurnCancelled` are the turn; `DispatchFlags` and
`CreateApproval` are `dispatch_to_human`, called from the worker's turn or from a
turn the queue did not start (`Outside`, an A2A call); `PostApproval` is the POST
route; `ReadLatest`, `InsertDecision` and `SubmitResume` are the PATCH route.
`approvals` holds the rows in the order of `created_at`; a decision remembers how
long the table was when its PATCH read it (`readAt`). Of the delegation backend
the module keeps what the two modules above show: first in first out, and an id
is refused once seen unless its turn failed. `LogError` leaves open whether a
failed id is let in again (Redis) or not (memory).

Left out: the text of requests and answers, forms, thoughts, and the log rows
that do not end a turn. `current_hitl_pending` is left out because tools run in
tasks of their own, where setting it is not seen by the handler, as
`agents/core/context.py` explains.

`RequestApproval` is what the tools of `orchestration/adk.py` ask for: a gate
whose name is made of a prefix and a key, or of the session, and so may come
again, one call at a time.

### DbClient

`GiuliaDbClient` and `PostgresConnector`, told apart by `kind`. `attr` is
`self._pool`: nothing, a pool, or the stand-in for the connection of a transaction
(`_SingleConnectionPool`; only `GiuliaDbClient` binds itself to it). `CallOpens`, `Created` and `CreateFails` are `open()`,
which a caller runs before a statement or a transaction; `Call`, `Acquired`,
`Refused` and `Return` are a call with a pool in place; `Bind`, `BodyStatement`,
`BodyAcquired`, `BodyRefused`, `BodyAnswer` and `Leave` the block of a transaction,
whose statements go to the connection it was given or through the client, which with
`PostgresConnector` means another connection of the pool; `Close`,
`Drained` and `Disconnected` are `close()`. asyncpg and the Cloud SQL connector are
external: a pool lends `size` connections, refuses while it closes and is closed
when all are back. `incidents` is history: the races and failures that the
properties exempt, by name, so that each property also says what does *not*
spoil it. Nothing in `src/` calls `transaction()` yet; it is public and
documented, and modelled as such.

Left out: `sync_session`, which makes a SQLAlchemy engine of its own; the five
query helpers are one statement.

### GatewayKeys

`verify_key` in three steps: `Ask` (both caches, then the query goes out), `Read`
(the database reads the row) and `Answer` or `QueryFails`. `Change` is the operator
of the table, `Tick` the clock. `lastValid`, `lastInvalid` and `answered`, the last
answer that arrived for each key, are history; a decided request keeps what they were
(`heard` is what `answered` was), and why it was decided.

### RequestCleaner, ModelNames, ChatCompletions

`RequestCleaner` has the functions on conversations: `Clean` folds `CleanNext`
over the messages, `Split` is `split_for_condensation` with `Budget`, `TailFrom` and
`AfterResults`, `Injected` is `inject_draft_into_messages`. A message is a record of
its role, a size in tokens, the calls an assistant makes in `tool_calls` (`calls`) and
in blocks (`uses`), the call it answers and the tool results still inside it;
`ToolUseIds` are the calls of both formats, which become pending, and `Converted` is
the message with one: where there are blocks, they take the place of `tool_calls`, and
`lost` remembers the calls that are overwritten. `Messages` is the set of them all, over
the call ids `Ids`. `ModelNames` has a name as the sequence of its segments:
prefix, codenames, normalisation, variants and their thinking budgets. The prefix is
whole segments too, and a name begins with it when more follows (`Prefixed`). `Forms` are
the ways a request may write a model with a suffix, and `NamesAreApart` says when
no name of the configuration can be read as another.
`ChatCompletions` is the request that uses both: `Passthrough` and `Refuse`, or
`Prepare`, the two jobs of `_multi_call_prepare` (`JobEnds`, in any order, either
may fail), `Inject` or `FallBack`, `Forward`, `Completed` and `StreamEnds`.

Left out: blocked parameters and keys, the wording of the prompts, the
responses endpoint, the list of models.

### AgentAuth

Two agents and three services. The caller's flows share a token
(`RegistryA2AOAuth2Auth`): `Send`, `Mint` (the service, `mint_token`), `Refreshed` or
`RefreshFails`, `Arrive` (the callee's `verify_jwt`). The callee's
`ApiKeyMiddleware` is `Dispatch`, `LookUp`, `Answered` and `LookUpFails`, with the
Google token cache. Signatures, issuers and audiences are left out.

### RegistryStore, Heartbeat, Discovery

One row of `agents`, seen from three sides, each with its own abstraction of it.
`RegistryStore`: concurrent `Register`, `Update`, `Upsert` and `Delete`; `serial` is
the row there would be had every request run at once at its write. `Heartbeat`:
`Boot`, the loop (`Wake`, `Reregistered`, `Beat`, and their failures), `Stop`; time
in seconds, `Interval` is `int(ttl * 0.7)`. `schema` leaves open whether a row that
only a heartbeat has written reads back as an agent, which depends on defaults of
a table that is not in the repository. `Discovery`: `resolve_agent` through the
cache (`FromCache`, `Ask`, `RegistryReads`, `Told`, `AskFails`) under the retries of
`materialize_remote_a2a_peer_sync` (`Start`, `CardFetched`, `CardFails`, `Retry`,
`Awake`).

### ActivityLog, Submission, PushNotifications

`ActivityLog` is `log_event`: a row, none when the insert fails, and none for a
status it does not know. `Submission` is the delegation tool from its first row
to its last (`DelegateWork`, `PostJob`, `SubmissionAnswered`, `SubmissionFails`)
and the target's accept handler (`AcceptJob`), whose worker is switched on and off.
`PushNotifications` is the push tool, the peer that posts each state of a task,
the receiver (`Receive`, `File`, `Unreadable`) and `Restart`, which loses tokens
and inbox while the peer goes on.

## The runs

| Run | Bounds | Shows |
|---|---|---|
| `memory` | 4 task ids, any number of stops and starts | `DrainMeansDone`, `StopDrains`, refinement of DelegationQueue, `AcceptedIsRun` |
| `redis_safety` | 2 tasks, 2 pods, 2 handlers, 3 POSTs, 2 faults, 4 starts; symmetric | type, `OneEntryUnlessFailed`, `HeldByOne`, `OrphansHaveACause`, `ClaimIsBacked` |
| `redis_liveness` | 2 tasks, 2 pods, 1 handler, 2 POSTs, 2 faults, 3 starts | refinement of DelegationQueue, `EntryIsSettled` |
| `redis_retry` | 1 task, 1 pod, no fault | violates `FailedIsRetryable` |
| `human_safety` | 1 gate, 2 reviewers, 2 turns, 2 openings, 1 fault; symmetric | `SecondDecisionRaced`, `ToldIsOnRecord` |
| `human_liveness` | 1 gate, 1 reviewer, a turn outside the queue, 2 turns, 2 openings, 1 fault | `DispatchIsFlagged`, `TurnIsLogged`, `GateIsResumed` |
| `human_reinjected` | 1 gate, 1 reviewer, no fault | violates `DecisionsReinjected` |
| `human_dispatched` | 1 gate, a turn outside the queue, no fault | violates `HumanMeansDispatched` |
| `sql` | 2 tasks, both providers, pools of 1 and 2, 2 openings, 2 transactions | type, `LentIsHeld`, `NothingLeaks`, `BindingIsUndone`, `OwnStatementsInOwnTx`, `CallReturns` |
| `gateway` | keys: 1 key, 2 requests, a lifetime of 2 ticks, 4 ticks; chat: every conversation of up to 5 messages of 9 kinds, with a limit of 7 tokens, 2 of them reserved, and every way of writing 4 models (one configured only as a variant) with each of 6 suffixes or none, under the prefix `giulia-` | type, `VerdictIsRecent`, `OutageFollowsLastAnswer`, `ResultsFollowCalls`, `ConversationReachesTheModel`, `PromptFits`, `RoutedAsNamed` |
| `agents` | 2 flows, 2 inbound requests, 8 ticks; 2 writers, 4 writes; a time to live of 7 seconds, 16 seconds; 2 lookups of up to 2 attempts, 3 moments; 2 push calls of 2 states, 2 lives; 2 submissions; 2 accept handlers beside the worker, 4 Redis clients | type, `CallsAreNotRefused`, `AdmittedWasLive`, `SavesAreSerial`, `AliveWhileBeating`, `ResolvedIsRecent`, `OutageForgetsNobody`, `PushIsAccepted`, `CompletedIsAccepted`, `SharedIsOpen`, `ConnectionsAreKnown` |
| `gateway_tail` | as `gateway`, chat only | violates `TailKeepsTheLast` |

Bounds. Three POSTs over two tasks and two handlers let a first POST, a
duplicate and a retry after a failure overlap on two pods; two faults let a crash
follow a lost reply; four starts restart both pods. Two openings and two
reviewers are what two rounds of one gate need, and two turns are the turn that
dispatches and the one that is resumed. Deadlock is not checked where the bounds
stop the system; the memory model is unbounded in stops and starts and has no
terminal state.

Two tasks on pools of one and two connections are every race between an await
of one and a call of the other, with and without waiting; two openings and two
transactions let each happen a second time while the first is under way. The
gateway's least tail is 2 messages there, in place of 4, and its limits are a few
tokens, so that conversations of 5 messages reach every branch of the split:
tails clamped, tails moved past results, tails over their budget. Two requests for
one key are what overtaking answers need, and 4 ticks outlast an entry. In
`agents` the margin, the delays and the lifetimes keep the order that the code's
numbers have (30 seconds of margin over a call's delay and travel, 0.7 of the
time to live and two calls below it): the names in MCAgents.cfg state them. Four Redis
clients are the one of the start, one that a handler creates while the worker closes
that, and two that are created at once after the worker has retired the handler's.
Modules
that share no state are checked in one run, one side per behaviour, so that their
states add up.

Fairness. Weak fairness of the worker and of handlers that are under way only:
the event loop runs what is ready, a Redis command, an insert or an HTTP call
answers or raises, and an agent's turn ends (the handler has no timeout of its
own; this is an assumption on the runner). In `sql`, asyncpg serves its waiters in
turn, hence strong fairness of `Acquired` and `BodyAcquired`: without it one task
could be passed over by the other for ever. No POST, start, stop, dispatch, review
or fault is ever required to happen.

Operators whose name ends in `_Wrong` are faulty variants of the definition they
precede. No specification uses them; each shows one fault its property reports.

## What the runs found

- `FailedIsRetryable`. `enqueue` writes `queued` once more after XADD
  (`backends.py` 163-172). If a worker has run the job by then and recorded
  `failed`, that record is gone, and retries of the failed task are answered
  `duplicate`, against the docstring at `redis_backend.py` 266.
- `DecisionsReinjected`. The resume job's id is `resume-<approval_id>`
  (`starlette.py` 114). With the stable ids the tools build, the decision of a
  second round has the id of the first and is dropped by the queue with 202,
  against `starlette.py` 3-6.
- `HumanMeansDispatched`. `_hitl_pending_by_inv` is keyed by session
  (`handler.py` 270, `approvals.py` 160), not by `receiver_inv_id` as
  `agents/core/context.py` 27 says, so a dispatch from another turn of the same
  session marks a turn that completed genuinely as waiting for a human.

- `TailKeepsTheLast`. `split_for_condensation` clamps the tail to its last four
  messages and then moves its start past the tool results it begins with
  (`gateway: request_cleaner.py` 334-351): when the last four messages answer
  parallel calls the tail is empty, against the docstring at 296-297. If a
  condensation call then fails, only the system messages are sent.

Known from the models, and kept out of the properties by name:

- SQL client. `open` is called idempotent (`sql.py` 186), but a failed one leaks its
  connector (192), and two first callers leak a pool and a connector each. With
  overlapping transactions the client can be left bound to the connection of one
  that is over, so that every later call raises; a block can then also wait for
  the connection it holds. A close during a transaction is undone when the block
  puts the old pool back. `PostgresConnector.transaction` binds nothing
  (`providers/database.py` 250-255), although the protocol "matches the public
  interface of `GiuliaDbClient`" (19-21), whose example runs `db.execute` in the block
  (`sql.py` 346-350): with this provider such a statement is outside the transaction,
  on a second connection of the pool, and blocks that hold all connections wait for
  one more for ever. So `OwnStatementsInOwnTx` is about `GiuliaDbClient`, and
  `CallReturns` names the starved pool.
- Redis worker. `stop()` cancels the worker wherever it is (`backends.py` 209): in the
  read (244) an entry that was delivered is lost, in the acknowledgement (306) an entry
  that has run may stay pending. No fault is needed.
- Keys. In an outage the last answer that arrived decides, which need not be the last
  that was read: a yes that was read before a revocation may arrive after the no, and
  then lets the key in until the next answer.
- Requests. A user message with text and tool results becomes the text, then
  the results, so a split between the call and the text leaves results without
  their call at the start of the tail. An assistant message with both formats loses its
  `tool_calls` to the converted blocks (`gateway: request_cleaner.py` 164), while their
  results stay pending and are sent (146-175). `ResultsFollowCalls` exempts exactly
  these two. When a condensation call fails, the history is neither sent nor summarised
  (`gateway: app.py` 635-637), which `ConversationReachesTheModel` names.
  The top-level `system` counts towards the total and not towards the tail's
  budget (319). Summary and draft may be longer than the reserve.
- Names. With the prefix `giulia-`, the example of the gateway's README (57) and also a
  codename, requests are routed as they should be, but not read as they were written:
  the public name `giulia-4.8-leonardo-thinking` already starts with the prefix and is
  published as it is, reading it strips its first segment, and `4.8-opus-thinking` is of
  no adaptive family, so that the request carries a budget of 16384 tokens
  (`gateway: app.py` 61-65, 106-108), against the comment at 386-387.
  `ReadWithoutFamily` names these requests, and `RoutedAsNamed` leaves their thinking
  open. With the default prefix, which is empty, there are none. A prefix that holds the
  word of a family (`claude-`) is kept out by `NamesAreApart`, and one that does not end
  at a dash is outside the model. The `-medium` suffix is known to the adaptive table only.
- Registry. A row that only a heartbeat wrote can make every later registration
  raise; one failed re-registration skips its heartbeat, and the agent looks dead
  until the next; a ttl of 1 makes the loop's pause 0. A failed embedding empties
  the row's, which semantic search then passes over. An update that overlaps
  another loses it; a save that overlaps a delete undoes it (`raced`).
- Discovery. A bearer token that could not be fetched is cached blank for good. A
  404 leaves the expired entry, which the next outage brings back. A record
  without a usable address is cached for its ttl, so that all retries fail.
- Push. Before the first call, and after a restart, any token is accepted. The
  tool logs the status `delegated`, which `log_event` skips
  (`activity_log.py` 37-39): no row closes a push call that went out.
- Redis client. The reconnect closes the client under handlers that use it, and its
  `force_new` retires a client that a handler has only just created
  (`backends.py` 265-266): their commands raise, or connect the closed client again,
  which then nobody closes (`stray`). A `stop()` or reconnect whose aclose() raises
  leaves connections too, and a handler that waited for the lock during `stop()`
  creates a client after it.
- Delegation tool. Its `completed` row means that the target has the job; a lost
  answer is logged as an error although the job runs.

## What is proved

TLAPS checks the proofs for all values of the constants; the only assumptions
are the named ASSUMEs of the modules, which TLC evaluates in every run:

- names that must differ (the sentinel is no task, None is no task, pod or time,
  no row is no record, nobody is no peer, the worker is no accept handler) and bounds, sizes and limits that are
  naturals (`BoundsAreNaturals`, `SizesArePositive`, `LimitsAreNat`, `TTLIsPositive`, ...);
  finitely many tasks in `DbClient`, and messages that are messages (`KindsAreMessages`);
- three orders between durations, which are those of the code's numbers.
  `BeatMargin`: two calls fit between the heartbeat's interval and the time to
  live. `MarginCovers`: the token service answers, and the request reaches the
  callee's check, within the margin of 30 seconds that a token is refreshed before
  its end. `LifetimeCovers`: every lifetime exceeds the same two times. The first
  call has httpx's default timeouts of 5 seconds (`agents/a2a/a2a_agent_factory.py` 193);
  the second is a client whose timeout is 300 seconds (227), so there it is an
  assumption on the network and not one the code enforces: the theorem says what
  the margin is good for;
- names that can be read in one way only (`ReadInOneWay`, in MCGateway). Of the
  configuration, `NamesAreApart`: the prefix does not hold the word of a family that has
  a codename (a codename it may hold); a configured model uses no codename and not the
  older form, also behind the prefix if its published name begins with that, and begins
  with the prefix at most once; a version is two segments that are neither suffixes nor
  codenames. Of the requests, `NamesAreRead`: each names a configured model that is
  itself no variant, with a suffix of the tables, in one of `Forms`, or names what the
  gateway does not know. The shipped configuration fulfils it with the default prefix,
  and with `giulia-`, which is the prefix of the `gateway` run.

`DelegationMemory_proofs`. The inductive invariant says which jobs are where:
the tasks seen are exactly those queued, running or ended, each in one place;
`unfinished` is the length of the queue plus one for a busy worker; and while
`stop` waits, the jobs accepted before it are ended, running or ahead of the
sentinel. Without the middle part `DrainMeansDone` is not inductive (a count of
zero would say nothing of the queue); without the last one `StopDrains` is not.
`TypeCorrect`, `DrainIsComplete`, `StopIsGraceful` and `Refinement` follow.

`DelegationRedis_proofs`. A first invariant links cursor, pending entries and
workers: pending entries were delivered, a held entry is pending, nobody shares
one, and the number of orphans is at most that of the faults and of the stops that
cut a read or an acknowledgement. It gives
`OneHolder`, `LossesHaveACause` and, with the entry as the job, `Refinement`: an
entry above the cursor has not begun, and one that has left its worker does not
come back. A second invariant follows each task id: whoever is about to add an
entry of a task is alone or the task has failed before, and a status `failed` has
been recorded in `failedOnce`. It gives `ClaimIsExclusive` and
`DuplicatesAreBacked`.

`HumanApproval_proofs`. `Base` adds to the types that a PATCH handler about to
post a resume job has its decision in the table (without it neither the type of
`reinjected` nor `ToldIsOnRecord` is inductive). Three invariants stand on it:
`ToldInv` for `ToldIsTrue`, which needs that rows are only ever added;
`FlagInv` for `WaitingIsFlagged`, which carries the dispatch from the flag of the
session to the turn and from there to its row, and numbers the turns so that no
row of the running turn exists yet; `RaceInv` for `SecondDecisionsRace`, which
keeps for each handler the pending row it read as the latest: a decision that
handler inserts can only follow, with no opening in between, a decision that
came after that row.

`DbClient_proofs`. One part of the invariant holds through every incident: each
task's call has the shape of the step it is at, and each living pool has lent
exactly the connections that calls and transactions hold, every borrower counted
once (`LendingsAreHeld`; the lemma on how the set of borrowers of a pool changes
in a step is most of its proof). The other parts hold as long as the incidents
they name have not happened: an opening is alone, a connector or a pool is known
to the client or to the call that made it (`PoolsAreInHand`), the client is bound
to at most one transaction and only while that runs (`BindingsAreUndone`), and
what a block of `GiuliaDbClient` borrows comes from the stand-in of its own transaction
(`StatementsStayInTheirTx`). None of these four is inductive alone: whether a pool
is in hand depends on who may still put an old one back.

`Registry_proofs` has the three modules on one row of the registry.

- Heartbeat. `AliveWhileBeating` is not inductive: at each step of a round the
  invariant bounds how old the last heartbeat may be (asleep, the rest of the
  interval; registering, one call more; beating, two), and `BeatMargin` keeps
  the sum below the time to live.
- RegistryStore. A write under way that read the row as it is saves what it would
  save in one step; each of the other cases is one that `raced` records. With it
  the row and its serial twin go together (`OverlapsAreSerial`).
- Discovery. The entry of the cache and every answer on its way are dated: what an
  entry holds was in the registry at most the time of an answer before the entry
  was written, whatever order answers arrive in. `ResolutionsAreRecent` follows.
  `OutagesForgetNobody` is an action property: it needs that whoever was once
  resolved still has an entry, expired or not.

`Calls_proofs` has the calls between two agents.

- AgentAuth. The invariant counts, at each step of a flow, how much of the shared
  token's life is left and how much of the call is still to come, also for a
  token fetched by another flow meanwhile; `MarginCovers` closes the sum
  (`TokensOutlastCalls`). On the other side it follows a credential from the last
  moment it was good, through the look-up or the cache, to the admission
  (`AdmissionsAreRecent`).
- PushNotifications. A push exists only of a call that was sent; a call sent in this
  life has its token among the expected ones, because the token is registered
  before the request goes out and only a restart removes it (`PushesAreAccepted`).
- Submission. The rows of a job follow the tool's step: no outcome before it is over,
  at most one after, and `completed` only of an answer 202, which the target gives
  with the job in hand (`DeliveriesAreTrue`).

- RedisClient. A client is in one place: shared, or in the hand of the user that
  creates or closes it; a new one is fresh; and whatever is open in no place is stray.
  That two users never have the same client in hand is what keeps one from closing
  what another is about to share, and that the shared client stays while the lock is
  held is why a user whose own came second is given an open one. Each step moves one
  user, so one lemma (`OneMovesKeeps`) says what a step has to see to and the actions
  are checked against it. `SharedClientsAreOpen` and `ConnectionsAreAccountedFor`
  follow.

`Agents_proofs`. Every behaviour of the composition `MCAgents` is one of each of
the seven modules it composes (`AgentsImplementParts`, step by step: an action of one
part stutters in the others), so all their properties hold of it.

`Gateway_proofs` has the keys, the conversations and their composition.

- Keys. The invariant dates everything: a cache entry, and an answer under way, name
  a moment from which on the key was once valid (or invalid), and the history
  variables are never behind. `VerdictsAreRecent` adds the lifetime of an entry.
  `OutageIsFaithful` needs one more fact, that a key has an entry in one cache just when
  the last answer to arrive was yes, and in the other when it was no (`CachesFollow`):
  an answer fills one and empties the other. What a request that got no answer is told
  follows from it (`HeardLast`).
- Functions on conversations. What a fold over a conversation computes needs an
  induction over data, for which the library's theorems cannot be used. The module
  gets it from a principle stated for sets and not for predicates: `Least` (a set
  of naturals that has a member has a least one, from the library's facts on
  finite sets) and `Upward`. A fold is unrolled into the sequence of its values
  (`FoldExists`, `FoldSteps`), and a property of that sequence is carried up. So
  `CleanIsSound`: whatever conversation it is given, each tool message that
  `clean_messages` keeps answers a call that the last assistant message before it made,
  in the `tool_calls` it has now or in those that were overwritten (`lost`). So also `SplitIs`, from the facts that roles and tokens of a
  concatenation add up and from where `TailFrom` and `AfterResults` stop.
- Chat requests. The inductive invariant says what is sent at each step: the cleaned
  conversation, the one with summary and draft, or the system messages and the
  tail. `ConversationsAreComplete`, `PromptsFit` and `ResultsHaveCalls` follow from it
  for every conversation, limit and reserve. The first says that the last messages are
  sent whatever the calls do, and that a history which is left out was summarised by two
  finished calls or left out because one failed. `AnswersHaveRoom` is the part of
  `RoutedAsNamed` that needs no assumption on names: `max_tokens` exceeds the budget
  for thinking.
- Names. Reading undoes writing: the canonical name of a published name is the name it
  was published for (`ReadsBack`) or, where the prefix is also how that name begins under
  its codename, what is left of it behind the prefix; both have the same public name,
  which is its own (`PublicIs`, `BehindIs`), and so every form of a model and a suffix is
  read as one public name (`FormsReadBack`). This needs that replacing segments by
  codenames and back is the identity on names without codenames (`AliasedIs`), and where
  the prefix is put on and taken off (`PrefixOnAndOff`). Then the endings: a suffix of
  the table that ends such a name begins where the variant's suffix does (`Endings`,
  `FirstIsOfSuffix`), and it ends the name as it was written just when it ends the
  canonical one (`EndAlike`), so that written and canonical name have the same budget
  (`ThinkingOfForms`) but for names that are `ReadWithoutFamily`; a model whose own name
  begins with the prefix has no others (`OnlyWithoutFamily`). `ResolvesAsNamed` puts the two together: the configured variant
  if there is one, else the model without it. `NamesInvariance` keeps it from arrival
  to the router, and `RequestsAreRoutedAsNamed` is `RoutedAsNamed` for every
  configuration, prefix, suffix and form that `ReadInOneWay` admits. The literals are
  packed into one set, `Segments`, since the provers do not know of a literal that it is in
  STRING.
- Composition. `GatewayImplementsParts`, `GatewayTypeCorrect` and `GatewayIsSound`.

Only model-checked:

- the leads-to properties (`AcceptedIsRun`, `EntryIsSettled`, `TurnIsLogged`,
  `GateIsResumed`, `CallReturns`): liveness under fairness needs ENABLED, which is out
  of the prover's reach;
- the four disagreements that the runs with a violation show.

Only proved: the types of `DelegationMemory` and `HumanApproval` (`TypeCorrect` of their
proof modules), which no run lists.

## Plan

1. Done, with proofs of every safety property of the passing runs: delegation
   backends, their common specification and the client they share, human approvals, the SQL client, the
   registry's row, heartbeats and discovery, authentication, pushes, the
   delegation tool, gateway keys, conversations and names, and the two compositions.
2. Left to model: the pool of `DbClient` as an abstract specification that both
   providers implement.

## Not modelled

- Google Chat: calls to an external API, no state between them.
- Configuration, telemetry, artifacts, skills, logging, the layer check: start-up
  and pure I/O.
- Cryptography, agent facts and cards, credentials: pure functions of their input.
- `sync_session`, the registry's searches and tools, the gateway's responses
  endpoint, health and list of models: no state whose order of change matters.
