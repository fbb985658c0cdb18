# Decodex: TLA+ models and proofs

Decodex is a local agent service above Codex app-server processes: a Rust runtime
with a SQLite store, a desktop client and a command line. This directory holds TLA+
models of the parts of the runtime that have to stay correct across crashes, lost
answers and concurrent tasks, the TLC runs that check them on small instances, and
TLAPS proofs of the results that matter most.

## 1. The system

| Part | State it keeps | Operations | Talks to |
|---|---|---|---|
| Process generations (`database/src/process_generations.rs`) | one row per app-server process: state, intended boot, bound identity, reason of authority loss, death evidence, revision | prepare, bind, mark ready / stopping / death unknown, record death, project after a restart | written by the supervisor only |
| Process supervisor (`decodex-runtime/src/process_supervisor.rs`, `process_platform.rs`, `account_launch/process.rs`) | children it owns, supervised ids, pending non-creation proofs, exit witnesses | spawn, mark ready, run an operation on the child, terminate, reconcile every second, recover at start | store, kernel, conversations |
| Provider attempts (`database/src/provider_attempts.rs`) | one row per dispatch of a turn: state, revision, duplicate-risk predecessor | prepare, authorize, cancel, mark unknown, record evidence, project at start | conversations |
| Conversations (`decodex-runtime/src/conversation.rs`, `database/src/conversations.rs`) | turns, runtime sessions, a local phase per conversation | submit, dispatch, drive, finish, control (reconcile, recover, archive), interrupt | attempts, sessions, supervisor, app-server |
| Runtime sessions, continuations, routing | which native thread a turn continues, on which account | plan a continuation, fall back to a fresh session, route | conversations, accounts |
| Accounts (`decodex-runtime/src/account_service.rs`, `database/src/account_lifecycle.rs`, `credentials.rs`) | the account's row and revision, its credential record, a journal of operations, a receipt per command | enroll, refresh, reauthenticate, log out, recover, enable, reconcile at start | the token provider, clients, supervisor |
| Authentication projection (`shared_auth_coordinator.rs`, `auth_projection.rs`) | account epochs, the Codex auth file shared with other programs | project a credential, adopt one that was refreshed elsewhere | accounts, supervisor admission |
| Reset cards (`database/src/reset_cards.rs`, `account_launch/api_reset_card.rs`) | a ledger row per idempotency key; the worker; the clients' journal and panel | prepare, commit the send barrier, redeem, record, complete, fail before send | accounts, the provider, menu, panel, command line |
| Agent dispatch (`database/src/agent*.rs`, `agent_host.rs`) | leases, deliveries, agent processes | deliver, acknowledge, expire | conversations |
| Client protocol (`decodex-protocol/src/retained_session.rs`, `websocket.rs`) | subscriptions, revisions, the command in progress | publish, resynchronise, run one command at a time | every client |
| Desktop client, command line, publisher, radar, login, bridge | presentation or batch work | - | client protocol or network |

What makes these parts hard:

- **Concurrency.** Reconciliation, launches and terminations run as separate async
  tasks over shared locks. A task holds no lock across an await, so what it read
  before may be stale after.
- **Failure.** Every durable write is a blocking SQLite call (`database/src/lib.rs:310`).
  The future that waits for it can be dropped, and the write still commits. The service
  can die between any two steps while its children run on.
- **Partial knowledge.** A process id proves nothing once its process has been reaped.
  A process whose leader exited may still have helpers. A boot identity of another
  scheme cannot be compared.
- **Ordering.** Three tasks write one row, each at a revision it read earlier.

`PROJECT.json` lists each of these at its line under `hazards`, with the properties
that would fail if it went wrong.

## 2. Plan

Ordered by what would do most harm if wrong.

1. Process generations and the supervisor: **done** (section 3).
2. Turns and provider attempts: one dispatch per turn, what an unanswered dispatch
   may be concluded to have done, recovery by control commands (`ConversationTurns`):
   **modelled, model-checked, and its safety properties proved** for the turns after the
   first one, with the refinement of `ConversationPromise`. Left: the establishment of the
   first session and interruption.
3. Accounts: the credential lifecycle of one account against crashes, lost answers of
   the token provider, retries and manual recovery (`AccountService`): **modelled,
   model-checked, and its safety properties proved**, with the refinement of
   `AccountPromise`. Left: the shared auth file and its epochs
   against a launch in progress, several accounts at once, and the variants of logout and
   recovery that have no receipt.
4. Routing: which account a turn is routed to (which session it continues is in 2).
5. Reset cards: redeemed once under a lost answer, and what the clients remember
   (`ResetCardClients` over `ResetCards`): **modelled, model-checked, and its safety
   properties proved**, with the refinement of `RedemptionPromise`.
6. Agent dispatch: leases and deliveries.
7. Retained session and the publication actor: resynchronisation after a lost
   connection, refinement to a single ordered log.

Abstract specifications: the account slot (`AccountSlot`), a turn as a single effect with a
truthful verdict (`ConversationPromise`), a credential changed only by who holds the account
(`AccountPromise`) and an intent with one request for one card (`RedemptionPromise`), each with its refinement
checked and proved; an ordered publication log (with 7).

## 3. Modules

### `ProcessGenerationStore`
The durable table. A store method runs in one transaction, so it is an operator from
the row and the arguments to an outcome (`applied`, `replayed`, `rejected`) and the row
it leaves. `Update` is the one place a row changes, always by one revision. The exact
identity of a process (boot, pid, start time, group, session) is abstracted to "exact":
a generation has one process at most, so two exact identities of a row are equal.

### `ProcessSupervisor`
The runtime over that table, and the kernel below. Correspondence:

| Model | Code |
|---|---|
| `gen` | table `process_generations` |
| `supervised`, `pending`, `witness` | `supervised`, `pending_non_creation`, `observers` of the supervisor |
| `child` | the `OwnedGeneration` value: in the registry or moved into a task |
| `fence` | the `FencedProcess` receipt a caller holds |
| `spawner`, `Spawn*` | `spawn_fenced_inner`, `quarantine_failed_*`, then the caller's `mark_spawned_ready` |
| `term`, `Term*` | `terminate_exact`, `terminate_owned`, `begin_owned_shutdown` |
| `rec`, `todo`, `Rec*` | `reconcile_all`, `reconcile_projection`, `reconcile_restored_observer` |
| `Admitted` | `with_fenced_child` |
| `Start`, `StartServing` | `start`, `reconciliation_task` |
| `Crash`, `Reboot` | death of the service, restart of the host (external) |
| `leader`, `helpers`, `reused`, `strayed` | kernel facts the code can only observe through waits, witnesses and signal 0 (external) |

A step ends where the code awaits the store. A store call answers, fails before its
commit, or commits and loses the answer (`Replies`). A spawn or a termination may be
dropped at each of its awaits (`SpawnAbandon`, `TermCancel`); the reservation is
released by its destructor and the child goes to the reaper.

A caller initializes its child under the registry's lock and marks the row ready in a later
step (`Initialize`, `MarkSpawnedReady`), so that the child may have gone in between.

Left out: the account, receipt and epoch checks of the admission, which can only refuse
(part of `SpawnAbandon`); soft and hard signals are one `KillGroup`; the two kernel
witnesses (pidfd, kqueue) are one.

### `AccountSlot`
What the supervisor promises: a slot per account that one generation holds at a time,
takes before its process starts, and returns only when the process is over.
`ImplementsAccountSlot` instantiates it with: held = rows that quarantine the account,
spent = rows that exist, started = processes ever created, running = live groups.

### `ProcessSupervisorProofs`
The inductive invariant and the theorems.

### `SupervisorRefinementProofs`
The revisions of the table, and the refinement of `AccountSlot`, on top of that invariant.

### `SupervisorHandleProofs`
Who holds the one handle on a child, and the properties that rest on it.

### `ProviderAttemptStore`
The durable attempt rows: each transaction of `provider_attempts.rs` is an operator from a
row to an outcome and the row it leaves, at the next revision. Request digests and
correlation keys are left out: a turn has one attempt, so they identify nothing more.

### `ConversationTurns`
The turns of one ordinary conversation after its first one, over that store. Correspondence:

| Model | Code |
|---|---|
| `turn`, `bound` | table `turns`: status of each user turn, and the session it belongs to |
| `session` | the current `RuntimeSession`; `acked` is `has_acknowledged_turn`; a "fenced" session is a starting one whose thread may have been started |
| `att` | table `provider_attempts` |
| `gen`, `alive` | process generations as `ProcessSupervisor` promises them: one live process per account, a dead row is true |
| `world`, `sent` | what the app-server did with the input (external); never read by the code except through events and the saved thread |
| `local` | the `LocalTask` of the conversation |
| `op` | the command in progress, later its worker, with the revision and process it holds |
| `Submit` to `Reserve` | `submit_turn`, `admit_later_turn`, `admit_rehydrated_turn`, `reserve_user_turn` |
| `Plan*`, `Launch*`, `Resume*`, `FenceThread`, `BindThread` | `plan_existing_session`, `plan_rehydrated_turn`, `launch_rehydrated_process`, `resume_same_thread` and the fallback functions |
| `PrepareAttempt` to `StartFails` | `dispatch_turn` to `start_authorized_dispatch` |
| `TurnCompleted` to `RetireTurn` | `drive_turn`, `finish_positive_turn` |
| `Mark`, `Stop`, `Refuse*`, `RecoverBound`, `NotSubmitted` | the error paths (`ambiguous*`, `finalize_*`, `finish_native_non_submission`) |
| `Control*`, `Settle` | `control_thread` |
| `Shutdown`, `CloseRuntime`, `Restart` | `begin_shutdown`, `wait_for_shutdown`, `ProviderAttemptControl::start` |

Commands of a conversation are serialised by the owner task of `websocket.rs`, and a
running turn makes every other command bounce, so one driver is enough. It is not alone:
processes die, the provider finishes, deaths get recorded, and a shutdown clears the local
entry under a command that is still running. A control command is one step up to its
first write, since nothing else writes while it reads.

Left out: the establishment of the first session, interruption, questions and approvals
while a turn runs, history text, execution settings, native agents. Their refusals before a
write are part of `PlanRefused` and `PrepareRefused`. A reservation that is rejected and one
that breaks the integrity of the store end a command alike (`conversation.rs:2774`, 2779).

Four things the state graph shows, none of which breaks a property:
- a Recovery entry that has no open turn is cleared only by archiving or a restart;
- a "missing" entry over a settled turn lets the next submission in, whose
  `install_rehydrated_preparing` then fails, so that this turn is stranded as well;
- an attempt left prepared or authorized blocks control commands until a restart;
- a process launched by a command that outlives `wait_for_shutdown` is ended only with
  the service.

### `ConversationPromise`
What a conversation promises its user: turns in their order, an input worked on at most once,
while its turn is open and nothing else is worked on, and a verdict that is true when it is
given and final. A turn may be given up, once nothing works on its input any more.
`ImplementsConversationPromise` instantiates it with the verdict of a turn (its status; a
failed turn whose attempt ended unknown was given up) and the `world` of its input.

### `ConversationTurnsProofs`, `TurnOutcomeProofs`
Their inductive invariants and theorems: the authorization and the fencing of an attempt;
how a turn, its attempt and the provider's work agree when the turn is over; that an open turn
has a way out; and the refinement of `ConversationPromise`.

### `AccountLifecycleStore`
The durable account: registry row, credential record and operation journal. Each
transaction of `account_lifecycle.rs` and each statement of the credential table is an
operator from the database and the arguments to an outcome and the database it leaves.
A credential is its version, the operation that wrote it and its refresh token; the
fingerprint, the plan and the identity of the one account are left out.

### `AccountService`
The operations on that account. An operation has an effect outside the journal (the
provider spends the refresh token, or the credential record is written or deleted), and
the journal's phase says what may have happened. Correspondence:

| Model | Code |
|---|---|
| `db` | tables `accounts`, `account_credentials`, `account_operations` |
| `receipt` | `command_receipts`, with the claim a handler holds until `CLAIM_LIFETIME_MICROS` is over |
| `handler`, `lock` | handlers and tasks in progress, and the account's mutex |
| `valid`, `issued` | what the token provider would accept (external); the code learns it only from answers |
| `inUse` | a process generation of the account is not dead |
| `Submit`, `Retry`, `ClaimExpires` | `reserve_account_command`, and the same command again |
| `BeginEnroll`, `Create` | `install_credentials_command` |
| `BeginRefresh`, `BeginBackground`, `Pend`, `Provider`, `Resolve`, `Rotate` | `refresh_command`, `refresh_while_locked`: fence the operation as pending, call the provider, record the target, swap the credential |
| `BeginReauth`, `BeginLogout`, `Delete` | `reauthenticate_from_credential_file_command`, `logout_command`; both may take over a refresh in recovery |
| `BeginObserve`, `Reject`, `AcceptRecovery` | an observation refused, or served again, with the stored credential |
| `Apply`, `Commit`, `CompleteSuccess`, `Complete` | the end of an operation; the last journal step and the answer are one transaction |
| `Recover`, `ReconcileExact` | `recover_operation_command` |
| `Reconcile`, `ReconcileLogout`, `StartupEnds` | `reconcile_startup` |
| `Toggle`, `Launch`, `ProcessDies` | `set_account_enabled_command`, `process_credential` under the account's guard, the supervisor |
| `JournalFails`, `Calls`, `Crash` | a database call that fails, the service that stops (external) |

A handler holds the lock from its first write to its end, so a read and the write after it
are one action. A failing call of the credential table may have taken effect (`d \in {db,
r.db}`); a failing call of the journal has not, and the handler returns an error.

Left out: the shared auth file, plans and quota, deadlines of the provider call (part of
"ambiguous"), receipts of manual recovery, and the replay of an operation id by
`refresh_while_locked` (`account_service.rs:1849`): the modelled callers make a fresh id for
each request; those that repeat one are the account routes and the shared imports.

Two more things the state graph shows:
- the retry of an enrollment that restored a tombstone, committed by a startup before the
  retry, is answered `IdentityConflict`: the retry resolves the account as it is now
  (`account_service.rs:1339`). `ErrorIsTrue` therefore speaks of logout and
  reauthentication;
- a change of enablement between the applied delete and the commit of a logout leaves a
  tombstone whose predecessor is not found, so the identity cannot be enrolled again.

### `AccountPromise`
What the owner of an account is promised: an operation changes the credential only while it
holds the account, and only from the credential it found there; an operation that takes over
another finds what that one found. It is committed when its effect is in place, and cancelled,
on an account that is signed in, only when the credential is the one it found; then nothing
moves it any more. A process starts on a credential nobody holds, and an account is signed
out only when none runs. `ImplementsAccountPromise` instantiates it with the writer of the
stored credential, the stage of each journal row (`Stage`: all unsettled phases are open), the
writer of the credential it expects and the operation it took over. Tokens, revisions, claims
and receipts are not visible in it.

Of an account that is not signed in the promise says less: an enrollment may be cancelled with
its credential stored, which is the finding of `account_orphan`.

### `AccountServiceProofs`
Its inductive invariant and theorems.

### `TokenFenceProofs`
The same service over the journal `AccountServiceProofs` establishes: which tokens are good,
where they may be, and what a client may be told of a failure; and the refinement of
`AccountPromise`.

### `ResetCardLedger`
The rows of one account's reset-card operations, each statement and transaction of
`reset_cards.rs` an operator from the rows to the rows it leaves. Every statement names the
state it expects, so a repeated or late one changes nothing.

### `ResetCards`
The service over that ledger and the provider. Correspondence:

| Model | Code |
|---|---|
| `ops`, `latest` | table `reset_card_operations` and its last row |
| `cmd`, `Execute`, `Answer` | the command actor of `websocket.rs`: one command at a time |
| `receipts` | `PublicationState.receipts`, kept in memory |
| `CommandLookup`, `CommandSession`, `CommandInventory`, `CommandStore` | `prepare`: the durable replay, the session, the card, the row |
| `worker`, `WorkerPick` | `process_pending` |
| `WorkerSession`, `WorkerPreflight`, `WorkerBarrier`, `WorkerPost`, `WorkerRecord`, `WorkerComplete`, `GiveUp` | `process`: check, commit the send barrier, send, record the answer, complete, or fail before sending |
| `WorkerHolds`, `CommandHolds` | the account's lock inside `ApiSession` |
| `queue`, `conn` | requests on their way, and the connection a client reads its answer from |
| `post`, `spent` | requests at the provider and cards redeemed there (external) |
| `phase`, `BeginShutdown`, `Exit`, `Crash`, `Restart` | `begin_shutdown`, `wait_for_shutdown`, the host (external) |

A step ends where the code awaits: at each database call, each request and the lock. A
database call answers or fails and leaves the rows alone; its caller waits for it to end. A
request may be carried out at any time after it was sent, or never. A row whose answer is
already recorded is completed without a session, hence without the lock ("receipt").

Left out: the refusal of a key that comes back with another request, and of a command when
the receipts are full (`websocket.rs:2129`, 2163); neither has an effect.

### `ResetCardClients`
The clients, and the composition.

| Model | Code |
|---|---|
| `journal`, `menu`, `Menu*` | `reset_card_journal.rs`, and the dispatch lease of `ResetCardStore.swift` |
| `recovery`, `Recovery*` | `recoverPendingAttempts` and the `apply` that follows when its status comes back |
| `panel`, `Panel*` | `CardRow` of `shell_reset_cards.rs`, its request and its `load` |
| `Typed` | `execute_use` of the command line |
| `owner` | whose request a key names (for the properties) |

The account stays: the panel's dropping of the rows of an account that has vanished
(`shell_reset_cards.rs:376`) is left out.

A client that stops waiting does not take its request back: it may be executed later. A
request still in the queue when the service stops is refused without being executed.

Three things the state graph shows, none of which breaks a property:
- a second card asked for while another operation is active is refused by the store with
  `CapacityExhausted`, which is answered as an unknown acceptance. Nothing was stored, so
  the menu keeps the attempt and the panel stays blocked on a key that is never found;
- an attempt that was saved and never sent stays in the journal, for the same reason: a
  missing operation may still arrive, so `not_found` retires nothing;
- a row that is sent and has no answer holds the account for good: no step of the program
  concludes what became of it.

### `RedemptionPromise`
What the owner of the account is promised: an intent is taken only for a card that is still
there and while no other intent is open, sends one request at most, redeems a card nobody
redeemed, and is closed once, with the truth. `ImplementsRedemptionPromise` instantiates it
with the card and the state of an intent's row, as `operation_status` tells it, and the place
of its request. Whether a row is prepared or sent is not visible in it: both are open. The
service may forget everything but the ledger, and the promise does not notice.

### `ResetCardsProofs`
Its inductive invariants, the theorems and the refinement of `RedemptionPromise`.

## 4. Runs

| Run | Bounds | Shows |
|---|---|---|
| `supervisor_crash` | 2 generations, 1 account, 1 crash, no store faults | a recorded death is true, an account has one live process, an in-flight task is never projected as lost, an admitted operation runs on the caller's own live process, no signal reaches a stranger |
| `supervisor_faults` | 2 generations, 1 store fault, 1 crash, 2 reboots, another boot scheme first, macOS recovery on, no terminations | rows change only by the next revision and never leave dead, a spawn keeps its reservation, the supervisor refines `AccountSlot` |
| `supervisor_liveness` | 1 generation, 1 crash, 1 reboot, 1 fault, fair | exits the supervisor can prove are recorded, a reboot ends every quarantine, pending proofs are written |
| `supervisor_receipt` | 1 generation, no faults | expected violation, see below |
| `conversation_turns` | 3 turns, 1 crash or shutdown, 2 store faults, fair | input reaches a process at most once per turn, only under its own durable authorization, and never beside another running input; recorded outcomes are true; a closed turn agrees with its attempt and has no effect any more; an attempt changes by one revision and never after its end; a Ready conversation is settled; every open turn can be settled; the conversation refines `ConversationPromise`; a shutdown at any point of a turn ends |
| `conversation_kept_process` | 2 turns, no faults | expected violation, see below |
| `account_crash` | 3 operations, 1 handler, 3 tokens, 1 crash, 1 fault, 1 change of enablement | one unsettled operation and its takeover at most, correctly linked; a spent token is fenced and never presented again; an answer of success is true and stays true; no process under a tombstone; the service refines `AccountPromise`: the credential is changed only by the operation that holds the account, from what it found, and committed, cancelled or signed out only when that is so; settled operations are final |
| `account_liveness` | 2 operations, 2 handlers, 2 tokens, 1 crash, fair | errors are true when a command competes with its own retry; every handler ends; startup settles what a crash interrupted |
| `account_rejected_refresh`, `account_unanswered`, `account_orphan` | 1 or 2 operations | expected violations, see below |
| `reset_cards` | 2 keys, 1 card, 2 revisions, 1 mishap, 2 typed requests, fair | the service refines `RedemptionPromise`: an intent is taken only for a card that is there, sent at most once and closed with the truth, across crashes; cards are redeemed as confirmed and one at a time; the ledger tells the truth; a stop loses no answer; menu and panel remember what is not settled, and let go of what is; the ledger drains |

Why the bounds suffice: two generations are what a conflict over an account needs, and
generations are interchangeable (symmetry). One crash separates the two services a row
can meet; two reboots reach a boot of a third identity. One store fault covers every
call of every task failing or losing its answer, alone. `MaxRevision` bounds how late a
termination may be asked for, so that unknown and stopping cannot alternate for ever.
For the turns: a turn that leaves a session in each of its states, one that falls back to
a fresh session and one that follows it make three; two faults reach the failure of a write
and then of the write meant to clean up after it; one crash or shutdown meets every step.
For accounts: an enrollment, a refresh that is rejected and its takeover are three
operations, as are an enrollment, a logout and a restoration; one crash meets every step.
Two faults reach the failure of a call and of the call that would have recognised it
(`account_orphan`). Handlers exclude each other, so what a second one adds is a command
that waits with a stale revision and a claim that passes to a retry: `account_liveness`.
`ErrorIsTrue` is checked there; it also holds on the instance of `account_crash`. That
instance with a second fault (2.2 million states) satisfies the same
properties, and the proofs hold for any number of them.
For reset cards: two keys are what a conflict over an account needs, two typed requests make
a repeated key, two revisions a stale intent, and one mishap (a stop, a crash or a failing
write) meets every step. The same invariants hold without fairness for two cards (3 million
states). What needs more of anything is covered by the proofs.
No deadlock check: the models legitimately stop when every generation is dead, or every
turn is closed, and every bound is used.

**Fairness.** The reconciliation task ticks for as long as the service runs, starts each
pass with the pending proofs and visits every row, so a visit that is possible again and
again happens: strong fairness on `RecPending` and `RecRead`, weak on the steps of a visit.
A spawn in progress runs on, and the termination loop has a deadline: weak fairness.
The service manager restarts the service, and init or the reaper thread reaps. Nothing is
assumed of processes: they may run for ever, and helpers may outlive their leader.
In `ConversationTurns` a command and its worker run on, every call they wait for has a
deadline, the event loop looks at the shutdown flag on every turn (`conversation.rs:7101`)
and `wait_for_shutdown` is polled by the owner task: weak fairness on each. The provider
need not finish and processes need not exit.
In `AccountService` the account's mutex is a fair queue, so a handler whose step is possible
again and again takes it: strong fairness on the steps of each handler. Startup runs on:
weak fairness. Nothing is assumed of clients, claims and processes.
In `ResetCardClients` everything is weak: the worker's loop and the command actor run
(`api_reset_card.rs:180`, `websocket.rs`), a stop ends and the service is restarted, a
request is answered or times out (`client.rs:2880`), and the menu's recovery and the panel's
refresh come again. Nothing is assumed of the provider or of users. The liveness properties
say "again and again", since new requests may always come.

**Findings.** `supervisor_receipt` asks whether the current receipt of a ready, owned and
running child is admitted. It is not always: `owned_positive_exit` overwrites the owned
revision with that of the snapshot its pass read earlier, so a `mark_ready` in between
leaves the registry one revision behind, and the first operation on a new process is
refused with `AuthorityConflict` until the next pass. Safety is not affected.

`conversation_kept_process` asks whether a process that is kept after a native refusal of
the input, "until the user's explicit recovery action" (`conversation/non_submission.rs:92`),
leaves the user a command that is accepted. It does not: control commands require that the
session has no process that is not dead, submissions bounce off the Recovery entry, and the
remaining commands are for the first turn. The process exits by itself, or the service is
restarted.

`account_rejected_refresh`: "A rejected credential refresh does not require another login
before Sign out" (`openwiki/operations/accounts-and-routing.md:65`). It does, after a change
of enablement: `set_account_enabled_sync` moves the account's revision, the recovery keeps
its own, and a takeover requires them to agree, so logout and reauthentication are refused
and no manual recovery can settle the refresh.

`account_unanswered`: a manual recovery that proves nothing about an operation already in
recovery completes with the transition from recovery to itself and no code, which the
journal rejects as invalid input. The transaction fails, `StillRequiresRecovery` is never
delivered and the receipt stays reserved.

`account_orphan`: when the journal fails after a credential was created and the retry's
read of it fails too, the error judged is still `AlreadyExists`, the enrollment is
cancelled, and its credential stays in the table outside any account.

Each property has a mutant: a plausible change of one mapped definition that makes TLC
report it.

## 5. Proofs

The type invariants are proved and not checked by a run: each is part of an inductive
invariant below.

`ProcessSupervisorProofs` holds for any set of generations and accounts, any boot
schemes and any bounds, from two assumptions: `AccountOf` is total on the generations,
and `NoGeneration` is not one.

The invariant `IInv` is the conjunction of

- `TypeOK`;
- `Lifetimes`: what the row, the creation count and the kernel state say together.
  A generation without a row has no process, a leader is alive only in the boot its row
  names, a created process stays within one creation;
- `TaskKnowledge`: what a task in progress still knows when it writes. A spawn that
  reached "spawn" has a row it prepared itself and nothing was created yet; a
  termination that is about to record death has reaped the leader and seen an empty group;
- `SnapshotKnowledge`: the evidence the reconciler carries to its write is true already
  and, since nothing revives a process of a generation, still true when it is written;
- `OneHolder`: at most one row of an account quarantines it.

`TruthfulDeath` is not inductive alone: a death is written several awaits after it was
observed, so the argument needs what each task knew (`TaskKnowledge`,
`SnapshotKnowledge`) and that a group, once empty, cannot come back (`Lifetimes`).
`OneProcessPerAccount` follows from `OneHolder` with "a live process has a quarantining
row", which is `TruthfulDeath` seen from the process.

Theorems: `Invariance`, `TypeCorrect`, `DeathIsTruthful`, `AccountIsExclusive`,
`FenceIsSpentOnce`.

`SupervisorRefinementProofs` adds two theorems. `RevisionsAreFenced`: every transaction of
the store moves its row by one revision, and by none from death (`TransactionsStep`); the
only row that starts at a revision of its own is a new one. `SlotIsImplemented`: a step that
records no death and creates nothing is an end of processes or a stutter (`EndStep`), one
that may record a death returns the slot of a generation of which nothing runs (`DeathStep`,
from `Lifetimes` after the step), the applied preparation takes a slot that `OneHolder` says
is free, and the spawn happens under it, once (`TaskKnowledge`).

`SupervisorHandleProofs` proves the four remaining invariants of the supervisor from a second
inductive invariant, `HInv`, kept beside `IInv`:

- `Custody`: the handle on a child is where its task says it is (the spawn's, the
  termination's or the registry's), and until the row is dead the reservation covers it and
  every spawn that has not returned;
- `LeaderHeld`: a handle not known to have exited keeps its leader unreaped, so that its
  number is not reused, and a leader that is there belongs to a row of this boot that is not
  dead;
- `RowTells`: a receipt has a bound row, and a row marked by a restart has no handle and no
  spawn about to make one;
- `RecHandled`: what the reconciler's snapshot said of this is still true when it acts.

`Custody` is what ties the four together: a generation out of the reservation set is unheld,
so the reconciler marks the right rows (`RestartFindsNoHandle`), a bind finds its reservation
(`ReservationCoversSpawn`), and whoever signals or admits has the handle and therefore the
leader (`SignalsStayInGroup`, `ReceiptIsExact`). A step acts on one generation (`OnlyAt`) and
takes from no row what a waiting reconciler knows of it (`Calm`), so each action is checked at
its own generation only (`StepKeeps`).

`ConversationTurnsProofs` holds for any number of turns, crashes and store faults, from
the assumption that the bounds are natural numbers. Its invariant `IInv` is `TypeOK` with
`AbsentIsUntouched` (a turn that was never reserved has no attempt and no input) and
`DriverKnowledge` (the driver before its attempt owns a reserved turn without one; at
"authorize" the row is prepared, at "start" authorized, each for the process the driver
holds, and nothing was sent). `SendIsAuthorized` needs it because the authorization is read
one await before the input is handed over: nothing else writes the row while the driver
runs, and a restart takes the driver away. `AttemptIsFenced` follows from one lemma per
transaction (`TransactionShape`) and, for the preparation, from the row being absent.

Theorems: `TurnInvariance`, `TurnTypeCorrect`, `SendsAreAuthorized`, `AttemptsAreFenced`.

`TurnOutcomeProofs` proves the five remaining invariants, `SendIsAlone` and the refinement.
Four of the invariants and `SendIsAlone` (which the refinement implies, and which no run
checks on its own) come from a second inductive invariant, `OutcomeInv`, kept beside `IInv`:

- `Processes`: a running process has a row that is not dead, a row has a reserved turn;
- `Effects`: what an attempt records agrees with what became of the input, and an input that
  is worked on has its process running;
- `Closings`: how a closed turn stands with its attempt, the attempt's generation and the
  input (`ClosedWell`);
- `OneOpen`: at most one turn is open, and it belongs to the current session;
- `OpKnows`, `LocalKnows`: what the driver's place in its command tells of its turn, and that
  a conversation is Ready only between commands with no turn open.

Nine actions close a turn, each trusting something else: the evidence of
the attempt, a proof that nothing was sent, or a dead process. `ClosedWell` is what they have
in common, and `OpKnows` is what the driver's refusals rely on without reading it again.
`OneOpen` holds because a fallback takes its turn into the new session in one transaction, and
because a Ready submission, which reads no turn, starts where `LocalKnows` says that none is
open. The proof splits a step in two: what it does to the durable state and the world is one
of a dozen shapes (`ClosingStep`, `AttemptWritten`, `RowChanged` and others), and what the
driver knows after it follows from where it goes (`DriverGoesOn`, `DriverForgets`,
`CommandEnds`, `DriverWaits`).

`OpenTurnHasAWayOut` is the opposite of the others: it says what must be possible. It is
stated without ENABLED: with the service up, no command under way and the account's processes
dead, the conversation lets a control command in, and the open turn is one that command
finishes by its evidence, reads in the thread, gives up or fails. Its invariant `WayOutInv` says where a command on its way
may be: `PathKnows` (which session, process and local entry each step has; a command that
came to rest left the entry resting), `HasRow` (an attempt's generation has a row),
`TriedInThread` (an open turn that was tried is in a bound session), `InOrder` and that the
first turn is completed. One lemma for each stretch of a command (`SubmissionPath` to
`WayOutPath`) shows what a step leaves for the next, and `PathStep` joins them.

`PromiseIsKept`: by the shapes of a step, one that reserves a turn opens the next
one (`InOrder`, `OneOpen`), a submission begins an input nothing runs beside
(`ReserveKeepsPromise`, `SendKeepsPromise`), what the provider or the death of a process does
is an end, and each closing gives a verdict `ClosedWell` and `Effects` show justified
(`CloseKeepsPromise`). All other steps are stutters, which needs that the attempt of a
closed turn does not move (`VerdictsKept`).

Theorems: `OutcomeInvariance`, `ClosedTurnsHaveNoEffect`, `RecordedOutcomesAreTrue`,
`TurnsAgreeWithAttempts`, `ReadyIsSettled`, `SendsAreAlone`, `WayOutInvariance`,
`OpenTurnsHaveAWayOut`, `PromiseIsKept`.

`AccountServiceProofs` holds for any number of operations, handlers, tokens, crashes, faults
and changes of enablement, from two assumptions: `NoOperation` and `Free` are not an operation
and a handler, and the bounds are natural numbers. Its invariant `IInv` is `TypeOK`,
`TombstoneHasNoProcess`, `AnswerIsTrue` and

- `Journal`: `OneUnsettledOperation` and `TakeoverKeepsItsRecovery`, and that a superseded
  row is in recovery. Each transaction keeps it by a lemma of its own, as long as the row
  it moves is not held by a takeover;
- `Busy`: the handler that works is the one that holds the lock, and what it knows of
  its operation (`AtPhase`). A refresh that waits for the provider is still pending, and one
  that is about to write is not in recovery. This is what rules out that a late
  step moves a row that a takeover has come to hold: a takeover needs the recovery phase.

`AnswersTrue` follows because the answer is written with the journal's step and a settled
row never moves (`SettledStays`, from the same lemmas). `TombstoneUnused` needs that a
launch is admitted only without unsettled operations and that a logout commits only when
nothing is in use.

Theorems: `Invariance`, `TypeCorrect`, `OneUnsettled`, `TakeoverLinked`, `AnswersTrue`,
`TombstoneUnused`, `SettledStays`.

`TokenFenceProofs` goes on from `IInv`, under the same assumptions. `SpentTokenIsFenced` alone
is not inductive: a recovery may be cancelled, and then nothing says whether its refresh was
the one that spent the token. Its invariant `TInv` is

- `Safe(db)`, of a database whatever step has just left it: a spent credential has a
  culprit, a refresh that is pending or in recovery for another reason than a rejection
  (`Fenced`, `Guilty`); what an unsettled operation is to install is a good token
  (`TargetsValid`); the token of a login is nowhere before its operation is prepared
  (`LoginsFresh`); nothing holds a token not yet issued (`Below`); an account without a row
  has committed nothing (`RowFirst`);
- `ReceiptTokens` and `HandlerTokens`: tokens are issued once, and a handler that carries a
  command works on the receipt of that command;
- `Presumes`: what each step of a handler takes for granted, for instance that a
  handler at the provider works on a culprit and holds a good token, and that one that was
  refused or told that nothing changed still does.

Each transaction keeps `Safe` by a lemma of its own. A transition of the journal does when it
is `Harmless`: it leaves the culprit a culprit, or ends it with its effect in place or with the
credential shown good. A handler that is about to prepare finds no other unsettled operation,
hence no culprit, hence a good token (`PreparedAlone`): this is why a spent token is never
presented. `ErrorsTrue` is shown step by step from the same invariant: the handler that
answers an error has an operation that is not committed (`Excused`), because of what its step
presumes, or because the transaction refused the commit (`CompleteStays`).

`CredentialsKeepTheirPromise` needs that a step writes, cancels or commits on what is still so
although it read it a step, a crash or another handler's claim ago. Its invariant `AInv` adds

- `Form`: an operation installs its own credential, an enrollment is open only while the
  account is not signed in and finds no credential, and a refresh that has nothing to install
  yet has changed nothing (`Rowed`); the operation of a command is of the command's kind
  (`Fits`);
- `Ready`: a handler that is about to create, delete or rotate works on an operation of that
  kind, and rotates what the operation found; and what a process or an observation started has
  no receipt, so that no retry works on it.

Each transaction of the journal and the credential store is shown to be one step from a
database to the next (`Begins`, `Changes`, `Commits`, `Cancels`, or `Stays` where the promise
sees nothing), and `LawfulKept` maps those to the promise. The hard ones are the cancellations:
`CanCancel` is what each place that cancels has to show, that the credential is still the one
found and that no takeover holds the recovery. An operation held by a takeover never moves
because all others refuse it, and the only operation beside a holder is the recovery it holds
(`OthersAreHeld`).

`SettledIsFinal` is stated by `SettledStays` for whole rows; the run checks it by stages, as
part of the refinement.

Theorems: `FenceInvariance`, `SpentTokensFenced`, `PresentedTokensValid`, `ErrorsTrue`,
`PromiseInvariance`, `CredentialsKeepTheirPromise`.

`ResetCardsProofs` holds for any keys, cards, revisions and numbers of mishaps, from three
assumptions: `NoKey` and `NoCard` are no key and no card, and the bounds are natural numbers.
Its invariant `IInv` is `TypeOK` and

- `Ledger`: what a row, its request and the cards say together (`RowKnows`), and that one
  row holds the account. `LedgerStep` proves it once for a statement that moves a row;
- `WorkerKnows`: the worker before the barrier is at a prepared row, behind it at a sent one
  without an answer, and before the request nothing was sent; from the check on, the row's
  revision is the account's. The lock rules out the steps that would change it;
- `Requests`: a key of the menu or the panel is on its way once at most, and as long as it is
  on its way the ledger does not know it and its client has no answer;
- `Clients`: `UnsettledIsRemembered` and `PanelKnowsItsRequest`, with what makes them
  inductive: who owns the keys in the journal, in the lease and in the panel, and that a
  status carried by the recovery is final and stays so.

A rejection may only be forgotten because of `Requests`: a key with an answer is no longer on
its way, and a rejected one has no row. `OneCardIsAtStake` joins the uniqueness of the active
row with "a request in flight has a row that is sent".

`RedemptionsKeepTheirPromise` needs more: that the card of an intent is still there, when it
is taken and when it is sent, although the inventory was read a step or a crash earlier.
`CardInv` is what makes it so. `LocksApart`: a command that has the account's session meets no
worker between its checks and its answer. `ChosenCardIsThere`: a card chosen from the
inventory can meanwhile be redeemed only by a request in flight, and the row of that request,
which has no answer and cannot get one while the command has the session, still holds the
account, so that the store refuses the new intent. `OpenCardIsThere`: once taken, no other
intent is open that could redeem the card. With the session ended before the store
(`CommandHoldsForInventory`) an intent for a card that is gone gets into the ledger, and no
other property notices. A step is then one of four (`RowStep`): it takes an intent, moves its
row, sends its request or lets it arrive; all others change nothing the promise sees.

Theorems: `ResetCardsTypeCorrect`, `SentAtMostOnce`, `OneCardIsAtStake`, `OutcomesAreTrue`,
`SentWithConfirmedRevision`, `StopsLoseNothing`, `MenuRemembers`, `PanelRemembers`,
`RedemptionsKeepTheirPromise`.

Only model-checked: the liveness properties, since fairness is outside the prover. They are
`OwnedExitSettles`, `WitnessedExitSettles`, `RebootEndsQuarantine` and
`PendingNonCreationSettles` of the supervisor, `ShutdownDrains` of `ConversationTurns`,
`StartupSettles` and `HandlersEnd` of `AccountService`, `LedgerDrains` and `ClientsLetGo` of
the reset cards. Every other property of a passing run has its theorem.

## 6. Not modelled

The parts 4, 6 and 7 of the plan; of part 2, the establishment of the first session,
interruption and what happens inside a running turn; of part 3, the shared auth file
(written by other programs too), account epochs, plans and quota, and several accounts at
once: operations of different accounts share only the order in which startup visits them;
of part 5, several accounts (they share only the worker's pass), a journal that is corrupt,
inventory and quota as they are displayed, and `checkPendingStatus`, which the app never calls;
the window between the two locks of `OwnedGenerationRegistry::take` and `with_current`;
wire encoding (`decodex-codex`); user interfaces, the publisher, radar, login and bridge
tools, which keep no state that other parts rely on.

## 7. Running

    tlc -workers 2 -config SupervisorCrash.cfg MCProcessSupervisor
    tlc -workers 2 -config Turns.cfg MCConversationTurns
    tlc -workers 2 -config AccountCrash.cfg MCAccountService
    tlc -workers 2 -config ResetCards.cfg MCResetCards
    tlapm ProcessSupervisorProofs.tla
    tlapm SupervisorRefinementProofs.tla
    tlapm SupervisorHandleProofs.tla
    tlapm ConversationTurnsProofs.tla
    tlapm TurnOutcomeProofs.tla
    tlapm AccountServiceProofs.tla
    tlapm TokenFenceProofs.tla
    tlapm ResetCardsProofs.tla
