# Houston: a TLA+ verification project

Houston runs coding agents (Claude Code, Codex and others) in terminal panes.
A daemon (`core/houston-core`) owns the panes' PTYs and a SQLite database; a
desktop shell (`src-tauri`) and a web UI (`ui`) are its clients; agents talk
to it over HTTP and MCP and start and prompt other agents ("children").

The project models the parts of the daemon where several threads, processes,
crashes and late answers meet, checks them with TLC on small instances and
proves the most important results with TLAPS for every instance.

## Inventory

| part | state | operations | hard because |
|---|---|---|---|
| instruction queue (`daemon/instruction_queue.rs`, `db/instructions.rs`) | table `prompt_intents`; in memory: reservations `instruction_writes`, wake threads, `prompt_awaiting_hook` | accept, cancel, resume, dispatch (interrupt, paste, Enter), adopt, lifecycle events, recovery | locks released around terminal writes; crash between write and receipt; hooks and receipts in any order |
| build slot (`build_slot.rs`, part of `daemon/merge_queue_runner.rs`) | the slot and its lease; the loop of `hs-pane heavy` | take, drop, acquire, renew, release | lost and slow calls, lease expiry, a restarted daemon |
| delegations, inbox (`orchestrate.rs`, `mcp_orchestration.rs`, parts of `daemon.rs`) | delegation rows with state and round, staged results, inbox rows | spawn, prompt, hand-back, wait, cleanup | events of a round arrive after the next began |
| sessions (`daemon.rs`, `spawn.rs`, `session_isolation.rs`) | live panes, stdin writers, statuses, paste holds | spawn, respawn, close, exit, write | exit handling races everything else |
| hook drops (`hook_drop.rs`, `hook_state.rs`, `agent_events.rs`) | drop directory, per-pane state | scan, claim, apply | lost watch events, duplicates, order |
| child inputs (`daemon/child_inputs.rs`, `db/child_inputs.rs`, parts of `daemon.rs` and `agent_events.rs`) | episodes in memory; table `child_input_requests`: asks with an owner and a denial claim | open, deny, reply, escalate, dismiss, intervene, settle | provider, memory and table each have a picture of the prompts; a key is typed later than it is admitted |
| merge queue (`merge_queue*.rs`, `daemon/merge_queue*.rs`) | entries, dependencies, facts, holds | enqueue, verify, land, hand off | stale reads of GitHub, crash between merge and removal |
| frame queue and pane stream (`scrollback.rs`, `frame_queue.rs`, parts of `server.rs`, `ui/src/ws.ts`, `TerminalPane.tsx`) | the ring, a bounded tap per client and pane, the attach set, the pane's cursor | offer, drain, attach, snapshot, hide, reconnect | drops, merges and cut-offs under one budget; an attach copies the ring while output goes on |
| singleton, hand-off (`lock.rs`, `handoff.rs`, `adoption.rs`, `supervisor.rs`) | lock file, transferred PTYs | start, hand off, adopt | two daemons at once |
| routines, Night shift, pull requests, worktrees, remote, Slack, transfer, usage | schedules, caches | timers, network and file I/O | mostly I/O and policy |
| desktop shell, UI | windows, watchdog | start and probe the daemon | the watchdog's timeouts |

How they interact: a parent's MCP call accepts an instruction (a row) and
dispatches it or wakes the dispatcher; the dispatcher writes through the
session's stdin writer; the agent's hooks come back through hook drops to
`apply_agent_event`, which advances the delegation, the queue's lifecycle and
the inbox; a session's exit runs `finish_session`, which settles all of them.
The merge queue, Night shift and `hs-pane heavy` share the build slot.

What makes each part correct: the queue types every instruction at most once,
in order, and says "delivered" only of what was typed; the slot serves one
build; a delegation's result belongs to the round that asked; hook drops lose
and repeat nothing; an answer goes to the question it was given for; a landed
head is the verified head; a client that misses output is told where; one
daemon owns a channel.

## Modules

| module | models |
|---|---|
| `InstructionQueue` | the queue of one pane with everything that touches it |
| `MCInstructionQueue` | the sets its runs share |
| `InstructionQueueProofs` | its theorems: what reaches the terminal, in which order |
| `InstructionTurnsProofs` | its theorems: turns, restarts, limits, request numbers, the end of a pane |
| `InstructionRoundsProofs` | its theorems: the rounds of a child, starts and completion, the awaiting mark |
| `BuildSlot` | the slot, builds inside the daemon, `hs-pane heavy` processes |
| `MCBuildSlot` | two interchangeable processes |
| `BuildSlotProofs` | its theorems |
| `PaneView` | what a terminal pane promises (abstract) |
| `PaneStream` | a session's output from the PTY to one pane, shown to implement `PaneView` |
| `MergeQueue` | the merge queue of one workspace, with GitHub |
| `ChildInputs` | the asks of one child and who answers them |
| `PaneStreamProofs`, `MergeQueueProofs`, `ChildInputsProofs` | their theorems |
| `CommonLemmas` | facts about numbers, finite sets and sequences the proofs share |

`PaneStream`, `MergeQueue` and `ChildInputs` take their instances from the cfg
alone.

### InstructionQueue

State: `rows` is the table (state, mode, the `touched` write-ahead mark,
adoption, completion, request number, restart flags); `write` and `job` are the
one reservation of the pane and its job in the stdin writer; `wake` and
`callers` are the threads that may dispatch; `session`, `delegation`,
`awaiting`, `lastPrompt`, `hook`, `exiting` are what the daemon knows of the
pane. Only `rows` and `delegation` survive `Crash`. `typed` is a history of what
reached the terminal; `disturbed` and `hook.seen` count against the bounds.

An action is one critical section under the cleanup and dispatch locks. The
code releases them while the stdin job runs and during the pause before Enter,
so a dispatch is a chain of actions (claim and enqueue, the writer, the
continuation with the receipt, the pause, Enter, its receipt) between which
every other action may happen. A hook event is applied in the code's order:
the agent's status, the delegation, then the queue's lifecycle.

What is abstracted or left out:

- bodies, previews, context and scope validation, idempotency receipts (a retry
  returns the row it finds), notices and broadcasts, inbox rows, errors of the
  database and of spawning a thread;
- one target pane and one origin: every table and map of the queue is keyed by
  target, and the limit of active rows counts per target and origin;
- delegation states failed, cancelled and unknown (no step of the queue tells
  them apart), and a turn that was interrupted, which the queue treats like one
  that ended;
- a session id is never live again after its exit: a respawned pane gets a new
  one, so rows held for an ended pane stay held;
- hooks of one pane are applied one at a time, as the lock around
  `hook_drop_states` makes them; hand-backs that name a request come over MCP
  and interleave.

### BuildSlot

`slot` is `merge_queue_slot`: free, a build of the daemon, or a lease with its
expiry. `cli` holds the place of each process in `run_with`, its two clocks
(`asked`, `renewed`) and the answer on its way to it; `requests` are calls not
handled yet, each with the time it was made, so that a call its process has
given up on may still reach the daemon and its answer never reaches a later
call. Time is discrete and shared; a process does what is due before the clock
moves on (its sleep of 50 ms is far below the 15 s units). `Leave` is a first
call that failed, the end after a release, or the pane's death with the command
in it. Not modelled: a process that is killed alone and leaves its command
running, and the moment between Night shift's look at free memory and its lock.

### PaneView and PaneStream

`PaneView` is the promise: a pane shows one unbroken run of the session's bytes,
which grows at its end, is cleared, or is replaced by one that ends no earlier.

`PaneStream` is how it is kept. Output is a count of bytes and a frame is the
interval it carries, so what is lost or repeated is arithmetic. `ring` is the
scrollback, `fresh` the chunk that is in the ring and not yet offered to the
tap (two locks in the code), `tap` is `FrameTap`'s state, `visible`, `held`,
`wake` and `attempts` belong to the connection's loop, `landing` is the attach
that copies the ring off the loop. `inbox` and `wire` are the two directions of
the socket; `pane` holds the pane's cursor, its held frames and its attempt
number; `screen` is what is painted. Faults: the pane is hidden, the connection
is lost, the emulator gives no snapshot, the pane refuses one, an attach fails,
the pane's write queue overflows.

The refinement is `PaneShowsOneRun` (`INSTANCE PaneView WITH` the ring's total
and the painted interval). Two ways in which the code does let a hole through
are recorded in `faults` where they happen (`Leaks`, see the observations). From
then on the mapping takes the painted bytes from first to last for the run; in
every other behaviour a hole on the screen is no view of `PaneView` at all, so
the property says that there is no third way.

Left out: session removal and dead sessions, generation changes, wildcard taps
of observers, other sessions of the same connection, keyboard input held during
an attach, the inside of the terminal's write queue.

### MergeQueue

`rows` is `merge_queue_entries`, `run` the runner between two steps, `land` the
landing under the landing lock, `reader` the read pass with the row it loaded
and the answer it has not recorded, `gh` and `main` GitHub's pull requests and
base. A commit is a pair: what its author wrote and the version of the base it
sits on, so a rebase changes the second and a tested tree is such a pair.
`mode` says who merges: Houston by a pinned merge, GitHub's queue, or
auto-merge. `Order`, `Line` and `NextUp` translate the pure part
(`merge_queue.rs`). `Crash` ends runner, landing and reader at any step; only
`rows`, `paused` and GitHub survive. `Disturbances` names the twenty things that
may get in the way.

The build slot is not composed in: its promise to a verification is exclusion,
which `BuildHoldsSlot` shows, and a verification waits for it without reading
anything meanwhile.

Left out: retargeting, restacking and native stacks, `base_only`, the cache of
learnt refusals, queues without a command, changes of settings, the reviewer
gate, notes to the owner, other workspaces, the re-read of an entry ahead in a
user's Merge. The read and the write of an enqueue are one step.

### ChildInputs

Three pictures of the same prompts: `provider` (what is shown in the pane),
`episodes` with `status` (the daemon's memory), `asks` with `delegation` (its
tables). `hooks` are drops not applied, `hook` the one being applied and the
section it is at, since the code releases its locks between the status, the
asks and the delegation. `input` holds the flags of a session that mark an
operator's intervention, `stdin` the jobs of the writer, `unsent` the denials of
which nothing was written and whose call has yet to return. Faults: a failed
write, a replayed hook, the exit of the parent or of the child.

Left out: prompts whose identity the daemon makes up, Codex's automatic review,
ACP, the limit of open asks, restart and hand-off, a deliberate close, inbox
texts, failed turns, sub-agents.

## Runs

Disturbances are the things that get in the way of a dispatch: cancellations,
writes that fail before or after the first byte, holds, withheld wakes, a
closing or ended pane, a refusing daemon, a crash, a deferred first prompt. A
run names which of them it explores and how many one behaviour may contain.

| run | instance | shows |
|---|---|---|
| `IQDelivery` | 2 rows, queue and restart, a turn's hooks (1), all disturbances, any 2; 0.9 M states | `TypedAtMostOnce`, `DeliveredWasTyped`, `ResumableWasNeverTyped`, `CancelledStaysSilent`, `TypeOK` |
| `IQModes` | 2 rows in all three modes, 3 hooks, quiet settling, 1 failed write; 1.2 M | `TypedInOrder`, `OneOpen`, `RestartWaitsForIdle` |
| `IQRounds` | 2 rows, hooks with prompt identities, 3 hooks or hand-backs; 0.6 M | `RequestsIncrease`, `ReservedIsReachable`, `AwaitingHasRow`, `CompletedAfterFreshStart` |
| `IQDaemon` | a top-level pane, 3 rows, limits 1 and 2, all hook events, 1 disturbance; 0.9 M | `WithinLimits`, `DaemonInputSettles` |
| `IQServed` | under fairness, with cancels, failed writes and holds | `WokenQueueIsServed` |
| `IQLostWake` | under fairness | the violation of `WaitsOnlyUntilReady` |
| `BSLease` | 2 processes, lease 3, renewal 2, call 1, clock to 7, 1 restart; 0.5 M | `SafeWindow`, `StopsInTime`, `BuildHoldsSlot`, `TypeOK` |
| `PSStream` | under fairness; reads of 1 or 2 bytes, 5 bytes, a ring of 3, a tap of 2 frames or 3 bytes, any 2 kinds of fault; 0.5 M | `TapTiles`, `TapCounts`, `NoMergeAcrossGap`, `AttemptsAgree`, `PaneShowsOneRun` (the refinement), `CaughtUp`, `TypeOK` |
| `MQLand` | 2 pull requests, all 3 modes, any 1 of 20 disturbances; 0.5 M | `MergesWhatWasTested`, `DependencyFirst` (of what GitHub does not hold already), `NoWorkLost`, `TypeOK` |
| `MQSettle` | 2 pull requests, 2 modes, any 2 of 5 disturbances, under fairness; 0.1 M | `Settles` |
| `MQStaleRead` | no disturbance at all | the violation of `HoldsAreKnown` |
| `CIAsks` | 2 asks, 2 keys or faults; 0.4 M | `StateFollowsAsks`, `GoneParentOwnsNothing`, `DenialAccounted`, `ProviderAgrees`, `OperatorAnswersFirst`, `TypeOK` |

Two rows are enough for the order, supersession and hand-over properties, which
relate one instruction to the next; the third row of `IQDaemon` is there to be
pruned. Two disturbances reach every pair the code distinguishes (a crash after
a partial write, an exit after a cancel). `BSLease`'s clock passes a whole lease
and the slow call after it. `PSStream`'s ring and tap are smaller than the
output, so both overflow, and a replay is smaller than the ring, so it is cut.
Two pull requests give every dependency and every overtaking of one entry by
another. Two asks are the least in which one prompt is answered while another is
open.

Deadlock is not checked: each of the systems comes to rest (an idle queue, an
ended pane, all output shown, nothing to merge, no ask open).

Fairness of `InstructionQueue` (`FairSpec`): weak fairness of the daemon's own threads only, that is
dispatch, the writer, the continuations, the wake thread's exit, the remaining
steps of a hook, and the lifecycle of an exit. The operating system schedules
them and none waits on another's condition for ever. Callers, agents and
disturbances have none. `PaneStream` assumes that while
one of reader, loop, attach thread, socket and pane has a step to take, one is
taken: a peer that stops reading for ever
is a lost connection. `MergeQueue` assumes it of the runner, of a landing, of
the read pass, all of which are loops on timers of their own, and that GitHub
merges what it holds and can merge. Pushes, users and faults have none.

### What the violating runs show

- `IQLostWake`: a wake that arrives after a wake thread decided to leave and
  before it removed its mark is lost; the head then waits although its pane is
  idle, until something else wakes the queue.
- `MQStaleRead`: facts are stamped when they are recorded, so a read of GitHub
  asked for before a hand-off and recorded after it counts as one made after it;
  it says GitHub does not hold the entry, the queue parks it, and since its own
  hold is gone nothing cancels GitHub's.

Observations made while modelling, without a run of their own.

Instruction queue and build slot:

- an instruction cancelled between its Enter and the receipt is not adopted, the
  round does not advance, and the next instruction carries the same request
  number (`instruction_queue.rs:715`; `docs/user/orchestration.md:422` says
  "distinct request numbers");
- a restart whose interrupt was written is held when its pane ends though it is
  touched, and no resume accepts it (`instruction_queue.rs:620` and `:197`;
  `docs/internals/orchestration.md:624` says "Untouched instructions become
  held");
- `instruction_cancel` also cancels the uncertain row a dispatch is writing,
  where `protocol/protocol.md:181` says "inactive"; a child that names the next
  request while an unnumbered first prompt awaits its hook opens a round nobody
  asked for (`daemon.rs:22982`);
- a crash that finds the pane dead leaves Houston's delivered input open, as no
  exit is left to handle: `DaemonInputSettles` is checked and proved without a
  crash;
- while a child is `spawning` its round does not advance, so what is dispatched
  after a hand-back of the first prompt may carry that prompt's number again:
  `RequestsIncrease` excepts that state;
- a steer claimed after a prompt hook was remembered (`last_prompt_id`) and
  before it is applied to the delegation takes the new prompt for the one it was
  dispatched on; the second half of that hook adopts it, and a turn end without
  an identity completes it before the agent was seen to start it. A crash that
  forgets `last_prompt_id` does the same with a repeated prompt hook.
  `CompletedAfterFreshStart` is proved without both;
- a `NeedsInput` hook while a child's first prompt is being typed sets its
  delegation to `needs_input`, the prompt's own hook then bumps the round, and
  the reserved request number is behind it: `AwaitingHasRow` is stated of hooks
  without `NeedsInput`;
- `renewed` is stamped when the reply arrives (`build_slot.rs:114`) and the
  deadline is looked at between calls, so a command can run beside a build that
  took the lapsed slot, for two call timeouts at most, where
  `docs/user/orchestration.md:31` says "never"; `SafeWindow` and `StopsInTime`
  are the exact bounds. A verification takes the slot below the memory floor, as
  a test wants, where `docs/user/orchestration.md:28` says nothing does.

Pane stream:

- a gap that arrives while the pane waits for its attach reply is ignored; if
  the held frames then pass the cap the pane goes live on them and paints across
  the hole (`TerminalPane.tsx:1262`), and the reply that would mend it is
  ignored although the tap was pruned for it;
- the SGR reset before a cut replay counts as output, so the pane believes the
  replay starts earlier than it does (`TerminalPane.tsx:1217`).

Merge queue:

- a pause or a dequeue, or a crash, between the request of a hand-off and its
  record leaves GitHub holding an entry the queue does not know of; a pause
  during the confirmation parks the entry;
- a crash between the removal of a landed entry and the clearing of what depends
  on it (`merge_queue_runner.rs:1067`) leaves the dependent blocked until it is
  queued again;
- a command that changes while a verification runs keeps the old verification
  (`merge_queue.rs:553`); auto-merge may merge a new, unverified head before the
  next read; GitHub's gate alone hands off an entry whose dependency is blocked;
- the base may move between the last look and the pinned merge;
- an entry GitHub holds keeps its place at the front of the line whatever it
  depends on (`line`, `merge_queue.rs:534`), an enqueue replaces the dependency
  of an entry in place (`daemon/merge_queue.rs:298`), and a user's Merge looks
  only at whose turn it is (`merge_queue_runner.rs:785`): a held entry queued
  again behind a blocked one is landed before it. The attempt to prove
  `DependencyFirst` without its exception for held heads found this; it takes
  three disturbances, so the run with one did not.

Child inputs:

- a late replay of an answered prompt while another is open leaves an episode
  behind: the pane stays `needs_input` until the turn ends (`ProviderAgrees` is
  stated without replays);
- a denial, or a key of the parent, that was admitted before the writer types it
  may land on the prompt that is shown by then;
- an operator's key whose write fails takes back the intervention of a later
  key (`OperatorAnswersFirst` is stated without failed writes);
- a prompt opened in a delegation that is done cannot be escalated.

## Proofs

`InstructionQueueProofs` assumes only `ConstantsAssumption` (types of the
constants). The safety properties are not inductive: that a row was typed at
most once depends on what the one write in progress has done. `IInv` is
`TypeOK`, `RowInv` of every row (an unaccepted row is untouched and untyped; a
row that can be claimed has no key the claim would repeat; an uncertain row is
touched; keys are typed once; delivered rows are typed) and `WriteInv`, which
says for each stage of the write, and each state of its job, which keys the
claimed row has. From it:

- `TypeCorrect`, `Invariance`
- `AtMostOnce`: `[]TypedAtMostOnce`
- `ResumableIsUntyped`: `[]ResumableWasNeverTyped`
- `DeliveredIsTyped`: `[]DeliveredWasTyped`
- `InOrder`: `[]TypedInOrder`, from `OrderInv`: no row before the claimed one is
  pending, and whatever may be resumed is not passed. Most actions are `Quiet`
  (they make nothing pending and claim nothing), so one lemma serves them all.
- `CancelWins`: `CancelledStaysSilent`, an action property: a step hands a job to
  the writer only for a row in a state that a cancelled row never has again.

`InstructionTurnsProofs` adds to them. A step is an acceptance, a claim, the
delivery of a row or `Steady` (it accepts, prunes and delivers none, completes
some and may forget a reserved number); `TurnSteps` shows it of every action
once.

- `OneRuns`: `[]OneOpen`, from `OpenInv`: nothing before a delivered row waits
  (`DeliveredInOrder`), and what is open while a row is being written is in the
  snapshot the claim took and has been adopted (`Passed`), so the receipt of
  Enter completes all of it. `OneOpen` alone does not know what the write in
  progress will supersede.
- `RestartIsPatient`: `[]RestartWaitsForIdle`, from `ReadyInv`: the turn end
  that frees a restart is carried by the evidence of the write while its
  interrupt is typed, then by the row, then by the claim of its paste, and
  each of the three implies the history's `idle`.
- `LimitsHold`: `[]WithinLimits`; it is inductive with `TypeOK`, as a steady step
  makes no row active, and an acceptance at the limit prunes one.
- `RequestsReachable`: `[]ReservedIsReachable`, from the growth of the round
  (`RoundGrows`) and what a claim reserves.
- `DaemonInputIsSettled`: `[]DaemonInputSettles` under the hypothesis that the
  daemon does not crash (`"crash" \notin Disturbances`), without which it is
  false. Nothing is opened in a pane that has ended.

`InstructionRoundsProofs` is about a delegated child. `RoundSteps` sorts the
steps once more: a step claims, delivers, applies a hook, takes a hand-back, or
`Keeps` (it credits, that is adopts or completes, nothing, lets no further row
await its start, and leaves the numbers of those that do).

- `RequestsAreFresh`: `RequestsIncrease`, an action property. `RoundInv`: the
  number of a credited row is not past the round. A claim passes only credited
  rows (`HeadPasses`) and reserves the next number.
- `CompletesAfterStart`: `[]CompletedAfterFreshStart`, for modes without steer
  and without a crash; the observations show how each of the two breaks it. A row
  that `Awaits` its start was claimed on the prompt the pane is on, and while a
  prompt hook is half applied on one that the hook is `News` for (`Unstarted`).
  This is kept because the pane is `working` for as long as a prompt hook is
  applied, so nothing is pasted then. Only a row that was told of a start is
  credited (`CreditFresh`).
- `MarkHasItsRow`: `[]AwaitingHasRow`, for a child whose hooks ask for no input,
  crashes, steers and restarts included. `Reaches`: a row that is being written
  has a number no smaller than the round, and the mark has an owner. With the
  mark set nothing is being written, so the owner is the only row a prompt hook
  can adopt (`OwnerIsAdopted`), and it clears the mark; the round a hand-back
  opens of its own finds no write to leave behind.

`BuildSlotProofs` assumes `BuildSlotAssumption`. `SlotInv` adds to `TypeOK` that
clocks are in the past and calls no older than their timeout (`Clocks`), that
the deadline is kept (`Deadline`), that a running build holds the slot
(`Builds`), that only a process done with its command has a release under way
(`Releases`), and, while the daemon has not restarted, what every answer on its
way and every running command still owns (`Leases`). From it `SlotTypeCorrect`,
`LeaseIsSafe` (`SafeWindow`), `CommandStops` (`StopsInTime`) and
`BuildsHoldSlot` (`BuildHoldsSlot`), for any number of processes and any
timing parameters.

`PaneStreamProofs`: the module's assumptions on limits and chunk lengths.
`StreamInv` is the shape of every message and place (`Shapes`) and `TapInv`: what
the tap holds (queue, open gap, frame not yet cut) tiles the stream up to
`End`, the last byte it was offered, with its counters right and no frame after
an open gap; a hidden pane has an empty tap; an attach lands only for a visible
one. `End` is not what the session wrote: a chunk is in the ring before it is
offered.

- `TypeCorrect`, `TapAccounts` (`TapTiles`), `TapCounted` (`TapCounts`),
  `GapsKept` (`NoMergeAcrossGap`), for every limit of frames and bytes.
- `BothCount`: `AttemptsAgree`, from `Agreed`: the connection's count, the
  attaches in the socket and the one landing add up to what the pane sent.
- `OneRun`: `PaneShowsOneRun`, the refinement of `PaneView`, from `ViewInv`.
  - `Wired`: nothing sent is ahead of the ring; a reply covers every frame sent
    before it, because frames wait while an attach is under way (`held`), and
    replies come in the order of their attempts.
  - `Shown`: the screen ends at the pane's cursor, except after a full write
    queue, which is always followed by an attach; a hole on the screen means that
    one of the two leaks happened.
  - `Newest`: the answer to the attach the pane sent last ends no earlier than
    the screen and is a snapshot only if the pane waits for one. Older answers
    are refused by their attempt, which `Agreed` says the two ends count alike.

  `ViewInvStep` shows for each action that it keeps `ViewInv` and is a step of
  `PaneView` or leaves what the pane shows alone.

`MergeQueueProofs`: any finite set of pull requests, any modes and disturbances.
Nearly every step reworks the rows (`Reworked`: some leave, the rest lose a
dependency or a verification at most), so what that keeps is shown once. `MergeInv`
says that dependencies have no cycle (`Grounded`), that places differ (`Apart`),
that every verification recorded is of the rebased head and passed (`Backed`) and
what the landing in progress holds was (`LandTested`). The last two are needed
because a landing acts on what it read several steps ago.

- `TypeCorrect`, `MergesTested` (`MergesWhatWasTested`), `WorkKept`
  (`NoWorkLost`, an action property).
- `InTurn`: `DependencyFirst`. `Line` walks the order of the entries by a
  recursive function; `TurnIsFree` and `AllShut` are what holds after each of its
  steps.

`ChildInputsProofs`: `TypeInv` adds to `TypeOK` that keys and denials name asks of
the table, that a prompt has one ask at most and that a report's ask is a
question; without the count of asks the type is not inductive.

- `TypeCorrect`, `StateFollows` (`StateFollowsAsks`), `GoneParent`
  (`GoneParentOwnsNothing`).
- `Denials`: `DenialAccounted`, from `DenialInv`, which counts the jobs of the
  writer with those typed and those to be given back.
- `OperatorFirst`: `OperatorAnswersFirst`, from `OperatorInv`: while a key that
  took an ask over waits in the writer's queue, the intervention is still on or
  the ask can no longer be denied.
- `PicturesAgree`: `ProviderAgrees`, from `AgreeInv`: at any moment the provider
  shows what the daemon will track when the hooks on their way are applied in
  order (`Showing`), hooks open only prompts nobody has asked about
  (`FreshHooks`), and between two sections of a hook the pictures differ exactly
  by what that section is about to do (`Sections`).

`CommonLemmas` replaces the library's induction theorems, which take an operator
the provers cannot instantiate: `SetInduction` takes a set of numbers, and
`Iterates` gives the existence of a function defined by recursion, which is
what lets `Bytes` of a queue and the walk of `Line` be reasoned about.

Only model-checked: the liveness properties `WokenQueueIsServed`, `CaughtUp` and
`Settles`, which are out of the prover's reach and stay with TLC.

## Plan

1. Done: `InstructionQueue`, `BuildSlot`, their runs and proofs; `PaneView`,
   `PaneStream`, `MergeQueue`, `ChildInputs` and their runs.
2. Done: every safety invariant and action property of `InstructionQueue`,
   `BuildSlot`, `PaneStream`, `MergeQueue` and `ChildInputs`, and that
   `PaneStream` implements `PaneView`.
3. Candidates for a module: hook drops (order, no loss, no repetition), the
   inbox with its deliveries, daemon singleton and hand-off, the desktop
   watchdog, routines.

## Not modelled

Most of the repository by lines is not state that steps of several actors could
spoil: forges, worktrees, remote access, Slack and trackers, transfer, usage and
voice are network and file I/O with parsing; the protocol crate is message
types; `db.rs` is mostly statements, of which the modules take the ones their
components run, as part of the action that runs them; most of the UI shows the
daemon's state and keeps little of its own; Night shift and routines are policy
over wall-clock windows. The parts of a modelled component that are left out are
named with its module above, and `PROJECT.json` gives the status of each.
