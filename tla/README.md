# A TLA+ model of thetis.ai

thetis.ai is an agent host in Rust. One *gateway* process owns the store (redb), the web
surfaces, trunk and a fleet of *worker* processes, one per conversation; the two talk over a
socketpair. A worker runs the conversation's *session actor*, which runs *turns*: calls of the
agent, a WASM guest (`agents/agent-core`), whose imports the worker serves. Everything a turn
does is appended to the session's event log in the gateway's store, and the agent rebuilds its
context from that log, so a turn cut short can be carried on. The agent may edit the system it
runs on: each conversation has a branch, edits are built and swapped in by a pipeline, and a
branch reaches trunk by a merge the gateway gates.

This directory models the path a message takes (from the thread that submits it, through the
actor and the agent's loop, to the log, and what becomes of it when the user types more, presses
stop, or a process dies), and the services around it that are concurrent in their own right.

## Inventory

| Part | State | Operations | What is hard | Module |
|---|---|---|---|---|
| Session actor (`session.rs`) | channel, inbox, stop flag with a turn number, published speaker, running flag, deferred messages | submit, resume, cancel, cancel_turn_by, poll; one task per session | callers on other threads between every two steps; messages, nudges and stops that cross a turn's boundary | SessionActor, Conversation |
| Agent turn (`agent-core/src/lib.rs`, `compaction.rs`) | message list, pending nudges, sticky stop, the batch of calls | completion, tools, compaction | four kinds of checkpoint that read one inbox; a stop in the middle of a batch | AgentTurn |
| Host imports (`host_api.rs`, `runtime.rs`) | open streams, budget | poll_inbox, stream_open, stream_next, trap after the grace window | a stop racing an answer in hand | AgentTurn |
| Turn recovery (`store.rs`, `workers.rs`, `control.rs`) | log, four kv flags per session | reconcile, resume, restart, supervise | crash between any two transactions; repair racing a live worker | TurnRecovery |
| Store (`store.rs`, `persist.rs`) | sessions, events, kv, sub-agent and branch rows | append, kv, reconcile | every write is a transaction of its own | TurnRecovery, in part |
| Worker fleet (`workers.rs`) | router entry, readiness, stopping flags, death ledger | materialize, supervise, reap, stop, restart | a worker and its replacement; requested and real deaths | WorkerFleet |
| IPC (`ipc.rs`) | pending calls, writer lock, closed flag | call, read loop, close | a call registered while the peer dies; half a frame | Ipc |
| Sub-agents (`subagents.rs`, `delegation.rs`) | a row per child, a bell | spawn, wait, settle, cancel, sweep | a cancel racing a settle; children of a dead worker | Delegation |
| Builds (`pipeline.rs`, `buildcache.rs`, `loader.rs`, `watchdog.rs`, `watcher.rs`, `grip.rs`) | source tree, HEAD, cache, claim, what serves, breaker | edit, build, probe, commit, load, reset | edits during a build; a reset that takes no claim | BuildPipeline |
| Branches (`merge.rs`, `gitctl.rs`, `branchops.rs`) | trunk, branch tips, worktrees, open merges | merge to trunk, pull, abort, squash, reset | a branch that moves under the merge that judges it | TrunkMerge |
| Publishing (`publish.rs`) | exported branch, three bookkeeping refs, the remote | export, push, pull, adopt | two checkouts that publish to one remote | none yet |
| Terminals (`terminal.rs`) | shell, pipe, buffer, the pending command | run, read, send, signal, close | finding the end of a command in a stream | Terminal |
| Discord forms (`discord/mod.rs`, `ask.rs`) | claims, form states, live form, in the kv table | post, press, advance, finish | several posters, several presses, a refused request | AskForms |
| Model client (`llm.rs`, `cache.rs`) | retries, cache breakpoints | open, next, repair of the request | retry of a half-sent request | none |
| Everything else | accounts and policy, configuration, web surfaces, skills, sidecars, tools | | mostly I/O or lookup | none |

`PROJECT.json` lists every component with its status and forty hazards with the line where each
bites and the property that would catch it.

## Modules

**SessionActor** models `session.rs`. The variables are the shared handle (`rx`, `inbox`, the
`CancelFlag` as `turn` and `stopAt`, `published`, `running`), the actor's locals (`pc` is its place
in the loop, `deferred`, `speaker`, `startNow`, `outcome`, `stopped`), callers between two of their
steps (`sending`, `stopping`, `aim`), the log and some history. The runtime is multi-threaded, so
each atomic or locked access is a step: `Accept`/`Send` for submit and resume, `StopCheck`,
`StopLoad`, `StopStore`, `StopPush` for the two stops, and one action per await of the actor, from
`Receive` and `TakeDeferred` through `OpenTurn`, `BeginTurn`, `MarkStarted`, `PublishSpeaker`, the
select loop (`NudgeTurn`, `DeferMessage`, `IgnoreResume`, `Poll`, `Return`) to `ReadStop`,
`ReportFault`, `FinishTurn`, `ReportTrap`, `ClearSpeaker`, `LowerRunning` and `TakeLeftovers`. Any
append may fail (`Lost`).

**Conversation** is what SessionActor promises, without channel, inbox or deferred queue: an
accepted message waits until it is said, once, or refused by the record; one turn runs at a time
on somebody's authority, and during it only that person's messages are said; with fairness, every
message is said or refused some day and every turn ends. SessionActor implements it
(`ImplementsConversation`): `waiting` is every place a message can be in hand (a caller's, the
channel's, the deferred queue's, the actor's), `said` the ids in the log, `busy` the stretch from
the logged message to the taking of the leftovers.

**AgentTurn** models one run of the loop in `agent-core`. Of the message list it keeps how often
each nudge is on it and which tool calls have no result. The actions follow `Turn::run` from top to
bottom: `Rehydrate`, `Head` (flush), compaction (`StartCompaction`, `SummarizeSpan`, `SpansDone`,
`EndCompaction`), `Gate`, `Request`, the stream, `RecordReply`, `Said` or `Asked`, `ToolPoll` and
`Dispatch` per call, `HandBack`, `BatchDone`, `BatchFlush`. `Drain` and `Flush` are
`drain_inbox` and `flush_pending`; `PollCancels` is the host's rule that a raised flag is reported
by every poll. `Trap` is the budget's grace window.

**TurnRecovery** models what outlives a process: the log, the flags `__no_resume`,
`__resume_attempts`, `__expected_restart` and `__resume_mark`, the worker of one conversation, the
supervision of its deaths, restarts the agent asks for, and
`reconcile_interrupted_turns` one transaction at a time (`SweepReads`, `AnswerCall`, `AppendNote`,
`Decide`, `SayGivenUp`, `CloseTurn`), with `GatewayCrash` possible between any two. Bringing a
worker up may fail, and a resume that meets the failure is lost with a line in the trace
(`ResumeLost`); a store that refuses a read or a write ends the scan where it is (`ScanFails`).

**WorkerFleet** models the tasks of `workers.rs` around one conversation's router entry: callers
(`LookUp`, `EnterMaterialize` under the aspect's lock, `Publish`, `Serve` and the ways it fails),
the supervisor of each worker (`Notice`, `ReadRequested`, `Remove`, `File`, `FallBack`), the reaper,
and whoever stops or restarts a worker, with the long adoption between capture and comparison.
Workers are numbered by attempt, so a worker and its replacement are told apart. `FrameStalls` is
the connection of a living worker closed by a frame that timed out.

**Ipc** models one end of a connection: `Begin`, the insert, the second look at the closed flag,
the queue for the writer, the frame in the socket's buffer (whole, or torn by a caller that was
dropped while it wrote), the wait, the drop guard; the read loop that delivers or drains; EOF, a
forced close and a stalled frame.

**Delegation** models a parent, its children and the registry: the spawn in its three awaits
(session, row under the cap, message), the wait (read the rows, decide, park on the bell, the
backstop's poll), the settling of a child's turn by how it ended, the cancel's mark and raise, the
sweep of a stopped parent, `FleetDies` and `GatewayRestarts` with the sweep at boot.

**Terminal** models one shell: commands written to its pipe with a marker after each, the pump and
its trimming, `run` in the foreground (poll, deadline, stop, the signal to the shell's children, the
settling read) and in the background (the early read), `read` in its two halves, `send`, close.
The signal may end what the shell runs or not: it kills the shell's current children once, and a
loop, a builtin or the rest of a list goes on.

**BuildPipeline** models one tool: the tree on disk, HEAD and the branch's log, the watcher and its
suppression, the claim with `wanted` and the guard that hands it on, the gates (stamp, cache,
compile, smoke test, commit, install), the remembered bad source, removal, the breaker and the reset
(search, sync, commit, install), which takes no claim. A compilation fails and is remembered, or
ends in an error that is only logged, or builds what is on disk by then; `File` and `Remember` note
whether a verdict stands under the tree it is about.

**TrunkMerge** models `merge_to_trunk` await by await (update, pin, gate, the check for live resets,
the second look at the tip, count, subject, squash, compare-and-swap, fast-forward) against workers
that edit, checkpoint, pull trunk in (clean or with conflicts), abort and are reset. A tree is a
set of changes, a commit its tree and its ancestors. `Merged` is git's three-way merge over a merge
base, so what a reset removed on the branch stays removed; the logs a merge reads end after
`MaxLog` commits and may come back empty (`Logs`); any call of a merge may fail (`MergeErrs`).

**AskForms** models the forms of `ask_user`: followers that claim, store, post and mark a form, the
retirement of a former one, presses that load, compare-and-swap, show the next question and submit
the last answer, and requests Discord refuses.

**MCSessionActor, MCAgentTurn, MCTurnRecovery, MCWorkerFleet, MCAskForms** are small instances.
**MCLiveServices** (Ipc, Delegation, Terminal, with fairness) and **MCServices** (BuildPipeline,
TrunkMerge, AskForms) run three components each: they share no variable, so interleaving them with
each other would add nothing, and the initial state picks the one that runs, in every
interleaving of its own actors.

**SessionActorProofs**, **SessionActorDelivery**, **AgentTurnProofs**, **TurnRecoveryProofs**,
**WorkerFleetProofs**, **LiveServicesProofs**, **BuildPipelineProofs** and **ServicesProofs** hold
the theorems (see below).

The components meet in small interfaces: the inbox and the stop flag (SessionActor queues and
raises, AgentTurn polls), the markers in the log (SessionActor writes, TurnRecovery reads), a
worker's death (WorkerFleet's `File` is what TurnRecovery's reconciliation starts from), a child's
turn (Delegation keeps of a child's actor the queued message, the beginning and the end), the
reset commit (BuildPipeline makes it, TrunkMerge recognises it).

## Runs

| Run | Instance | Shows |
|---|---|---|
| `session_actor` | 2 people (symmetric), mixes of 3 messages or resumes and a failing append, 2 and two stops, 2 and one of each; 1.3 million states | A nudge steers only its author's turn (`SteeredBySpeaker`); the published speaker is the running turn's (`PublishedIsSpeaker`); no message is taken or logged twice (`NothingTwice`); a nudge is thrown away only by the stop of its turn (`AbandonedOnlyByStop`); two stops that overlap end no third turn, and one stop no second (`OneStopOneTurn`) |
| `session_actor_live` | 1 person, 2 messages, 1 stop, 1 failing append, fair; 243 thousand states | "Not running" means settled (`NotRunningMeansSettled`), one terminator per turn (`OneTerminator`); the actor implements Conversation, liveness included (`ImplementsConversation`) |
| `agent_turn` | 2 nudges, 3 calls per reply, 2 reminders, fair; 57 thousand states | Calls are answered whatever happens (`CallsAnswered`); at most one piece of work begins after a stop (`StopBoundsWork`); a stop seen is reported (`StopIsReported`); a nudge never vanishes (`NudgeKept`); a stop ends the turn (`StopEndsTurn`) |
| `turn_recovery` | up to 2 messages, 2 deaths and 1 failure outside the log (3 together), 2 replies with a call, 1 restart; 3.4 million states | A turn is left open for good only after an incident, a lost resume or a failed scan (`StrandedOnlyByFailure`); one terminator; the ledger is exact up to what repairs write off (`LedgerExact`); every call is answered before a resume (`RepairedBeforeResume`) |
| `turn_recovery_deaths` | 1 message, 3 deaths and 1 failure (4 together), 1 retry notice, fair; 278 thousand states | Fruitless resumes are bounded (`FruitlessBounded`); an interrupted turn is closed or resumed to its end, unless its resume is lost or its scan fails and nobody calls again (`ClosedOrGivenUp`) |
| `worker_fleet` | 2 callers (symmetric), 1 stopper, a worker and its replacement, 1 stalled frame; 852 thousand states | At most one open connection (`OneOpenWorker`); a restart whose adoption took long spares the replacement (`RestartSparesReplacement`); a live entry is never removed (`LiveEntryStays`) |
| `live_services` | Ipc: 2 callers, 3 calls, a buffer of one frame. Delegation: 2 children, cap 1, 1 refused access, 1 worker death. Terminal: 3 commands, 1 line sent, 1 flood. Fair; 217 thousand states | No call leaves its slot behind, no more children than the cap (`LiveTypeOK`); once a connection is closed every call ends (`ClosedWakes`); a row that says running has a turn behind it (`RunningIsReal`); a verdict stands (`VerdictStands`); waits and children end (`WaitSeesTheEnd`, `KidsSettle`); a command reported finished is (`ToldIsOver`) |
| `services` | BuildPipeline: 2 edits over 5 sources and removal, 1 reset, breaker at 2. TrunkMerge: 2 conversations (symmetric), 2 changes, 5 commits, logs of 2. AskForms: 3 followers of 2 calls, 2 presses (symmetric), 2 questions, 1 refusal. 1.4 million states | Only what passed its smoke test serves or is cached (`OnlyTestedServes`); an edit is answered, with its own artifact, but for the exemptions below (`NoChangeForgotten`); no commit becomes unreachable (`NothingUnreachable`); a merge takes nothing off trunk but what a reset took out (`TrunkKeepsWork`), and no judged commit takes trunk back to what a reset in its history left (`RevertsStayOff`); a call's questions are on screen once and answered once (`OneFormPerCall`, `AnsweredOnce`); a claim is held exactly while a build runs, and the rest of `ServicesTypeOK` |
| `acknowledged_stop` | 1 message, 1 stop | A counterexample: see below |
| `nudge_reaches_model` | 1 nudge, 1 call | A counterexample |
| `unjudged_merge` | 1 conversation, 2 changes of which one does not build | A counterexample |
| `stranded_terminal` | 2 commands | A counterexample |

*Bounds.* Two people are enough for a message of the wrong author, three messages for one that
runs, one that steers and one that is deferred; the theorems cover every number. Two stops let one
overtake the other. `Mixes` lists the combinations of
messages, stops and faults that are explored, and `MaxEvents` caps the sum of messages, deaths and
failures in TurnRecovery, because their product is out of reach. One failure outside the log
(`MaxFailures`) is a lost resume or a failed scan, before or after a death; a second would end
in what the properties exempt already, so that past the bound a resume finds a worker or is refused. Two nudges tell a
nudge kept from a nudge lost beside it; three calls give a batch a first, a middle and a last one;
two messages give the ledger a row that follows a repaired turn's; two deaths let the second hit the
repair of the first, three exhaust a budget of one attempt (the
code's is two, and nothing in the argument depends on it). A worker and one replacement are what
every stale reference in `workers.rs` can confuse. Three calls of two callers give a caller that
registers while the other's frame is torn or stalls. Two children with a cap of one let a spawn meet
the cap; two conversations let two merges race for trunk; five commits are a base, a change, a
reset or pull, a squash and one that slips in. A log of two (`MaxLog`, 200 in the code) is the
shortest that leads to a squash, and lets a reset lie beyond it. Three followers of two calls give one call two
posters and the session two forms. Deadlock is not checked: when the bounds are used up, or the
turn is over, the system waits for a user who says nothing.

*Fairness.* SessionActor: the runtime keeps scheduling the actor task and a thread that has begun
`submit`; a guest returns, because it runs under a budget. AgentTurn: the guest is scheduled, a
stream ends or fails (the client has read timeouts), a compaction has finitely many spans.
TurnRecovery: the gateway runs the reconciliations it was asked for; a resume finds a worker, is
refused or, at the latest when `RESUME_TIMEOUT` is over, is lost (nothing promises that a worker
comes up); a worker takes the resumes that reach it, and the reaper stops a quiet one; a turn makes
progress; and (strong fairness of `SweepReads`) no caller
brings the worker up again every single time in the moment between a death and its reconciliation.
The live services: the runtime keeps scheduling a call's task and the closing of a connection
(Ipc: a frame that cannot be written is given up by its timeout), the parent's and the children's
tasks (Delegation: a turn ends, as SessionActor shows). Terminal has no fairness: nothing says that
a command ends. Nobody has to type, press stop, poll or call,
and nothing has to fail.

## What the counterexamples say

* `acknowledged_stop`: a stop that comes after `submit` marked the session as running and before
  `begin_turn` is raised against the previous turn; its inbox item is drained by the opening of the
  new one. The caller hears that a running turn will end itself, and the turn runs in full.
* `nudge_reaches_model`: a nudge taken by the checkpoint before a completion, during the stream or
  before a tool call moves from the inbox to `pending`. If the reply ends the turn, the flush puts
  it on a list nobody sends (or leaves it pending), and no follow-up turn starts because the inbox
  is empty. The nudge is in the log, so the next turn, whenever there is one, sees it.
* `unjudged_merge`: after the gate and the second look at the branch, the squash asks a model for a
  subject and then reads the branch's tip again. A checkpoint made in that time is squashed with the
  rest and trunk moves to it, although the comment says that work nobody judged cannot slip in.
* `stranded_terminal`: a background command that ends within 300 ms has its marker taken with the
  early output; the session stays busy, which is the state a comment in `signal` (`terminal.rs:689`) sets out to avoid.

Disagreements with a comment that the models reach and that have no run of their own:

* The flush after a reply also runs when the reply asks for tools, so a nudge comes between the
  calls and their results, where `flush_pending` (`agent-core/src/lib.rs:1082`) says it must not.
* A repair closes a turn with a terminator of zeros, the anchor of the next turn's sum: the spend of
  the turn cut short is in no row, against `session.rs:32`. `LedgerExact` says that nothing else is
  lost or counted twice.
* An incident inside a turn (a retry notice, or the failure report before the terminator) makes the
  turn look ended to the repair (`store.rs:1152`), so a death after it leaves the turn open, against
  "picked up again" (`README.md:175`). A resume whose worker does not come up is only logged
  (`grip.rs:1037`, `workers.rs:1008`), and so is a scan the store refuses (`workers.rs:961`): no
  incident is written and no reconciliation is due, and the turn stays open until somebody writes.
  `StrandedOnlyByFailure` says that these three are the only ways.
* A build that ends in an error (`pipeline.rs:739`, `746`) clears the remembered failure and leaves
  its change neither built nor remembered; nothing builds it until the next event. An edit between
  the compilation and the commit gets the older tree's artifact filed under its own, and the next
  build finds "this tree is already serving" (`grip.rs:199` and `pipeline.rs:633` promise it a
  build of its own); when that commit fails, the new artifact is filed under the old HEAD's tree.
  `NoChangeForgotten` exempts these trees (`errored`, `misfiled`), what a suppressed watcher
  swallowed and what ran into a restore (`swallowed`, `crossed`), and no others.
* The check for live reverts compares the tip with the tree a reset left (`merge.rs:249`). An update
  from trunk, the remedy its refusal offers (`merge.rs:253`), brings trunk's other work in and leaves
  the removal, which git's merge keeps: the tip's tree then differs from the reset's, the check
  passes and trunk loses what the reset took out. A failed `git log` counts as an empty one
  (`merge.rs:238`), and a reset beyond 200 commits is not seen. `TrunkKeepsWork` says that
  nothing but what a reset took out leaves trunk, `RevertsStayOff` what the check does refuse.
* A timeout or a stop of a foreground command kills the shell's current children once
  (`terminal.rs:1033`): a loop, a builtin or the rest of a list runs on in the shell, against
  "End the runaway before returning" (`:1019`), while a simple command does end, against "A stopped
  command is *not* killed" (`:786`) and "still running in the shell" (`:1067`). No property says
  that a command ends.
* `save_form_unconditionally` (`discord/mod.rs:687`) puts the message's id on a form that is already
  on screen: an answer given meanwhile is erased. `AnsweredOnce` exempts such a form.

Windows the models contain and no property closes, because no line of the code promises otherwise:
`cancel_turn_by` may stop another person's turn if it changes hands between its check and its raise
(`session.rs:346`); a supervisor may read the stopping flag of its worker's replacement
(`workers.rs:503`), and the reaper leaves the flag set when its question times out (`:632`), so a
death is filed wrongly; the list of live workers is read once for a whole scan (`workers.rs:950`,
`SlowScan = TRUE`, with which `RepairedBeforeResume` fails); a stalled frame leaves two processes of
one conversation for a while (`ipc.rs:267`); a caller dropped while it writes leaves half a frame
(`system_api.rs:191`); a cancelled child that finishes is settled over the cancellation
(`subagents.rs:260`), and a child whose turn has not begun does not hear its parent's stop; a failed
read of the rows ends a wait early (`delegation.rs:431`); an edit during the suppression of the
watcher (`grip.rs:1234`) or under a reset (`pipeline.rs:1089`) is not built; a checkpoint during an
open merge commits conflict markers (`grip.rs:505`); a trimmed buffer loses a marker
(`terminal.rs:1297`); two forms of a session posted at once both stay answerable
(`discord/mod.rs:847`), and a refused update after the last answer loses the answers (`:1069`).

## What is proved

Every safety invariant and every action property of the passing runs is also a theorem, for every
value of the constants: any number of people, messages, stops, workers, children, commands,
conversations, changes, followers and presses. `PROJECT.json` lists the theorems with the
properties. Eight modules hold them:

| Module | Theorems |
|---|---|
| SessionActorProofs | `TypeCorrect`, `OnlyTheSpeakerSteers`, `NudgesSurvive`, `PublishedSpeaker`, `NotRunningIsSettled`, `ExactlyOneTerminator` |
| SessionActorDelivery | `NoMessageTwice`, `StopsEndOneTurnEach`; `ActorKeepsPromise`: the actor implements the safety half of Conversation |
| AgentTurnProofs | `TurnTypes`, `EveryCallAnswered`, `StopBounds`, `StopReported`, `NoNudgeVanishes` |
| TurnRecoveryProofs | `RecoveryTypes`, `NoTurnStranded`, and where no worker comes up in the middle of a scan `NoTurnEndsTwice`, `LedgerBalances`, `FruitlessResumesEnd`, `ResumesAreRepaired` |
| WorkerFleetProofs | `AtMostOneOpen`, `OpenEntryStays`, `RestartHitsTheAsker` |
| LiveServicesProofs | `LiveTypes`, `RowsAreReal`, `VerdictsStay`, `ReportsAreTrue` |
| BuildPipelineProofs | `PipelineTyped`, `OnlyGreenServes`, `ChangesAreAnswered` |
| ServicesProofs | `TrunkTypes`, `NoCommitIsLost`, `MergesKeepWork`, `RevertsAreRefused`, `OneFormIsShown`, `FormsAnsweredOnce`, `ServicesTyped`; `PipelineAmongServices`: the composed services implement the pipeline alone, so its theorems hold of them |

*Assumptions.* Each module names what it assumes of its constants, and TLC evaluates it in the
runs. They say that bounds are naturals and that sentinels are not among the values they stand
beside (`NoOne` is no account, `"free"` no caller of a fleet, `Gone` and `NoSource` no source and not each other,
conflict markers no change); that `Working`, `Crashing` and `Broken` sources are disjoint kinds
(a source either builds and passes, or builds and fails its smoke test, or does not build); that
the faulty changes are changes of gated source; that a repository has its first commit
(`MaxRevs` is not 0); that a form has a question. Four theorems of TurnRecovery have the hypothesis `~SlowScan`,
the value of both its runs: no worker comes up while a reconciliation is writing. The code keeps
a *live* worker's log out of the scan, but reads the list of live workers once for all sessions
(`workers.rs:950`), so the hypothesis is about time, not about locks. The four need it: with
`SlowScan = TRUE` on `turn_recovery`'s instance TLC finds a counterexample of `OneTerminator`, of
`LedgerExact` and of `FruitlessBounded`, as of `RepairedBeforeResume`. `RecoveryTypes` and
`NoTurnStranded` are proved without it.

*The arguments.* No property but the simplest is inductive by itself; TLC checked each
invariant below on the run's instance before it was proved. Each proof has one lemma per fact
about the operators and one case per action; invariants are conjunctions of parts, and a part that
leans on few others has a step lemma of its own.

* *SessionActor.* `TypeInv` adds that a message is in hand while it is being appended.
  `SteerInv` proves the steering properties together, with `StoppedKnown`: in the wind-down,
  `stopped` is true only for a turn counted among the stopped ones. `MarkInv` says that the session
  reads as running through the whole open phase of a turn, that every earlier turn is settled, that
  no marker carries a turn number that has not begun, and that the open turn has a start (unless the
  append failed) and no terminator yet.
* *Delivery.* `DeliveryInv`: the places a message can be are disjoint (`Apart`), ids beyond the
  counter are unused (`Counted`), each log or queue has an id once (`Single`), and the actor's hands
  hold a user message exactly while it is appended (`HandsFull`). `StopsPay` counts: turns ended as
  stopped, and the stop still standing, are paid for by different stops. The refinement maps
  `waiting` to the union of those places, so a step that only carries a message from one place to
  the next is a stutter of the promise.
* *AgentTurn.* `TurnInv` adds that the open calls are the rest of the batch (`OpenIsRest`), that
  a late piece of work needs a raised flag (`LateIsStopped`), that after one the turn is short of a
  checkpoint it cannot pass (`BeyondCheckpoint`), and that nobody dispatches who has seen the
  stop (`SeenKeepsOut`).
* *TurnRecovery.* `HandedOn`, for `NoTurnStranded`: a turn cut short is in somebody's hands or was
  given up (`lost`), and a conversation the supervisor left down has none. `RecoveryInv` adds that a scan runs alone (`ScanAlone`), that a live turn is open
  in the log (`TurnOpen`), that a turn bills from the last terminator (`AnchorSettled`),
  that what a scan still owes is what the log lacks (`OwedIsUnanswered`), and how the attempts relate
  to the progress the log shows (`Tried`). The ledger's sum is a recursive function; what an append
  adds to it is shown by minimal counterexample over the naturals, without an induction theorem.
* *WorkerFleet.* `RouterInv`: whoever is spawning holds the aspect's lock, and nobody is live
  meanwhile (`LockHeld`); a worker with an open, watched connection is the router's entry
  (`OpenIsEntry`); a supervisor that has seen the end has closed the peer (`EndedIsClosed`). `AimKept`: the entry a restart captured is
  the worker that asked.
* *Live services.* For Delegation that a spawn between its awaits holds exactly what it created
  (`Spawning`), the subject of a cancel has a row (`Cancelling`), and a turn that is not over has a
  row with no verdict of its own (`RowsOfTurns`); for Terminal that the markers in the buffer are of commands that are over
  (`MarkersAreOver`), however the buffer is trimmed. Ipc's type invariant carries its slot invariant.
* *BuildPipeline.* `GatesHeld`: what a build carries past its gates has passed them, and `FiledRight`
  that a verdict that is not its tree's own is counted in `misfiled`.
  For `NoChangeForgotten`: `FollowUpsPaid` bounds the rebuilds asked for by the edits and resets,
  `WantedIsHeard` says that a wish for a build always finds someone who will build, `CoveredOrOwed` that the
  tree on disk is answered or somebody still owes it a look, `RestoreAlone` that a restore nothing
  ran into puts its own tree on disk.
* *TrunkMerge.* `TrunkInv` has ten parts. `History` (ancestors are older, theirs are included, and
  what no reset took out of an ancestor's tree is still in its own, which a three-way merge
  keeps because the base is an ancestor of both sides), `Checkouts` (the same of a checkout, also in
  the middle of a merge) and `Apart` (conversations share only what is on trunk) describe the graph;
  `Pinned`, `Swapping`, `Ahead` and `Landing` place the commits a merge remembers in it.
  `TrunkKeepsWork` then follows from the fast-forward: the old trunk is an ancestor of the new one.
  For `RevertsStayOff`, `Checked`: what the check established of a log it saw whole holds until
  trunk moves, and a trunk that moved is no ancestor of the judged commit, so that the merge does not land.
* *AskForms.* `AskInv`: whoever posts or has posted holds the claim (`ClaimsHeld`), a form is not
  on screen before it is sent (`Unshown`), a press is of a form that was shown, at the question its
  state was read at (`PressesReal`), what is submitted was on a form on screen (`SubmittedShown`), and finishing a form clears it first, by one press
  (`FinishedOnce`).

*What proving found.* `NoChangeForgotten` was not an invariant of the model as first stated, on
instances the run does not reach: a search for a green build that finds none used to clear the mark
that an edit had run into an earlier restore (`crossed`); it no longer does. And a commit that fails
after its build files the artifact under the tree of the old HEAD, which `misfiled` now counts.

*Only model-checked.* Six properties, all liveness under fairness, which this prover does not handle:
`ImplementsConversation` (its safety half is `ActorKeepsPromise`), `StopEndsTurn`, `ClosedOrGivenUp`,
`ClosedWakes`, `WaitSeesTheEnd` and `KidsSettle`. No module uses RECURSIVE operators.

## Not modelled

Text, attachments, prompts, tool arguments, costs other than "one per reply"; the choice of spans
to compact; the adoption of a kernel and its build, which are one verdict; the provider, git,
Discord and the shell's programs, which are external. Each module names its simplifications at its
head. In particular: reads of the log do not fail in SessionActor; TurnRecovery has one
conversation, so the fleet-wide scan of the boot is that of one session; WorkerFleet does not have
the scan for stale kernels; Ipc has no notes of their own (they share the writer and register
nothing); BuildPipeline has one tool aspect and one process, not the file lock between processes;
one reset runs at a time (the breaker of the code is per aspect and nothing keeps two
failures from starting two);
TrunkMerge has neither the branch rows nor publishing; Terminal has no ssh; AskForms has presses of
the right person before the form expires.

Most of the repository's lines are not protocol: about 108 thousand of them are the tools, small
guests that each carry a copy of the same scaffolding, about 15 thousand are browser code, and
configuration, policy, accounts, rendering and the model client's wire formats are lookups,
parsing and sequential rewriting. The models cover the code that has concurrent or persistent
state of its own.

## Plan

1. **Publish** (`publish.rs`): export, push under a lease, pull and adopt of two checkouts that share
   a remote; what one published is never dropped by the other. Export and pull take no common lock
   with each other or with a merge to trunk.
2. The repair of the request in `llm.rs` (`normalize_system_roles`, `dedupe_tool_results`,
   `answer_orphaned_tool_calls`) and the span selection of `compaction.rs` as operators against
   reference definitions.
3. Proofs: an abstract specification per service with the refinement proved as for SessionActor
   (a registry of verdicts for Delegation, a lease for the router entry of WorkerFleet, a
   claimed-once form for AskForms); what of TurnRecovery survives a scan that is overtaken by a worker.
4. A composition of SessionActor and AgentTurn over the shared inbox and flag.
