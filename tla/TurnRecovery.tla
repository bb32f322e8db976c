---------------------------- MODULE TurnRecovery ----------------------------
(***************************************************************************)
(* What survives of a turn when its worker or the gateway dies: the event  *)
(* log, the four recovery flags in the session's kv rows, and the repair   *)
(* the gateway makes (Store::reconcile_interrupted_turns) before it        *)
(* resumes the turn.                                                       *)
(*                                                                         *)
(* One conversation. Every append and every kv write is a transaction of   *)
(* its own, so a crash may fall between any two of them; runs of kv writes *)
(* with nothing else between them are one step.                            *)
(*                                                                         *)
(* Simplifications:                                                        *)
(*  - nudges and deferral are in module SessionActor; the agent's loop in  *)
(*    AgentTurn: here a turn says things, runs the calls it asked for and  *)
(*    ends;                                                                *)
(*  - every assistant message costs 1;                                     *)
(*  - a tool invocation is not logged apart from its reply: one recorded   *)
(*    after the resume mark always follows a reply recorded after it;      *)
(*  - the supervisor's bookkeeping of a death is one step with the death;  *)
(*    whether the worker had lived for MIN_UPTIME is free;                 *)
(*  - the incident a breaker may add after the terminator of a trapped     *)
(*    turn is left out: it follows a marker that already ends the turn.    *)
(***************************************************************************)
EXTENDS Naturals, Sequences, FiniteSets, FiniteSetsExt

CONSTANTS Calls,              \* tool calls one reply may ask for
          MaxResumeAttempts,  \* MAX_RESUME_ATTEMPTS
          SlowScan,           \* a worker can come up while a reconciliation still writes
          MaxMessages,        \* bound: messages submitted
          MaxSays,            \* bound: assistant messages
          MaxDeaths,          \* bound: ends of a worker or of the gateway
          MaxEvents,          \* bound: messages, deaths and failures together
          MaxRestarts,        \* bound: restarts requested
          MaxNotices,         \* bound: incidents reported in the middle of a turn
          MaxFailures         \* bound: lost resumes and failing reconciliations

ASSUME ConstantsAssumption ==
    /\ {MaxResumeAttempts, MaxMessages, MaxSays, MaxDeaths, MaxEvents,
        MaxRestarts, MaxNotices, MaxFailures} \subseteq Nat
    /\ SlowScan \in BOOLEAN

VARIABLES
    \* in the store
    log,
    noResume,   \* __no_resume
    attempts,   \* __resume_attempts
    expected,   \* __expected_restart
    mark,       \* __resume_mark; 0 when it was never written
    \* the worker
    worker,     \* where its session actor is, or "down"
    anchor,     \* since_seq
    open,       \* calls of the running turn without a result
    restart,    \* a restart on its way: "none", "building" or "due"
    \* the gateway
    fast,       \* fast deaths in a row
    sweeps,     \* reconciliations asked for and not begun
    wake,       \* resumes on their way to the worker
    scan,       \* where the reconciliation under way is
    owed,       \* calls it still has to answer
    snap,       \* the log it read, as a length
    ours,       \* whether the interruption it repairs was expected
    carryOn,    \* whether the turn it closes is resumed
    \* bounds and history
    count,
    writtenOff, \* spend a reconciliation's terminator left out of the ledger
    fruitless,  \* resumes after a death since a turn last got anywhere
    lost        \* the latest repair or resume came to nothing, and only the trace says so

store   == <<log, noResume, attempts, expected, mark>>
process == <<worker, anchor, open, restart>>
gateway == <<fast, sweeps, wake, scan, owed, snap, ours, carryOn>>
ghosts  == <<writtenOff, fruitless, lost>>
vars    == <<store, process, gateway, count, ghosts>>

-----------------------------------------------------------------------------
(* The log *)

Event(ev) == [ev |-> ev, calls |-> {}, cost |-> 0]
Said(cs) == [ev |-> "said", calls |-> cs, cost |-> 0]
Result(c) == [ev |-> "result", calls |-> {c}, cost |-> 0]
Finished(n) == [ev |-> "finished", calls |-> {}, cost |-> n]

\* The index of the last event of one of these kinds, 0 when there is none.
LastOf(l, kinds) == Max({0} \cup {i \in DOMAIN l : l[i].ev \in kinds})

\* usage_since
Spend(l, since) == Cardinality({i \in DOMAIN l : i > since /\ l[i].ev = "said"})

\* unanswered_tool_calls: those of the last assistant message.
Unanswered(l) ==
    LET k == LastOf(l, {"said"})
    IN  IF k = 0 THEN {} ELSE l[k].calls \ UNION {l[i].calls : i \in {j \in (k + 1)..Len(l) : l[j].ev = "result"}}

\* The turn was cut short: its start is the last marker. An incident counts as an
\* ending, unless the interruption was our own.
Markers(exp) == {"started", "finished"} \cup IF exp THEN {} ELSE {"incident"}
\* Mutant: any start in the log counts, finished or not.
EverStarted(l, exp) == LastOf(l, {"started"}) # 0
Interrupted(l, exp) ==
    LET k == LastOf(l, Markers(exp)) IN k # 0 /\ l[k].ev = "started"

\* The turn has got somewhere since its last interruption.
Progressed(l) == mark # 0 /\ \E i \in DOMAIN l : i > mark /\ l[i].ev \in {"said", "result"}

\* The locals of a reconciliation go out of scope with it.
ScanOver == scan' = "idle" /\ owed' = {} /\ snap' = 0 /\ ours' = FALSE /\ carryOn' = FALSE

Up(field, bound) ==
    /\ count[field] < bound
    /\ field \in {"messages", "deaths", "failures"} =>
           count.messages + count.deaths + count.failures < MaxEvents
    /\ count' = [count EXCEPT ![field] = @ + 1]

-----------------------------------------------------------------------------
(* The worker *)

\* Some call needs the worker: materialize. It may fail at any of its steps (the
\* branch, the spawn, the handshake) and then leaves nothing behind, which is no step
\* here; what a resume that meets the failure does is ResumeLost. The list of live
\* workers is read once, before the scan; a scan is one synchronous pass and a worker
\* takes seconds to be ready, so unless SlowScan none comes up meanwhile (no lock
\* says so). A conversation that keeps killing its worker is refused once, and a
\* resume that meets the refusal is lost.
WorkerUp ==
    /\ worker = "down" /\ fast < 2 /\ (SlowScan \/ scan = "idle")
    /\ worker' = "idle"
    /\ UNCHANGED <<store, anchor, open, restart, fast, sweeps, wake, scan, owed, snap, ours, carryOn,
                   count, ghosts>>

WorkerRefused ==
    /\ worker = "down" /\ fast = 2
    /\ fast' = 0
    /\ wake' \in {wake, 0}
    /\ UNCHANGED <<store, process, sweeps, scan, owed, snap, ours, carryOn, count, ghosts>>

Submit ==
    /\ worker = "idle" /\ Up("messages", MaxMessages)
    /\ log' = Append(log, Event("user"))
    /\ worker' = "open"
    /\ UNCHANGED <<noResume, attempts, expected, mark, anchor, open, restart, gateway, ghosts>>

\* A resume starts a turn when none is running, and is ignored when one is.
Resume ==
    /\ wake > 0 /\ worker \in {"idle", "turn"}
    /\ wake' = wake - 1
    /\ worker' = IF worker = "idle" THEN "open" ELSE worker
    /\ UNCHANGED <<store, anchor, open, restart, fast, sweeps, scan, owed, snap, ours, carryOn,
                   count, ghosts>>

\* The worker did not come up, the call to it failed, or RESUME_TIMEOUT was over: a
\* line in the trace and nothing else. No incident, and no reconciliation is due.
ResumeLost ==
    /\ wake > 0 /\ Up("failures", MaxFailures)
    /\ wake' = wake - 1
    /\ lost' = TRUE
    /\ UNCHANGED <<store, process, fast, sweeps, scan, owed, snap, ours, carryOn, writtenOff,
                   fruitless>>

\* Mutant: a turn counts only what it spends itself.
AnchorHere ==
    /\ worker = "open"
    /\ anchor' = Len(log)
    /\ worker' = "anchored"
    /\ UNCHANGED <<store, open, restart, gateway, count, ghosts>>

\* last_settled_seq, read before the turn's own marker.
ReadAnchor ==
    /\ worker = "open"
    /\ anchor' = LastOf(log, {"finished"})
    /\ worker' = "anchored"
    /\ UNCHANGED <<store, open, restart, gateway, count, ghosts>>

StartTurn ==
    /\ worker = "anchored"
    /\ log' = Append(log, Event("started"))
    /\ worker' = "turn"
    /\ lost' = FALSE
    /\ UNCHANGED <<noResume, attempts, expected, mark, anchor, open, restart, gateway, count,
                   writtenOff, fruitless>>

\* The agent appends a reply before it acts on it, and a result per call.
Say(cs) ==
    /\ worker = "turn" /\ open = {} /\ Up("says", MaxSays)
    /\ log' = Append(log, Said(cs))
    /\ open' = cs
    /\ fruitless' = 0
    /\ UNCHANGED <<noResume, attempts, expected, mark, worker, anchor, restart, gateway, writtenOff, lost>>

Answer(c) ==
    /\ worker = "turn" /\ c \in open
    /\ log' = Append(log, Result(c))
    /\ open' = open \ {c}
    /\ fruitless' = 0
    /\ UNCHANGED <<noResume, attempts, expected, mark, worker, anchor, restart, gateway, count,
                   writtenOff, lost>>

\* A retry notice: an incident the turn survives.
Notice ==
    /\ worker = "turn" /\ Up("notices", MaxNotices)
    /\ log' = Append(log, Event("incident"))
    /\ UNCHANGED <<noResume, attempts, expected, mark, process, gateway, ghosts>>

\* The terminator carries what the log says was spent since the last one.
Terminate == log' = Append(log, Finished(Spend(log, anchor))) /\ open' = {}

FinishOk ==
    /\ worker = "turn" /\ open = {}
    /\ Terminate
    /\ worker' = "settle"
    /\ fruitless' = 0
    /\ UNCHANGED <<noResume, attempts, expected, mark, anchor, restart, gateway, count, writtenOff, lost>>

FinishStopped ==
    /\ worker = "turn"
    /\ Terminate
    /\ worker' = "halt"
    /\ fruitless' = 0
    /\ UNCHANGED <<noResume, attempts, expected, mark, anchor, restart, gateway, count, writtenOff, lost>>

\* clear_resume_attempts; after a stop also set_no_resume.
Settle ==
    /\ worker \in {"settle", "halt"}
    /\ attempts' = 0
    /\ noResume' = IF worker = "halt" THEN TRUE ELSE noResume
    /\ worker' = "idle"
    /\ UNCHANGED <<log, expected, mark, anchor, open, restart, gateway, count, ghosts>>

Fail ==
    /\ worker = "turn"
    /\ log' = Append(log, Event("incident"))
    /\ worker' = "faulted"
    /\ UNCHANGED <<noResume, attempts, expected, mark, anchor, open, restart, gateway, count, ghosts>>

FinishFailed ==
    /\ worker = "faulted"
    /\ Terminate
    /\ worker' = "idle"
    /\ fruitless' = 0
    /\ UNCHANGED <<noResume, attempts, expected, mark, anchor, restart, gateway, count, writtenOff, lost>>

-----------------------------------------------------------------------------
(* Restarts the agent asks for *)

\* request_restart: the preference and the expectation are recorded, then a build
\* starts (unless one is running) or, with nothing to build, the restart is due.
RequestRestart(carry) ==
    /\ worker = "turn" /\ Up("restarts", MaxRestarts)
    /\ noResume' = ~carry
    /\ expected' = (expected \/ carry)
    /\ restart' \in IF restart = "building" THEN {"building"} ELSE {"building", "due"}
    /\ UNCHANGED <<log, attempts, mark, worker, anchor, open, gateway, ghosts>>

\* build_then_restart: the verdict is an incident; only a good build restarts.
BuildEnds ==
    /\ worker # "down" /\ restart = "building"
    /\ log' = Append(log, Event("incident"))
    /\ restart' \in {"none", "due"}
    /\ UNCHANGED <<noResume, attempts, expected, mark, worker, anchor, open, gateway, count, ghosts>>

-----------------------------------------------------------------------------
(* Deaths *)

\* Reconciliations a death asks for: the supervisor's, and the one the worker's
\* ready note asked for, if it has not run yet (had it run, it would have skipped
\* a live session).
Swept == sweeps' \in {sweeps + 1, sweeps + 2}

\* A resume call outstanding on a dead worker fails, one still on its way does not.
Dead ==
    /\ worker' = "down" /\ restart' = "none" /\ anchor' = 0 /\ open' = {}
    /\ wake' \in {wake, 0}
    /\ UNCHANGED <<noResume, attempts, expected, mark, scan, owed, snap, ours, carryOn, ghosts>>

\* The reaper stops a worker that was quiet for IDLE_TIMEOUT, by when every
\* reconciliation and resume has long been dealt with.
Reap ==
    /\ worker = "idle" /\ sweeps = 0 /\ wake = 0 /\ scan = "idle"
    /\ Dead
    /\ fast' = 0
    /\ sweeps' = 1
    /\ UNCHANGED <<log, count>>

\* restart_worker: the kernel is adopted or, with an incident, is not; then the
\* worker is told to exit, wherever its turn is.
Restart ==
    /\ worker # "down" /\ restart = "due" /\ Up("deaths", MaxDeaths)
    /\ log' \in {log, Append(log, Event("incident"))}
    /\ Dead
    /\ fast' = 0
    /\ Swept

\* supervise, for a death nobody asked for: it counts when it came soon after the
\* start. After two, the branch's own kernel is abandoned and the turn repaired,
\* or, on the trunk kernel, the conversation is left down.
Crash ==
    /\ worker # "down" /\ Up("deaths", MaxDeaths)
    /\ Dead
    /\ \/ fast' = 0 /\ Swept /\ log' = log
       \/ fast = 0 /\ fast' = 1 /\ Swept /\ log' = log
       \/ fast = 1 /\ fast' = 0 /\ Swept /\ log' = Append(log, Event("incident"))
       \/ fast = 1 /\ fast' = 2 /\ sweeps' \in {sweeps, sweeps + 1}
             /\ log' = Append(log, Event("incident"))

\* Mutant: nothing is reconciled at boot.
BootWithoutSweep ==
    /\ Up("deaths", MaxDeaths)
    /\ worker' = "down" /\ restart' = "none" /\ anchor' = 0 /\ open' = {}
    /\ fast' = 0 /\ sweeps' = 0 /\ wake' = 0
    /\ ScanOver
    /\ UNCHANGED <<store, ghosts>>

\* The gateway dies, and its worker with it; at boot it sweeps every session.
GatewayCrash ==
    /\ Up("deaths", MaxDeaths)
    /\ worker' = "down" /\ restart' = "none" /\ anchor' = 0 /\ open' = {}
    /\ fast' = 0 /\ sweeps' = 1 /\ wake' = 0
    /\ ScanOver
    /\ UNCHANGED <<store, ghosts>>

-----------------------------------------------------------------------------
(* reconcile_interrupted_turns, one at a time *)

\* A session with a live worker is not interrupted.
SweepSkips ==
    /\ scan = "idle" /\ sweeps > 0 /\ worker # "down"
    /\ sweeps' = sweeps - 1
    /\ UNCHANGED <<store, process, fast, wake, scan, owed, snap, ours, carryOn, count, ghosts>>

\* The log is read and the expectation consumed.
SweepReads ==
    /\ scan = "idle" /\ sweeps > 0 /\ worker = "down"
    /\ sweeps' = sweeps - 1
    /\ expected' = FALSE
    /\ lost' = FALSE
    /\ IF Interrupted(log, expected)
       THEN scan' = "answer" /\ owed' = Unanswered(log) /\ snap' = Len(log) /\ ours' = expected
       ELSE UNCHANGED <<scan, owed, snap, ours>>
    /\ UNCHANGED <<log, noResume, attempts, mark, process, fast, wake, carryOn, count, writtenOff,
                   fruitless>>

\* The store refuses a read or a write: the reconciliation ends where it is, and the
\* gateway only warns.
ScanFails ==
    /\ Up("failures", MaxFailures)
    /\ \/ scan = "idle" /\ sweeps > 0 /\ sweeps' = sweeps - 1
          /\ UNCHANGED <<scan, owed, snap, ours, carryOn>>
       \/ scan # "idle" /\ ScanOver /\ UNCHANGED sweeps
    /\ lost' = TRUE
    /\ UNCHANGED <<store, process, fast, wake, writtenOff, fruitless>>

AnswerCall(c) ==
    /\ scan = "answer" /\ c \in owed
    /\ log' = Append(log, Result(c))
    /\ owed' = owed \ {c}
    /\ UNCHANGED <<noResume, attempts, expected, mark, process, fast, sweeps, wake, scan, snap,
                   ours, carryOn, count, ghosts>>

\* Mutant: the note does not wait for the answers.
NoteFirst ==
    /\ scan = "answer"
    /\ log' = Append(log, Event("note"))
    /\ scan' = "decide"
    /\ UNCHANGED <<noResume, attempts, expected, mark, process, fast, sweeps, wake, owed, snap, ours,
                   carryOn, count, ghosts>>

AppendNote ==
    /\ scan = "answer" /\ owed = {}
    /\ log' = Append(log, Event("note"))
    /\ scan' = "decide"
    /\ UNCHANGED <<noResume, attempts, expected, mark, process, fast, sweeps, wake, owed, snap, ours,
                   carryOn, count, ghosts>>

\* Mutant: one attempt too many.
ExhaustedLate(kept) == ~ours /\ kept > MaxResumeAttempts
Exhausted(kept) == ~ours /\ kept >= MaxResumeAttempts

\* Whether the turn is resumed, given up, or closed. Only fruitless attempts
\* count, and an interruption of our own costs none.
Decide ==
    LET kept == IF Progressed(SubSeq(log, 1, snap)) THEN 0 ELSE attempts
        exhausted == Exhausted(kept)
        resume == ~noResume /\ ~exhausted
    IN  /\ scan = "decide"
        /\ mark' = snap
        /\ noResume' = FALSE
        /\ IF resume /\ ~ours
           THEN /\ attempts' = kept + 1
                /\ wake' = wake + 1
                /\ fruitless' = fruitless + 1
                /\ ScanOver
           ELSE /\ attempts' = kept
                /\ scan' = IF exhausted THEN "giveup" ELSE "close"
                /\ carryOn' = resume
                /\ UNCHANGED <<wake, fruitless, owed, snap, ours>>
        /\ UNCHANGED <<log, expected, process, fast, sweeps, count, writtenOff, lost>>

\* Not resumed again: the incident says why, the terminator that it is over.
SayGivenUp ==
    /\ scan = "giveup"
    /\ log' = Append(log, Event("incident"))
    /\ scan' = "abandon"
    /\ UNCHANGED <<noResume, attempts, expected, mark, process, fast, sweeps, wake, owed, snap, ours,
                   carryOn, count, ghosts>>

\* Mutant: the turn is closed with words only.
NoteOnly == Event("note")
Closing == Finished(0)

\* The terminator is all zeros. A restart that was expected is closed and resumed.
CloseTurn ==
    /\ scan \in {"close", "abandon"}
    /\ log' = Append(log, Closing)
    /\ writtenOff' = writtenOff + Spend(log, LastOf(log, {"finished"}))
    /\ attempts' = IF scan = "abandon" THEN 0 ELSE attempts
    /\ wake' = IF carryOn THEN wake + 1 ELSE wake
    /\ fruitless' = 0
    /\ ScanOver
    /\ UNCHANGED <<noResume, expected, mark, process, fast, sweeps, count, lost>>

-----------------------------------------------------------------------------

Init ==
    /\ log = <<>> /\ noResume = FALSE /\ attempts = 0 /\ expected = FALSE /\ mark = 0
    /\ worker = "down" /\ anchor = 0 /\ open = {} /\ restart = "none"
    /\ fast = 0 /\ sweeps = 1 /\ wake = 0
    /\ scan = "idle" /\ owed = {} /\ snap = 0 /\ ours = FALSE /\ carryOn = FALSE
    /\ count = [messages |-> 0, says |-> 0, deaths |-> 0, restarts |-> 0, notices |-> 0,
                failures |-> 0]
    /\ writtenOff = 0 /\ fruitless = 0 /\ lost = FALSE

Turn ==
    \/ ReadAnchor \/ StartTurn \/ (\E cs \in SUBSET Calls : Say(cs)) \/ (\E c \in Calls : Answer(c))
    \/ FinishOk \/ FinishStopped \/ Settle \/ Fail \/ FinishFailed
Sweep ==
    \/ SweepSkips \/ SweepReads \/ (\E c \in Calls : AnswerCall(c)) \/ AppendNote
    \/ Decide \/ SayGivenUp \/ CloseTurn
Deaths == Reap \/ Restart \/ Crash \/ GatewayCrash

Next ==
    \/ WorkerUp \/ WorkerRefused \/ Submit \/ Resume \/ ResumeLost \/ Turn \/ Notice
    \/ (\E carry \in BOOLEAN : RequestRestart(carry)) \/ BuildEnds
    \/ Deaths \/ Sweep \/ ScanFails

\* The gateway runs the reconciliations it was asked for; a resume brings a worker up
\* or, after RESUME_TIMEOUT at the latest, is lost; a worker that is up takes it; a
\* turn makes progress and ends; a quiet worker is reaped; and no caller brings a
\* worker up every single time in the moment between a death and its reconciliation.
\* Nothing promises that a worker ever comes up.
Fairness ==
    /\ WF_vars(Sweep)
    /\ SF_vars(SweepReads)
    /\ WF_vars(Reap)
    /\ WF_vars(wake > 0 /\ (WorkerUp \/ WorkerRefused \/ ResumeLost))
    /\ WF_vars(Resume)
    /\ WF_vars(Turn)

Spec == Init /\ [][Next]_vars
FairSpec == Spec /\ Fairness

-----------------------------------------------------------------------------
(* Properties *)

Kinds == {"user", "started", "said", "result", "note", "incident", "finished"}

\* Every variable has its type.
TypeOK ==
    /\ log \in Seq([ev: Kinds, calls: SUBSET Calls, cost: Nat])
    /\ noResume \in BOOLEAN /\ expected \in BOOLEAN
    /\ attempts \in 0..MaxResumeAttempts /\ mark \in 0..Len(log)
    /\ worker \in {"down", "idle", "open", "anchored", "turn", "settle", "halt", "faulted"}
    /\ anchor \in 0..Len(log) /\ open \in SUBSET Calls
    /\ restart \in {"none", "building", "due"}
    /\ fast \in 0..2 /\ sweeps \in Nat /\ wake \in Nat
    /\ scan \in {"idle", "answer", "decide", "giveup", "abandon", "close"}
    /\ owed \in SUBSET Calls /\ snap \in 0..Len(log)
    /\ ours \in BOOLEAN /\ carryOn \in BOOLEAN /\ lost \in BOOLEAN
    /\ writtenOff \in Nat /\ fruitless \in Nat

Billed(l) == LET total[i \in 0..Len(l)] == IF i = 0 THEN 0 ELSE total[i - 1] + l[i].cost
             IN  total[Len(l)]
Owing(l) == Spend(l, LastOf(l, {"finished"}))

\* Each assistant step is billed by one terminator, still waits for one, or was
\* written off by a reconciliation that closed its turn.
LedgerExact == Billed(log) + Owing(log) + writtenOff = Spend(log, 0)

\* A turn that dies without getting anywhere is resumed MAX_RESUME_ATTEMPTS times,
\* and once more when the repair itself wrote results, which count as progress.
FruitlessBounded == fruitless <= MaxResumeAttempts + 1

\* Nothing in the system will touch the log again by itself.
Quiet == worker = "down" /\ sweeps = 0 /\ scan = "idle" /\ wake = 0

\* No order of deaths, restarts and reconciliations strands a turn. One is left open
\* for good only when an incident followed its start, which reconciliation reads as
\* an ending, or when the last attempt on it failed outside the log (ResumeLost,
\* ScanFails), which nothing retries.
StrandedOnlyByFailure == Quiet /\ Interrupted(log, FALSE) => lost

\* Two terminators never close the same turn.
OneTerminator ==
    LET ends == {0} \cup {i \in DOMAIN log : log[i].ev = "finished"}
    IN  \A i, j \in ends : i < j => \E k \in (i + 1)..j : log[k].ev = "started"

\* When the gateway asks for a turn to be resumed, every tool call of the log has
\* its answer: a request with an unanswered call would be rejected.
RepairedBeforeResume == [][wake' > wake => Unanswered(log') = {}]_vars

\* A turn cut short is resumed or closed, unless the attempt fails outside the log and
\* the conversation falls quiet.
ClosedOrGivenUp ==
    Interrupted(log, FALSE) ~> (~Interrupted(log, FALSE) \/ (Quiet /\ lost))
=============================================================================
