---------------------------- MODULE SessionActor ----------------------------
(***************************************************************************)
(* The session actor of crates/thetis/src/session.rs: one tokio task per   *)
(* conversation that owns its turns, the handle through which any other    *)
(* thread submits a message, resumes a turn or stops one, and the log the  *)
(* actor writes its turn markers to.                                       *)
(*                                                                         *)
(* The runtime is multi-threaded, so every await of the actor and every    *)
(* atomic or locked access to the shared handle is a step of its own.      *)
(*                                                                         *)
(* Simplifications:                                                        *)
(*  - a message is its id and its author; text and attachments are left    *)
(*    out, as is the spend each marker carries (module TurnRecovery);      *)
(*  - the guest is the environment: it polls its inbox and returns (module *)
(*    AgentTurn models its loop);                                          *)
(*  - the checkpoint commit and the sub-agent bookkeeping between the end  *)
(*    of the guest and the clearing of the speaker touch none of this      *)
(*    state;                                                               *)
(*  - the registry of handles is never dropped while the process lives, so *)
(*    the actor's channel is never closed.                                 *)
(***************************************************************************)
EXTENDS Naturals, Sequences, FiniteSets

CONSTANTS Accounts,    \* people who take part in the conversation
          NoOne,       \* Option::None: no account is known
          MaxMsgs,     \* bound: calls of submit and resume
          MaxStops,    \* bound: calls of cancel and cancel_turn_by
          MaxFaults    \* bound: appends to the log that fail

ASSUME ConstantsAssumption ==
    /\ NoOne \notin Accounts
    /\ MaxMsgs \in Nat
    /\ MaxStops \in Nat
    /\ MaxFaults \in Nat

VARIABLES
    \* the handle, shared with every other thread
    spawned,     \* the handle exists and its actor task runs
    rx,          \* messages on the actor's channel
    inbox,       \* items queued for the running turn
    turn,        \* CancelFlag.turn
    stopAt,      \* CancelFlag.stop_at
    published,   \* whose turn is running, as outsiders see it
    running,     \* what cancel answers
    \* the actor's own state
    pc,          \* the actor's next step
    held,        \* the message being logged
    deferred,    \* messages that must become turns of their own
    speaker,     \* whose authority the turn runs under
    startNow,    \* start_immediately
    outcome,     \* what the guest returned
    stopped,     \* whether the turn was stopped, as read when it ended
    \* callers between two of their steps
    sending,     \* accepted messages not on the channel yet
    stopping,    \* where each caller of a stop is
    aim,         \* the turn each of them read and will stop
    \* the session's event log
    log,
    faults,      \* appends that have failed
    \* history, for the properties
    accepted,    \* number of messages and resumes accepted
    stops,       \* number of stops begun
    refused,     \* ids of messages whose append failed
    abandoned,   \* nudges thrown away
    stoppedTurns,\* turns that ended as stopped
    unlogged     \* turns one of whose markers could not be appended

handle == <<spawned, rx, inbox, turn, stopAt, published, running>>
actor  == <<pc, held, deferred, speaker, startNow, outcome, stopped>>
caller == <<sending, stopping, aim>>
ledger == <<log, faults>>
history == <<accepted, stops, refused, abandoned, stoppedTurns, unlogged>>
vars == <<handle, actor, caller, ledger, history>>

-----------------------------------------------------------------------------
(* Data *)

Speakers == Accounts \cup {NoOne}
Ids == 1..MaxMsgs
Messages == [kind: {"user", "resume"}, id: Ids, from: Speakers]
Nothing == [kind |-> "resume", id |-> 0, from |-> NoOne]

\* Mutant: the message itself is queued instead of a nudge.
QueuedAsIs(m) == m
Nudge(m) == [kind |-> "nudge", id |-> m.id, from |-> m.from, turn |-> turn]
CancelItem == [kind |-> "cancel", id |-> 0, from |-> NoOne, turn |-> 0]
Event(ev, id) == [ev |-> ev, id |-> id, turn |-> turn]

Nudges(q) == {q[i] : i \in {j \in DOMAIN q : q[j].kind = "nudge"}}

\* Mutant: a stop stays raised for the turns after it.
RaisedForGood == stopAt # 0

\* CancelFlag::raised
Raised == stopAt # 0 /\ stopAt = turn

\* An append to the session's log either lands or fails.
Logged(e) == log' = Append(log, e) /\ UNCHANGED faults
Lost == faults < MaxFaults /\ faults' = faults + 1 /\ UNCHANGED log

\* A turn marker: the code carries on whether or not it could be written.
Marker(ev) ==
    \/ Logged(Event(ev, 0)) /\ UNCHANGED unlogged
    \/ Lost /\ unlogged' = unlogged \cup {turn}

-----------------------------------------------------------------------------
(* Callers on other threads *)

\* SessionActors::submit and ::resume up to the send: the actor exists and the
\* session reads as running before the message is on the channel.
Accept(m) ==
    /\ m.id = accepted + 1
    /\ accepted' = m.id
    /\ spawned' = TRUE
    /\ running' = TRUE
    /\ sending' = sending \cup {m}
    /\ UNCHANGED <<rx, inbox, turn, stopAt, published, actor, stopping, aim, ledger,
                   stops, refused, abandoned, stoppedTurns, unlogged>>

Submit(m) == m.kind = "user" /\ Accept(m)
Resume(m) == m.kind = "resume" /\ m.from = NoOne /\ Accept(m)

Send(m) ==
    /\ m \in sending
    /\ sending' = sending \ {m}
    /\ rx' = Append(rx, m)
    /\ UNCHANGED <<spawned, inbox, turn, stopAt, published, running, actor, stopping, aim,
                   ledger, history>>

\* SessionActors::cancel (s = NoOne) and ::cancel_turn_by (s an account). Without
\* a handle, or when the turn in flight is not that account's, both answer FALSE
\* and do nothing.
StopCheck(s) ==
    /\ spawned /\ stopping[s] = "idle" /\ stops < MaxStops
    /\ s # NoOne => published = s
    /\ stops' = stops + 1
    /\ stopping' = [stopping EXCEPT ![s] = "raise"]
    /\ UNCHANGED <<handle, actor, sending, aim, ledger, accepted, refused, abandoned,
                   stoppedTurns, unlogged>>

\* CancelFlag::raise loads the turn and then stores it, a no-op before the first.
StopLoad(s) ==
    /\ stopping[s] = "raise"
    /\ aim' = [aim EXCEPT ![s] = turn]
    /\ stopping' = [stopping EXCEPT ![s] = "store"]
    /\ UNCHANGED <<handle, actor, sending, ledger, history>>

StopStore(s) ==
    /\ stopping[s] = "store"
    /\ stopAt' = IF aim[s] = 0 THEN stopAt ELSE aim[s]
    /\ aim' = [aim EXCEPT ![s] = 0]
    /\ stopping' = [stopping EXCEPT ![s] = "push"]
    /\ UNCHANGED <<spawned, rx, inbox, turn, published, running, actor, sending, ledger, history>>

\* The inbox item, and the answer: cancel reports whether a turn was running.
StopPush(s) ==
    /\ stopping[s] = "push"
    /\ inbox' = Append(inbox, CancelItem)
    /\ stopping' = [stopping EXCEPT ![s] = "idle"]
    /\ UNCHANGED <<spawned, rx, turn, stopAt, published, running, actor, sending, aim, ledger,
                   accepted, stops, refused, abandoned, stoppedTurns, unlogged>>

-----------------------------------------------------------------------------
(* The actor between two turns *)

\* The head of the loop: a deferred message is next in line, then the channel.
\* A resume has nothing to append and no known speaker.
Take(m) ==
    /\ held' = IF m.kind = "resume" THEN Nothing ELSE m
    /\ speaker' = m.from
    /\ pc' = IF m.kind = "resume" THEN "open" ELSE "append"
    /\ UNCHANGED <<spawned, inbox, turn, stopAt, published, running, startNow, outcome, stopped,
                   caller, ledger, history>>

\* Mutant: the deferred message is read and never removed.
PeekDeferred ==
    /\ pc = "recv" /\ ~startNow /\ deferred # <<>>
    /\ UNCHANGED <<rx, deferred>>
    /\ Take(Head(deferred))

TakeDeferred ==
    /\ pc = "recv" /\ ~startNow /\ deferred # <<>>
    /\ deferred' = Tail(deferred)
    /\ rx' = rx
    /\ Take(Head(deferred))

Receive ==
    /\ pc = "recv" /\ ~startNow /\ deferred = <<>> /\ rx # <<>>
    /\ rx' = Tail(rx)
    /\ deferred' = deferred
    /\ Take(Head(rx))

LogUserMessage ==
    /\ pc = "append"
    /\ Logged(Event("user", held.id))
    /\ held' = Nothing
    /\ pc' = "open"
    /\ UNCHANGED <<handle, deferred, speaker, startNow, outcome, stopped, caller, history>>

\* "Nothing will run for this message, so nothing is running."
UserMessageLost ==
    /\ pc = "append"
    /\ Lost
    /\ pc' = "recv"
    /\ running' = FALSE
    /\ refused' = refused \cup {held.id}
    /\ held' = Nothing
    /\ UNCHANGED <<spawned, rx, inbox, turn, stopAt, published, deferred, speaker, startNow,
                   outcome, stopped, caller, accepted, stops, abandoned, stoppedTurns,
                   unlogged>>

FollowUp ==
    /\ pc = "recv" /\ startNow
    /\ pc' = "open"
    /\ UNCHANGED <<handle, held, deferred, speaker, startNow, outcome, stopped, caller, ledger,
                   history>>

\* The flag is raised here too, for turns that did not pass through submit, and
\* whatever an earlier turn left unread must not stop this one.
OpenTurn ==
    /\ pc = "open"
    /\ startNow' = FALSE
    /\ running' = TRUE
    /\ abandoned' = abandoned \cup Nudges(inbox)
    /\ inbox' = <<>>
    /\ pc' = "begin"
    /\ UNCHANGED <<spawned, rx, turn, stopAt, published, held, deferred, speaker, outcome, stopped,
                   caller, ledger, accepted, stops, refused, stoppedTurns, unlogged>>

\* CancelFlag::begin_turn
BeginTurn ==
    /\ pc = "begin"
    /\ turn' = turn + 1
    /\ pc' = "mark"
    /\ UNCHANGED <<spawned, rx, inbox, stopAt, published, running, held, deferred, speaker,
                   startNow, outcome, stopped, caller, ledger, history>>

MarkStarted ==
    /\ pc = "mark"
    /\ Marker("started")
    /\ pc' = "publish"
    /\ UNCHANGED <<handle, held, deferred, speaker, startNow, outcome, stopped, caller, accepted,
                   stops, refused, abandoned, stoppedTurns>>

PublishSpeaker ==
    /\ pc = "publish"
    /\ published' = speaker
    /\ pc' = "run"
    /\ UNCHANGED <<spawned, rx, inbox, turn, stopAt, running, held, deferred, speaker, startNow,
                   outcome, stopped, caller, ledger, history>>

-----------------------------------------------------------------------------
(* The select loop: the guest runs, and messages keep arriving *)

\* Mutant: whoever writes steers the turn.
AnyoneSteers(m) == m.kind = "user"

\* Whether a message steers the turn in flight rather than starting its own.
Steers(m) == m.kind = "user" /\ m.from = speaker

\* A message from anyone but the turn's speaker becomes a turn of its own.
DeferMessage ==
    /\ pc = "run" /\ rx # <<>> /\ Head(rx).kind = "user" /\ ~Steers(Head(rx))
    /\ rx' = Tail(rx)
    /\ deferred' = Append(deferred, Head(rx))
    /\ UNCHANGED <<spawned, inbox, turn, stopAt, published, running, pc, held, speaker, startNow,
                   outcome, stopped, caller, ledger, history>>

\* The speaker's own message steers the turn in flight. The nudge is pushed
\* whether or not it could be logged.
NudgeTurn ==
    /\ pc = "run" /\ rx # <<>> /\ Steers(Head(rx))
    /\ rx' = Tail(rx)
    /\ \/ Logged(Event("nudge", Head(rx).id)) /\ UNCHANGED refused
       \/ Lost /\ refused' = refused \cup {Head(rx).id}
    /\ inbox' = Append(inbox, Nudge(Head(rx)))
    /\ UNCHANGED <<spawned, turn, stopAt, published, running, actor, caller, accepted, stops,
                   abandoned, stoppedTurns, unlogged>>

\* A turn is already running; there is nothing to resume.
IgnoreResume ==
    /\ pc = "run" /\ rx # <<>> /\ Head(rx).kind = "resume"
    /\ rx' = Tail(rx)
    /\ UNCHANGED <<spawned, inbox, turn, stopAt, published, running, actor, caller, ledger, history>>

\* SessionActors::drain_inbox, on behalf of the guest's poll-inbox import.
Poll ==
    /\ pc = "run" /\ inbox # <<>>
    /\ inbox' = <<>>
    /\ UNCHANGED <<spawned, rx, turn, stopAt, published, running, actor, caller, ledger, accepted,
                   stops, refused, abandoned, stoppedTurns, unlogged>>

\* Grip::run_turn: statistics, a reported error, or a trap.
Return(o) ==
    /\ pc = "run"
    /\ outcome' = o
    /\ pc' = "ended"
    /\ UNCHANGED <<handle, held, deferred, speaker, startNow, stopped, caller, ledger, history>>

-----------------------------------------------------------------------------
(* The wind-down of a turn *)

\* Mutant: the session reads as idle before the terminator is written.
LowerRunningEarly ==
    /\ pc = "ended"
    /\ running' = FALSE
    /\ stopped' = Raised
    /\ stoppedTurns' = IF Raised THEN stoppedTurns \cup {turn} ELSE stoppedTurns
    /\ pc' = IF outcome # "ok" /\ ~Raised THEN "incident" ELSE "finish"
    /\ UNCHANGED <<spawned, rx, inbox, turn, stopAt, published, held, deferred, speaker, startNow,
                   outcome, caller, ledger, accepted, stops, refused, abandoned, unlogged>>

ReadStop ==
    /\ pc = "ended"
    /\ stopped' = Raised
    /\ stoppedTurns' = IF Raised THEN stoppedTurns \cup {turn} ELSE stoppedTurns
    /\ pc' = IF outcome # "ok" /\ ~Raised THEN "incident" ELSE "finish"
    /\ UNCHANGED <<handle, held, deferred, speaker, startNow, outcome, caller, ledger, accepted,
                   stops, refused, abandoned, unlogged>>

\* Mutant: the fault path closes the turn itself.
TerminateOnFault ==
    /\ pc = "incident"
    /\ Logged(Event("finished", 0))
    /\ pc' = "finish"
    /\ UNCHANGED <<handle, held, deferred, speaker, startNow, outcome, stopped, caller, history>>

\* A fault the user did not ask for is reported before the terminator.
ReportFault ==
    /\ pc = "incident"
    /\ Logged(Event("incident", 0)) \/ Lost
    /\ pc' = "finish"
    /\ UNCHANGED <<handle, held, deferred, speaker, startNow, outcome, stopped, caller, history>>

\* Mutant: nothing settles a turn the user stopped.
FinishUnlessStopped ==
    /\ pc = "finish" /\ ~stopped
    /\ Marker("finished")
    /\ pc' = IF outcome = "trap" THEN "breaker" ELSE "quiet"
    /\ UNCHANGED <<handle, held, deferred, speaker, startNow, outcome, stopped, caller, accepted,
                   stops, refused, abandoned, stoppedTurns>>

FinishTurn ==
    /\ pc = "finish"
    /\ Marker("finished")
    /\ pc' = IF outcome = "trap" /\ ~stopped THEN "breaker" ELSE "quiet"
    /\ UNCHANGED <<handle, held, deferred, speaker, startNow, outcome, stopped, caller, accepted,
                   stops, refused, abandoned, stoppedTurns>>

\* A trap counts against the agent's breaker, which may leave an incident.
ReportTrap ==
    /\ pc = "breaker"
    /\ Logged(Event("incident", 0)) \/ Lost \/ UNCHANGED ledger
    /\ pc' = "quiet"
    /\ UNCHANGED <<handle, held, deferred, speaker, startNow, outcome, stopped, caller, history>>

\* Mutant: the speaker of a turn that is over stays published.
LeaveSpeaker ==
    /\ pc = "quiet"
    /\ pc' = "lower"
    /\ UNCHANGED <<handle, held, deferred, speaker, startNow, outcome, stopped, caller, ledger,
                   history>>

ClearSpeaker ==
    /\ pc = "quiet"
    /\ published' = NoOne
    /\ pc' = "lower"
    /\ UNCHANGED <<spawned, rx, inbox, turn, stopAt, running, held, deferred, speaker, startNow,
                   outcome, stopped, caller, ledger, history>>

LowerRunning ==
    /\ pc = "lower"
    /\ running' = FALSE
    /\ pc' = "leftover"
    /\ UNCHANGED <<spawned, rx, inbox, turn, stopAt, published, held, deferred, speaker, startNow,
                   outcome, stopped, caller, ledger, history>>

\* Mutant: leftovers are thrown away.
NeverSeeds == FALSE
SeedsFollowUp == ~stopped /\ Nudges(inbox) # {}

\* Nudges the guest never took seed a turn of their own, unless it was stopped.
\* The turn's outcome and its stopped flag go out of scope here.
TakeLeftovers ==
    /\ pc = "leftover"
    /\ startNow' = SeedsFollowUp
    /\ abandoned' = IF SeedsFollowUp THEN abandoned ELSE abandoned \cup Nudges(inbox)
    /\ inbox' = <<>>
    /\ outcome' = "ok" /\ stopped' = FALSE
    /\ pc' = "recv"
    /\ UNCHANGED <<spawned, rx, turn, stopAt, published, running, held, deferred, speaker, caller,
                   ledger, accepted, stops, refused, stoppedTurns, unlogged>>

-----------------------------------------------------------------------------

Init ==
    /\ spawned = FALSE /\ rx = <<>> /\ inbox = <<>> /\ turn = 0 /\ stopAt = 0
    /\ published = NoOne /\ running = FALSE
    /\ pc = "recv" /\ held = Nothing /\ deferred = <<>> /\ speaker = NoOne
    /\ startNow = FALSE /\ outcome = "ok" /\ stopped = FALSE
    /\ sending = {} /\ stopping = [s \in Speakers |-> "idle"] /\ aim = [s \in Speakers |-> 0]
    /\ log = <<>> /\ faults = 0
    /\ accepted = 0 /\ stops = 0 /\ refused = {} /\ abandoned = {}
    /\ stoppedTurns = {} /\ unlogged = {}

Callers ==
    \/ \E m \in Messages : Submit(m) \/ Resume(m) \/ Send(m)
    \/ \E s \in Speakers : StopCheck(s) \/ StopLoad(s) \/ StopStore(s) \/ StopPush(s)

ActorStep ==
    \/ TakeDeferred \/ Receive \/ LogUserMessage \/ UserMessageLost \/ FollowUp
    \/ OpenTurn \/ BeginTurn \/ MarkStarted \/ PublishSpeaker
    \/ ReadStop \/ ReportFault \/ FinishTurn \/ ReportTrap
    \/ ClearSpeaker \/ LowerRunning \/ TakeLeftovers

TurnStep ==
    \/ DeferMessage \/ NudgeTurn \/ IgnoreResume \/ Poll
    \/ \E o \in {"ok", "reported", "trap"} : Return(o)

Next == Callers \/ ActorStep \/ TurnStep

\* The runtime keeps scheduling the actor task and the callers of submit, and a
\* guest turn comes to an end (it runs under a budget). Nobody has to type,
\* press stop, or poll.
Fairness ==
    /\ WF_vars(ActorStep)
    /\ WF_vars(\E o \in {"ok", "reported", "trap"} : Return(o))
    /\ \A i \in Ids : WF_vars(\E m \in sending : m.id = i /\ Send(m))

Spec == Init /\ [][Next]_vars
FairSpec == Spec /\ Fairness

-----------------------------------------------------------------------------
(* Properties *)

Places == {"recv", "append", "open", "begin", "mark", "publish", "run",
           "ended", "incident", "finish", "breaker", "quiet", "lower", "leftover"}
Items == [kind: {"nudge", "cancel"}, id: 0..MaxMsgs, from: Speakers, turn: Nat]
NudgeItems == {n \in Items : n.kind = "nudge"}
Events == [ev: {"user", "nudge", "started", "finished", "incident"}, id: 0..MaxMsgs, turn: Nat]

HandleOK ==
    /\ spawned \in BOOLEAN /\ running \in BOOLEAN
    /\ rx \in Seq(Messages) /\ inbox \in Seq(Items)
    /\ turn \in Nat /\ stopAt \in Nat
    /\ published \in Speakers
ActorOK ==
    /\ pc \in Places
    /\ held \in Messages \cup {Nothing} /\ deferred \in Seq(Messages)
    /\ speaker \in Speakers
    /\ startNow \in BOOLEAN /\ stopped \in BOOLEAN
    /\ outcome \in {"ok", "reported", "trap"}
CallerOK ==
    /\ sending \in SUBSET Messages
    /\ stopping \in [Speakers -> {"idle", "raise", "store", "push"}]
    /\ aim \in [Speakers -> Nat]
LogOK == log \in Seq(Events) /\ faults \in 0..MaxFaults
HistoryOK ==
    /\ accepted \in 0..MaxMsgs /\ stops \in 0..MaxStops
    /\ refused \in SUBSET Ids
    /\ abandoned \in SUBSET NudgeItems
    /\ stoppedTurns \in SUBSET Nat /\ unlogged \in SUBSET Nat

\* Every variable has its type.
TypeOK == HandleOK /\ ActorOK /\ CallerOK /\ LogOK /\ HistoryOK

\* A nudge steers only the turn of the person who wrote it: while nudges are
\* queued, they were written by the turn's speaker, during this very turn, and a
\* turn begins with none queued (session.rs, the mid-turn arm of the select).
SteeredBySpeaker ==
    \A n \in Nudges(inbox) :
        /\ pc \in {"run", "ended", "incident", "finish", "breaker", "quiet", "lower", "leftover"}
        /\ n.from = speaker
        /\ n.turn = turn

\* A nudge is thrown away only when the turn it was typed into was stopped:
\* otherwise it reached the guest or seeded a follow-up turn.
AbandonedOnlyByStop == \A n \in abandoned : n.turn \in stoppedTurns

\* A stop never ambushes another turn: no more turns end as stopped than stops were
\* begun, however many stops overlap each other and the turns' boundaries.
OneStopOneTurn == Cardinality(stoppedTurns) <= stops

\* The speaker outsiders see is the one whose turn runs, and nobody between turns:
\* a revocation matches no name that has already finished.
PublishedIsSpeaker ==
    published # NoOne =>
        /\ pc \in {"run", "ended", "incident", "finish", "breaker", "quiet"}
        /\ published = speaker

\* "Not running" means the log is settled: whoever hears it may close the turn
\* itself, so every turn that has started has written its terminator (or could
\* not write one of its markers).
OpenPlaces == {"publish", "run", "ended", "incident", "finish"}
Terminators(t) == {i \in DOMAIN log : log[i].ev = "finished" /\ log[i].turn = t}
Starts(t) == {i \in DOMAIN log : log[i].ev = "started" /\ log[i].turn = t}
NotRunningMeansSettled ==
    ~running => \A t \in 1..turn : t \in unlogged \/ Starts(t) = {} \/ Terminators(t) # {}

\* Every turn ends with exactly one terminator, after its start and before the
\* next turn's start, however it ended.
OneTerminator ==
    \A i, j \in DOMAIN log :
        i < j =>
            /\ log[i].ev = "finished" /\ log[j].ev = "finished" => log[i].turn < log[j].turn
            /\ log[i].ev = "started" /\ log[j].ev = "started" =>
                   \/ log[i].turn \in unlogged
                   \/ \E k \in i..j : log[k].ev = "finished" /\ log[k].turn = log[i].turn

\* No message the host accepted is lost or answered twice: it is in exactly one
\* of the places a message waits in, the log, or the set of failed appends.
QueuedIds(q) == {q[i].id : i \in DOMAIN q}
HeldIds == {held.id} \ {0}
LoggedIds == {log[i].id : i \in {j \in DOMAIN log : log[j].ev \in {"user", "nudge"}}}
SendingIds == {m.id : m \in sending}

Distinct(q) == \A i, j \in DOMAIN q : q[i].id = q[j].id => i = j
NothingTwice ==
    /\ Distinct(rx) /\ Distinct(deferred)
    /\ \A i, j \in DOMAIN log :
           log[i].ev \in {"user", "nudge"} /\ log[j].ev \in {"user", "nudge"}
              /\ log[i].id = log[j].id => i = j
    /\ QueuedIds(rx) \cap QueuedIds(deferred) = {}
    /\ (QueuedIds(rx) \cup QueuedIds(deferred)) \cap (LoggedIds \cup HeldIds \cup refused) = {}
    /\ LoggedIds \cap (HeldIds \cup refused) = {}

\* The actor implements module Conversation: wherever a message waits (a caller's
\* hands, the channel, the deferred queue, the actor's) is one set, and a turn runs
\* from the moment its message is logged until its leftovers are taken. With its
\* fairness: what a caller was told is accepted is logged some day, unless the
\* append of that very message failed, and every turn ends.
Held(q) == {q[i] : i \in DOMAIN q}
WaitingMessages ==
    {m \in sending \cup Held(rx) \cup Held(deferred) \cup {held} : m.kind = "user"}
InTurn == pc \notin {"recv", "append"}
Promise == INSTANCE Conversation WITH
    Requests <- {m \in Messages : m.kind = "user"}, People <- Speakers, Nobody <- NoOne,
    waiting <- WaitingMessages, said <- LoggedIds, failed <- refused,
    busy <- InTurn, whose <- IF InTurn THEN speaker ELSE NoOne
ImplementsConversation == Promise!ConvSpec

\* SessionActors::cancel says that when it reports a running turn, that turn
\* "will write its own turn-finished once the stop lands": at such an answer the
\* stop stands against the turn in flight.
AcknowledgedStopLands ==
    [][stopping[NoOne] = "push" /\ stopping'[NoOne] = "idle" /\ running => Raised]_vars
=============================================================================
