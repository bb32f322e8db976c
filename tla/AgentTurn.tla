------------------------------ MODULE AgentTurn ------------------------------
(***************************************************************************)
(* One turn of the agent loop, Turn::run of agents/agent-core/src/lib.rs,  *)
(* with the host imports it polls (poll_inbox, stream_open, stream_next of *)
(* crates/thetis/src/host_api.rs) and the compaction it runs before a      *)
(* completion (agents/agent-core/src/compaction.rs).                       *)
(*                                                                         *)
(* Meanwhile the user types nudges, which the session actor logs and       *)
(* queues, and may press stop.                                             *)
(*                                                                         *)
(* Simplifications:                                                        *)
(*  - of the message list the model keeps how often each nudge is on it    *)
(*    and which calls of the last assistant message have no result yet;    *)
(*  - max_iterations is u32::MAX: the loop may end with it at any round,   *)
(*    and the rounds are not counted;                                      *)
(*  - skill retrieval and tool routing only rehydrate again, and todo      *)
(*    reminders are offered or not as the todo list happens to say;        *)
(*  - token accounting is left out; whether a compaction is due is free.   *)
(***************************************************************************)
EXTENDS Naturals, FiniteSets

CONSTANTS Texts,          \* nudges the user may type during the turn
          MaxCalls,       \* bound: tool calls in one reply
          MaxTodoNudges   \* MAX_TODO_NUDGES

ASSUME ConstantsAssumption == MaxCalls \in Nat /\ MaxTodoNudges \in Nat

VARIABLES
    \* the host's side
    typed,      \* nudges logged so far
    queue,      \* nudges in the session's inbox
    cancelItem, \* a Cancel item is in the inbox
    flag,       \* the session's CancelFlag is raised
    \* the guest
    pc,
    pending,    \* nudges taken from the inbox, not yet on the list
    carried,    \* nudges a running compaction took
    onList,     \* how often each nudge is on the message list
    open,       \* calls of the last assistant message without a result
    calls,      \* number of calls in the reply
    next,       \* index of the call to dispatch
    cancelled,  \* the sticky stop
    seen,       \* what the flush after the reply reported
    ended,      \* a call handed control back to the user
    reminders,  \* todo reminders issued
    stoppedBy,
    \* history
    sent,       \* nudges that were on the list of some request
    late        \* completions, tools and compactions begun after the stop: 0, 1 or 2 for more

host  == <<typed, queue, cancelItem, flag>>
batch == <<open, calls, next, ended>>
vars  == <<host, pc, pending, carried, onList, batch, cancelled, seen, reminders, stoppedBy,
           sent, late>>

Over == {"done", "failed", "trapped"}

\* Work begun once the stop stands against the turn, counted as none, one or more.
Begun == late' = IF flag /\ late < 2 THEN late + 1 ELSE late

-----------------------------------------------------------------------------
(* The user *)

\* The session actor logs a nudge and queues it.
TypeNudge(n) ==
    /\ pc \notin Over /\ n \notin typed
    /\ typed' = typed \cup {n}
    /\ queue' = queue \cup {n}
    /\ UNCHANGED <<cancelItem, flag, pc, pending, carried, onList, batch, cancelled, seen,
                   reminders, stoppedBy, sent, late>>

PressStop ==
    /\ pc \notin Over /\ ~flag
    /\ flag' = TRUE
    /\ cancelItem' = TRUE
    /\ UNCHANGED <<typed, queue, pc, pending, carried, onList, batch, cancelled, seen, reminders,
                   stoppedBy, sent, late>>

-----------------------------------------------------------------------------
(* Polling *)

\* poll_inbox: the queue is emptied, and a raised flag is reported by every poll.
Polled == queue' = {} /\ cancelItem' = FALSE /\ UNCHANGED <<typed, flag>>
\* Mutant: only the queued item reports the stop, so whoever polls first has it.
PollTakesStop == cancelItem
PollCancels == cancelItem \/ flag

\* Turn::drain_inbox: nudges wait in pending, a stop is sticky.
Interrupt ==
    IF cancelled \/ PollCancels THEN "cancelled" ELSE IF queue # {} THEN "nudged" ELSE "none"
Drain ==
    /\ Polled
    /\ cancelled' = (cancelled \/ PollCancels)
    /\ pending' = pending \cup queue
    /\ UNCHANGED onList

\* Turn::flush_pending: drains, then puts every pending nudge on the list.
Flush ==
    /\ Polled
    /\ cancelled' = (cancelled \/ PollCancels)
    /\ pending' = {}
    /\ onList' = [n \in Texts |-> IF n \in pending \cup queue THEN onList[n] + 1 ELSE onList[n]]

\* Turn::rehydrate: the list is what the log says.
Rehydrated == onList' = [n \in Texts |-> IF n \in typed THEN 1 ELSE 0]

\* Mutant: the second observation is ignored.
First(a, b) == a

\* Interrupt::or keeps the more urgent of two observations.
Worse(a, b) ==
    IF "cancelled" \in {a, b} THEN "cancelled" ELSE IF "nudged" \in {a, b} THEN "nudged" ELSE "none"

Finish(why) == pc' = "done" /\ stoppedBy' = why
Goto(p) == pc' = p /\ UNCHANGED stoppedBy

-----------------------------------------------------------------------------
(* The loop *)

\* run: rehydrate, and again when skills or tool groups were pinned just now.
Rehydrate ==
    /\ pc = "start"
    /\ Rehydrated
    /\ Goto("start") \/ Goto("head")
    /\ UNCHANGED <<host, pending, carried, batch, cancelled, seen, reminders, sent, late>>

Exhausted ==
    /\ pc = "head"
    /\ Finish("max-iterations")
    /\ UNCHANGED <<host, pending, carried, onList, batch, cancelled, seen, reminders, sent, late>>

Head ==
    /\ pc = "head"
    /\ Flush
    /\ IF Interrupt = "cancelled" THEN Finish("cancelled") ELSE Goto("compact")
    /\ UNCHANGED <<carried, batch, seen, reminders, sent, late>>

\* maybe_compact: not due, nothing eligible, or nudges are pending.
SkipCompaction ==
    /\ pc = "compact"
    /\ Goto("gate")
    /\ UNCHANGED <<host, pending, carried, onList, batch, cancelled, seen, reminders, sent, late>>

StartCompaction ==
    /\ pc = "compact" /\ pending = {}
    /\ Begun
    /\ Goto("compacting")
    /\ UNCHANGED <<host, pending, carried, onList, batch, cancelled, seen, reminders, sent>>

\* Mutant: a compaction swallows the nudges it reads.
SwallowNudges ==
    /\ pc = "compacting"
    /\ Polled
    /\ Goto(IF PollCancels THEN "compacted" ELSE "compacting")
    /\ UNCHANGED <<pending, carried, onList, batch, cancelled, seen, reminders, sent, late>>

\* compaction::run checks the inbox before each span: a stop ends it with what
\* it has, a nudge is carried back to the turn.
SummarizeSpan ==
    /\ pc = "compacting"
    /\ Polled
    /\ carried' = carried \cup queue
    /\ Goto(IF PollCancels THEN "compacted" ELSE "compacting")
    /\ UNCHANGED <<pending, onList, batch, cancelled, seen, reminders, sent, late>>

SpansDone ==
    /\ pc = "compacting"
    /\ Goto("compacted")
    /\ UNCHANGED <<host, pending, carried, onList, batch, cancelled, seen, reminders, sent, late>>

\* The carried nudges become pending; a recorded compaction rehydrates.
EndCompaction ==
    /\ pc = "compacted"
    /\ pending' = pending \cup carried
    /\ carried' = {}
    /\ Rehydrated \/ UNCHANGED onList
    /\ Goto("gate")
    /\ UNCHANGED <<host, batch, cancelled, seen, reminders, sent, late>>

\* A stop pressed during compaction ends the turn before another completion.
\* Otherwise the request goes out with the list as it stands.
Gate ==
    /\ pc = "gate"
    /\ Drain
    /\ IF Interrupt = "cancelled" THEN Finish("cancelled") ELSE Goto("request")
    /\ UNCHANGED <<carried, batch, seen, reminders, sent, late>>

Request ==
    /\ pc = "request"
    /\ Begun
    /\ \/ Goto("stream") /\ sent' = sent \cup {n \in Texts : onList[n] > 0}
       \/ Goto("failed") /\ UNCHANGED sent
    /\ UNCHANGED <<host, pending, carried, onList, batch, cancelled, seen, reminders>>

-----------------------------------------------------------------------------
(* stream_completion *)

\* Every few deltas. A stop keeps what has arrived so far.
StreamPoll ==
    /\ pc = "stream"
    /\ Drain
    /\ IF Interrupt = "cancelled"
       THEN pc' = "reply" /\ calls' \in 0..MaxCalls
       ELSE UNCHANGED <<pc, calls>>
    /\ UNCHANGED <<carried, open, next, ended, seen, reminders, stoppedBy, sent, late>>

\* A last chunk that is in hand wins over a stop raised beside it.
StreamFinished ==
    /\ pc = "stream"
    /\ calls' \in 0..MaxCalls
    /\ Goto("reply")
    /\ UNCHANGED <<host, pending, carried, onList, open, next, ended, cancelled, seen, reminders,
                   sent, late>>

\* A failed stream is the stop working when a stop is seen, and an error otherwise.
StreamFailed ==
    /\ pc = "stream"
    /\ Drain
    /\ IF Interrupt = "cancelled"
       THEN pc' = "reply" /\ calls' \in 0..MaxCalls
       ELSE pc' = "failed" /\ UNCHANGED calls
    /\ UNCHANGED <<carried, open, next, ended, seen, reminders, stoppedBy, sent, late>>

-----------------------------------------------------------------------------
(* Acting on the reply *)

\* The reply is logged and listed, then pending nudges are flushed after it.
RecordReply ==
    /\ pc = "reply"
    /\ open' = 1..calls
    /\ next' = 1
    /\ ended' = FALSE
    /\ seen' = Interrupt
    /\ Flush
    /\ Goto(IF calls = 0 THEN "said" ELSE "asked")
    /\ UNCHANGED <<carried, calls, reminders, sent, late>>

\* Mutant: reminders are issued without a limit.
AlwaysReminds == TRUE
MayRemind == reminders < MaxTodoNudges

\* The model is done talking: one more poll, a todo reminder, or the end.
Said ==
    /\ pc = "said"
    /\ Flush
    /\ LET saw == Worse(seen, Interrupt) IN
         \/ saw = "none" /\ Finish("stop") /\ UNCHANGED reminders
         \/ saw = "none" /\ MayRemind /\ reminders' = reminders + 1 /\ Goto("head")
         \/ saw = "cancelled" /\ Finish("cancelled") /\ UNCHANGED reminders
         \/ saw = "nudged" /\ Goto("head") /\ UNCHANGED reminders
    /\ UNCHANGED <<carried, batch, seen, sent, late>>

\* Mutant: the call the stop was seen before gets no answer.
UnrunAfter(from) == open \cap ((from + 1)..MaxCalls)

\* cancel_remaining: calls a stop kept from running are answered all the same.
Unrun(from) == open \cap (from..MaxCalls)

Asked ==
    /\ pc = "asked"
    /\ IF seen = "cancelled"
       THEN Finish("cancelled") /\ open' = open \ Unrun(1)
       ELSE Goto("tool") /\ UNCHANGED open
    /\ UNCHANGED <<host, pending, carried, onList, calls, next, ended, cancelled, seen, reminders,
                   sent, late>>

\* Mutant: the batch runs to its end without a checkpoint.
NoCheckpoint ==
    /\ pc = "tool" /\ next <= calls
    /\ Goto("dispatch")
    /\ UNCHANGED <<host, pending, carried, onList, batch, cancelled, seen, reminders, sent, late>>

\* A checkpoint before every call of the batch.
ToolPoll ==
    /\ pc = "tool" /\ next <= calls
    /\ Drain
    /\ IF Interrupt = "cancelled"
       THEN Finish("cancelled") /\ open' = open \ Unrun(next)
       ELSE Goto("dispatch") /\ UNCHANGED open
    /\ UNCHANGED <<carried, calls, next, ended, seen, reminders, sent, late>>

\* dispatch: invoked and answered, whether it worked or not. Some tools end the
\* turn when they succeed.
Dispatch ==
    /\ pc = "dispatch"
    /\ Begun
    /\ open' = open \ {next}
    /\ next' = next + 1
    /\ ended' \in {ended, TRUE}
    /\ Goto("tool")
    /\ UNCHANGED <<host, pending, carried, onList, calls, cancelled, seen, reminders, sent>>

\* The user was asked something: the turn ends, and the inbox is not drained.
HandBack ==
    /\ pc = "tool" /\ next > calls /\ ended
    /\ Finish("asked")
    /\ UNCHANGED <<host, pending, carried, onList, batch, cancelled, seen, reminders, sent, late>>

BatchDone ==
    /\ pc = "tool" /\ next > calls /\ ~ended
    /\ Drain
    /\ IF Interrupt = "cancelled" THEN Finish("cancelled") ELSE Goto("flush")
    /\ UNCHANGED <<carried, batch, seen, reminders, sent, late>>

BatchFlush ==
    /\ pc = "flush"
    /\ Flush
    /\ Goto("head")
    /\ UNCHANGED <<carried, batch, seen, reminders, sent, late>>

\* Budget::violation: a stopped guest that has not returned within the grace
\* window is trapped.
Trap ==
    /\ pc \notin Over /\ flag
    /\ Goto("trapped")
    /\ UNCHANGED <<host, pending, carried, onList, batch, cancelled, seen, reminders, sent, late>>

-----------------------------------------------------------------------------

Init ==
    /\ typed = {} /\ queue = {} /\ cancelItem = FALSE /\ flag = FALSE
    /\ pc = "start" /\ pending = {} /\ carried = {} /\ onList = [n \in Texts |-> 0]
    /\ open = {} /\ calls = 0 /\ next = 1 /\ ended = FALSE
    /\ cancelled = FALSE /\ seen = "none" /\ reminders = 0 /\ stoppedBy = "none"
    /\ sent = {} /\ late = 0

Guest ==
    \/ Rehydrate \/ Exhausted \/ Head
    \/ SkipCompaction \/ StartCompaction \/ SummarizeSpan \/ SpansDone \/ EndCompaction
    \/ Gate \/ Request \/ StreamPoll \/ StreamFinished \/ StreamFailed
    \/ RecordReply \/ Said \/ Asked \/ ToolPoll \/ Dispatch \/ HandBack \/ BatchDone \/ BatchFlush

Next == Guest \/ Trap \/ PressStop \/ \E n \in Texts : TypeNudge(n)

\* The guest is scheduled for as long as its turn lasts, the provider and the
\* tools answer or fail, and start-up and a compaction come to an end.
Fairness ==
    /\ WF_vars(Guest)
    /\ SF_vars(Rehydrate /\ pc' = "head")
    /\ SF_vars(SpansDone)
    /\ SF_vars(StreamFinished \/ StreamFailed)

Spec == Init /\ [][Next]_vars
FairSpec == Spec /\ Fairness

-----------------------------------------------------------------------------
(* Properties *)

\* Every variable has its type.
TypeOK ==
    /\ typed \in SUBSET Texts /\ queue \in SUBSET Texts
    /\ cancelItem \in BOOLEAN /\ flag \in BOOLEAN
    /\ pc \in {"start", "head", "compact", "compacting", "compacted", "gate", "request", "stream",
               "reply", "said", "asked", "tool", "dispatch", "flush"} \cup Over
    /\ pending \in SUBSET Texts /\ carried \in SUBSET Texts
    /\ onList \in [Texts -> Nat]
    /\ open \in SUBSET (1..MaxCalls) /\ calls \in 0..MaxCalls /\ next \in 1..(MaxCalls + 1)
    /\ ended \in BOOLEAN /\ cancelled \in BOOLEAN
    /\ seen \in {"none", "nudged", "cancelled"}
    /\ reminders \in 0..MaxTodoNudges
    /\ stoppedBy \in {"none", "stop", "cancelled", "asked", "max-iterations"}
    /\ sent \in SUBSET Texts /\ late \in 0..2

\* Every tool call has its result before the next request is built, and before
\* the turn returns: a request with an unanswered call is never replied to.
CallsAnswered == pc \in {"head", "compact", "compacting", "compacted", "gate", "request", "stream",
                         "reply", "done"} => open = {}

\* After the stop the turn begins at most one more piece of work (a completion,
\* a tool or a compaction), the one it was past the checkpoint of.
StopBoundsWork == late <= 1

\* A turn that has seen the stop never reports that it ran its course.
StopIsReported == pc = "done" /\ cancelled => stoppedBy \in {"cancelled", "max-iterations"}

\* A nudge never vanishes from the turn that took it: it is queued for the actor
\* to find, waiting, carried, or on the list.
NudgeKept == \A n \in typed : n \in queue \cup pending \cup carried \/ onList[n] > 0

\* A stop ends the turn, whatever the model would have done next.
StopEndsTurn == flag ~> pc \in Over

\* The session actor and the loop say that user input which did not reach the
\* model is left in the inbox, to seed a follow-up turn: when the turn has run its
\* course, every nudge was on some request or is still queued.
NudgeReachesModel == pc = "done" /\ stoppedBy \in {"stop", "asked"} => typed \subseteq sent \cup queue
=============================================================================
