-------------------------- MODULE AgentTurnProofs --------------------------
(* Proofs about AgentTurn, for every set of nudges and every number of calls *)
(* and reminders.                                                           *)
EXTENDS AgentTurn, TLAPS

-----------------------------------------------------------------------------
(* The inductive invariant *)

\* The calls without a result are exactly those the batch has not come to, and
\* there are none outside a batch (a trapped turn is not asked).
InBatch == pc \in {"asked", "tool", "dispatch"}
OpenIsRest ==
    /\ InBatch => open = next..calls
    /\ pc = "asked" => next = 1
    /\ pc \in {"asked", "tool"} => next <= calls + 1
    /\ pc = "dispatch" => next <= calls
    /\ ~InBatch /\ pc # "trapped" => open = {}

\* Work begun after the stop leaves the turn short of a checkpoint it cannot pass.
LateIsStopped == late # 0 => flag
BeyondCheckpoint ==
    late # 0 => pc \notin {"start", "head", "compact", "request", "dispatch", "flush"}

\* A stop the turn has seen keeps it out of the batch.
SeenKeepsOut ==
    /\ pc \in {"tool", "dispatch"} => ~cancelled
    /\ pc = "asked" /\ cancelled => seen = "cancelled"

TurnInv ==
    /\ TypeOK /\ OpenIsRest
    /\ StopBoundsWork /\ LateIsStopped /\ BeyondCheckpoint
    /\ SeenKeepsOut /\ StopIsReported
    /\ NudgeKept

-----------------------------------------------------------------------------
(* Polling *)

\* A poll of a turn whose stop was pressed says so.
LEMMA FlagIsSeen == flag => Interrupt = "cancelled"
BY DEF Interrupt, PollCancels

\* What a drain or a flush reports as "not stopped" leaves the turn not stopped.
LEMMA NotSeen ==
    ASSUME Interrupt # "cancelled", cancelled' = (cancelled \/ PollCancels)
    PROVE  cancelled' = FALSE
BY DEF Interrupt

\* A nudge that is drained waits in `pending`.
LEMMA DrainKeeps == TypeOK /\ NudgeKept /\ Drain /\ UNCHANGED carried => NudgeKept'
BY DEF TypeOK, NudgeKept, Drain, Polled

\* A nudge that is flushed is on the list.
LEMMA FlushKeeps == TypeOK /\ NudgeKept /\ Flush /\ UNCHANGED carried => NudgeKept'
BY DEF TypeOK, NudgeKept, Flush, Polled

\* The log holds every nudge typed.
LEMMA RehydrateKeeps == TypeOK /\ Rehydrated /\ UNCHANGED typed => NudgeKept'
BY DEF TypeOK, NudgeKept, Rehydrated

\* Polling keeps the types of what it touches.
LEMMA PollTypes ==
    ASSUME TypeOK, Drain \/ Flush
    PROVE  /\ typed' \in SUBSET Texts /\ queue' \in SUBSET Texts
           /\ cancelItem' \in BOOLEAN /\ flag' \in BOOLEAN /\ cancelled' \in BOOLEAN
           /\ pending' \in SUBSET Texts /\ onList' \in [Texts -> Nat]
           /\ flag' = flag
<1>1. cancelled' \in BOOLEAN /\ PollCancels \in BOOLEAN
  BY DEF TypeOK, Drain, Flush, PollCancels
<1>2. onList' \in [Texts -> Nat]
  BY DEF TypeOK, Drain, Flush
<1> QED BY <1>1, <1>2 DEF TypeOK, Drain, Flush, Polled

-----------------------------------------------------------------------------
(* Types *)

\* The types hold at the start.
LEMMA TypeInit == Init => TypeOK
<1>1. 1 \in 1..(MaxCalls + 1) /\ 0 \in 0..MaxCalls /\ 0 \in 0..MaxTodoNudges
  BY ConstantsAssumption
<1>2. Init => onList \in [Texts -> Nat]
  BY DEF Init
<1>3. Init => /\ open \in SUBSET (1..MaxCalls) /\ calls \in 0..MaxCalls
              /\ next \in 1..(MaxCalls + 1) /\ reminders \in 0..MaxTodoNudges /\ late \in 0..2
  BY <1>1 DEF Init
<1>4. Init => /\ pc \in {"start", "head", "compact", "compacting", "compacted", "gate", "request",
                         "stream", "reply", "said", "asked", "tool", "dispatch", "flush"} \cup Over
              /\ seen \in {"none", "nudged", "cancelled"}
              /\ stoppedBy \in {"none", "stop", "cancelled", "asked", "max-iterations"}
  BY DEF Init
<1> QED BY <1>2, <1>3, <1>4 DEF Init, TypeOK

\* Every step keeps the types.
LEMMA TypeStep == TypeOK /\ OpenIsRest /\ [Next]_vars => TypeOK'
<1> SUFFICES ASSUME TypeOK, OpenIsRest, [Next]_vars PROVE TypeOK'
  OBVIOUS
<1> USE ConstantsAssumption DEF Over, Goto, Finish, batch, host
<1>1. CASE Rehydrate
  BY <1>1 DEF TypeOK, Rehydrate, Rehydrated
<1>2. CASE Exhausted
  BY <1>2 DEF TypeOK, Exhausted
<1>3. CASE Head
  BY <1>3, PollTypes DEF TypeOK, Head
<1>4. CASE SkipCompaction
  BY <1>4 DEF TypeOK, SkipCompaction
<1>5. CASE StartCompaction
  BY <1>5 DEF TypeOK, StartCompaction, Begun
<1>6. CASE SummarizeSpan
  BY <1>6 DEF TypeOK, SummarizeSpan, Polled
<1>7. CASE SpansDone
  BY <1>7 DEF TypeOK, SpansDone
<1>8. CASE EndCompaction
  BY <1>8 DEF TypeOK, EndCompaction, Rehydrated
<1>9. CASE Gate
  BY <1>9, PollTypes DEF TypeOK, Gate
<1>10. CASE Request
  BY <1>10 DEF TypeOK, Request, Begun
<1>11. CASE StreamPoll
  BY <1>11, PollTypes DEF TypeOK, StreamPoll
<1>12. CASE StreamFinished
  BY <1>12 DEF TypeOK, StreamFinished
<1>13. CASE StreamFailed
  BY <1>13, PollTypes DEF TypeOK, StreamFailed
<1>14. CASE RecordReply
  <2>1. Flush /\ seen' \in {"none", "nudged", "cancelled"}
    BY <1>14 DEF RecordReply, Interrupt
  <2>2. 1..calls \in SUBSET (1..MaxCalls) /\ 1 \in 1..(MaxCalls + 1)
    BY DEF TypeOK
  <2> QED BY <1>14, <2>1, <2>2, PollTypes DEF TypeOK, RecordReply
<1>15. CASE Said
  BY <1>15, PollTypes DEF TypeOK, Said, MayRemind
<1>16. CASE Asked
  BY <1>16 DEF TypeOK, Asked, Unrun
<1>17. CASE ToolPoll
  BY <1>17, PollTypes DEF TypeOK, ToolPoll, Unrun
<1>18. CASE Dispatch
  <2>1. next + 1 \in 1..(MaxCalls + 1) /\ late' \in 0..2
    BY <1>18 DEF TypeOK, Dispatch, Begun, OpenIsRest
  <2>2. ended' \in BOOLEAN /\ open' \in SUBSET (1..MaxCalls)
    BY <1>18 DEF TypeOK, Dispatch
  <2> QED BY <1>18, <2>1, <2>2 DEF TypeOK, Dispatch
<1>19. CASE HandBack
  BY <1>19 DEF TypeOK, HandBack
<1>20. CASE BatchDone
  BY <1>20, PollTypes DEF TypeOK, BatchDone
<1>21. CASE BatchFlush
  BY <1>21, PollTypes DEF TypeOK, BatchFlush
<1>22. CASE Trap
  BY <1>22 DEF TypeOK, Trap
<1>23. CASE PressStop
  BY <1>23 DEF TypeOK, PressStop
<1>24. ASSUME NEW n \in Texts, TypeNudge(n) PROVE TypeOK'
  BY <1>24 DEF TypeOK, TypeNudge
<1>25. CASE UNCHANGED vars
  BY <1>25 DEF TypeOK, vars
<1> QED
  BY <1>1, <1>2, <1>3, <1>4, <1>5, <1>6, <1>7, <1>8, <1>9, <1>10, <1>11, <1>12, <1>13, <1>14,
     <1>15, <1>16, <1>17, <1>18, <1>19, <1>20, <1>21, <1>22, <1>23, <1>24, <1>25 DEF Next, Guest

\* The calls without a result stay the rest of the batch.
LEMMA OpenStep == TypeOK /\ OpenIsRest /\ [Next]_vars => OpenIsRest'
<1> SUFFICES ASSUME TypeOK, OpenIsRest, [Next]_vars PROVE OpenIsRest'
  OBVIOUS
<1> USE ConstantsAssumption DEF TypeOK, OpenIsRest, InBatch, Over, Goto, Finish, batch
<1>1. CASE Rehydrate \/ Exhausted \/ Head \/ SkipCompaction \/ StartCompaction \/ SummarizeSpan
  BY <1>1 DEF Rehydrate, Exhausted, Head, SkipCompaction, StartCompaction, SummarizeSpan
<1>2. CASE SpansDone \/ EndCompaction \/ Gate \/ Request \/ StreamPoll \/ StreamFinished \/ StreamFailed
  BY <1>2 DEF SpansDone, EndCompaction, Gate, Request, StreamPoll, StreamFinished, StreamFailed
<1>3. CASE RecordReply
  BY <1>3 DEF RecordReply
<1>4. CASE Said \/ HandBack \/ BatchDone \/ BatchFlush \/ Trap \/ PressStop
  <2>1. CASE Said
    BY <2>1 DEF Said
  <2>2. CASE HandBack
    BY <2>2 DEF HandBack
  <2>3. CASE BatchDone
    BY <2>3 DEF BatchDone
  <2>4. CASE BatchFlush
    BY <2>4 DEF BatchFlush
  <2>5. CASE Trap
    BY <2>5 DEF Trap
  <2>6. CASE PressStop
    BY <2>6 DEF PressStop
  <2> QED BY <1>4, <2>1, <2>2, <2>3, <2>4, <2>5, <2>6
<1>5. CASE Asked
  BY <1>5 DEF Asked, Unrun
<1>6. CASE ToolPoll
  <2>1. open = next..calls /\ calls <= MaxCalls
    BY <1>6 DEF ToolPoll
  <2>2. open \ Unrun(next) = {}
    BY <2>1 DEF Unrun
  <2> QED BY <1>6, <2>2 DEF ToolPoll
<1>7. CASE Dispatch
  BY <1>7 DEF Dispatch
<1>8. ASSUME NEW n \in Texts, TypeNudge(n) PROVE OpenIsRest'
  BY <1>8 DEF TypeNudge
<1>9. CASE UNCHANGED vars
  BY <1>9 DEF vars
<1> QED
  BY <1>1, <1>2, <1>3, <1>4, <1>5, <1>6, <1>7, <1>8, <1>9 DEF Next, Guest

\* What every step needs to know of the stop.
StopInv == StopBoundsWork /\ LateIsStopped /\ BeyondCheckpoint

\* At most one piece of work begins after the stop.
LEMMA LateStep == TypeOK /\ StopInv /\ [Next]_vars => StopInv'
<1> SUFFICES ASSUME TypeOK, StopInv, [Next]_vars PROVE StopInv'
  OBVIOUS
<1> USE DEF TypeOK, StopInv, StopBoundsWork, LateIsStopped, BeyondCheckpoint, Over, Goto, Finish
<1>1. CASE Rehydrate \/ Exhausted \/ SkipCompaction \/ SpansDone \/ EndCompaction
  BY <1>1 DEF Rehydrate, Exhausted, SkipCompaction, SpansDone, EndCompaction, host
<1>2. CASE StartCompaction \/ Request \/ Dispatch
  <2>1. CASE StartCompaction
    BY <2>1 DEF StartCompaction, Begun, host
  <2>2. CASE Request
    BY <2>2 DEF Request, Begun, host
  <2>3. CASE Dispatch
    BY <2>3 DEF Dispatch, Begun, host
  <2> QED BY <1>2, <2>1, <2>2, <2>3
<1>3. CASE SummarizeSpan
  BY <1>3 DEF SummarizeSpan, Polled
<1>4. CASE Head \/ Gate \/ BatchDone
  BY <1>4, FlagIsSeen, PollTypes DEF Head, Gate, BatchDone
<1>5. CASE StreamPoll \/ StreamFailed \/ ToolPoll
  BY <1>5, FlagIsSeen, PollTypes DEF StreamPoll, StreamFailed, ToolPoll
<1>6. CASE RecordReply \/ BatchFlush
  BY <1>6, PollTypes DEF RecordReply, BatchFlush
<1>7. CASE Said
  BY <1>7, FlagIsSeen, PollTypes DEF Said, Worse
<1>8. CASE StreamFinished \/ Asked \/ HandBack \/ Trap
  BY <1>8 DEF StreamFinished, Asked, HandBack, Trap, host
<1>9. CASE PressStop
  BY <1>9 DEF PressStop
<1>10. ASSUME NEW n \in Texts, TypeNudge(n) PROVE StopInv'
  BY <1>10 DEF TypeNudge
<1>11. CASE UNCHANGED vars
  BY <1>11 DEF vars, host
<1> QED
  BY <1>1, <1>2, <1>3, <1>4, <1>5, <1>6, <1>7, <1>8, <1>9, <1>10, <1>11 DEF Next, Guest

\* A stop that was seen ends the turn as one.
LEMMA SeenStep == TypeOK /\ SeenKeepsOut /\ StopIsReported /\ [Next]_vars => (SeenKeepsOut /\ StopIsReported)'
<1> SUFFICES ASSUME TypeOK, SeenKeepsOut, StopIsReported, [Next]_vars PROVE (SeenKeepsOut /\ StopIsReported)'
  OBVIOUS
<1> USE DEF TypeOK, SeenKeepsOut, StopIsReported, Over, Goto, Finish
<1>1. CASE Rehydrate \/ Exhausted \/ SkipCompaction \/ StartCompaction \/ SummarizeSpan \/ SpansDone \/ EndCompaction
  BY <1>1 DEF Rehydrate, Exhausted, SkipCompaction, StartCompaction, SummarizeSpan, SpansDone, EndCompaction
<1>2. CASE Head \/ Gate \/ BatchDone
  BY <1>2, NotSeen DEF Head, Gate, BatchDone, Drain, Flush
<1>3. CASE StreamPoll \/ StreamFailed
  BY <1>3, NotSeen DEF StreamPoll, StreamFailed, Drain
<1>4. CASE ToolPoll
  BY <1>4, NotSeen DEF ToolPoll, Drain
<1>5. CASE BatchFlush
  BY <1>5 DEF BatchFlush
<1>6. CASE RecordReply
  BY <1>6, NotSeen DEF RecordReply, Flush, Interrupt
<1>7. CASE Said
  BY <1>7, NotSeen DEF Said, Flush, Worse
<1>8. CASE Request \/ StreamFinished \/ Asked \/ Dispatch \/ HandBack \/ Trap \/ PressStop
  <2>1. CASE Request
    BY <2>1 DEF Request
  <2>2. CASE StreamFinished
    BY <2>2 DEF StreamFinished
  <2>3. CASE Asked
    BY <2>3 DEF Asked
  <2>4. CASE Dispatch
    BY <2>4 DEF Dispatch
  <2>5. CASE HandBack
    BY <2>5 DEF HandBack
  <2>6. CASE Trap
    BY <2>6 DEF Trap
  <2>7. CASE PressStop
    BY <2>7 DEF PressStop
  <2> QED BY <1>8, <2>1, <2>2, <2>3, <2>4, <2>5, <2>6, <2>7
<1>9. ASSUME NEW n \in Texts, TypeNudge(n) PROVE (SeenKeepsOut /\ StopIsReported)'
  BY <1>9 DEF TypeNudge
<1>10. CASE UNCHANGED vars
  BY <1>10 DEF vars
<1> QED
  BY <1>1, <1>2, <1>3, <1>4, <1>5, <1>6, <1>7, <1>8, <1>9, <1>10 DEF Next, Guest

\* No nudge vanishes.
LEMMA KeptStep == TypeOK /\ NudgeKept /\ [Next]_vars => NudgeKept'
<1> SUFFICES ASSUME TypeOK, NudgeKept, [Next]_vars PROVE NudgeKept'
  OBVIOUS
<1> USE DEF Goto, Finish
<1>1. CASE Rehydrate
  BY <1>1, RehydrateKeeps DEF Rehydrate, host
<1>2. CASE Exhausted \/ SkipCompaction \/ StartCompaction \/ SpansDone \/ Request \/ StreamFinished \/ Asked \/ Dispatch \/ HandBack \/ Trap
  BY <1>2 DEF Exhausted, SkipCompaction, StartCompaction, SpansDone, Request, StreamFinished, Asked, Dispatch, HandBack, Trap, NudgeKept, host
<1>3. CASE SummarizeSpan
  BY <1>3 DEF SummarizeSpan, NudgeKept, Polled
<1>4. CASE EndCompaction
  BY <1>4, RehydrateKeeps DEF EndCompaction, NudgeKept, host
<1>5. CASE Head \/ RecordReply \/ Said \/ BatchFlush
  BY <1>5, FlushKeeps DEF Head, RecordReply, Said, BatchFlush
<1>6. CASE Gate \/ StreamPoll \/ StreamFailed \/ ToolPoll \/ BatchDone
  BY <1>6, DrainKeeps DEF Gate, StreamPoll, StreamFailed, ToolPoll, BatchDone
<1>7. CASE PressStop
  BY <1>7 DEF PressStop, NudgeKept
<1>8. ASSUME NEW n \in Texts, TypeNudge(n) PROVE NudgeKept'
  BY <1>8 DEF TypeNudge, NudgeKept
<1>9. CASE UNCHANGED vars
  BY <1>9 DEF vars, NudgeKept, host
<1> QED
  BY <1>1, <1>2, <1>3, <1>4, <1>5, <1>6, <1>7, <1>8, <1>9 DEF Next, Guest

\* The invariant holds at the start.
LEMMA InvInit == Init => TurnInv
BY TypeInit DEF Init, TurnInv, OpenIsRest, InBatch, StopBoundsWork, LateIsStopped, BeyondCheckpoint,
   SeenKeepsOut, StopIsReported, NudgeKept

\* Every step keeps it.
LEMMA InvStep == TurnInv /\ [Next]_vars => TurnInv'
BY TypeStep, OpenStep, LateStep, SeenStep, KeptStep DEF TurnInv, StopInv

\* The turn loop implies what is stated about it.
LEMMA InvImplies ==
    TurnInv => TypeOK /\ CallsAnswered /\ StopBoundsWork /\ StopIsReported /\ NudgeKept
BY DEF TurnInv, OpenIsRest, InBatch, CallsAnswered

-----------------------------------------------------------------------------
(* Results *)

\* Every variable of the turn loop keeps its type.
THEOREM TurnTypes == Spec => []TypeOK
BY InvInit, InvStep, InvImplies, PTL DEF Spec

\* Whatever stops, nudges and faults arrive during a batch, every tool call has
\* its result before the next request is built and before the turn returns.
THEOREM EveryCallAnswered == Spec => []CallsAnswered
BY InvInit, InvStep, InvImplies, PTL DEF Spec

\* After the stop the loop begins at most one more completion, tool or compaction.
THEOREM StopBounds == Spec => []StopBoundsWork
BY InvInit, InvStep, InvImplies, PTL DEF Spec

\* A turn that saw the stop never says it ran its course.
THEOREM StopReported == Spec => []StopIsReported
BY InvInit, InvStep, InvImplies, PTL DEF Spec

\* A nudge the user typed into the turn is queued, pending, carried or on the list.
THEOREM NoNudgeVanishes == Spec => []NudgeKept
BY InvInit, InvStep, InvImplies, PTL DEF Spec
=============================================================================
