------------------------- MODULE SessionActorProofs -------------------------
(* Proofs about SessionActor, for every set of accounts and every bound.    *)
EXTENDS SessionActor, TLAPS

-----------------------------------------------------------------------------
(* Type correctness *)

\* A message is on hand while it is being appended.
HeldInHand == pc = "append" => held \in Messages
TypeInv == TypeOK /\ HeldInHand

\* The nudges of a queue of items are nudge items.
LEMMA NudgesType ==
    ASSUME NEW q \in Seq(Items)
    PROVE  Nudges(q) \subseteq NudgeItems
BY DEF Nudges, NudgeItems

\* Events written with the id of a message, or with none, are events.
LEMMA EventType ==
    ASSUME turn \in Nat, NEW id \in 0..MaxMsgs,
           NEW ev \in {"user", "nudge", "started", "finished", "incident"}
    PROVE  Event(ev, id) \in Events
BY DEF Event, Events

\* An append that lands or fails keeps the log's type.
LEMMA AppendType ==
    ASSUME LogOK, NEW e \in Events, Logged(e) \/ Lost
    PROVE  LogOK'
<1> USE ConstantsAssumption
<1>1. CASE Logged(e)
  BY <1>1 DEF LogOK, Logged
<1>2. CASE Lost
  BY <1>2 DEF LogOK, Lost
<1> QED BY <1>1, <1>2

\* The empty queue has every queue's type.
LEMMA EmptyType == ASSUME NEW S PROVE <<>> \in Seq(S)
OBVIOUS

\* The types hold at the start.
LEMMA TypeInit == Init => TypeInv
<1> SUFFICES ASSUME Init PROVE TypeInv
  OBVIOUS
<1> USE ConstantsAssumption DEF Init
<1>1. HandleOK
  BY EmptyType DEF HandleOK, Speakers
<1>2. ActorOK /\ HeldInHand
  BY EmptyType DEF ActorOK, HeldInHand, Places, Speakers
<1>3. CallerOK
  BY DEF CallerOK
<1>4. LogOK /\ HistoryOK
  BY DEF LogOK, HistoryOK
<1> QED BY <1>1, <1>2, <1>3, <1>4 DEF TypeInv, TypeOK

\* Every step keeps the types.
LEMMA TypeStep == TypeInv /\ [Next]_vars => TypeInv'
<1> SUFFICES ASSUME TypeInv, [Next]_vars PROVE TypeInv'
  OBVIOUS
<1> USE ConstantsAssumption
<1> USE DEF TypeInv, TypeOK, HandleOK, ActorOK, CallerOK, LogOK, HistoryOK, HeldInHand
<1>0. Nothing.id = 0
  BY DEF Nothing
<1>1. ASSUME NEW m \in Messages, Accept(m) PROVE TypeInv'
  BY <1>1 DEF Accept, Messages, Ids, actor, ledger
<1>2. ASSUME NEW m \in Messages, Send(m) PROVE TypeInv'
  BY <1>2 DEF Send, actor, ledger, history
<1>3. ASSUME NEW s \in Speakers, StopCheck(s) PROVE TypeInv'
  BY <1>3 DEF StopCheck, handle, actor, ledger
<1>4. ASSUME NEW s \in Speakers, StopLoad(s) \/ StopStore(s) PROVE TypeInv'
  <2>1. CASE StopLoad(s)
    BY <2>1 DEF StopLoad, handle, actor, ledger, history
  <2>2. CASE StopStore(s)
    <3>1. stopAt' \in Nat
      BY <2>2 DEF StopStore
    <3>2. CallerOK'
      BY <2>2 DEF StopStore
    <3> QED BY <2>2, <3>1, <3>2 DEF StopStore, actor, ledger, history
  <2> QED BY <1>4, <2>1, <2>2
<1>5. ASSUME NEW s \in Speakers, StopPush(s) PROVE TypeInv'
  <2>1. CancelItem \in Items
    BY DEF CancelItem, Items, Speakers
  <2> QED BY <1>5, <2>1 DEF StopPush, actor, ledger
<1>6. ASSUME NEW m \in Messages, Take(m), rx' \in Seq(Messages), deferred' \in Seq(Messages)
      PROVE  TypeInv'
  BY <1>6 DEF Take, caller, ledger, history, Places, Messages
<1>7. CASE TakeDeferred
  <2>1. Head(deferred) \in Messages /\ Tail(deferred) \in Seq(Messages)
    BY <1>7 DEF TakeDeferred
  <2> QED BY <1>6, <1>7, <2>1 DEF TakeDeferred
<1>8. CASE Receive
  <2>1. Head(rx) \in Messages /\ Tail(rx) \in Seq(Messages)
    BY <1>8 DEF Receive
  <2> QED BY <1>6, <1>8, <2>1 DEF Receive
<1>9. CASE LogUserMessage
  <2>1. Event("user", held.id) \in Events
    BY <1>9, EventType DEF LogUserMessage, Messages, Ids
  <2> QED BY <1>9, <2>1 DEF LogUserMessage, Logged, handle, caller, history, Places
<1>10. CASE UserMessageLost
  <2>1. held.id \in Ids
    BY <1>10 DEF UserMessageLost, Messages
  <2>2. HandleOK' /\ ActorOK' /\ HeldInHand'
    BY <1>10 DEF UserMessageLost, Places
  <2>3. CallerOK' /\ LogOK' /\ HistoryOK'
    BY <1>10, <2>1 DEF UserMessageLost, Lost, caller
  <2> QED BY <2>2, <2>3
<1>11. CASE FollowUp
  BY <1>11 DEF FollowUp, handle, caller, ledger, history, Places
<1>12. CASE OpenTurn
  <2>1. HandleOK' /\ ActorOK' /\ HeldInHand'
    BY <1>12, EmptyType DEF OpenTurn, Places
  <2>2. CallerOK' /\ LogOK'
    BY <1>12 DEF OpenTurn, caller, ledger
  <2>3. HistoryOK'
    BY <1>12, NudgesType DEF OpenTurn
  <2> QED BY <2>1, <2>2, <2>3
<1>13. CASE BeginTurn
  BY <1>13 DEF BeginTurn, caller, ledger, history, Places
<1>14. CASE MarkStarted
  <2>1. Event("started", 0) \in Events
    BY EventType
  <2>2. LogOK' /\ unlogged' \in SUBSET Nat
    <3>1. LogOK'
      BY <1>14, <2>1, AppendType DEF MarkStarted, Marker
    <3>2. unlogged' \in SUBSET Nat
      BY <1>14 DEF MarkStarted, Marker
    <3> QED BY <3>1, <3>2
  <2>3. HandleOK' /\ ActorOK' /\ HeldInHand' /\ CallerOK'
    BY <1>14 DEF MarkStarted, handle, caller, Places
  <2> QED BY <1>14, <2>2, <2>3 DEF MarkStarted
<1>15. CASE PublishSpeaker
  BY <1>15 DEF PublishSpeaker, caller, ledger, history, Places
<1>16. CASE ReadStop
  BY <1>16 DEF ReadStop, Raised, handle, caller, ledger, Places
<1>17. CASE ReportFault
  <2>1. Event("incident", 0) \in Events
    BY EventType
  <2>2. LogOK'
    BY <1>17, <2>1, AppendType DEF ReportFault
  <2>3. HandleOK' /\ ActorOK' /\ HeldInHand'
    BY <1>17 DEF ReportFault, handle, Places
  <2>4. CallerOK' /\ HistoryOK'
    BY <1>17 DEF ReportFault, caller, history
  <2> QED BY <2>2, <2>3, <2>4
<1>18. CASE FinishTurn
  <2>1. Event("finished", 0) \in Events
    BY EventType
  <2>2. LogOK' /\ unlogged' \in SUBSET Nat
    <3>1. LogOK'
      BY <1>18, <2>1, AppendType DEF FinishTurn, Marker
    <3>2. unlogged' \in SUBSET Nat
      BY <1>18 DEF FinishTurn, Marker
    <3> QED BY <3>1, <3>2
  <2>3. HandleOK' /\ ActorOK' /\ HeldInHand' /\ CallerOK'
    BY <1>18 DEF FinishTurn, handle, caller, Places
  <2> QED BY <1>18, <2>2, <2>3 DEF FinishTurn
<1>19. CASE ReportTrap
  <2>1. Event("incident", 0) \in Events
    BY EventType
  <2>2. LogOK'
    BY <1>19, <2>1, AppendType DEF ReportTrap, ledger
  <2>3. HandleOK' /\ ActorOK' /\ HeldInHand'
    BY <1>19 DEF ReportTrap, handle, Places
  <2>4. CallerOK' /\ HistoryOK'
    BY <1>19 DEF ReportTrap, caller, history
  <2> QED BY <2>2, <2>3, <2>4
<1>20. CASE ClearSpeaker
  BY <1>20 DEF ClearSpeaker, caller, ledger, history, Places, Speakers
<1>21. CASE LowerRunning
  BY <1>21 DEF LowerRunning, caller, ledger, history, Places
<1>22. CASE TakeLeftovers
  <2>1. SeedsFollowUp \in BOOLEAN
    BY DEF SeedsFollowUp
  <2>2. HandleOK' /\ ActorOK' /\ HeldInHand'
    BY <1>22, <2>1, EmptyType DEF TakeLeftovers, Places
  <2>3. CallerOK' /\ LogOK'
    BY <1>22 DEF TakeLeftovers, caller, ledger
  <2>4. HistoryOK'
    BY <1>22, NudgesType DEF TakeLeftovers
  <2> QED BY <2>2, <2>3, <2>4
<1>23. CASE DeferMessage
  BY <1>23 DEF DeferMessage, caller, ledger, history
<1>24. CASE NudgeTurn
  <2>1. Head(rx) \in Messages
    BY <1>24 DEF NudgeTurn
  <2>2. Event("nudge", Head(rx).id) \in Events
    BY <2>1, EventType DEF Messages, Ids
  <2>3. Nudge(Head(rx)) \in Items
    BY <2>1 DEF Nudge, Items, Messages, Ids
  <2>4. Head(rx).id \in Ids
    BY <2>1 DEF Messages
  <2>5. LogOK' /\ refused' \in SUBSET Ids
    <3>1. LogOK'
      BY <1>24, <2>2, AppendType DEF NudgeTurn
    <3>2. refused' \in SUBSET Ids
      BY <1>24, <2>4 DEF NudgeTurn
    <3> QED BY <3>1, <3>2
  <2>6. HandleOK' /\ ActorOK' /\ HeldInHand' /\ CallerOK'
    BY <1>24, <2>3 DEF NudgeTurn, actor, caller
  <2> QED BY <1>24, <2>5, <2>6 DEF NudgeTurn
<1>25. CASE IgnoreResume
  BY <1>25 DEF IgnoreResume, actor, caller, ledger, history
<1>26. CASE Poll
  BY <1>26 DEF Poll, actor, caller, ledger
<1>27. ASSUME NEW o \in {"ok", "reported", "trap"}, Return(o) PROVE TypeInv'
  BY <1>27 DEF Return, handle, caller, ledger, history, Places
<1>28. CASE UNCHANGED vars
  BY <1>28 DEF vars, handle, actor, caller, ledger, history
<1> QED
  BY <1>1, <1>2, <1>3, <1>4, <1>5, <1>7, <1>8, <1>9, <1>10, <1>11, <1>12, <1>13, <1>14, <1>15,
     <1>16, <1>17, <1>18, <1>19, <1>20, <1>21, <1>22, <1>23, <1>24, <1>25, <1>26, <1>27, <1>28
     DEF Next, Callers, ActorStep, TurnStep, Submit, Resume

\* Every variable of the session actor keeps its type, whatever the interleaving
\* of its callers with the actor's steps.
THEOREM TypeCorrect == Spec => []TypeOK
<1>1. TypeInv => TypeOK
  BY DEF TypeInv
<1> QED BY TypeInit, TypeStep, <1>1, PTL DEF Spec

-----------------------------------------------------------------------------
(* Steering and stopping *)

\* The stop an ending turn was read with is the stop of that very turn.
WindDown == {"incident", "finish", "breaker", "quiet", "lower", "leftover"}
StoppedKnown == stopped => pc \in WindDown /\ turn \in stoppedTurns

SteerInv == SteeredBySpeaker /\ AbandonedOnlyByStop /\ PublishedIsSpeaker /\ StoppedKnown

\* An empty queue holds no nudges.
LEMMA NudgesEmpty == Nudges(<<>>) = {}
BY DEF Nudges

\* Pushing an item adds it to the nudges exactly when it is one.
LEMMA NudgesPush ==
    ASSUME NEW q \in Seq(Items), NEW e \in Items
    PROVE  Nudges(Append(q, e)) = Nudges(q) \cup (IF e.kind = "nudge" THEN {e} ELSE {})
<1>1. /\ DOMAIN Append(q, e) = 1..(Len(q) + 1)
      /\ DOMAIN q = 1..Len(q)
      /\ \A i \in 1..Len(q) : Append(q, e)[i] = q[i]
      /\ Append(q, e)[Len(q) + 1] = e
      /\ Len(q) \in Nat
  OBVIOUS
<1> QED BY <1>1 DEF Nudges

\* A step that touches neither the queue of the turn nor whose turn it is.
LEMMA SteerFrame ==
    ASSUME SteerInv,
           UNCHANGED <<inbox, turn, published, pc, speaker, stopped, abandoned, stoppedTurns>>
    PROVE  SteerInv'
BY DEF SteerInv, SteeredBySpeaker, AbandonedOnlyByStop, PublishedIsSpeaker, StoppedKnown

\* Nothing is queued, thrown away or published at the start.
LEMMA SteerInit == Init => SteerInv
BY NudgesEmpty DEF Init, SteerInv, SteeredBySpeaker, AbandonedOnlyByStop, PublishedIsSpeaker,
   StoppedKnown

\* Every step keeps the nudges of the turn its speaker's own, throws none away but
\* those of a stopped turn, and publishes nobody else's name.
LEMMA SteerStep == TypeInv /\ SteerInv /\ [Next]_vars => SteerInv'
<1> SUFFICES ASSUME TypeInv, SteerInv, [Next]_vars PROVE SteerInv'
  OBVIOUS
<1> USE DEF SteerInv, SteeredBySpeaker, AbandonedOnlyByStop, PublishedIsSpeaker, StoppedKnown,
            WindDown
<1>0. inbox \in Seq(Items) /\ turn \in Nat
  BY DEF TypeInv, TypeOK, HandleOK
<1>1. ASSUME NEW m \in Messages, Accept(m) \/ Send(m) PROVE SteerInv'
  BY <1>1, SteerFrame DEF Accept, Send, actor, history
<1>2. ASSUME NEW s \in Speakers, StopCheck(s) \/ StopLoad(s) \/ StopStore(s) PROVE SteerInv'
  BY <1>2, SteerFrame DEF StopCheck, StopLoad, StopStore, handle, actor, history
<1>3. ASSUME NEW s \in Speakers, StopPush(s) PROVE SteerInv'
  <2>1. CancelItem \in Items /\ CancelItem.kind # "nudge"
    BY ConstantsAssumption DEF CancelItem, Items, Speakers
  <2>2. Nudges(inbox') = Nudges(inbox)
    BY <1>0, <1>3, <2>1, NudgesPush DEF StopPush
  <2> QED BY <1>3, <2>2 DEF StopPush, actor
<1>4. ASSUME pc = "recv", NEW m, Take(m) PROVE SteerInv'
  BY <1>4 DEF Take, history
<1>5. CASE TakeDeferred \/ Receive
  BY <1>4, <1>5 DEF TakeDeferred, Receive
<1>6. CASE LogUserMessage \/ FollowUp \/ MarkStarted
  BY <1>6 DEF LogUserMessage, FollowUp, MarkStarted, handle, history
<1>7. CASE UserMessageLost
  BY <1>7 DEF UserMessageLost
<1>8. CASE OpenTurn
  BY <1>8, NudgesEmpty DEF OpenTurn
<1>9. CASE BeginTurn
  BY <1>9 DEF BeginTurn, history
<1>10. CASE PublishSpeaker
  BY <1>10 DEF PublishSpeaker, history
<1>11. CASE ReadStop
  BY <1>11 DEF ReadStop, handle
<1>12. CASE ReportFault \/ FinishTurn \/ ReportTrap
  BY <1>12 DEF ReportFault, FinishTurn, ReportTrap, handle, history
<1>13. CASE ClearSpeaker
  BY <1>13 DEF ClearSpeaker, history
<1>14. CASE LowerRunning
  BY <1>14 DEF LowerRunning, history
<1>15. CASE TakeLeftovers
  <2>1. \A n \in abandoned' : n.turn \in stoppedTurns
    BY <1>15 DEF TakeLeftovers, SeedsFollowUp
  <2> QED BY <1>15, <2>1, NudgesEmpty DEF TakeLeftovers
<1>16. CASE DeferMessage \/ IgnoreResume
  BY <1>16, SteerFrame DEF DeferMessage, IgnoreResume, actor, history
<1>17. CASE NudgeTurn
  <2>1. Head(rx) \in Messages /\ Head(rx).from = speaker
    BY <1>17 DEF NudgeTurn, Steers, TypeInv, TypeOK, HandleOK
  <2> DEFINE n == Nudge(Head(rx))
  <2>2. n \in Items /\ n.from = speaker /\ n.turn = turn
    BY <1>0, <2>1, ConstantsAssumption DEF Nudge, Items, Messages, Ids
  <2>3. Nudges(inbox') \subseteq Nudges(inbox) \cup {n}
    BY <1>0, <1>17, <2>2, NudgesPush DEF NudgeTurn
  <2> QED BY <1>17, <2>2, <2>3 DEF NudgeTurn, actor
<1>18. CASE Poll
  BY <1>18, NudgesEmpty DEF Poll, actor
<1>19. ASSUME NEW o \in {"ok", "reported", "trap"}, Return(o) PROVE SteerInv'
  BY <1>19 DEF Return, handle, history
<1>20. CASE UNCHANGED vars
  BY <1>20, SteerFrame DEF vars, handle, actor, history
<1> QED
  BY <1>1, <1>2, <1>3, <1>5, <1>6, <1>7, <1>8, <1>9, <1>10, <1>11, <1>12, <1>13, <1>14, <1>15,
     <1>16, <1>17, <1>18, <1>19, <1>20
     DEF Next, Callers, ActorStep, TurnStep, Submit, Resume

\* The nudges a turn is steered by were written by its speaker, during that turn,
\* however messages, stops and turns interleave.
THEOREM OnlyTheSpeakerSteers == Spec => []SteeredBySpeaker
<1>1. SteerInv => SteeredBySpeaker
  BY DEF SteerInv
<1> QED BY TypeInit, TypeStep, SteerInit, SteerStep, <1>1, PTL DEF Spec

\* A nudge is thrown away only by the stop of the turn it was typed into.
THEOREM NudgesSurvive == Spec => []AbandonedOnlyByStop
<1>1. SteerInv => AbandonedOnlyByStop
  BY DEF SteerInv
<1> QED BY TypeInit, TypeStep, SteerInit, SteerStep, <1>1, PTL DEF Spec

\* The name a revocation is matched against is the running turn's speaker, never
\* one whose turn is over.
THEOREM PublishedSpeaker == Spec => []PublishedIsSpeaker
<1>1. SteerInv => PublishedIsSpeaker
  BY DEF SteerInv
<1> QED BY TypeInit, TypeStep, SteerInit, SteerStep, <1>1, PTL DEF Spec

-----------------------------------------------------------------------------
(* The turn markers in the log *)

\* The turn is read as running from its first step to after its terminator.
Busy == {"begin", "mark", "breaker", "quiet", "lower"} \cup OpenPlaces
RunningThrough == pc \in Busy => running

\* Every turn but the open one is settled.
Settled(t) == t \in unlogged \/ Starts(t) = {} \/ Terminators(t) # {}
AllSettled == \A t \in 0..turn : Settled(t) \/ (t = turn /\ pc \in OpenPlaces)

\* No marker is ahead of the actor: neither of the turn about to be marked, and
\* no terminator of the open one.
MarkersBehind ==
    \A i \in DOMAIN log :
        /\ log[i].turn <= turn
        /\ log[i].ev = "started" /\ pc = "mark" => log[i].turn < turn
        /\ log[i].ev = "finished" /\ pc \in OpenPlaces \cup {"mark"} => log[i].turn < turn

\* A turn's terminator comes after its start.
StartThenFinish ==
    \A i, j \in DOMAIN log :
        log[i].ev = "started" /\ log[j].ev = "finished" /\ log[i].turn = log[j].turn => i < j

MarkInv == RunningThrough /\ AllSettled /\ MarkersBehind /\ StartThenFinish /\ OneTerminator

\* What an append does to the log.
LEMMA Appended ==
    ASSUME LogOK, NEW e \in Events, log' = Append(log, e)
    PROVE  /\ Len(log) \in Nat
           /\ DOMAIN log = 1..Len(log)
           /\ DOMAIN log' = 1..(Len(log) + 1)
           /\ \A i \in 1..Len(log) : log'[i] = log[i]
           /\ log'[Len(log) + 1] = e
           /\ \A i \in 1..Len(log) : log[i].turn \in Nat
<1>1. log \in Seq(Events)
  BY DEF LogOK
<1>2. \A i \in 1..Len(log) : log[i] \in Events
  BY <1>1
<1>3. \A i \in 1..Len(log) : log[i].turn \in Nat
  BY <1>2 DEF Events
<1> QED BY <1>1, <1>3

\* A step that leaves the log and the turn alone, and stays in its phase.
LEMMA MarkFrame ==
    ASSUME MarkInv, UNCHANGED <<log, turn>>, unlogged \subseteq unlogged',
           pc' = "mark" => pc = "mark",
           pc' \in OpenPlaces <=> pc \in OpenPlaces,
           RunningThrough'
    PROVE  MarkInv'
<1>1. \A t : Starts(t)' = Starts(t) /\ Terminators(t)' = Terminators(t)
  BY DEF Starts, Terminators
<1>2. AllSettled'
  BY <1>1 DEF MarkInv, AllSettled, Settled
<1>3. MarkersBehind'
  BY DEF MarkInv, MarkersBehind
<1>4. StartThenFinish' /\ OneTerminator'
  BY DEF MarkInv, StartThenFinish, OneTerminator
<1> QED BY <1>2, <1>3, <1>4 DEF MarkInv

\* So does one that appends an event that is no marker.
LEMMA MarkOther ==
    ASSUME LogOK, turn \in Nat, MarkInv, NEW e \in Events, log' = Append(log, e),
           e.ev \notin {"started", "finished"}, e.turn = turn,
           UNCHANGED turn, unlogged \subseteq unlogged',
           pc' = "mark" => pc = "mark",
           pc' \in OpenPlaces <=> pc \in OpenPlaces,
           RunningThrough'
    PROVE  MarkInv'
<1> USE Appended
<1>1. \A t : Starts(t)' = Starts(t) /\ Terminators(t)' = Terminators(t)
  BY DEF Starts, Terminators
<1>2. AllSettled'
  BY <1>1 DEF MarkInv, AllSettled, Settled
<1>3. MarkersBehind'
  BY DEF MarkInv, MarkersBehind
<1>4. StartThenFinish'
  BY DEF MarkInv, StartThenFinish
<1>5. OneTerminator'
  <2> SUFFICES ASSUME NEW i \in DOMAIN log', NEW j \in DOMAIN log', i < j,
                      log'[i].ev \in {"started", "finished"}, log'[j].ev = log'[i].ev
               PROVE  /\ log[i].ev = "finished" => log[i].turn < log[j].turn
                      /\ log[i].ev = "started" =>
                             \/ log[i].turn \in unlogged
                             \/ \E k \in i..j : log[k].ev = "finished" /\ log[k].turn = log[i].turn
    BY DEF OneTerminator
  <2> QED BY DEF MarkInv, OneTerminator
<1> QED BY <1>2, <1>3, <1>4, <1>5 DEF MarkInv

\* The start of a turn is appended when every earlier turn is settled.
LEMMA MarkStart ==
    ASSUME LogOK, turn \in Nat, MarkInv, pc = "mark", pc' = "publish",
           log' = Append(log, Event("started", 0)), UNCHANGED <<turn, unlogged, running>>
    PROVE  MarkInv'
<1> DEFINE e == Event("started", 0)
<1>0. e \in Events /\ e.ev = "started" /\ e.turn = turn
  BY ConstantsAssumption DEF Event, Events
<1> HIDE DEF e
<1>1. log' = Append(log, e)
  BY DEF e
<1> USE <1>0, <1>1, Appended
<1>2. RunningThrough'
  BY DEF MarkInv, RunningThrough, Busy, OpenPlaces
<1>3. AllSettled'
  <2>1. \A t : t # turn => Starts(t)' = Starts(t)
    BY DEF Starts
  <2>2. \A t : Terminators(t)' = Terminators(t)
    BY DEF Terminators
  <2> QED BY <2>1, <2>2 DEF MarkInv, AllSettled, Settled, OpenPlaces
<1>4. MarkersBehind'
  BY DEF MarkInv, MarkersBehind, OpenPlaces
<1>5. StartThenFinish'
  BY DEF MarkInv, MarkersBehind, StartThenFinish
<1>6. ASSUME NEW i \in 1..Len(log), log[i].ev = "started", log[i].turn \notin unlogged
      PROVE  \E k \in i..Len(log) : log[k].ev = "finished" /\ log[k].turn = log[i].turn
  <2>1. Settled(log[i].turn)
    BY <1>6 DEF MarkInv, AllSettled, MarkersBehind, OpenPlaces
  <2>2. PICK k \in DOMAIN log : log[k].ev = "finished" /\ log[k].turn = log[i].turn
    BY <1>6, <2>1 DEF Settled, Starts, Terminators
  <2>3. i < k
    BY <1>6, <2>2 DEF MarkInv, StartThenFinish
  <2> QED BY <2>2, <2>3
<1>7. OneTerminator'
  BY <1>6 DEF MarkInv, OneTerminator
<1> QED BY <1>2, <1>3, <1>4, <1>5, <1>7 DEF MarkInv

\* The terminator of the open turn is its only one.
LEMMA MarkFinish ==
    ASSUME LogOK, turn \in Nat, MarkInv, pc = "finish", pc' \in {"breaker", "quiet"},
           log' = Append(log, Event("finished", 0)), UNCHANGED <<turn, unlogged, running>>
    PROVE  MarkInv'
<1> DEFINE e == Event("finished", 0)
<1>0. e \in Events /\ e.ev = "finished" /\ e.turn = turn
  BY ConstantsAssumption DEF Event, Events
<1> HIDE DEF e
<1>1. log' = Append(log, e)
  BY DEF e
<1> USE <1>0, <1>1, Appended
<1>2. RunningThrough'
  BY DEF MarkInv, RunningThrough, Busy, OpenPlaces
<1>3. AllSettled'
  <2>1. \A t : Starts(t)' = Starts(t)
    BY DEF Starts
  <2>2. Len(log) + 1 \in Terminators(turn)'
    BY DEF Terminators
  <2>3. \A t : t # turn => Terminators(t)' = Terminators(t)
    BY DEF Terminators
  <2> QED BY <2>1, <2>2, <2>3 DEF MarkInv, AllSettled, Settled
<1>4. MarkersBehind'
  BY DEF MarkInv, MarkersBehind, OpenPlaces
<1>5. StartThenFinish'
  BY DEF MarkInv, StartThenFinish
<1>6. OneTerminator'
  BY DEF MarkInv, MarkersBehind, OneTerminator, OpenPlaces
<1> QED BY <1>2, <1>3, <1>4, <1>5, <1>6 DEF MarkInv

\* A marker that could not be appended.
LEMMA MarkLost ==
    ASSUME turn \in Nat, MarkInv, UNCHANGED <<log, turn, running>>, unlogged' = unlogged \cup {turn},
           \/ pc = "mark" /\ pc' = "publish"
           \/ pc = "finish" /\ pc' \in {"breaker", "quiet"}
    PROVE  MarkInv'
<1>1. \A t : Starts(t)' = Starts(t) /\ Terminators(t)' = Terminators(t)
  BY DEF Starts, Terminators
<1>2. RunningThrough'
  BY DEF MarkInv, RunningThrough, Busy, OpenPlaces
<1>3. AllSettled'
  BY <1>1 DEF MarkInv, AllSettled, Settled
<1>4. MarkersBehind'
  BY DEF MarkInv, MarkersBehind, OpenPlaces
<1>5. StartThenFinish' /\ OneTerminator'
  BY DEF MarkInv, StartThenFinish, OneTerminator
<1> QED BY <1>2, <1>3, <1>4, <1>5 DEF MarkInv

\* A new turn has no marker yet, and leaves every earlier one settled.
LEMMA MarkBegin ==
    ASSUME LogOK, turn \in Nat, MarkInv, BeginTurn
    PROVE  MarkInv'
<1> USE DEF BeginTurn, ledger, history
<1>0. \A i \in DOMAIN log : log[i].turn \in Nat
  <2>1. \A i \in DOMAIN log : log[i] \in Events
    BY DEF LogOK
  <2> QED BY <2>1 DEF Events
<1>1. \A t : Starts(t)' = Starts(t) /\ Terminators(t)' = Terminators(t)
  BY DEF Starts, Terminators
<1>2. RunningThrough'
  BY DEF MarkInv, RunningThrough, Busy, OpenPlaces
<1>3. AllSettled'
  <2>1. Starts(turn + 1) = {}
    BY <1>0 DEF MarkInv, MarkersBehind, Starts
  <2>2. \A t \in 0..turn : Settled(t)
    BY DEF MarkInv, AllSettled, OpenPlaces
  <2>3. \A t \in 0..turn' : t = turn + 1 \/ t \in 0..turn
    OBVIOUS
  <2> QED BY <1>1, <2>1, <2>2, <2>3 DEF AllSettled, Settled
<1>4. MarkersBehind'
  BY <1>0 DEF MarkInv, MarkersBehind
<1>5. StartThenFinish' /\ OneTerminator'
  BY DEF MarkInv, StartThenFinish, OneTerminator
<1> QED BY <1>2, <1>3, <1>4, <1>5 DEF MarkInv

\* The log starts empty and no turn has begun.
LEMMA MarkInit == Init => MarkInv
<1> SUFFICES ASSUME Init PROVE MarkInv
  OBVIOUS
<1>1. DOMAIN log = {}
  BY DEF Init
<1> QED BY <1>1 DEF Init, MarkInv, RunningThrough, Busy, OpenPlaces, AllSettled, Settled, Starts,
           MarkersBehind, StartThenFinish, OneTerminator

\* Every step keeps the markers of the log in order, each turn settled before
\* the session stops reading as running.
LEMMA MarkStep == TypeInv /\ MarkInv /\ [Next]_vars => MarkInv'
<1> SUFFICES ASSUME TypeInv, MarkInv, [Next]_vars PROVE MarkInv'
  OBVIOUS
<1>0. LogOK /\ turn \in Nat /\ RunningThrough
  BY DEF TypeInv, TypeOK, HandleOK, MarkInv
<1>1. ASSUME NEW m \in Messages, Accept(m) \/ Send(m) PROVE MarkInv'
  <2>1. RunningThrough'
    BY <1>0, <1>1 DEF Accept, Send, actor, RunningThrough
  <2> QED BY <1>1, <2>1, MarkFrame DEF Accept, Send, actor, ledger, history
<1>2. ASSUME NEW s \in Speakers, StopCheck(s) \/ StopLoad(s) \/ StopStore(s) \/ StopPush(s) PROVE MarkInv'
  <2>1. RunningThrough'
    BY <1>0, <1>2 DEF StopCheck, StopLoad, StopStore, StopPush, handle, actor, RunningThrough
  <2> QED BY <1>2, <2>1, MarkFrame DEF StopCheck, StopLoad, StopStore, StopPush, handle, actor, ledger, history
<1>3. ASSUME pc = "recv", NEW m, Take(m) PROVE MarkInv'
  <2>1. RunningThrough'
    BY <1>3 DEF Take, RunningThrough, Busy, OpenPlaces
  <2> QED BY <1>3, <2>1, MarkFrame DEF Take, ledger, history, OpenPlaces
<1>4. CASE TakeDeferred \/ Receive
  BY <1>3, <1>4 DEF TakeDeferred, Receive
<1>5. CASE LogUserMessage
  <2>1. Event("user", held.id) \in Events
    BY <1>0, <1>5, EventType DEF LogUserMessage, TypeInv, HeldInHand, Messages, Ids
  <2>2. RunningThrough'
    BY <1>5 DEF LogUserMessage, RunningThrough, Busy, OpenPlaces
  <2>3. Event("user", held.id).ev = "user" /\ Event("user", held.id).turn = turn
    BY DEF Event
  <2> QED BY <1>0, <1>5, <2>1, <2>2, <2>3, MarkOther
          DEF LogUserMessage, Logged, handle, history, OpenPlaces
<1>6. CASE UserMessageLost
  <2>1. RunningThrough'
    BY <1>6 DEF UserMessageLost, RunningThrough, Busy, OpenPlaces
  <2> QED BY <1>6, <2>1, MarkFrame DEF UserMessageLost, Lost, OpenPlaces
<1>7. CASE FollowUp \/ OpenTurn
  <2>1. RunningThrough'
    BY <1>7 DEF FollowUp, OpenTurn, RunningThrough, Busy, OpenPlaces
  <2> QED BY <1>7, <2>1, MarkFrame DEF FollowUp, OpenTurn, handle, ledger, history, OpenPlaces
<1>8. CASE BeginTurn
  BY <1>0, <1>8, MarkBegin
<1>9. CASE MarkStarted
  BY <1>0, <1>9, MarkStart, MarkLost DEF MarkStarted, Marker, Logged, Lost, handle
<1>10. CASE PublishSpeaker \/ ReadStop \/ (\E o \in {"ok", "reported", "trap"} : Return(o))
  <2>1. RunningThrough'
    BY <1>0, <1>10 DEF PublishSpeaker, ReadStop, Return, handle, RunningThrough, Busy, OpenPlaces
  <2> QED BY <1>10, <2>1, MarkFrame
          DEF PublishSpeaker, ReadStop, Return, handle, ledger, history, OpenPlaces
<1>11. CASE ReportFault \/ ReportTrap
  <2>1. Event("incident", 0) \in Events
    BY <1>0, EventType, ConstantsAssumption
  <2>2. RunningThrough'
    BY <1>0, <1>11 DEF ReportFault, ReportTrap, handle, RunningThrough, Busy, OpenPlaces
  <2>3. Event("incident", 0).ev = "incident" /\ Event("incident", 0).turn = turn
    BY DEF Event
  <2>4. CASE Logged(Event("incident", 0))
    BY <1>0, <1>11, <2>1, <2>2, <2>3, <2>4, MarkOther
       DEF ReportFault, ReportTrap, Logged, handle, history, OpenPlaces
  <2>5. CASE UNCHANGED log
    BY <1>11, <2>2, <2>5, MarkFrame DEF ReportFault, ReportTrap, handle, history, OpenPlaces
  <2> QED BY <1>11, <2>4, <2>5 DEF ReportFault, ReportTrap, Lost, ledger
<1>12. CASE FinishTurn
  BY <1>0, <1>12, MarkFinish, MarkLost DEF FinishTurn, Marker, Logged, Lost, handle
<1>13. CASE ClearSpeaker \/ LowerRunning \/ TakeLeftovers
  <2>1. RunningThrough'
    BY <1>0, <1>13
       DEF ClearSpeaker, LowerRunning, TakeLeftovers, RunningThrough, Busy, OpenPlaces
  <2> QED BY <1>13, <2>1, MarkFrame
          DEF ClearSpeaker, LowerRunning, TakeLeftovers, ledger, history, OpenPlaces
<1>14. CASE DeferMessage \/ IgnoreResume \/ Poll
  <2>1. RunningThrough'
    BY <1>0, <1>14 DEF DeferMessage, IgnoreResume, Poll, actor, RunningThrough
  <2> QED BY <1>14, <2>1, MarkFrame DEF DeferMessage, IgnoreResume, Poll, actor, ledger, history
<1>15. CASE NudgeTurn
  <2> DEFINE e == Event("nudge", Head(rx).id)
  <2>1. e \in Events
    <3>1. Head(rx) \in Messages
      BY <1>15 DEF NudgeTurn, TypeInv, TypeOK, HandleOK
    <3> QED BY <1>0, <3>1, EventType, ConstantsAssumption DEF Messages, Ids
  <2>2. RunningThrough'
    BY <1>0, <1>15 DEF NudgeTurn, actor, RunningThrough
  <2>3. e.ev = "nudge" /\ e.turn = turn
    BY DEF Event
  <2>4. CASE Logged(e)
    BY <1>0, <1>15, <2>1, <2>2, <2>3, <2>4, MarkOther DEF NudgeTurn, Logged, actor
  <2>5. CASE UNCHANGED log
    BY <1>15, <2>2, <2>5, MarkFrame DEF NudgeTurn, actor
  <2> QED BY <1>15, <2>4, <2>5 DEF NudgeTurn, Lost
<1>16. CASE UNCHANGED vars
  <2>1. RunningThrough'
    BY <1>0, <1>16 DEF vars, handle, actor, RunningThrough
  <2> QED BY <1>16, <2>1, MarkFrame DEF vars, handle, actor, ledger, history
<1> QED
  BY <1>1, <1>2, <1>4, <1>5, <1>6, <1>7, <1>8, <1>9, <1>10, <1>11, <1>12, <1>13, <1>14, <1>15, <1>16
     DEF Next, Callers, ActorStep, TurnStep, Submit, Resume

\* Whoever hears "not running" finds the log settled: every turn whose markers
\* could be written has its terminator.
THEOREM NotRunningIsSettled == Spec => []NotRunningMeansSettled
<1>1. TypeInv /\ MarkInv => NotRunningMeansSettled
  BY DEF TypeInv, TypeOK, HandleOK, MarkInv, RunningThrough, Busy, AllSettled, Settled,
         NotRunningMeansSettled
<1> QED BY TypeInit, TypeStep, MarkInit, MarkStep, <1>1, PTL DEF Spec

\* No turn has two terminators, and none starts before the last one has its own.
THEOREM ExactlyOneTerminator == Spec => []OneTerminator
<1>1. MarkInv => OneTerminator
  BY DEF MarkInv
<1> QED BY TypeInit, TypeStep, MarkInit, MarkStep, <1>1, PTL DEF Spec
=============================================================================
