------------------------ MODULE SessionActorDelivery ------------------------
(* Proofs about SessionActor, continued: how many turns a stop can end, that *)
(* a message is never in two places, and that the actor implements the       *)
(* safety part of module Conversation.                                       *)
EXTENDS SessionActorProofs, FiniteSetTheorems

-----------------------------------------------------------------------------
(* One stop, one turn *)

\* Stops that have begun and not been stored yet, and the turns a stop has ended
\* or now stands against: every one of either is paid for by a stop of its own.
Pending == {s \in Speakers : stopping[s] \in {"raise", "store"}}
Struck == stoppedTurns \cup ({stopAt} \ {0})
StopsPay ==
    /\ IsFiniteSet(Pending) /\ IsFiniteSet(Struck)
    /\ Cardinality(Pending) + Cardinality(Struck) <= stops

\* A step that begins no stop, stores none and ends no turn.
LEMMA PayFrame ==
    ASSUME StopsPay, Pending' = Pending, Struck' = Struck, stops' = stops
    PROVE  StopsPay'
BY DEF StopsPay

\* Nobody has pressed stop at the start.
LEMMA PayInit == Init => StopsPay
<1> SUFFICES ASSUME Init PROVE StopsPay
  OBVIOUS
<1>1. Pending = {}
  BY DEF Init, Pending
<1>2. Struck = {}
  BY DEF Init, Struck
<1> QED BY <1>1, <1>2, FS_EmptySet DEF Init, StopsPay

\* The stop that is stored leaves the pending ones and strikes at most one turn.
LEMMA PayStore ==
    ASSUME TypeInv, StopsPay, NEW s \in Speakers, StopStore(s)
    PROVE  StopsPay'
<1> USE DEF StopsPay
<1>0. stopping \in [Speakers -> {"idle", "raise", "store", "push"}]
  BY DEF TypeInv, TypeOK, CallerOK
<1>1. s \in Pending
  BY DEF StopStore, Pending
<1>2. Pending' = Pending \ {s}
  BY <1>0 DEF StopStore, Pending
<1>3. Struck' \subseteq Struck \cup {aim[s]}
  BY DEF StopStore, Struck, history
<1>4. IsFiniteSet(Pending') /\ Cardinality(Pending') = Cardinality(Pending) - 1
  BY <1>1, <1>2, FS_RemoveElement
<1>5. /\ IsFiniteSet(Struck \cup {aim[s]})
      /\ Cardinality(Struck \cup {aim[s]}) <= Cardinality(Struck) + 1
  <2>1. Cardinality(Struck) \in Nat
    BY FS_CardinalityType
  <2> QED BY <2>1, FS_AddElement
<1>6. IsFiniteSet(Struck') /\ Cardinality(Struck') <= Cardinality(Struck \cup {aim[s]})
  BY <1>3, <1>5, FS_Subset
<1>7. /\ Cardinality(Pending) \in Nat /\ Cardinality(Struck) \in Nat
      /\ Cardinality(Struck \cup {aim[s]}) \in Nat /\ Cardinality(Struck') \in Nat
      /\ stops \in Nat
  BY <1>5, <1>6, FS_CardinalityType, ConstantsAssumption DEF TypeInv, TypeOK, HistoryOK
<1>8. stops' = stops
  BY DEF StopStore, history
<1> QED BY <1>4, <1>5, <1>6, <1>7, <1>8

\* Every step keeps the account of stops balanced.
LEMMA PayStep == TypeInv /\ StopsPay /\ [Next]_vars => StopsPay'
<1> SUFFICES ASSUME TypeInv, StopsPay, [Next]_vars PROVE StopsPay'
  OBVIOUS
<1>0. stopping \in [Speakers -> {"idle", "raise", "store", "push"}]
  BY DEF TypeInv, TypeOK, CallerOK
<1>1. ASSUME UNCHANGED <<stopAt, stoppedTurns, stops, stopping>> PROVE StopsPay'
  BY <1>1, PayFrame DEF Pending, Struck
<1>2. ASSUME NEW m \in Messages, Accept(m) \/ Send(m) PROVE StopsPay'
  BY <1>1, <1>2 DEF Accept, Send, history
<1>3. ASSUME NEW s \in Speakers, StopCheck(s) PROVE StopsPay'
  <2>1. s \notin Pending /\ Pending' = Pending \cup {s} /\ Struck' = Struck
    BY <1>0, <1>3 DEF StopCheck, Pending, Struck, handle
  <2>2. IsFiniteSet(Pending') /\ Cardinality(Pending') = Cardinality(Pending) + 1
    BY <2>1, FS_AddElement DEF StopsPay
  <2>3. /\ Cardinality(Pending) \in Nat /\ Cardinality(Struck) \in Nat
        /\ stops \in Nat
    BY FS_CardinalityType, ConstantsAssumption DEF StopsPay, TypeInv, TypeOK, HistoryOK
  <2> QED BY <1>3, <2>1, <2>2, <2>3 DEF StopCheck, StopsPay
<1>4. ASSUME NEW s \in Speakers, StopLoad(s) \/ StopPush(s) PROVE StopsPay'
  <2>1. Pending' = Pending /\ Struck' = Struck /\ stops' = stops
    BY <1>0, <1>4 DEF StopLoad, StopPush, Pending, Struck, handle, history
  <2> QED BY <2>1, PayFrame
<1>5. ASSUME NEW s \in Speakers, StopStore(s) PROVE StopsPay'
  BY <1>5, PayStore
<1>6. CASE TakeDeferred \/ Receive \/ LogUserMessage \/ UserMessageLost \/ FollowUp
  BY <1>1, <1>6 DEF TakeDeferred, Receive, Take, LogUserMessage, UserMessageLost, FollowUp,
                    handle, caller, history
<1>7. CASE OpenTurn \/ BeginTurn \/ MarkStarted \/ PublishSpeaker
  BY <1>1, <1>7 DEF OpenTurn, BeginTurn, MarkStarted, PublishSpeaker, handle, caller, history
<1>8. CASE ReadStop
  <2>1. Struck' = Struck
    BY <1>8 DEF ReadStop, Raised, Struck, handle
  <2>2. Pending' = Pending /\ stops' = stops
    BY <1>8 DEF ReadStop, Pending, caller
  <2> QED BY <2>1, <2>2, PayFrame
<1>9. CASE ReportFault \/ FinishTurn \/ ReportTrap \/ ClearSpeaker
  BY <1>1, <1>9 DEF ReportFault, FinishTurn, ReportTrap, ClearSpeaker, handle, caller, history
<1>10. CASE LowerRunning \/ TakeLeftovers
  BY <1>1, <1>10 DEF LowerRunning, TakeLeftovers, caller, history
<1>11. CASE DeferMessage \/ NudgeTurn \/ IgnoreResume \/ Poll
  BY <1>1, <1>11 DEF DeferMessage, NudgeTurn, IgnoreResume, Poll, caller, history
<1>12. ASSUME NEW o \in {"ok", "reported", "trap"}, Return(o) PROVE StopsPay'
  BY <1>1, <1>12 DEF Return, handle, caller, history
<1>13. CASE UNCHANGED vars
  BY <1>1, <1>13 DEF vars, handle, caller, history
<1> QED
  BY <1>2, <1>3, <1>4, <1>5, <1>6, <1>7, <1>8, <1>9, <1>10, <1>11, <1>12, <1>13
     DEF Next, Callers, ActorStep, TurnStep, Submit, Resume

\* However stops overlap each other and the turns' boundaries, no more turns end
\* as stopped than stops were begun.
THEOREM StopsEndOneTurnEach == Spec => []OneStopOneTurn
<1>1. TypeInv /\ StopsPay => OneStopOneTurn
  <2> SUFFICES ASSUME TypeInv, StopsPay PROVE OneStopOneTurn
    OBVIOUS
  <2>1. IsFiniteSet(stoppedTurns) /\ Cardinality(stoppedTurns) <= Cardinality(Struck)
    BY FS_Subset DEF StopsPay, Struck
  <2>2. /\ Cardinality(Pending) \in Nat /\ Cardinality(Struck) \in Nat
        /\ Cardinality(stoppedTurns) \in Nat /\ stops \in Nat
    BY <2>1, FS_CardinalityType, ConstantsAssumption DEF StopsPay, TypeInv, TypeOK, HistoryOK
  <2> QED BY <2>1, <2>2 DEF StopsPay, OneStopOneTurn
<1> QED BY TypeInit, TypeStep, PayInit, PayStep, <1>1, PTL DEF Spec

-----------------------------------------------------------------------------
(* A message is in one place *)

\* The six places an id can be in share none, and hold only ids that were accepted.
Apart ==
    /\ SendingIds \cap (QueuedIds(rx) \cup QueuedIds(deferred) \cup HeldIds \cup LoggedIds \cup refused) = {}
    /\ QueuedIds(rx) \cap (QueuedIds(deferred) \cup HeldIds \cup LoggedIds \cup refused) = {}
    /\ QueuedIds(deferred) \cap (HeldIds \cup LoggedIds \cup refused) = {}
    /\ HeldIds \cap (LoggedIds \cup refused) = {}
    /\ LoggedIds \cap refused = {}
Counted ==
    SendingIds \cup QueuedIds(rx) \cup QueuedIds(deferred) \cup HeldIds \cup LoggedIds \cup refused
        \subseteq 1..accepted

\* Nor is one twice in the same place.
LogDistinct ==
    \A i, j \in DOMAIN log :
        log[i].ev \in {"user", "nudge"} /\ log[j].ev \in {"user", "nudge"}
           /\ log[i].id = log[j].id => i = j
SendingDistinct == \A m, n \in sending : m.id = n.id => m = n
Single == Distinct(rx) /\ Distinct(deferred) /\ SendingDistinct /\ LogDistinct

\* A message is in the actor's hands only while it is being appended, and the turn
\* it opens will run on its author's authority.
HandsFull ==
    IF pc = "append" THEN held.kind = "user" /\ speaker = held.from ELSE held = Nothing

DeliveryInv == Apart /\ Counted /\ Single /\ HandsFull

\* Pushing a message onto a queue.
LEMMA QueuePush ==
    ASSUME NEW q \in Seq(Messages), NEW m \in Messages
    PROVE  /\ QueuedIds(Append(q, m)) = QueuedIds(q) \cup {m.id}
           /\ Held(Append(q, m)) = Held(q) \cup {m}
           /\ Distinct(q) /\ m.id \notin QueuedIds(q) => Distinct(Append(q, m))
<1>1. /\ DOMAIN Append(q, m) = 1..(Len(q) + 1)
      /\ DOMAIN q = 1..Len(q)
      /\ \A i \in 1..Len(q) : Append(q, m)[i] = q[i]
      /\ Append(q, m)[Len(q) + 1] = m
      /\ Len(q) \in Nat
  OBVIOUS
<1>2. QueuedIds(Append(q, m)) = QueuedIds(q) \cup {m.id}
  BY <1>1 DEF QueuedIds
<1>3. Held(Append(q, m)) = Held(q) \cup {m}
  BY <1>1 DEF Held
<1>4. Distinct(q) /\ m.id \notin QueuedIds(q) => Distinct(Append(q, m))
  BY <1>1 DEF Distinct, QueuedIds
<1> QED BY <1>2, <1>3, <1>4

\* Taking the message at the head of a queue.
LEMMA QueuePop ==
    ASSUME NEW q \in Seq(Messages), q # <<>>, Distinct(q)
    PROVE  /\ Head(q) \in Messages /\ Tail(q) \in Seq(Messages)
           /\ Head(q).id \in QueuedIds(q)
           /\ QueuedIds(Tail(q)) = QueuedIds(q) \ {Head(q).id}
           /\ Held(q) = Held(Tail(q)) \cup {Head(q)}
           /\ Distinct(Tail(q))
<1>1. /\ Len(q) \in Nat \ {0}
      /\ DOMAIN q = 1..Len(q) /\ DOMAIN Tail(q) = 1..(Len(q) - 1)
      /\ \A i \in 1..(Len(q) - 1) : Tail(q)[i] = q[i + 1]
      /\ Head(q) = q[1]
      /\ Head(q) \in Messages /\ Tail(q) \in Seq(Messages)
  OBVIOUS
<1> DEFINE n == Len(q)
           t == Tail(q)
<1>2. /\ n \in Nat \ {0}
      /\ DOMAIN q = 1..n /\ DOMAIN t = 1..(n - 1)
      /\ \A i \in 1..(n - 1) : t[i] = q[i + 1]
  BY <1>1
<1> HIDE DEF n, t
<1>3. \A i \in 1..n : i # 1 => i - 1 \in 1..(n - 1) /\ t[i - 1] = q[i]
  <2> SUFFICES ASSUME NEW i \in 1..n, i # 1 PROVE i - 1 \in 1..(n - 1) /\ t[i - 1] = q[i]
    OBVIOUS
  <2>1. i - 1 \in 1..(n - 1) /\ (i - 1) + 1 = i
    BY <1>2
  <2> QED BY <1>2, <2>1
<1>4. \A i \in 1..(n - 1) : i + 1 \in 1..n /\ i + 1 # 1
  BY <1>2
<1>5. 1 \in 1..n
  BY <1>2
<1>6. q[1].id \in QueuedIds(q)
  BY <1>2, <1>5 DEF QueuedIds
<1>7. Held(q) = Held(t) \cup {q[1]}
  <2>1. \A i \in DOMAIN q : q[i] \in Held(t) \cup {q[1]}
    BY <1>2, <1>3 DEF Held
  <2>2. \A i \in DOMAIN t : t[i] \in Held(q)
    BY <1>2, <1>4 DEF Held
  <2>3. q[1] \in Held(q)
    BY <1>2, <1>5 DEF Held
  <2>4. Held(q) \subseteq Held(t) \cup {q[1]}
    BY <2>1 DEF Held
  <2>5. Held(t) \subseteq Held(q)
    BY <2>2 DEF Held
  <2> QED BY <2>3, <2>4, <2>5
<1>8. QueuedIds(t) = QueuedIds(q) \ {q[1].id}
  <2>1. \A i \in DOMAIN q : q[i].id \in QueuedIds(t) \cup {q[1].id}
    BY <1>2, <1>3 DEF QueuedIds
  <2>2. \A i \in DOMAIN t : t[i].id \in QueuedIds(q) /\ t[i].id # q[1].id
    BY <1>2, <1>4, <1>5 DEF QueuedIds, Distinct
  <2>3. QueuedIds(q) \subseteq QueuedIds(t) \cup {q[1].id}
    BY <2>1 DEF QueuedIds
  <2>4. QueuedIds(t) \subseteq QueuedIds(q) \ {q[1].id}
    BY <2>2 DEF QueuedIds
  <2> QED BY <2>3, <2>4
<1>9. Distinct(t)
  <2> SUFFICES ASSUME NEW i \in DOMAIN t, NEW j \in DOMAIN t, t[i].id = t[j].id PROVE i = j
    BY DEF Distinct
  <2>1. i + 1 \in DOMAIN q /\ j + 1 \in DOMAIN q
    BY <1>2, <1>4
  <2>2. q[i + 1].id = q[j + 1].id
    BY <1>2
  <2>3. i + 1 = j + 1
    BY <2>1, <2>2 DEF Distinct
  <2> QED BY <1>2, <2>3
<1> QED BY <1>1, <1>6, <1>7, <1>8, <1>9 DEF t

\* Logging an event that is no message changes no message's place; logging one adds
\* its id.
LEMMA LogPush ==
    ASSUME LogOK, NEW e \in Events, log' = Append(log, e)
    PROVE  /\ e.ev \notin {"user", "nudge"} =>
                  LoggedIds' = LoggedIds /\ (LogDistinct => LogDistinct')
           /\ e.ev \in {"user", "nudge"} =>
                  /\ LoggedIds' = LoggedIds \cup {e.id}
                  /\ LogDistinct /\ e.id \notin LoggedIds => LogDistinct'
<1> USE Appended
<1>1. e.ev \notin {"user", "nudge"} => LoggedIds' = LoggedIds
  BY DEF LoggedIds
<1>2. e.ev \notin {"user", "nudge"} /\ LogDistinct => LogDistinct'
  BY DEF LogDistinct
<1>3. e.ev \in {"user", "nudge"} => LoggedIds' = LoggedIds \cup {e.id}
  BY DEF LoggedIds
<1>4. e.ev \in {"user", "nudge"} /\ LogDistinct /\ e.id \notin LoggedIds => LogDistinct'
  BY DEF LogDistinct, LoggedIds
<1> QED BY <1>1, <1>2, <1>3, <1>4

\* Every message accepted is in one place, once.
LEMMA DeliveryMeans == DeliveryInv => NothingTwice
BY DEF DeliveryInv, Apart, Single, LogDistinct, NothingTwice

\* Nothing has been accepted at the start.
LEMMA DeliveryInit == Init => DeliveryInv
<1> SUFFICES ASSUME Init PROVE DeliveryInv
  OBVIOUS
<1>1. /\ SendingIds = {} /\ QueuedIds(rx) = {} /\ QueuedIds(deferred) = {}
      /\ LoggedIds = {} /\ refused = {}
  BY DEF Init, SendingIds, QueuedIds, LoggedIds
<1>2. HeldIds = {}
  BY DEF Init, HeldIds, Nothing
<1>3. Single
  BY DEF Init, Single, Distinct, SendingDistinct, LogDistinct
<1>4. HandsFull
  BY DEF Init, HandsFull
<1> QED BY <1>1, <1>2, <1>3, <1>4 DEF DeliveryInv, Apart, Counted

\* A step that moves no message.
LEMMA DeliveryFrame ==
    ASSUME DeliveryInv, UNCHANGED <<sending, rx, deferred, held, speaker, refused, accepted>>,
           pc = "append" <=> pc' = "append",
           LoggedIds' = LoggedIds, LogDistinct'
    PROVE  DeliveryInv'
<1>1. HeldIds' = HeldIds /\ SendingIds' = SendingIds
  BY DEF HeldIds, SendingIds
<1>2. Apart' /\ Counted'
  BY <1>1 DEF DeliveryInv, Apart, Counted
<1>3. Single'
  BY DEF DeliveryInv, Single, Distinct, SendingDistinct
<1>4. HandsFull'
  BY DEF DeliveryInv, HandsFull
<1> QED BY <1>2, <1>3, <1>4 DEF DeliveryInv

\* Among them every step that leaves the log alone.
LEMMA DeliveryQuiet ==
    ASSUME DeliveryInv, UNCHANGED <<sending, rx, deferred, held, speaker, refused, accepted, log>>,
           pc = "append" <=> pc' = "append"
    PROVE  DeliveryInv'
<1>1. LoggedIds' = LoggedIds
  BY DEF LoggedIds
<1>2. LogDistinct'
  BY DEF DeliveryInv, Single, LogDistinct
<1> QED BY <1>1, <1>2, DeliveryFrame

\* And every step that tries to log something other than a message.
LEMMA DeliveryMark ==
    ASSUME TypeInv, DeliveryInv,
           UNCHANGED <<sending, rx, deferred, held, speaker, refused, accepted>>,
           pc = "append" <=> pc' = "append",
           NEW ev \in {"started", "finished", "incident"},
           Logged(Event(ev, 0)) \/ UNCHANGED log
    PROVE  DeliveryInv'
<1>1. CASE Logged(Event(ev, 0))
  <2> DEFINE e == Event(ev, 0)
  <2>1. e \in Events
    BY EventType, ConstantsAssumption DEF TypeInv, TypeOK, HandleOK
  <2>2. e.ev = ev
    BY DEF Event
  <2> HIDE DEF e
  <2>3. LoggedIds' = LoggedIds /\ LogDistinct'
    BY <1>1, <2>1, <2>2, LogPush
       DEF e, Logged, TypeInv, TypeOK, DeliveryInv, Single
  <2> QED BY <2>3, DeliveryFrame
<1>2. CASE UNCHANGED log
  BY <1>2, DeliveryQuiet
<1> QED BY <1>1, <1>2

\* Taking the next message into hand, or dropping a resume, from either queue.
LEMMA DeliveryTake ==
    ASSUME TypeInv, DeliveryInv, pc = "recv", NEW m \in Messages, Take(m),
           m.id \in QueuedIds(rx) \cup QueuedIds(deferred),
           QueuedIds(rx') \cup QueuedIds(deferred')
               \subseteq (QueuedIds(rx) \cup QueuedIds(deferred)) \ {m.id},
           QueuedIds(rx') \subseteq QueuedIds(rx),
           QueuedIds(deferred') \subseteq QueuedIds(deferred),
           Distinct(rx'), Distinct(deferred')
    PROVE  DeliveryInv'
<1> USE DEF Take, caller, ledger, history
<1>1. SendingIds' = SendingIds /\ LoggedIds' = LoggedIds /\ refused' = refused
  BY DEF SendingIds, LoggedIds
<1>2. HeldIds = {} /\ HeldIds' \subseteq {m.id}
  BY DEF DeliveryInv, HandsFull, HeldIds, Nothing
<1>3. Apart'
  BY <1>1, <1>2 DEF DeliveryInv, Apart
<1>4. Counted'
  BY <1>1, <1>2 DEF DeliveryInv, Counted
<1>5. Single'
  BY DEF DeliveryInv, Single, SendingDistinct, LogDistinct
<1>6. HandsFull'
  BY DEF HandsFull, Messages
<1> QED BY <1>3, <1>4, <1>5, <1>6 DEF DeliveryInv

\* Every step keeps each message in one place.
LEMMA DeliveryStep == TypeInv /\ DeliveryInv /\ [Next]_vars => DeliveryInv'
<1> SUFFICES ASSUME TypeInv, DeliveryInv, [Next]_vars PROVE DeliveryInv'
  OBVIOUS
<1>0. /\ rx \in Seq(Messages) /\ deferred \in Seq(Messages) /\ LogOK
      /\ accepted \in Nat /\ sending \subseteq Messages /\ turn \in Nat
      /\ Distinct(rx) /\ Distinct(deferred)
  BY ConstantsAssumption
     DEF TypeInv, TypeOK, HandleOK, ActorOK, CallerOK, HistoryOK, DeliveryInv, Single
<1>1. ASSUME NEW m \in Messages, Accept(m) PROVE DeliveryInv'
  <2> USE DEF Accept, actor, ledger
  <2>1. SendingIds' = SendingIds \cup {m.id}
    BY <1>1 DEF SendingIds
  <2>2. LoggedIds' = LoggedIds /\ HeldIds' = HeldIds
    BY <1>1 DEF LoggedIds, HeldIds
  <2>3. \A i \in 1..accepted : i # m.id /\ i \in 1..accepted'
    BY <1>0, <1>1
  <2>4. Apart'
    BY <1>1, <2>1, <2>2, <2>3 DEF DeliveryInv, Apart, Counted
  <2>5. m.id \in 1..accepted'
    BY <1>0, <1>1
  <2>6. Counted'
    BY <1>1, <2>1, <2>2, <2>3, <2>5 DEF DeliveryInv, Counted
  <2>7. \A n \in sending : n.id # m.id
    BY <2>3 DEF DeliveryInv, Counted, SendingIds
  <2>8. Single'
    BY <1>1, <2>7 DEF DeliveryInv, Single, Distinct, SendingDistinct, LogDistinct
  <2>9. HandsFull'
    BY <1>1 DEF DeliveryInv, HandsFull
  <2> QED BY <2>4, <2>6, <2>8, <2>9 DEF DeliveryInv
<1>2. ASSUME NEW m \in Messages, Send(m) PROVE DeliveryInv'
  <2> USE DEF Send, actor, ledger, history
  <2>1. m.id \in SendingIds /\ SendingIds' \subseteq SendingIds \ {m.id}
    BY <1>2 DEF SendingIds, DeliveryInv, Single, SendingDistinct
  <2>2. LoggedIds' = LoggedIds /\ HeldIds' = HeldIds
    BY <1>2 DEF LoggedIds, HeldIds
  <2>3. QueuedIds(rx') = QueuedIds(rx) \cup {m.id}
    BY <1>0, <1>2, QueuePush
  <2>4. Apart'
    BY <1>2, <2>1, <2>2, <2>3 DEF DeliveryInv, Apart
  <2>5. Counted'
    BY <1>2, <2>1, <2>2, <2>3 DEF DeliveryInv, Counted
  <2>6. Distinct(rx')
    BY <1>0, <1>2, <2>1, QueuePush DEF DeliveryInv, Apart
  <2>7. Single'
    BY <1>2, <2>6 DEF DeliveryInv, Single, SendingDistinct, LogDistinct
  <2>8. HandsFull'
    BY <1>2 DEF DeliveryInv, HandsFull
  <2> QED BY <2>4, <2>5, <2>7, <2>8 DEF DeliveryInv
<1>3. ASSUME NEW s \in Speakers, StopCheck(s) \/ StopLoad(s) \/ StopStore(s) \/ StopPush(s)
      PROVE  DeliveryInv'
  BY <1>3, DeliveryQuiet
     DEF StopCheck, StopLoad, StopStore, StopPush, handle, actor, ledger, history
<1>4. CASE TakeDeferred
  <2>1. /\ Head(deferred) \in Messages /\ Head(deferred).id \in QueuedIds(deferred)
        /\ QueuedIds(deferred') = QueuedIds(deferred) \ {Head(deferred).id} /\ Distinct(deferred')
    BY <1>0, <1>4, QueuePop DEF TakeDeferred
  <2>2. Head(deferred).id \notin QueuedIds(rx)
    BY <2>1 DEF DeliveryInv, Apart
  <2> QED BY <1>0, <1>4, <2>1, <2>2, DeliveryTake DEF TakeDeferred
<1>5. CASE Receive
  <2>1. /\ Head(rx) \in Messages /\ Head(rx).id \in QueuedIds(rx)
        /\ QueuedIds(rx') = QueuedIds(rx) \ {Head(rx).id} /\ Distinct(rx')
    BY <1>0, <1>5, QueuePop DEF Receive
  <2>2. Head(rx).id \notin QueuedIds(deferred)
    BY <2>1 DEF DeliveryInv, Apart
  <2> QED BY <1>0, <1>5, <2>1, <2>2, DeliveryTake DEF Receive
<1>6. ASSUME pc = "append" PROVE held \in Messages /\ HeldIds = {held.id}
  <2>1. held \in Messages
    BY <1>6 DEF TypeInv, HeldInHand
  <2>2. held.id # 0
    BY <2>1, ConstantsAssumption DEF Messages, Ids
  <2> QED BY <2>1, <2>2 DEF HeldIds
<1>7. CASE LogUserMessage
  <2> DEFINE e == Event("user", held.id)
  <2>1. held \in Messages /\ HeldIds = {held.id}
    BY <1>6, <1>7 DEF LogUserMessage
  <2>2. e \in Events /\ e.ev = "user" /\ e.id = held.id
    <3>1. held.id \in 0..MaxMsgs
      BY <2>1, ConstantsAssumption DEF Messages, Ids
    <3>2. e \in Events
      BY <1>0, <3>1, EventType
    <3> QED BY <3>2 DEF Event
  <2> HIDE DEF e
  <2>3. log' = Append(log, e)
    BY <1>7 DEF LogUserMessage, Logged, e
  <2>4. held.id \notin LoggedIds
    BY <2>1 DEF DeliveryInv, Apart
  <2>5. LoggedIds' = LoggedIds \cup {held.id} /\ LogDistinct'
    BY <1>0, <2>2, <2>3, <2>4, LogPush DEF DeliveryInv, Single
  <2>6. /\ held' = Nothing /\ pc' = "open"
        /\ UNCHANGED <<sending, rx, deferred, refused, accepted>>
    BY <1>7 DEF LogUserMessage, handle, caller, history
  <2>7. HeldIds' = {}
    BY <2>6 DEF HeldIds, Nothing
  <2>8. SendingIds' = SendingIds
    BY <2>6 DEF SendingIds
  <2>9. Apart'
    BY <2>1, <2>5, <2>6, <2>7, <2>8 DEF DeliveryInv, Apart
  <2>10. Counted'
    BY <2>1, <2>5, <2>6, <2>7, <2>8 DEF DeliveryInv, Counted
  <2>11. Single'
    BY <2>5, <2>6 DEF DeliveryInv, Single, SendingDistinct
  <2>12. HandsFull'
    BY <2>6 DEF HandsFull
  <2> QED BY <2>9, <2>10, <2>11, <2>12 DEF DeliveryInv
<1>8. CASE UserMessageLost
  <2>1. HeldIds = {held.id}
    BY <1>6, <1>8 DEF UserMessageLost
  <2>2. /\ held' = Nothing /\ pc' = "recv" /\ refused' = refused \cup {held.id}
        /\ UNCHANGED <<sending, rx, deferred, accepted, log>>
    BY <1>8 DEF UserMessageLost, Lost, caller
  <2>3. HeldIds' = {}
    BY <2>2 DEF HeldIds, Nothing
  <2>4. SendingIds' = SendingIds /\ LoggedIds' = LoggedIds
    BY <2>2 DEF SendingIds, LoggedIds
  <2>5. Apart'
    BY <2>1, <2>2, <2>3, <2>4 DEF DeliveryInv, Apart
  <2>6. Counted'
    BY <2>1, <2>2, <2>3, <2>4 DEF DeliveryInv, Counted
  <2>7. Single'
    BY <2>2 DEF DeliveryInv, Single, SendingDistinct, LogDistinct
  <2>8. HandsFull'
    BY <2>2 DEF HandsFull
  <2> QED BY <2>5, <2>6, <2>7, <2>8 DEF DeliveryInv
<1>9. CASE FollowUp \/ OpenTurn \/ BeginTurn \/ PublishSpeaker
  BY <1>9, DeliveryQuiet DEF FollowUp, OpenTurn, BeginTurn, PublishSpeaker, handle, caller, ledger, history
<1>10. CASE MarkStarted
  BY <1>10, DeliveryMark DEF MarkStarted, Marker, Lost, handle, caller
<1>11. CASE ReportFault \/ ReportTrap
  BY <1>11, DeliveryMark DEF ReportFault, ReportTrap, Lost, handle, caller, ledger, history
<1>12. CASE FinishTurn
  BY <1>12, DeliveryMark DEF FinishTurn, Marker, Lost, handle, caller
<1>13. CASE ReadStop \/ ClearSpeaker \/ LowerRunning \/ TakeLeftovers
  BY <1>13, DeliveryQuiet
     DEF ReadStop, ClearSpeaker, LowerRunning, TakeLeftovers, handle, caller, ledger, history
<1>14. ASSUME pc = "run", rx # <<>>, rx' = Tail(rx), UNCHANGED <<pc, held, speaker, sending, accepted>>
       PROVE  /\ Head(rx) \in Messages /\ Head(rx).id \in QueuedIds(rx)
              /\ QueuedIds(rx') = QueuedIds(rx) \ {Head(rx).id} /\ Distinct(rx')
              /\ HeldIds' = HeldIds /\ SendingIds' = SendingIds /\ SendingDistinct' /\ HandsFull'
  <2>1. /\ Head(rx) \in Messages /\ Head(rx).id \in QueuedIds(rx)
        /\ QueuedIds(rx') = QueuedIds(rx) \ {Head(rx).id} /\ Distinct(rx')
    BY <1>0, <1>14, QueuePop
  <2>2. HeldIds' = HeldIds /\ SendingIds' = SendingIds
    BY <1>14 DEF HeldIds, SendingIds
  <2>3. SendingDistinct' /\ HandsFull'
    BY <1>14 DEF DeliveryInv, Single, SendingDistinct, HandsFull
  <2> QED BY <2>1, <2>2, <2>3
<1>15. CASE DeferMessage
  <2> DEFINE m == Head(rx)
  <2>1. /\ pc = "run" /\ rx # <<>> /\ rx' = Tail(rx) /\ deferred' = Append(deferred, m)
        /\ UNCHANGED <<pc, held, speaker, sending, accepted, log, refused>>
    BY <1>15 DEF DeferMessage, caller, ledger, history
  <2>2. /\ m \in Messages /\ m.id \in QueuedIds(rx)
        /\ QueuedIds(rx') = QueuedIds(rx) \ {m.id} /\ Distinct(rx')
        /\ HeldIds' = HeldIds /\ SendingIds' = SendingIds /\ SendingDistinct' /\ HandsFull'
    BY <1>14, <2>1
  <2> HIDE DEF m
  <2>3. m.id \notin QueuedIds(deferred)
    BY <2>2 DEF DeliveryInv, Apart
  <2>4. QueuedIds(deferred') = QueuedIds(deferred) \cup {m.id} /\ Distinct(deferred')
    BY <1>0, <2>1, <2>2, <2>3, QueuePush
  <2>5. LoggedIds' = LoggedIds /\ LogDistinct'
    BY <2>1 DEF LoggedIds, DeliveryInv, Single, LogDistinct
  <2>6. Apart'
    BY <2>1, <2>2, <2>4, <2>5 DEF DeliveryInv, Apart
  <2>7. Counted'
    BY <2>1, <2>2, <2>4, <2>5 DEF DeliveryInv, Counted
  <2> QED BY <2>2, <2>4, <2>5, <2>6, <2>7 DEF DeliveryInv, Single
<1>16. CASE IgnoreResume
  <2>1. /\ pc = "run" /\ rx # <<>> /\ rx' = Tail(rx)
        /\ UNCHANGED <<pc, held, speaker, sending, accepted, log, refused, deferred>>
    BY <1>16 DEF IgnoreResume, actor, caller, ledger, history
  <2>2. /\ QueuedIds(rx') \subseteq QueuedIds(rx) /\ Distinct(rx')
        /\ HeldIds' = HeldIds /\ SendingIds' = SendingIds /\ SendingDistinct' /\ HandsFull'
    BY <1>14, <2>1
  <2>3. LoggedIds' = LoggedIds /\ LogDistinct'
    BY <2>1 DEF LoggedIds, DeliveryInv, Single, LogDistinct
  <2>4. Apart'
    BY <2>1, <2>2, <2>3 DEF DeliveryInv, Apart
  <2>5. Counted'
    BY <2>1, <2>2, <2>3 DEF DeliveryInv, Counted
  <2> QED BY <1>0, <2>1, <2>2, <2>3, <2>4, <2>5 DEF DeliveryInv, Single
<1>17. CASE NudgeTurn
  <2> DEFINE m == Head(rx)
             e == Event("nudge", m.id)
  <2>1. /\ pc = "run" /\ rx # <<>> /\ rx' = Tail(rx)
        /\ UNCHANGED <<pc, held, speaker, sending, accepted, deferred>>
        /\ \/ log' = Append(log, e) /\ UNCHANGED refused
           \/ UNCHANGED log /\ refused' = refused \cup {m.id}
    BY <1>17 DEF NudgeTurn, actor, caller, Logged, Lost
  <2>2. /\ m \in Messages /\ m.id \in QueuedIds(rx)
        /\ QueuedIds(rx') = QueuedIds(rx) \ {m.id} /\ Distinct(rx')
        /\ HeldIds' = HeldIds /\ SendingIds' = SendingIds /\ SendingDistinct' /\ HandsFull'
    BY <1>14, <2>1
  <2> HIDE DEF m
  <2>3. e \in Events /\ e.ev = "nudge" /\ e.id = m.id
    <3>1. m.id \in 0..MaxMsgs
      BY <2>2, ConstantsAssumption DEF Messages, Ids
    <3>2. e \in Events
      BY <1>0, <3>1, EventType
    <3> QED BY <3>2 DEF Event
  <2> HIDE DEF e
  <2>4. m.id \notin LoggedIds
    BY <2>2 DEF DeliveryInv, Apart
  <2>5. /\ LogDistinct'
        /\ \/ LoggedIds' = LoggedIds \cup {m.id} /\ refused' = refused
           \/ LoggedIds' = LoggedIds /\ refused' = refused \cup {m.id}
    <3>1. CASE log' = Append(log, e) /\ UNCHANGED refused
      BY <1>0, <2>3, <2>4, <3>1, LogPush DEF DeliveryInv, Single
    <3>2. CASE UNCHANGED log /\ refused' = refused \cup {m.id}
      BY <3>2 DEF LoggedIds, DeliveryInv, Single, LogDistinct
    <3> QED BY <2>1, <3>1, <3>2
  <2>6. Apart'
    BY <2>1, <2>2, <2>5 DEF DeliveryInv, Apart
  <2>7. Counted'
    BY <2>1, <2>2, <2>5 DEF DeliveryInv, Counted
  <2> QED BY <1>0, <2>1, <2>2, <2>5, <2>6, <2>7 DEF DeliveryInv, Single
<1>18. CASE Poll \/ UNCHANGED vars
  BY <1>18, DeliveryQuiet DEF Poll, vars, handle, actor, caller, ledger, history
<1>19. ASSUME NEW o \in {"ok", "reported", "trap"}, Return(o) PROVE DeliveryInv'
  BY <1>19, DeliveryQuiet DEF Return, handle, caller, ledger, history
<1> QED
  BY <1>1, <1>2, <1>3, <1>4, <1>5, <1>7, <1>8, <1>9, <1>10, <1>11, <1>12, <1>13, <1>15, <1>16,
     <1>17, <1>18, <1>19
     DEF Next, Callers, ActorStep, TurnStep, Submit, Resume

\* No message the host accepted is logged twice, refused and logged, or waiting in two
\* places, however its callers, the turns and failing appends interleave.
THEOREM NoMessageTwice == Spec => []NothingTwice
BY TypeInit, TypeStep, DeliveryInit, DeliveryStep, DeliveryMeans, PTL DEF Spec

-----------------------------------------------------------------------------
(* The actor implements module Conversation, its fairness aside *)

\* A step that moves no message and neither opens nor ends a turn is none of the
\* conversation's.
LEMMA ConvStutter ==
    ASSUME WaitingMessages' = WaitingMessages, LoggedIds' = LoggedIds, refused' = refused,
           InTurn' = InTurn, InTurn => speaker' = speaker
    PROVE  UNCHANGED Promise!convVars
BY DEF Promise!convVars

\* Among them every step that leaves the queues, the log and the turn's phase alone.
LEMMA ConvQuiet ==
    ASSUME UNCHANGED <<sending, rx, deferred, held, log, refused>>,
           InTurn' = InTurn, InTurn => speaker' = speaker
    PROVE  UNCHANGED Promise!convVars
<1>1. WaitingMessages' = WaitingMessages /\ LoggedIds' = LoggedIds
  BY DEF WaitingMessages, LoggedIds
<1> QED BY <1>1, ConvStutter

\* And those that try to log something other than a message.
LEMMA ConvMark ==
    ASSUME TypeInv, DeliveryInv, UNCHANGED <<sending, rx, deferred, held, refused>>,
           InTurn' = InTurn, InTurn => speaker' = speaker,
           NEW ev \in {"started", "finished", "incident"},
           Logged(Event(ev, 0)) \/ UNCHANGED log
    PROVE  UNCHANGED Promise!convVars
<1>1. CASE Logged(Event(ev, 0))
  <2> DEFINE e == Event(ev, 0)
  <2>1. e \in Events
    BY EventType, ConstantsAssumption DEF TypeInv, TypeOK, HandleOK
  <2>2. e.ev = ev
    BY DEF Event
  <2> HIDE DEF e
  <2>3. LoggedIds' = LoggedIds
    BY <1>1, <2>1, <2>2, LogPush DEF e, Logged, TypeInv, TypeOK
  <2>4. WaitingMessages' = WaitingMessages
    BY DEF WaitingMessages
  <2> QED BY <2>3, <2>4, ConvStutter
<1>2. CASE UNCHANGED log
  BY <1>2, ConvQuiet
<1> QED BY <1>1, <1>2

\* The ids of the messages that wait are ids that were accepted and neither logged
\* nor refused, and every message waits under an id of its own.
LEMMA WaitingIds ==
    ASSUME DeliveryInv
    PROVE  /\ \A m \in sending : m.id \in SendingIds
           /\ \A m \in Held(rx) : m.id \in QueuedIds(rx)
           /\ \A m \in Held(deferred) : m.id \in QueuedIds(deferred)
BY DEF SendingIds, Held, QueuedIds

\* Taking the next message into hand leaves it waiting; a resume waits for nothing,
\* and opens a turn.
LEMMA ConvTake ==
    ASSUME TypeInv, DeliveryInv, pc = "recv", NEW m \in Messages, Take(m),
           Held(rx) \cup Held(deferred) = Held(rx') \cup Held(deferred') \cup {m}
    PROVE  [Promise!ConvNext]_(Promise!convVars)
<1> USE DEF Take, caller, ledger, history
<1>1. held = Nothing /\ Nothing.kind = "resume"
  BY DEF DeliveryInv, HandsFull, Nothing
<1>2. WaitingMessages' = WaitingMessages
  BY <1>1 DEF WaitingMessages
<1>3. LoggedIds' = LoggedIds /\ refused' = refused
  BY DEF LoggedIds
<1>4. CASE m.kind = "resume"
  <2>1. ~InTurn /\ InTurn' /\ speaker' \in Speakers
    BY <1>4 DEF InTurn, Messages
  <2>2. Promise!Carry
    BY <1>2, <1>3, <2>1 DEF Promise!Carry
  <2> QED BY <2>2 DEF Promise!ConvNext
<1>5. CASE m.kind # "resume"
  <2>1. InTurn = FALSE /\ InTurn' = FALSE
    BY <1>5 DEF InTurn
  <2> QED BY <1>2, <1>3, <2>1, ConvStutter
<1> QED BY <1>4, <1>5

\* Nobody waits, and no turn runs, at the start.
LEMMA ConvInitially == Init => Promise!ConvInit
<1> SUFFICES ASSUME Init PROVE Promise!ConvInit
  OBVIOUS
<1>1. WaitingMessages = {}
  BY DEF Init, WaitingMessages, Held, Nothing
<1>2. LoggedIds = {} /\ InTurn = FALSE
  BY DEF Init, LoggedIds, InTurn
<1> QED BY <1>1, <1>2 DEF Init, Promise!ConvInit

\* Every step of the actor or of a caller is a step of the conversation, or none.
LEMMA ConvStep ==
    TypeInv /\ DeliveryInv /\ [Next]_vars => [Promise!ConvNext]_(Promise!convVars)
<1> SUFFICES ASSUME TypeInv, DeliveryInv, [Next]_vars
             PROVE  [Promise!ConvNext]_(Promise!convVars)
  OBVIOUS
<1>0. /\ rx \in Seq(Messages) /\ deferred \in Seq(Messages) /\ LogOK
      /\ accepted \in Nat /\ turn \in Nat /\ speaker \in Speakers
      /\ Distinct(rx) /\ Distinct(deferred)
  BY ConstantsAssumption DEF TypeInv, TypeOK, HandleOK, ActorOK, HistoryOK, DeliveryInv, Single
<1>1. ASSUME NEW m \in Messages, Submit(m) PROVE Promise!ConvNext
  <2> USE DEF Submit, Accept, actor, ledger
  <2>1. WaitingMessages' = WaitingMessages \cup {m}
    BY <1>1 DEF WaitingMessages
  <2>2. /\ LoggedIds' = LoggedIds /\ refused' = refused /\ InTurn' = InTurn
        /\ speaker' = speaker
    BY <1>1 DEF LoggedIds, InTurn
  <2>3. m.id \notin 1..accepted
    BY <1>0, <1>1
  <2>4. \A n \in WaitingMessages : n.id \in 1..accepted
    <3>1. held.id \in HeldIds \/ held.kind # "user"
      BY DEF TypeInv, TypeOK, ActorOK, HeldIds, Messages, Ids, Nothing
    <3> QED BY <3>1, WaitingIds DEF WaitingMessages, DeliveryInv, Counted
  <2>5. m.id \notin LoggedIds \cup refused \cup {n.id : n \in WaitingMessages}
    BY <2>3, <2>4 DEF DeliveryInv, Counted
  <2>6. Promise!Ask(m)
    BY <2>1, <2>2, <2>5 DEF Promise!Ask, Promise!Known
  <2> QED BY <1>1, <2>6 DEF Promise!ConvNext
<1>2. ASSUME NEW m \in Messages, Resume(m) PROVE UNCHANGED Promise!convVars
  <2> USE DEF Resume, Accept, actor, ledger
  <2>1. WaitingMessages' = WaitingMessages
    BY <1>2 DEF WaitingMessages
  <2>2. /\ LoggedIds' = LoggedIds /\ refused' = refused /\ InTurn' = InTurn
        /\ speaker' = speaker
    BY <1>2 DEF LoggedIds, InTurn
  <2> QED BY <2>1, <2>2, ConvStutter
<1>3. ASSUME NEW m \in Messages, Send(m) PROVE UNCHANGED Promise!convVars
  <2> USE DEF Send, actor, ledger, history
  <2>1. Held(rx') = Held(rx) \cup {m}
    BY <1>0, <1>3, QueuePush
  <2>2. WaitingMessages' = WaitingMessages
    BY <1>3, <2>1 DEF WaitingMessages
  <2>3. /\ LoggedIds' = LoggedIds /\ refused' = refused /\ InTurn' = InTurn
        /\ speaker' = speaker
    BY <1>3 DEF LoggedIds, InTurn
  <2> QED BY <2>2, <2>3, ConvStutter
<1>4. ASSUME NEW s \in Speakers, StopCheck(s) \/ StopLoad(s) \/ StopStore(s) \/ StopPush(s)
      PROVE  UNCHANGED Promise!convVars
  <2>1. InTurn' = InTurn
    BY <1>4 DEF StopCheck, StopLoad, StopStore, StopPush, actor, InTurn
  <2> QED BY <1>4, <2>1, ConvQuiet
     DEF StopCheck, StopLoad, StopStore, StopPush, handle, actor, ledger, history
<1>5. CASE TakeDeferred
  <2>1. Head(deferred) \in Messages /\ Held(deferred) = Held(deferred') \cup {Head(deferred)}
    BY <1>0, <1>5, QueuePop DEF TakeDeferred
  <2> QED BY <1>5, <2>1, ConvTake DEF TakeDeferred
<1>6. CASE Receive
  <2>1. Head(rx) \in Messages /\ Held(rx) = Held(rx') \cup {Head(rx)}
    BY <1>0, <1>6, QueuePop DEF Receive
  <2> QED BY <1>6, <2>1, ConvTake DEF Receive
<1>7. ASSUME pc = "append"
      PROVE  /\ held \in Messages /\ held.kind = "user" /\ speaker = held.from
             /\ held \in WaitingMessages /\ held \notin sending \cup Held(rx) \cup Held(deferred)
  <2>1. held \in Messages /\ held.kind = "user" /\ speaker = held.from
    BY <1>7 DEF TypeInv, HeldInHand, DeliveryInv, HandsFull
  <2>2. held.id \in HeldIds
    BY <2>1, ConstantsAssumption DEF HeldIds, Messages, Ids
  <2> QED BY <2>1, <2>2, WaitingIds DEF WaitingMessages, DeliveryInv, Apart
<1>8. ASSUME pc = "append", held' = Nothing, UNCHANGED <<sending, rx, deferred>>
      PROVE  WaitingMessages' = WaitingMessages \ {held}
  <2>1. Nothing.kind = "resume"
    BY DEF Nothing
  <2> QED BY <1>7, <1>8, <2>1 DEF WaitingMessages
<1>9. CASE LogUserMessage
  <2> DEFINE e == Event("user", held.id)
  <2>1. /\ pc = "append" /\ pc' = "open" /\ log' = Append(log, e) /\ held' = Nothing
        /\ UNCHANGED <<sending, rx, deferred, refused, speaker>>
    BY <1>9 DEF LogUserMessage, Logged, handle, caller, history
  <2>2. /\ held \in Messages /\ held.kind = "user" /\ speaker = held.from
        /\ held \in WaitingMessages
    BY <1>7, <2>1
  <2>3. e \in Events
    <3>1. held.id \in 0..MaxMsgs
      BY <2>2, ConstantsAssumption DEF Messages, Ids
    <3> QED BY <1>0, <3>1, EventType
  <2>4. e.ev = "user" /\ e.id = held.id
    BY DEF Event
  <2> HIDE DEF e
  <2>5. LoggedIds' = LoggedIds \cup {held.id}
    BY <1>0, <2>1, <2>3, <2>4, LogPush
  <2>6. ~InTurn /\ InTurn'
    BY <2>1 DEF InTurn
  <2>7. Promise!Say(held)
    BY <1>8, <2>1, <2>2, <2>5, <2>6 DEF Promise!Say
  <2> QED BY <2>2, <2>7 DEF Promise!ConvNext
<1>10. CASE UserMessageLost
  <2>1. /\ pc = "append" /\ pc' = "recv" /\ held' = Nothing /\ refused' = refused \cup {held.id}
        /\ UNCHANGED <<sending, rx, deferred, log, speaker>>
    BY <1>10 DEF UserMessageLost, Lost, caller
  <2>2. held \in Messages /\ held.kind = "user" /\ held \in WaitingMessages
    BY <1>7, <2>1
  <2>3. LoggedIds' = LoggedIds /\ InTurn = FALSE /\ InTurn' = FALSE
    BY <2>1 DEF LoggedIds, InTurn
  <2>4. Promise!Refuse(held)
    BY <1>8, <2>1, <2>2, <2>3 DEF Promise!Refuse
  <2> QED BY <2>2, <2>4 DEF Promise!ConvNext
<1>11. CASE FollowUp
  <2>1. ~InTurn /\ InTurn' /\ LoggedIds' = LoggedIds /\ WaitingMessages' = WaitingMessages
    BY <1>11 DEF FollowUp, InTurn, LoggedIds, WaitingMessages, handle, caller, ledger
  <2>2. Promise!Carry
    BY <1>0, <1>11, <2>1 DEF FollowUp, Promise!Carry, history
  <2> QED BY <2>2 DEF Promise!ConvNext
<1>12. CASE OpenTurn \/ BeginTurn \/ PublishSpeaker
  <2>1. InTurn' = InTurn
    BY <1>12 DEF OpenTurn, BeginTurn, PublishSpeaker, InTurn
  <2> QED BY <1>12, <2>1, ConvQuiet
          DEF OpenTurn, BeginTurn, PublishSpeaker, handle, caller, ledger, history
<1>13. CASE MarkStarted \/ FinishTurn
  <2>1. InTurn' = InTurn
    BY <1>13 DEF MarkStarted, FinishTurn, InTurn
  <2> QED BY <1>13, <2>1, ConvMark DEF MarkStarted, FinishTurn, Marker, Lost, handle, caller
<1>14. CASE ReportFault \/ ReportTrap
  <2>1. InTurn' = InTurn
    BY <1>14 DEF ReportFault, ReportTrap, InTurn
  <2> QED BY <1>14, <2>1, ConvMark
          DEF ReportFault, ReportTrap, Lost, handle, caller, ledger, history
<1>15. CASE ReadStop \/ ClearSpeaker \/ LowerRunning
  <2>1. InTurn' = InTurn
    BY <1>15 DEF ReadStop, ClearSpeaker, LowerRunning, InTurn
  <2> QED BY <1>15, <2>1, ConvQuiet
          DEF ReadStop, ClearSpeaker, LowerRunning, handle, caller, ledger, history
<1>16. CASE TakeLeftovers
  <2>1. InTurn /\ ~InTurn'
    BY <1>16 DEF TakeLeftovers, InTurn
  <2>2. LoggedIds' = LoggedIds /\ WaitingMessages' = WaitingMessages /\ refused' = refused
    BY <1>16 DEF TakeLeftovers, LoggedIds, WaitingMessages, caller, ledger
  <2>3. Promise!Rest
    BY <2>1, <2>2 DEF Promise!Rest
  <2> QED BY <2>3 DEF Promise!ConvNext
<1>17. ASSUME pc = "run", UNCHANGED pc PROVE InTurn /\ InTurn'
  BY <1>17 DEF InTurn
<1>18. CASE DeferMessage
  <2>1. /\ pc = "run" /\ rx # <<>> /\ rx' = Tail(rx) /\ deferred' = Append(deferred, Head(rx))
        /\ UNCHANGED <<pc, held, speaker, sending, log, refused>>
    BY <1>18 DEF DeferMessage, caller, ledger, history
  <2>2. Head(rx) \in Messages /\ Held(rx) = Held(rx') \cup {Head(rx)}
    BY <1>0, <2>1, QueuePop
  <2>3. Held(deferred') = Held(deferred) \cup {Head(rx)}
    BY <1>0, <2>1, <2>2, QueuePush
  <2>4. WaitingMessages' = WaitingMessages
    BY <2>1, <2>2, <2>3 DEF WaitingMessages
  <2>5. LoggedIds' = LoggedIds
    BY <2>1 DEF LoggedIds
  <2> QED BY <1>17, <2>1, <2>4, <2>5, ConvStutter
<1>19. CASE IgnoreResume
  <2>1. /\ pc = "run" /\ rx # <<>> /\ rx' = Tail(rx) /\ Head(rx).kind = "resume"
        /\ UNCHANGED <<pc, held, speaker, sending, deferred, log, refused>>
    BY <1>19 DEF IgnoreResume, actor, caller, ledger, history
  <2>2. Held(rx) = Held(rx') \cup {Head(rx)}
    BY <1>0, <2>1, QueuePop
  <2>3. WaitingMessages' = WaitingMessages
    BY <2>1, <2>2 DEF WaitingMessages
  <2>4. LoggedIds' = LoggedIds
    BY <2>1 DEF LoggedIds
  <2> QED BY <1>17, <2>1, <2>3, <2>4, ConvStutter
<1>20. CASE NudgeTurn
  <2> DEFINE m == Head(rx)
             e == Event("nudge", m.id)
  <2>1. /\ pc = "run" /\ rx # <<>> /\ rx' = Tail(rx) /\ m.kind = "user" /\ m.from = speaker
        /\ UNCHANGED <<pc, held, speaker, sending, deferred>>
        /\ \/ log' = Append(log, e) /\ UNCHANGED refused
           \/ UNCHANGED log /\ refused' = refused \cup {m.id}
    BY <1>20 DEF NudgeTurn, Steers, actor, caller, Logged, Lost
  <2>2. /\ m \in Messages /\ m.id \in QueuedIds(rx) /\ Held(rx) = Held(rx') \cup {m}
        /\ QueuedIds(rx') = QueuedIds(rx) \ {m.id}
    BY <1>0, <2>1, QueuePop
  <2> HIDE DEF m
  <2>3. e \in Events
    <3>1. m.id \in 0..MaxMsgs
      BY <2>2, ConstantsAssumption DEF Messages, Ids
    <3> QED BY <1>0, <3>1, EventType
  <2>4. e.ev = "nudge" /\ e.id = m.id
    BY DEF Event
  <2> HIDE DEF e
  <2>5. held = Nothing /\ Nothing.kind = "resume"
    BY <2>1 DEF DeliveryInv, HandsFull, Nothing
  <2>6. m \notin sending \cup Held(rx') \cup Held(deferred)
    <3>1. m \notin Held(rx')
      BY <2>2 DEF Held, QueuedIds
    <3> QED BY <2>2, <3>1, WaitingIds DEF DeliveryInv, Apart
  <2>7. m \in WaitingMessages /\ WaitingMessages' = WaitingMessages \ {m}
    BY <2>1, <2>2, <2>5, <2>6 DEF WaitingMessages
  <2>8. CASE log' = Append(log, e) /\ UNCHANGED refused
    <3>1. LoggedIds' = LoggedIds \cup {m.id}
      BY <1>0, <2>3, <2>4, <2>8, LogPush
    <3>2. Promise!Say(m)
      BY <1>17, <2>1, <2>7, <2>8, <3>1 DEF Promise!Say
    <3> QED BY <2>1, <2>2, <3>2 DEF Promise!ConvNext
  <2>9. CASE UNCHANGED log /\ refused' = refused \cup {m.id}
    <3>1. LoggedIds' = LoggedIds
      BY <2>9 DEF LoggedIds
    <3>2. Promise!Refuse(m)
      BY <1>17, <2>1, <2>7, <2>9, <3>1 DEF Promise!Refuse
    <3> QED BY <2>1, <2>2, <3>2 DEF Promise!ConvNext
  <2> QED BY <2>1, <2>8, <2>9
<1>21. CASE Poll \/ UNCHANGED vars
  <2>1. InTurn' = InTurn
    BY <1>21 DEF Poll, vars, actor, InTurn
  <2> QED BY <1>21, <2>1, ConvQuiet DEF Poll, vars, handle, actor, caller, ledger, history
<1>22. ASSUME NEW o \in {"ok", "reported", "trap"}, Return(o) PROVE UNCHANGED Promise!convVars
  <2>1. InTurn' = InTurn
    BY <1>22 DEF Return, InTurn
  <2> QED BY <1>22, <2>1, ConvQuiet DEF Return, handle, caller, ledger, history
<1> QED
  BY <1>1, <1>2, <1>3, <1>4, <1>5, <1>6, <1>9, <1>10, <1>11, <1>12, <1>13, <1>14, <1>15, <1>16,
     <1>18, <1>19, <1>20, <1>21, <1>22
     DEF Next, Callers, ActorStep, TurnStep

\* The session actor does what a conversation promises: a message waits until it is
\* said once or refused, one turn runs at a time, and only its owner's messages are
\* said into it. (The fairness of the promise is checked by TLC.)
THEOREM ActorKeepsPromise == Spec => Promise!ConvSafety
BY TypeInit, TypeStep, DeliveryInit, DeliveryStep, ConvInitially, ConvStep, PTL
   DEF Spec, Promise!ConvSafety
=============================================================================
