-------------------------- MODULE LiveServicesProofs --------------------------
(* Proofs about the services of MCLiveServices: calls over the socket to a    *)
(* worker, sub-agents and a shell session, for any number of callers, calls,  *)
(* children and commands, any room in the socket and any cap on children.     *)
EXTENDS MCLiveServices, FiniteSetTheorems, SequenceTheorems, WellFoundedInduction, TLAPS

-----------------------------------------------------------------------------
(* The invariants *)

\* The child being spawned has a session and, once registered, a row that says it
\* runs: nobody but its parent knows of it yet.
Spawning ==
    /\ parent = "register" => subject \in Kids /\ kid[subject] = "created" /\ row[subject] = "none"
    /\ parent = "submit" => subject \in Kids /\ kid[subject] = "created" /\ row[subject] = "running"

\* A child with no session has no row, and one whose turn is not over has no
\* verdict of its own.
RowsOfTurns ==
    \A c \in Kids :
        /\ kid[c] = "none" => row[c] = "none"
        /\ kid[c] \in {"queued", "running", "returned"} => row[c] \in {"running", "cancelled"}

\* A cancellation, under way or to come, is of a child that has a row.
Cancelling ==
    /\ parent \in {"mark", "raise"} => subject \in Kids /\ row[subject] # "none"
    /\ \A c \in todo : row[c] # "none"

DelegationInv ==
    /\ DelegationTypeOK /\ IsFiniteSet(LiveRows)
    /\ Spawning /\ Cancelling /\ RowsOfTurns /\ RunningIsReal

\* Every marker in the buffer is that of a command that is over.
MarkersAreOver == \A k \in DOMAIN buffer : buffer[k] \in over

TerminalInv == TerminalTypeOK /\ MarkersAreOver /\ ToldIsOver

-----------------------------------------------------------------------------
(* The socket *)

\* A call that ends takes its own slot out of the map and no other.
LEMMA EndsSlot ==
    ASSUME IpcTypeOK, NEW c \in IpcCallers, Ends(c), nextId' = nextId
    PROVE  /\ at' \in [IpcCallers -> {"idle"} \cup InFlight]
           /\ callId' = callId /\ answer' = answer
           /\ pending' \subseteq {callId'[d] : d \in {e \in IpcCallers : at'[e] \in InFlight}}
<1>1. at' = [at EXCEPT ![c] = "idle"] /\ pending' = pending \ {callId[c]} /\ callId' = callId
      /\ answer' = answer
  BY DEF Ends, Goto, DropSlot, Unregister
<1>2. at \in [IpcCallers -> {"idle"} \cup InFlight]
  BY DEF IpcTypeOK
<1>3. ASSUME NEW x \in pending'
      PROVE  \E d \in {e \in IpcCallers : at'[e] \in InFlight} : x = callId'[d]
  <2>1. PICK d \in {e \in IpcCallers : at[e] \in InFlight} : x = callId[d]
    BY <1>1 DEF IpcTypeOK
  <2>2. d # c
    BY <1>1, <2>1
  <2>3. at'[d] \in InFlight
    BY <1>1, <1>2, <2>1, <2>2
  <2> QED BY <1>1, <2>1, <2>3
<1> QED BY <1>1, <1>2, <1>3

\* One step further along a call the slots are those of calls under way.
LEMMA GotoSlot ==
    ASSUME IpcTypeOK, NEW c \in IpcCallers, NEW place \in InFlight, Goto(c, place),
           callId' = callId, pending' \subseteq pending \cup {callId[c]}
    PROVE  /\ at' \in [IpcCallers -> {"idle"} \cup InFlight]
           /\ pending' \subseteq {callId'[d] : d \in {e \in IpcCallers : at'[e] \in InFlight}}
<1>1. at' = [at EXCEPT ![c] = place]
  BY DEF Goto
<1>2. at \in [IpcCallers -> {"idle"} \cup InFlight]
  BY DEF IpcTypeOK
<1>3. at'[c] \in InFlight /\ \A d \in IpcCallers : at[d] \in InFlight => at'[d] \in InFlight
  BY <1>1, <1>2
<1>4. ASSUME NEW x \in pending'
      PROVE  \E d \in {e \in IpcCallers : at'[e] \in InFlight} : x = callId'[d]
  <2>1. CASE x = callId[c]
    BY <1>3, <2>1
  <2>2. CASE x \in pending
    BY <1>3, <2>2 DEF IpcTypeOK
  <2> QED BY <2>1, <2>2
<1> QED BY <1>1, <1>2, <1>4

SlotsOK ==
    /\ at \in [IpcCallers -> {"idle"} \cup InFlight]
    /\ pending \subseteq {callId[c] : c \in {d \in IpcCallers : at[d] \in InFlight}}
IdsOK ==
    /\ callId \in [IpcCallers -> 0..MaxCalls]
    /\ answer \in [IpcCallers -> {NoAnswer, HungUp} \cup 1..MaxCalls]
    /\ nextId \in 1..(MaxCalls + 1)
WireOK ==
    /\ writer \in IpcCallers \cup {"free"} /\ wire \in Seq(0..MaxCalls) /\ Len(wire) <= IpcRoom
    /\ torn => wire # <<>>

\* The types by kind.
LEMMA IpcParts == IpcTypeOK <=> SlotsOK /\ IdsOK /\ WireOK
BY DEF IpcTypeOK, SlotsOK, IdsOK, WireOK

\* The map holds calls under way and nothing else, after every step.
LEMMA IpcStepTypes == IpcTypeOK /\ [IpcNext]_ipcVars => IpcTypeOK'
<1> SUFFICES ASSUME IpcTypeOK, [IpcNext]_ipcVars PROVE IpcTypeOK'
  OBVIOUS
<1>0. SlotsOK /\ IdsOK /\ WireOK
  BY IpcParts
<1>1. SlotsOK'
  <2>1. ASSUME NEW c \in IpcCallers, Begin(c) PROVE SlotsOK'
    <3>1. at' = [at EXCEPT ![c] = "register"] /\ callId' = [callId EXCEPT ![c] = nextId]
          /\ pending' = pending /\ at[c] = "idle"
      BY <2>1 DEF Begin, Goto
    <3>2. "idle" \notin InFlight /\ "register" \in InFlight
      BY DEF InFlight
    <3>3. \A d \in IpcCallers : at[d] \in InFlight => at'[d] \in InFlight /\ callId'[d] = callId[d]
      BY <1>0, <3>1, <3>2 DEF SlotsOK, IdsOK
    <3>4. at' \in [IpcCallers -> {"idle"} \cup InFlight]
      BY <1>0, <3>1, <3>2 DEF SlotsOK
    <3> QED BY <1>0, <3>1, <3>3, <3>4 DEF SlotsOK
  <2>2. ASSUME NEW c \in IpcCallers, Register(c) \/ TakeWriter(c) \/ WriteFrame(c) \/ WriteStalls(c)
        PROVE  SlotsOK'
    <3>1. \E place \in {"recheck", "write", "wait", "closing"} : Goto(c, place)
      BY <2>2 DEF Register, TakeWriter, WriteFrame, WriteStalls
    <3>2. callId' = callId /\ pending' \subseteq pending \cup {callId[c]}
      BY <2>2 DEF Register, TakeWriter, WriteFrame, WriteStalls
    <3>3. {"recheck", "write", "wait", "closing"} \subseteq InFlight
      BY DEF InFlight
    <3> QED BY <3>1, <3>2, <3>3, GotoSlot DEF SlotsOK
  <2>3. ASSUME NEW c \in IpcCallers, Ends(c), nextId' = nextId PROVE SlotsOK'
    BY <2>3, EndsSlot DEF SlotsOK
  <2>4. ASSUME NEW c \in IpcCallers, Recheck(c) PROVE SlotsOK'
    <3>1. CASE Ends(c)
      BY <2>3, <2>4, <3>1 DEF Recheck
    <3>2. CASE ~Ends(c)
      <4>1. Goto(c, "queue") /\ callId' = callId /\ pending' = pending
        BY <2>4, <3>2 DEF Recheck
      <4>2. "queue" \in InFlight
        BY DEF InFlight
      <4> QED BY <4>1, <4>2, GotoSlot DEF SlotsOK
    <3> QED BY <3>1, <3>2
  <2>5. ASSUME NEW c \in IpcCallers,
               WriteFails(c) \/ Stalled(c) \/ Answered(c) \/ CallTimeout(c) \/ Cancel(c)
        PROVE  SlotsOK'
    BY <2>3, <2>5 DEF WriteFails, Stalled, Answered, CallTimeout, Cancel
  <2>6. ASSUME at' = at, callId' = callId, pending' \subseteq pending PROVE SlotsOK'
    BY <1>0, <2>6 DEF SlotsOK
  <2>7. CASE \/ \E id \in 1..MaxCalls : Deliver(id) \/ FarAnswers(id)
             \/ IpcClosing \/ FarReads \/ FarDies \/ UNCHANGED ipcVars
    BY <2>6, <2>7 DEF Deliver, FarAnswers, IpcClosing, Close, ClearPending, FarReads, FarDies, ipcVars,
                      ipcCall, ipcPeer
  <2> QED BY <2>1, <2>2, <2>4, <2>5, <2>7 DEF IpcNext, IpcStep
<1>2. IdsOK'
  <2> USE IpcAssumption
  <2>1. ASSUME NEW c \in IpcCallers, Begin(c) PROVE IdsOK'
    <3>1. nextId \in 1..MaxCalls /\ nextId \in 0..MaxCalls /\ nextId' \in 1..(MaxCalls + 1)
      BY <1>0, <2>1 DEF Begin, IdsOK
    <3>2. callId' \in [IpcCallers -> 0..MaxCalls]
      BY <1>0, <2>1, <3>1 DEF Begin, IdsOK
    <3>3. answer' \in [IpcCallers -> {NoAnswer, HungUp} \cup 1..MaxCalls]
      BY <1>0, <2>1 DEF Begin, IdsOK
    <3> QED BY <3>1, <3>2, <3>3 DEF IdsOK
  <2>2. ASSUME NEW id \in 1..MaxCalls, Deliver(id) PROVE IdsOK'
    BY <1>0, <2>2 DEF Deliver, IdsOK
  <2>3. ASSUME NEW who, ClearPending(who) PROVE IdsOK'
    BY <1>0, <2>3 DEF ClearPending, IdsOK
  <2>4. CASE \/ \E c \in IpcCallers : IpcStep(c) \/ CallTimeout(c) \/ Cancel(c)
             \/ \E id \in 1..MaxCalls : FarAnswers(id)
             \/ Close \/ FarReads \/ FarDies \/ UNCHANGED ipcVars
    <3>1. callId' = callId /\ answer' = answer /\ nextId' = nextId
      BY <2>4 DEF IpcStep, Register, Recheck, TakeWriter, WriteFrame, WriteFails, WriteStalls, Stalled,
                  Answered, CallTimeout, Cancel, Ends, FarAnswers, Close, FarReads, FarDies, ipcVars,
                  ipcCall, ipcPeer
    <3> QED BY <1>0, <3>1 DEF IdsOK
  <2> QED BY <2>1, <2>2, <2>3, <2>4 DEF IpcNext, IpcClosing
<1>3. WireOK'
  <2> USE IpcAssumption
  <2>1. wire \in Seq(0..MaxCalls) /\ Len(wire) \in Nat /\ Len(wire) <= IpcRoom /\ (torn => wire # <<>>)
    BY <1>0 DEF WireOK
  <2>0. Len(wire) \in Nat
    BY <2>1
  <2>2. writer' \in IpcCallers \cup {"free"}
    <3>1. writer' \in {writer, "free"} \/ writer' \in IpcCallers
      BY DEF IpcNext, Begin, IpcStep, Register, Recheck, TakeWriter, WriteFrame, WriteFails, WriteStalls,
             Stalled, Answered, CallTimeout, Cancel, Deliver, FarAnswers, IpcClosing, Close,
             ClearPending, FarReads, FarDies, ipcVars, ipcPeer
    <3> QED BY <1>0, <3>1 DEF WireOK
  <2>3. CASE UNCHANGED ipcWire
    BY <1>0, <2>2, <2>3 DEF WireOK, ipcWire
  <2>4. CASE PartlyOut
    <3>1. Garbled \in 0..MaxCalls
      BY DEF Garbled
    <3>2. wire' = Append(wire, Garbled) /\ Len(wire) < IpcRoom
      BY <2>4 DEF PartlyOut
    <3>3. wire' \in Seq(0..MaxCalls) /\ Len(wire') = Len(wire) + 1
      BY <2>1, <3>1, <3>2
    <3>4. Len(wire') <= IpcRoom /\ wire' # <<>>
      BY <2>1, <3>2, <3>3
    <3> QED BY <2>2, <3>3, <3>4 DEF WireOK
  <2>5. ASSUME NEW c \in IpcCallers, WriteFrame(c) PROVE WireOK'
    <3>1. Garbled \in 0..MaxCalls /\ callId[c] \in 0..MaxCalls
      BY <1>0 DEF Garbled, IdsOK
    <3>2. ~torn' /\ wire' = Written(callId[c]) /\ (torn \/ Len(wire) < IpcRoom)
      BY <2>5 DEF WriteFrame
    <3>3. CASE torn
      <4>1. wire' = SubSeq(wire, 1, Len(wire) - 1) \o <<Garbled>>
        BY <3>2, <3>3 DEF Written
      <4>2. Len(wire) >= 1
        <5>1. wire # <<>>
          BY <2>1, <3>3, Zenon
        <5> QED BY <2>1, <5>1
      <4>3. SubSeq(wire, 1, Len(wire) - 1) \in Seq(0..MaxCalls)
            /\ Len(SubSeq(wire, 1, Len(wire) - 1)) = Len(wire) - 1
        <5> DEFINE n == Len(wire) - 1
        <5>1. n \in Nat /\ \A i \in 1..n : i \in 1..Len(wire)
          BY <2>0, <4>2
        <5>2. \A i \in 1..Len(wire) : wire[i] \in 0..MaxCalls
          BY <2>1
        <5> HIDE DEF n
        <5>3. SubSeq(wire, 1, n) \in Seq(0..MaxCalls) /\ Len(SubSeq(wire, 1, n)) = IF 1 <= n THEN n - 1 + 1 ELSE 0
          BY <5>1, <5>2, SubSeqProperties
        <5>4. Len(SubSeq(wire, 1, n)) = n
          BY <5>1, <5>3
        <5> QED BY <5>3, <5>4 DEF n
      <4>4. <<Garbled>> \in Seq(0..MaxCalls) /\ Len(<<Garbled>>) = 1
        BY <3>1
      <4>5. wire' \in Seq(0..MaxCalls) /\ Len(wire') = Len(wire)
        BY <2>1, <4>1, <4>3, <4>4
      <4> QED BY <2>1, <2>2, <3>2, <4>5 DEF WireOK
    <3>4. CASE ~torn
      <4>1. wire' = Append(wire, callId[c]) /\ Len(wire) < IpcRoom
        BY <3>2, <3>4 DEF Written
      <4>2. wire' \in Seq(0..MaxCalls) /\ Len(wire') = Len(wire) + 1
        BY <2>1, <3>1, <4>1
      <4> QED BY <2>1, <2>2, <3>2, <4>1, <4>2 DEF WireOK
    <3> QED BY <3>3, <3>4
  <2>6. CASE FarReads
    <3>1. wire # <<>> /\ (torn => Len(wire) > 1) /\ wire' = Tail(wire) /\ torn' = torn
      BY <2>6 DEF FarReads, WholeLine
    <3>2. wire' \in Seq(0..MaxCalls) /\ Len(wire') = Len(wire) - 1
      BY <2>1, <3>1
    <3>3. ASSUME torn' PROVE wire' # <<>>
      <4>1. Len(wire) > 1
        BY <3>1, <3>3, Zenon
      <4>2. Len(wire') # 0
        BY <2>0, <3>2, <4>1
      <4> QED BY <4>2
    <3> QED BY <2>1, <2>2, <3>2, <3>3 DEF WireOK
  <2>7. \/ UNCHANGED ipcWire \/ PartlyOut \/ FarReads
        \/ \E c \in IpcCallers : WriteFrame(c)
    BY DEF IpcNext, Begin, IpcStep, Register, Recheck, TakeWriter, WriteFails, WriteStalls,
           Stalled, Answered, CallTimeout, Cancel, Deliver, FarAnswers, IpcClosing, Close,
           ClearPending, FarDies, ipcVars, ipcWire
  <2> QED BY <2>3, <2>4, <2>5, <2>6, <2>7
<1>4. (SlotsOK /\ IdsOK /\ WireOK)'
  BY <1>1, <1>2, <1>3
<1> QED BY <1>4 DEF IpcTypeOK, SlotsOK, IdsOK, WireOK

-----------------------------------------------------------------------------
(* Sub-agents *)

RowStates == Settled \cup {"none", "running"}
KidStates == {"none", "created", "archived", "queued", "running", "returned", "over"}
KidTypes ==
    /\ row \in [Kids -> RowStates] /\ kid \in [Kids -> KidStates]
    /\ ended \in [Kids -> {"answer", "silent", "fault", "stopped"}]
ParentTypes ==
    /\ raised \subseteq Kids /\ lost \subseteq Kids /\ todo \subseteq Kids
    /\ parent \in {"idle", "turn", "register", "submit", "check", "decided", "parked",
                   "sweep", "mark", "raise"}
    /\ subject \in Kids \cup {NoKid} /\ until \in Waits
Capped == IsFiniteSet(LiveRows) /\ (MaxChildren > 0 => Cardinality(LiveRows) <= MaxChildren)

\* The types by kind.
LEMMA DelegationParts ==
    DelegationTypeOK /\ IsFiniteSet(LiveRows) <=> KidTypes /\ ParentTypes /\ Capped
BY DEF DelegationTypeOK, KidTypes, ParentTypes, Capped, RowStates, KidStates

\* Every verdict settles.
LEMMA VerdictSettles ==
    ASSUME NEW e \in {"answer", "silent", "fault", "stopped"}
    PROVE  Verdict[e] \in Settled
BY DEF Verdict, Settled

\* What a step does to one child's row and turn: the registry writes one row, except
\* that a restart of the gateway fails the ones that run.
LEMMA RowMoves ==
    ASSUME DelegationInv, [DelegationNext]_dgVars
    PROVE  \/ row' = row
           \/ parent = "register" /\ ~AtCap /\ row' = [row EXCEPT ![subject] = "running"]
           \/ parent = "mark" /\ row' = [row EXCEPT ![subject] = MarkCancelled(row[subject])]
           \/ \E c \in Kids : kid[c] = "returned" /\ row' = [row EXCEPT ![c] = Verdict[ended[c]]]
           \/ row' = [c \in Kids |-> IF c \in LiveRows THEN "failed" ELSE row[c]]
BY DEF DelegationNext, ParentStep, ParentChoice, KidStep, SpawnRegister, SpawnSubmit, WaitReadsRows,
       WaitReadsNone, WaitReads, WaitParks, WaitPolls, WaitStopped, SweepDone, CancelMarks,
       CancelRaises, SweepNext, ParentBegins, ParentStopped, ParentReturns, WaitTimesOut,
       WaitBegins, SpawnCreate, CancelBegins, KidBegins, KidReturns, KidSettles, FleetDies,
       GatewayRestarts, Swept, dgVars

\* The rows keep their types, and a verdict of the child's own is for good.
LEMMA RowsStep ==
    ASSUME DelegationInv, [DelegationNext]_dgVars
    PROVE  /\ row' \in [Kids -> RowStates]
           /\ \A c \in Kids : row[c] \in {"done", "failed"} => row'[c] = row[c]
           /\ \A c \in Kids : row'[c] = "running" =>
                  row[c] = "running" \/ (parent = "register" /\ c = subject)
           /\ \A c \in Kids : row'[c] = "none" => row[c] = "none"
<1>0. KidTypes /\ ParentTypes /\ Spawning /\ RowsOfTurns
  BY DelegationParts DEF DelegationInv
<1>1. CASE row' = row
  BY <1>0, <1>1 DEF KidTypes
<1>2. CASE parent = "register" /\ row' = [row EXCEPT ![subject] = "running"]
  BY <1>0, <1>2 DEF KidTypes, Spawning, RowStates
<1>3. CASE parent = "mark" /\ row' = [row EXCEPT ![subject] = MarkCancelled(row[subject])]
  BY <1>0, <1>3 DEF KidTypes, MarkCancelled, RowStates, Settled
<1>4. ASSUME NEW c \in Kids, kid[c] = "returned", row' = [row EXCEPT ![c] = Verdict[ended[c]]]
      PROVE  /\ row' \in [Kids -> RowStates]
             /\ \A d \in Kids : row[d] \in {"done", "failed"} => row'[d] = row[d]
             /\ \A d \in Kids : row'[d] = "running" => row[d] = "running"
             /\ \A d \in Kids : row'[d] = "none" => row[d] = "none"
  <2>1. Verdict[ended[c]] \in Settled
    BY <1>0, VerdictSettles DEF KidTypes
  <2>2. row[c] \in {"running", "cancelled"}
    BY <1>0, <1>4 DEF RowsOfTurns
  <2> QED BY <1>0, <1>4, <2>1, <2>2 DEF KidTypes, RowStates, Settled
<1>5. CASE row' = [c \in Kids |-> IF c \in LiveRows THEN "failed" ELSE row[c]]
  BY <1>0, <1>5 DEF KidTypes, RowStates, Settled, LiveRows
<1> QED BY <1>1, <1>2, <1>3, <1>4, <1>5, RowMoves

\* The cap holds: only a registration adds a running row, and only below the cap.
LEMMA CapStep ==
    ASSUME DelegationInv, [DelegationNext]_dgVars
    PROVE  Capped'
<1>0. KidTypes /\ Capped
  BY DelegationParts DEF DelegationInv
<1> USE DelegationAssumption
<1>1. CASE LiveRows' \subseteq LiveRows
  <2>1. IsFiniteSet(LiveRows') /\ Cardinality(LiveRows') <= Cardinality(LiveRows)
    BY <1>0, <1>1, FS_Subset DEF Capped
  <2>2. Cardinality(LiveRows') \in Nat /\ Cardinality(LiveRows) \in Nat
    BY <1>0, <2>1, FS_CardinalityType DEF Capped
  <2> QED BY <1>0, <2>1, <2>2 DEF Capped
<1>2. CASE ~(LiveRows' \subseteq LiveRows)
  <2>1. \A c \in Kids : row'[c] = "running" => row[c] = "running" \/ (parent = "register" /\ c = subject)
    BY RowsStep
  <2>2. parent = "register" /\ LiveRows' \subseteq LiveRows \cup {subject}
    BY <1>2, <2>1 DEF LiveRows
  <2>3. ~AtCap
    <3>1. \/ row' = row
          \/ parent = "register" /\ ~AtCap /\ row' = [row EXCEPT ![subject] = "running"]
          \/ \E c \in Kids : kid[c] = "returned" /\ row' = [row EXCEPT ![c] = Verdict[ended[c]]]
          \/ row' = [c \in Kids |-> IF c \in LiveRows THEN "failed" ELSE row[c]]
      BY <2>2, RowMoves
    <3>2. ASSUME NEW c \in Kids, row' = [row EXCEPT ![c] = Verdict[ended[c]]]
          PROVE  LiveRows' \subseteq LiveRows
      <4>1. Verdict[ended[c]] # "running"
        BY <1>0, VerdictSettles DEF KidTypes, Settled
      <4> QED BY <1>0, <3>2, <4>1 DEF KidTypes, LiveRows
    <3>3. ASSUME row' = [c \in Kids |-> IF c \in LiveRows THEN "failed" ELSE row[c]]
          PROVE  LiveRows' \subseteq LiveRows
      BY <3>3 DEF LiveRows
    <3>4. row' = row => LiveRows' = LiveRows
      BY DEF LiveRows
    <3> QED BY <1>2, <3>1, <3>2, <3>3, <3>4
  <2>4. /\ IsFiniteSet(LiveRows \cup {subject})
        /\ Cardinality(LiveRows \cup {subject}) <= Cardinality(LiveRows) + 1
        /\ Cardinality(LiveRows \cup {subject}) \in Nat /\ Cardinality(LiveRows) \in Nat
    <3>1. IsFiniteSet(LiveRows \cup {subject}) /\ Cardinality(LiveRows \cup {subject}) =
              IF subject \in LiveRows THEN Cardinality(LiveRows) ELSE Cardinality(LiveRows) + 1
      BY <1>0, FS_AddElement DEF Capped
    <3>2. Cardinality(LiveRows \cup {subject}) \in Nat /\ Cardinality(LiveRows) \in Nat
      BY <1>0, <3>1, FS_CardinalityType DEF Capped
    <3> QED BY <3>1, <3>2
  <2>5. IsFiniteSet(LiveRows') /\ Cardinality(LiveRows') <= Cardinality(LiveRows \cup {subject})
    BY <2>2, <2>4, FS_Subset
  <2>6. Cardinality(LiveRows') \in Nat
    BY <2>5, FS_CardinalityType
  <2>7. MaxChildren > 0 => Cardinality(LiveRows) < MaxChildren
    BY <2>3, <2>4 DEF AtCap
  <2> QED BY <2>4, <2>5, <2>6, <2>7 DEF Capped
<1> QED BY <1>1, <1>2

\* The other variables keep their types.
LEMMA KidsStep ==
    ASSUME DelegationInv, [DelegationNext]_dgVars
    PROVE  kid' \in [Kids -> KidStates] /\ ended' \in [Kids -> {"answer", "silent", "fault", "stopped"}]
<1>0. KidTypes /\ ParentTypes
  BY DelegationParts DEF DelegationInv
<1>1. kid' \in [Kids -> KidStates]
  <2>1. \/ kid' = kid
        \/ \E c \in Kids \cup {subject}, k \in KidStates : kid' = [kid EXCEPT ![c] = k]
        \/ kid' = [c \in Kids |-> IF kid[c] = "none" THEN "none" ELSE "over"]
    BY DEF DelegationNext, ParentStep, ParentChoice, KidStep, SpawnRegister, SpawnSubmit, WaitReadsRows,
       WaitReadsNone, WaitReads, WaitParks, WaitPolls, WaitStopped, SweepDone, CancelMarks,
       CancelRaises, SweepNext, ParentBegins, ParentStopped, ParentReturns, WaitTimesOut,
       WaitBegins, SpawnCreate, CancelBegins, KidBegins, KidReturns, KidSettles, FleetDies,
       GatewayRestarts, dgVars, kidVars, KidStates
  <2> QED BY <1>0, <2>1 DEF KidTypes, KidStates
<1>2. ended' \in [Kids -> {"answer", "silent", "fault", "stopped"}]
  <2>1. \/ ended' = ended
        \/ \E c \in Kids, e \in {"answer", "silent", "fault", "stopped"} : ended' = [ended EXCEPT ![c] = e]
    BY DEF DelegationNext, ParentStep, ParentChoice, KidStep, SpawnRegister, SpawnSubmit, WaitReadsRows,
       WaitReadsNone, WaitReads, WaitParks, WaitPolls, WaitStopped, SweepDone, CancelMarks,
       CancelRaises, SweepNext, ParentBegins, ParentStopped, ParentReturns, WaitTimesOut,
       WaitBegins, SpawnCreate, CancelBegins, KidBegins, KidReturns, KidSettles, FleetDies,
       GatewayRestarts, dgVars, kidVars
  <2> QED BY <1>0, <2>1 DEF KidTypes
<1> QED BY <1>1, <1>2

\* So do the parent's.
LEMMA ParentTypesStep ==
    ASSUME DelegationInv, [DelegationNext]_dgVars
    PROVE  ParentTypes'
<1>0. KidTypes /\ ParentTypes
  BY DelegationParts DEF DelegationInv
<1>1. /\ parent' \in {parent, "idle", "turn", "register", "submit", "check", "decided", "parked",
                      "sweep", "mark", "raise"}
      /\ until' = until \/ until' \in Waits
  BY DEF DelegationNext, ParentStep, ParentChoice, KidStep, SpawnRegister, SpawnSubmit, WaitReadsRows,
         WaitReadsNone, WaitReads, WaitParks, WaitPolls, WaitStopped, SweepDone, CancelMarks,
         CancelRaises, SweepNext, ParentBegins, ParentStopped, ParentReturns, WaitTimesOut,
         WaitBegins, SpawnCreate, CancelBegins, KidBegins, KidReturns, KidSettles, FleetDies,
         GatewayRestarts, ParentAt, Ring, dgVars, parentVars
<1>2. subject' \in Kids \cup {NoKid, subject} /\ todo' \subseteq Kids
  BY <1>0 DEF DelegationNext, ParentStep, ParentChoice, KidStep, SpawnRegister, SpawnSubmit,
         WaitReadsRows, WaitReadsNone, WaitReads, WaitParks, WaitPolls, WaitStopped, SweepDone,
         CancelMarks, CancelRaises, SweepNext, ParentBegins, ParentStopped, ParentReturns,
         WaitTimesOut, WaitBegins, SpawnCreate, CancelBegins, KidBegins, KidReturns, KidSettles,
         FleetDies, GatewayRestarts, dgVars, parentVars, ParentTypes, LiveRows
<1>3. raised' \subseteq Kids
  <2>1. CASE CancelRaises
    <3>1. subject \in Kids
      BY <2>1 DEF CancelRaises, DelegationInv, Cancelling
    <3> QED BY <1>0, <2>1, <3>1 DEF CancelRaises, ParentTypes
  <2>2. CASE ~CancelRaises
    BY <1>0, <2>2 DEF DelegationNext, ParentStep, ParentChoice, KidStep, SpawnRegister, SpawnSubmit,
         WaitReadsRows, WaitReadsNone, WaitReads, WaitParks, WaitPolls, WaitStopped, SweepDone,
         CancelMarks, SweepNext, ParentBegins, ParentStopped, ParentReturns,
         WaitTimesOut, WaitBegins, SpawnCreate, CancelBegins, KidBegins, KidReturns, KidSettles,
         FleetDies, GatewayRestarts, dgVars, kidVars, ParentTypes
  <2> QED BY <2>1, <2>2
<1>4. lost' \subseteq Kids
  BY <1>0 DEF DelegationNext, ParentStep, ParentChoice, KidStep, SpawnRegister, SpawnSubmit,
         WaitReadsRows, WaitReadsNone, WaitReads, WaitParks, WaitPolls, WaitStopped, SweepDone,
         CancelMarks, CancelRaises, SweepNext, ParentBegins, ParentStopped, ParentReturns,
         WaitTimesOut, WaitBegins, SpawnCreate, CancelBegins, KidBegins, KidReturns, KidSettles,
         FleetDies, GatewayRestarts, dgVars, ParentTypes
<1> QED BY <1>0, <1>1, <1>2, <1>3, <1>4 DEF ParentTypes

\* The child a parent cancels has a row, and rows do not disappear.
LEMMA CancellingStep ==
    ASSUME DelegationInv, [DelegationNext]_dgVars
    PROVE  Cancelling'
<1>0. KidTypes /\ ParentTypes /\ Cancelling
  BY DelegationParts DEF DelegationInv
<1>1. \A c \in Kids : row[c] # "none" => row'[c] # "none"
  BY RowsStep
<1>2. todo' \subseteq todo \/ todo' = LiveRows
  BY DEF DelegationNext, ParentStep, ParentChoice, KidStep, SpawnRegister, SpawnSubmit,
         WaitReadsRows, WaitReadsNone, WaitReads, WaitParks, WaitPolls, WaitStopped, SweepDone,
         CancelMarks, CancelRaises, SweepNext, ParentBegins, ParentStopped, ParentReturns,
         WaitTimesOut, WaitBegins, SpawnCreate, CancelBegins, KidBegins, KidReturns, KidSettles,
         FleetDies, GatewayRestarts, dgVars, parentVars
<1>3. ASSUME parent' \in {"mark", "raise"}
      PROVE  (parent \in {"mark", "raise"} /\ subject' = subject) \/ subject' \in todo \cup Registered
  BY <1>3 DEF DelegationNext, ParentStep, ParentChoice, KidStep, SpawnRegister, SpawnSubmit,
         WaitReadsRows, WaitReadsNone, WaitReads, WaitParks, WaitPolls, WaitStopped, SweepDone,
         CancelMarks, CancelRaises, SweepNext, ParentBegins, ParentStopped, ParentReturns,
         WaitTimesOut, WaitBegins, SpawnCreate, CancelBegins, KidBegins, KidReturns, KidSettles,
         FleetDies, GatewayRestarts, dgVars, parentVars, ParentAt, Ring
<1>4. \A c \in todo' : row'[c] # "none"
  BY <1>0, <1>1, <1>2 DEF ParentTypes, Cancelling, LiveRows
<1>5. ASSUME parent' \in {"mark", "raise"} PROVE subject' \in Kids /\ row'[subject'] # "none"
  BY <1>0, <1>1, <1>3, <1>5 DEF ParentTypes, Cancelling, Registered
<1> QED BY <1>4, <1>5 DEF Cancelling

Kept == Spawning /\ RowsOfTurns /\ RunningIsReal

\* Every row that says a child runs keeps a turn behind it.
LEMMA DelegationKept ==
    ASSUME DelegationInv, [DelegationNext]_dgVars
    PROVE  Kept'
<1>0. KidTypes /\ ParentTypes /\ Kept /\ Cancelling
  BY DelegationParts DEF DelegationInv, Kept
<1>1. CASE \/ WaitReadsRows \/ WaitReadsNone \/ WaitParks \/ WaitPolls \/ WaitStopped \/ SweepDone
           \/ CancelRaises \/ ParentBegins \/ ParentReturns \/ WaitTimesOut
           \/ (\E w \in Waits : WaitBegins(w))
           \/ (\E c \in Kids : SweepNext(c) \/ CancelBegins(c))
  <2>1. UNCHANGED <<row, kid, lost>>
    BY <1>1 DEF WaitReadsRows, WaitReadsNone, WaitReads, WaitParks, WaitPolls, WaitStopped, SweepDone,
                CancelRaises, ParentBegins, ParentReturns, WaitTimesOut, WaitBegins, SweepNext,
                CancelBegins, kidVars
  <2>2. parent \notin {"register", "submit"} /\ parent' \notin {"register", "submit"}
    BY <1>1 DEF WaitReadsRows, WaitReadsNone, WaitReads, WaitParks, WaitPolls, Backstop, WaitStopped,
                SweepDone, CancelRaises, ParentBegins, ParentReturns, WaitTimesOut, WaitBegins,
                SweepNext, CancelBegins, ParentAt
  <2> QED BY <1>0, <2>1, <2>2
          DEF Kept, Spawning, RowsOfTurns, RunningIsReal, LiveRows
<1>2. CASE ParentStopped \/ UNCHANGED dgVars
  <2>1. UNCHANGED <<row, kid, lost, parent, subject>>
    BY <1>2 DEF ParentStopped, dgVars, kidVars, parentVars
  <2> QED BY <1>0, <2>1 DEF Kept, Spawning, RowsOfTurns, RunningIsReal, LiveRows
<1>3. ASSUME NEW c \in Kids, SpawnCreate(c) PROVE Kept'
  <2>1. /\ parent = "turn" /\ parent' = "register" /\ subject' = c /\ kid[c] = "none"
        /\ kid' = [kid EXCEPT ![c] = "created"] /\ UNCHANGED <<row, lost>>
    BY <1>3 DEF SpawnCreate, ParentAt
  <2>2. kid'[c] = "created" /\ \A d \in Kids \ {c} : kid'[d] = kid[d]
    BY <1>0, <2>1 DEF KidTypes
  <2>3. row[c] = "none"
    BY <1>0, <2>1 DEF Kept, RowsOfTurns
  <2>4. Spawning'
    BY <2>1, <2>2, <2>3 DEF Spawning
  <2>5. RowsOfTurns'
    BY <1>0, <2>1, <2>2, <2>3 DEF Kept, RowsOfTurns
  <2>6. RunningIsReal'
    BY <1>0, <2>1, <2>2, <2>3 DEF Kept, RunningIsReal, LiveRows
  <2> QED BY <2>4, <2>5, <2>6 DEF Kept
<1>4. CASE SpawnRegister
  <2>1. parent = "register" /\ subject \in Kids /\ kid[subject] = "created" /\ row[subject] = "none"
        /\ lost' = lost
    BY <1>0, <1>4 DEF SpawnRegister, Kept, Spawning
  <2>2. CASE row' = [row EXCEPT ![subject] = "running"] /\ parent' = "submit" /\ UNCHANGED <<kid, subject>>
    <3>1. row'[subject] = "running" /\ \A d \in Kids \ {subject} : row'[d] = row[d]
      BY <1>0, <2>1, <2>2 DEF KidTypes
    <3>2. Spawning'
      BY <2>1, <2>2, <3>1 DEF Spawning
    <3>3. RowsOfTurns'
      BY <1>0, <2>1, <2>2, <3>1 DEF Kept, RowsOfTurns
    <3>4. RunningIsReal'
      BY <1>0, <2>1, <2>2, <3>1 DEF Kept, RunningIsReal, LiveRows
    <3> QED BY <3>2, <3>3, <3>4 DEF Kept
  <2>3. CASE kid' = [kid EXCEPT ![subject] = "archived"] /\ parent' = "turn" /\ row' = row
    <3>1. kid'[subject] = "archived" /\ \A d \in Kids \ {subject} : kid'[d] = kid[d]
      BY <1>0, <2>1, <2>3 DEF KidTypes
    <3>2. Spawning'
      BY <2>3 DEF Spawning
    <3>3. RowsOfTurns'
      BY <1>0, <2>1, <2>3, <3>1 DEF Kept, RowsOfTurns
    <3>4. RunningIsReal'
      BY <1>0, <2>1, <2>3, <3>1 DEF Kept, RunningIsReal, LiveRows
    <3> QED BY <3>2, <3>3, <3>4 DEF Kept
  <2> QED BY <1>4, <2>2, <2>3 DEF SpawnRegister, ParentAt
<1>5. CASE SpawnSubmit
  <2>1. parent = "submit" /\ subject \in Kids /\ row[subject] = "running"
    BY <1>0, <1>5 DEF SpawnSubmit, Kept, Spawning
  <2>2. kid' = [kid EXCEPT ![subject] = "queued"] /\ parent' = "turn" /\ UNCHANGED <<row, lost>>
    BY <1>5 DEF SpawnSubmit, ParentAt
  <2>3. kid'[subject] = "queued" /\ \A d \in Kids \ {subject} : kid'[d] = kid[d]
    BY <1>0, <2>1, <2>2 DEF KidTypes
  <2>4. Spawning'
    BY <2>2 DEF Spawning
  <2>5. RowsOfTurns'
    BY <1>0, <2>1, <2>2, <2>3 DEF Kept, RowsOfTurns
  <2>6. RunningIsReal'
    BY <1>0, <2>1, <2>2, <2>3 DEF Kept, RunningIsReal, LiveRows
  <2> QED BY <2>4, <2>5, <2>6 DEF Kept
<1>6. CASE CancelMarks
  <2>1. /\ parent = "mark" /\ parent' \in {"raise", "turn"} /\ UNCHANGED <<kid, lost>>
        /\ subject \in Kids /\ row[subject] # "none"
    BY <1>0, <1>6 DEF CancelMarks, ParentAt, Cancelling, kidVars
  <2>2. row' = row \/ row' = [row EXCEPT ![subject] = MarkCancelled(row[subject])]
    BY <1>6 DEF CancelMarks
  <2>3. CASE row' = row
    BY <1>0, <2>1, <2>3 DEF Kept, Spawning, RowsOfTurns, RunningIsReal, LiveRows
  <2>4. CASE row' = [row EXCEPT ![subject] = MarkCancelled(row[subject])]
    <3>0. kid[subject] # "none"
      BY <1>0, <2>1 DEF Kept, RowsOfTurns
    <3>1. /\ row'[subject] = MarkCancelled(row[subject])
          /\ \A d \in Kids \ {subject} : row'[d] = row[d]
      BY <1>0, <2>1, <2>4 DEF KidTypes
    <3>2. Spawning'
      BY <2>1 DEF Spawning
    <3>3. row'[subject] # "running" /\ (row[subject] \in {"running", "cancelled"} => row'[subject] = "cancelled")
      BY <3>1 DEF MarkCancelled, Settled
    <3>4. RunningIsReal'
      BY <1>0, <2>1, <3>1, <3>3 DEF Kept, RunningIsReal, LiveRows
    <3>5. RowsOfTurns'
      BY <1>0, <2>1, <3>0, <3>1, <3>3 DEF Kept, RowsOfTurns
    <3> QED BY <3>2, <3>4, <3>5 DEF Kept
  <2> QED BY <2>2, <2>3, <2>4
<1>7. ASSUME NEW c \in Kids, KidBegins(c) \/ KidReturns(c) PROVE Kept'
  <2>1. /\ kid[c] \in {"queued", "running"} /\ UNCHANGED <<row, lost, parent, subject>>
        /\ kid' \in {[kid EXCEPT ![c] = "running"], [kid EXCEPT ![c] = "returned"]}
    BY <1>7 DEF KidBegins, KidReturns, parentVars
  <2>2. kid'[c] \in {"running", "returned"} /\ \A d \in Kids \ {c} : kid'[d] = kid[d]
    BY <1>0, <2>1 DEF KidTypes
  <2>3. Spawning'
    BY <1>0, <2>1, <2>2 DEF Kept, Spawning
  <2>4. RowsOfTurns'
    BY <1>0, <2>1, <2>2 DEF Kept, RowsOfTurns
  <2>5. RunningIsReal'
    BY <1>0, <2>1, <2>2 DEF Kept, RunningIsReal, LiveRows
  <2> QED BY <2>3, <2>4, <2>5 DEF Kept
<1>8. ASSUME NEW c \in Kids, KidSettles(c) PROVE Kept'
  <2>1. /\ kid[c] = "returned" /\ kid' = [kid EXCEPT ![c] = "over"] /\ subject' = subject
        /\ parent' = parent \/ (parent = "parked" /\ parent' = "check")
    BY <1>8 DEF KidSettles, Ring
  <2>2. \/ row' = [row EXCEPT ![c] = Verdict[ended[c]]] /\ lost' = lost
        \/ row' = row /\ lost' = lost \cup {c}
    BY <1>8 DEF KidSettles
  <2>3. kid'[c] = "over" /\ \A d \in Kids \ {c} : kid'[d] = kid[d]
    BY <1>0, <2>1 DEF KidTypes
  <2>4. Verdict[ended[c]] \in Settled
    BY <1>0, VerdictSettles DEF KidTypes
  <2>5. /\ \A d \in Kids \ {c} : row'[d] = row[d]
        /\ row'[c] = "running" => c \in lost'
    BY <1>0, <2>2, <2>4 DEF KidTypes, Settled
  <2>6. lost \subseteq lost'
    BY <2>2
  <2>7. Spawning'
    BY <1>0, <2>1, <2>3, <2>5 DEF Kept, Spawning
  <2>8. RowsOfTurns'
    BY <1>0, <2>3, <2>5 DEF Kept, RowsOfTurns
  <2>9. RunningIsReal'
    BY <1>0, <2>1, <2>3, <2>5, <2>6 DEF Kept, RunningIsReal, LiveRows
  <2> QED BY <2>7, <2>8, <2>9 DEF Kept
<1>9. CASE FleetDies
  <2>1. /\ lost' = lost \cup {c \in Kids : kid[c] \in {"queued", "running", "returned"}}
                        \cup {c \in {subject} \ {NoKid} : parent \in {"register", "submit"}}
        /\ kid' = [c \in Kids |-> IF kid[c] = "none" THEN "none" ELSE "over"]
        /\ parent' \in {"idle", "turn"} /\ row' = row
    BY <1>9 DEF FleetDies, ParentAt
  <2>2. Spawning'
    BY <2>1 DEF Spawning
  <2>3. RowsOfTurns'
    BY <1>0, <2>1 DEF Kept, RowsOfTurns
  <2>4. \A c \in LiveRows : c \in lost'
    BY <1>0, <2>1, DelegationAssumption DEF Kept, RunningIsReal, LiveRows
  <2>5. RunningIsReal'
    BY <2>1, <2>4 DEF RunningIsReal, LiveRows
  <2> QED BY <2>2, <2>3, <2>5 DEF Kept
<1>10. CASE GatewayRestarts
  <2>1. /\ row' = [c \in Kids |-> IF c \in LiveRows THEN "failed" ELSE row[c]]
        /\ kid' = [c \in Kids |-> IF kid[c] = "none" THEN "none" ELSE "over"]
        /\ parent' \in {"idle", "turn"}
    BY <1>10 DEF GatewayRestarts, Swept, ParentAt
  <2>2. Spawning'
    BY <2>1 DEF Spawning
  <2>3. \A c \in Kids : row'[c] # "running" /\ (row[c] = "none" => row'[c] = "none")
    BY <2>1 DEF LiveRows
  <2>4. RowsOfTurns'
    BY <1>0, <2>1, <2>3 DEF Kept, RowsOfTurns
  <2>5. RunningIsReal'
    BY <2>3 DEF RunningIsReal, LiveRows
  <2> QED BY <2>2, <2>4, <2>5 DEF Kept
<1> QED BY <1>1, <1>2, <1>3, <1>4, <1>5, <1>6, <1>7, <1>8, <1>9, <1>10
        DEF DelegationNext, ParentStep, ParentChoice, KidStep

\* The invariant of delegation is kept by every step.
LEMMA DelegationStep == DelegationInv /\ [DelegationNext]_dgVars => DelegationInv'
<1> SUFFICES ASSUME DelegationInv, [DelegationNext]_dgVars PROVE DelegationInv'
  OBVIOUS
<1>1. KidTypes'
  BY RowsStep, KidsStep DEF KidTypes
<1>2. ParentTypes' /\ Capped' /\ Kept'
  BY ParentTypesStep, CapStep, DelegationKept
<1>4. Cancelling'
  BY CancellingStep
<1>3. (DelegationTypeOK /\ IsFiniteSet(LiveRows))'
  BY <1>1, <1>2 DEF DelegationTypeOK, KidTypes, ParentTypes, Capped, RowStates, KidStates
<1> QED BY <1>2, <1>3, <1>4 DEF DelegationInv, Kept

-----------------------------------------------------------------------------
(* The shell session *)

\* A set of numbers that is not empty has a smallest.
LEMMA HasSmallest ==
    ASSUME NEW T, T \subseteq Nat, T # {}
    PROVE  \E i \in T : \A j \in T : i <= j
<1> DEFINE R == OpToRel(<, Nat)
<1>1. IsWellFoundedOn(R, Nat)
  BY NatLessThanWellFounded
<1>2. \A x, y \in Nat : <<y, x>> \in R <=> y < x
  BY DEF OpToRel
<1> HIDE DEF R
<1>3. PICK x \in T : \A y \in T : ~(<<y, x>> \in R)
  BY <1>1, WFMin
<1>4. ASSUME NEW y \in T PROVE x <= y
  <2>1. x \in Nat /\ y \in Nat
    OBVIOUS
  <2>2. ~(y < x)
    BY <1>2, <1>3, <2>1
  <2> QED BY <2>1, <2>2
<1> QED BY <1>4

\* And one that is bounded has a largest.
LEMMA HasLargest ==
    ASSUME NEW n \in Nat, NEW T, T \subseteq 0..n, T # {}
    PROVE  \E i \in T : \A j \in T : j <= i
<1> DEFINE U == {n - i : i \in T}
<1>1. U \subseteq Nat /\ U # {}
  <2>1. \A i \in T : n - i \in Nat
    OBVIOUS
  <2>2. PICK i \in T : TRUE
    OBVIOUS
  <2>3. n - i \in U
    BY <2>2
  <2> QED BY <2>1, <2>3
<1> HIDE DEF U
<1>2. PICK x \in U : \A y \in U : x <= y
  BY <1>1, HasSmallest
<1>3. PICK i \in T : x = n - i
  BY DEF U
<1>4. ASSUME NEW j \in T PROVE j <= i
  <2>1. n - j \in U
    BY DEF U
  <2> QED BY <1>2, <1>3, <2>1
<1> QED BY <1>4

\* What is left of the buffer behind a marker is part of the buffer.
LEMMA SplitKeeps ==
    ASSUME NEW i, buffer \in Seq(Commands)
    PROVE  /\ SplitBuffer(i) \in Seq(Commands)
           /\ \A S : (\A k \in DOMAIN buffer : buffer[k] \in S) =>
                     (\A k \in DOMAIN SplitBuffer(i) : SplitBuffer(i)[k] \in S)
<1> DEFINE n == Len(buffer)
           T == {1} \cup {k \in DOMAIN buffer : buffer[k] = i}
           last == Max(T)
<1>1. n \in Nat /\ DOMAIN buffer = 1..n
  OBVIOUS
<1>2. T \subseteq 0..(n + 1) /\ T # {} /\ n + 1 \in Nat
  BY <1>1
<1>3. SplitBuffer(i) = SubSeq(buffer, last + 1, n)
  BY DEF SplitBuffer
<1> HIDE DEF T
<1>4. \E x \in T : \A y \in T : y <= x
  BY <1>2, HasLargest
<1>5. last \in T
  <2>1. \E x \in T : \A y \in T : x >= y
    BY <1>2, <1>4
  <2> QED BY <2>1 DEF Max
<1>6. last \in 1..(n + 1)
  <2>1. T \subseteq 1..(n + 1)
    BY <1>1 DEF T
  <2> QED BY <1>5, <2>1
<1> HIDE DEF last, n
<1>7. ASSUME NEW S, \A k \in DOMAIN buffer : buffer[k] \in S
      PROVE  /\ SplitBuffer(i) \in Seq(S)
             /\ \A k \in DOMAIN SplitBuffer(i) : SplitBuffer(i)[k] \in S
  <2>1. last + 1 \in Int /\ n \in Int /\ (last + 1)..n \subseteq 1..n
    BY <1>1, <1>6
  <2>2. \A k \in (last + 1)..n : buffer[k] \in S
    BY <1>1, <1>7, <2>1
  <2>3. SubSeq(buffer, last + 1, n) \in Seq(S)
    BY <2>1, <2>2, SubSeqProperties
  <2> QED BY <1>3, <2>3
<1>8. \A k \in DOMAIN buffer : buffer[k] \in Commands
  OBVIOUS
<1> QED BY <1>7, <1>8

\* What the buffer may hold after a step.
LEMMA BufferStep ==
    ASSUME TerminalInv, [TerminalNext]_terminalVars
    PROVE  \/ buffer' = buffer \/ buffer' = <<>>
           \/ buffer' \in {SplitBuffer(mine), SplitBuffer(backgrounded)}
           \/ running # <<>> /\ running[1] # 0 /\ buffer' = Append(buffer, running[1])
              /\ over' = over \cup {running[1]}
BY DEF TerminalNext, CallStep, RunTakes, RunWrites, BgEarly, PollDone, PollExpires, SettleEnds, Read,
       ReadDrains, ReadAsked, Signal, Send, CloseSession, ShellReads, CommandEnds, ShellExits,
       PumpTrims, terminalVars, Unchanged

\* History only grows.
LEMMA OverGrows ==
    ASSUME TerminalInv, [TerminalNext]_terminalVars
    PROVE  over \subseteq over'
BY DEF TerminalNext, CallStep, RunTakes, RunWrites, BgEarly, PollDone, PollExpires, SettleEnds, Read,
       ReadDrains, ReadAsked, Signal, Send, CloseSession, ShellReads, CommandEnds, ShellExits,
       PumpTrims, terminalVars, Unchanged, shellVars

\* A marker in the buffer is that of a command that is over, and only such a
\* command is reported.
LEMMA TerminalKept ==
    ASSUME TerminalInv, [TerminalNext]_terminalVars
    PROVE  buffer' \in Seq(Commands) /\ MarkersAreOver' /\ ToldIsOver'
<1>0. buffer \in Seq(Commands) /\ running \in {<<>>} \cup {<<i>> : i \in {0} \cup Commands}
      /\ MarkersAreOver /\ ToldIsOver
  BY DEF TerminalInv, TerminalTypeOK
<1>1. over \subseteq over'
  BY OverGrows
<1>2. buffer' \in Seq(Commands) /\ MarkersAreOver'
  <2>1. CASE buffer' = buffer
    BY <1>0, <1>1, <2>1 DEF MarkersAreOver
  <2>2. CASE buffer' = <<>>
    <3>1. DOMAIN buffer' = {} /\ buffer' \in Seq(Commands)
      BY <2>2
    <3> QED BY <3>1 DEF MarkersAreOver
  <2>3. ASSUME NEW i, buffer' = SplitBuffer(i) PROVE buffer' \in Seq(Commands) /\ MarkersAreOver'
    BY <1>0, <1>1, <2>3, SplitKeeps DEF MarkersAreOver
  <2>4. CASE /\ running # <<>> /\ running[1] # 0 /\ buffer' = Append(buffer, running[1])
             /\ over' = over \cup {running[1]}
    <3>1. running[1] \in Commands /\ running[1] \in over'
      BY <1>0, <2>4
    <3>2. buffer' \in Seq(Commands) /\ Len(buffer') = Len(buffer) + 1
          /\ \A k \in 1..Len(buffer') : buffer'[k] = IF k <= Len(buffer) THEN buffer[k] ELSE running[1]
      BY <1>0, <2>4, <3>1
    <3>3. ASSUME NEW k \in DOMAIN buffer' PROVE buffer'[k] \in over'
      <4>1. k \in 1..Len(buffer')
        BY <3>2
      <4>2. CASE k <= Len(buffer)
        <5>1. k \in DOMAIN buffer /\ buffer'[k] = buffer[k]
          BY <1>0, <3>2, <4>1, <4>2
        <5> QED BY <1>0, <1>1, <5>1 DEF MarkersAreOver
      <4>3. CASE ~(k <= Len(buffer))
        BY <3>1, <3>2, <4>1, <4>3
      <4> QED BY <4>2, <4>3
    <3> QED BY <3>2, <3>3 DEF MarkersAreOver
  <2> QED BY <2>1, <2>2, <2>3, <2>4, BufferStep
<1>3. ToldIsOver'
  <2>1. told' = told \/ \E i : MarkerThere(i) /\ told' = told \cup {i}
    BY DEF TerminalNext, CallStep, RunTakes, RunWrites, BgEarly, PollDone, PollExpires, SettleEnds, Read,
           ReadDrains, ReadAsked, Signal, Send, CloseSession, ShellReads, CommandEnds, ShellExits,
           PumpTrims, terminalVars, callVars, Unchanged
  <2>2. \A i : MarkerThere(i) => i \in over
    BY <1>0 DEF MarkerThere, MarkersAreOver
  <2> QED BY <1>0, <1>1, <2>1, <2>2 DEF ToldIsOver
<1> QED BY <1>2, <1>3

\* The invariant of a shell session is kept by every step.
LEMMA TerminalStep == TerminalInv /\ [TerminalNext]_terminalVars => TerminalInv'
<1> SUFFICES ASSUME TerminalInv, [TerminalNext]_terminalVars PROVE TerminalInv'
  OBVIOUS
<1>0. TerminalTypeOK
  BY DEF TerminalInv
<1>1. {open', shell', killed', bg'} \subseteq BOOLEAN
  <2>1. open' \in {open, FALSE} /\ shell' \in {shell, FALSE}
    BY DEF TerminalNext, CallStep, RunTakes, RunWrites, BgEarly, PollDone, PollExpires, SettleEnds, Read,
           ReadDrains, ReadAsked, Signal, Send, CloseSession, ShellReads, CommandEnds, ShellExits,
           PumpTrims, terminalVars, shellVars, Unchanged
  <2>2. killed' = killed \/ killed' \in BOOLEAN
    BY DEF TerminalNext, CallStep, RunTakes, RunWrites, BgEarly, PollDone, PollExpires, SettleEnds, Read,
           ReadDrains, ReadAsked, Signal, Send, CloseSession, ShellReads, CommandEnds, ShellExits,
           PumpTrims, terminalVars, shellVars, Unchanged, SignalChildren
  <2>3. bg' = bg \/ bg' \in BOOLEAN
    BY DEF TerminalNext, CallStep, RunTakes, RunWrites, BgEarly, PollDone, PollExpires, SettleEnds, Read,
           ReadDrains, ReadAsked, Signal, Send, CloseSession, ShellReads, CommandEnds, ShellExits,
           PumpTrims, terminalVars, callVars, Unchanged
  <2>4. open \in BOOLEAN /\ shell \in BOOLEAN /\ killed \in BOOLEAN /\ bg \in BOOLEAN
    BY <1>0 DEF TerminalTypeOK
  <2>5. open' \in BOOLEAN /\ shell' \in BOOLEAN
    BY <2>1, <2>4, Zenon
  <2>6. killed' \in BOOLEAN /\ bg' \in BOOLEAN
    BY <2>2, <2>3, <2>4, Zenon
  <2> QED BY <2>5, <2>6, Zenon
<1>2. pipe' \in Seq({0} \cup Commands)
  <2>1. \/ pipe' \in {pipe, <<>>}
        \/ (pipe # <<>> /\ pipe' = Tail(pipe))
        \/ pipe' \in {Append(pipe, 0), Append(pipe, mine)}
    BY DEF TerminalNext, CallStep, RunTakes, RunWrites, BgEarly, PollDone, PollExpires, SettleEnds, Read,
           ReadDrains, ReadAsked, Signal, Send, CloseSession, ShellReads, CommandEnds, ShellExits,
           PumpTrims, terminalVars, shellVars, Unchanged
  <2>2. mine \in {0} \cup Commands /\ pipe \in Seq({0} \cup Commands)
    BY <1>0 DEF TerminalTypeOK
  <2>3. ASSUME pipe # <<>> PROVE Tail(pipe) \in Seq({0} \cup Commands)
    BY <2>2, <2>3
  <2>4. <<>> \in Seq({0} \cup Commands) /\ Append(pipe, 0) \in Seq({0} \cup Commands)
        /\ Append(pipe, mine) \in Seq({0} \cup Commands)
    BY <2>2
  <2> QED BY <2>1, <2>2, <2>3, <2>4
<1>3. running' \in {<<>>} \cup {<<i>> : i \in {0} \cup Commands}
  <2>1. running' \in {running, <<>>} \/ (pipe # <<>> /\ running' = <<Head(pipe)>>)
    BY DEF TerminalNext, CallStep, RunTakes, RunWrites, BgEarly, PollDone, PollExpires, SettleEnds, Read,
           ReadDrains, ReadAsked, Signal, Send, CloseSession, ShellReads, CommandEnds, ShellExits,
           PumpTrims, terminalVars, shellVars, Unchanged
  <2>2. pipe # <<>> => Head(pipe) \in {0} \cup Commands
    BY <1>0 DEF TerminalTypeOK
  <2> QED BY <1>0, <2>1, <2>2 DEF TerminalTypeOK
<1>4. {backgrounded', mine', counter'} \subseteq {0} \cup Commands
  <2>1. counter' = counter \/ (counter < MaxCommands /\ counter' = counter + 1)
    BY DEF TerminalNext, CallStep, RunTakes, RunWrites, BgEarly, PollDone, PollExpires, SettleEnds, Read,
           ReadDrains, ReadAsked, Signal, Send, CloseSession, ShellReads, CommandEnds, ShellExits,
           PumpTrims, terminalVars, callVars, Unchanged
  <2>2. mine' \in {mine, counter'} /\ backgrounded' \in {backgrounded, mine, 0}
    BY DEF TerminalNext, CallStep, RunTakes, RunWrites, BgEarly, PollDone, PollExpires, SettleEnds, Read,
           ReadDrains, ReadAsked, Signal, Send, CloseSession, ShellReads, CommandEnds, ShellExits,
           PumpTrims, terminalVars, callVars, Unchanged
  <2>3. MaxCommands \in Nat /\ counter \in 0..MaxCommands
    BY <1>0, TerminalAssumption DEF TerminalTypeOK, Commands
  <2>4. counter' \in {0} \cup Commands
    BY <2>1, <2>3 DEF Commands
  <2> QED BY <1>0, <2>2, <2>4 DEF TerminalTypeOK
<1>5. stage' \in {"free", "write", "early", "poll", "settle", "read", "drain"}
  <2>1. stage' \in {stage, "free", "write", "early", "poll", "settle", "read", "drain"}
    BY DEF TerminalNext, CallStep, RunTakes, RunWrites, BgEarly, PollDone, PollExpires, SettleEnds, Read,
           ReadDrains, ReadAsked, Signal, Send, CloseSession, ShellReads, CommandEnds, ShellExits,
           PumpTrims, terminalVars, callVars, Unchanged
  <2> QED BY <1>0, <2>1 DEF TerminalTypeOK
<1>6. backgrounded' # 0 => stage' \notin {"write", "poll", "settle"}
  <2>1. backgrounded # 0 => stage \notin {"write", "poll", "settle"}
    BY <1>0 DEF TerminalTypeOK
  <2> QED BY <2>1
       DEF TerminalNext, CallStep, RunTakes, NotBusy, RunWrites, BgEarly, PollDone, PollExpires,
           SettleEnds, Read, ReadDrains, ReadAsked, Signal, Send, CloseSession, ShellReads, CommandEnds,
           ShellExits, PumpTrims, terminalVars, callVars, Unchanged
<1>7. buffer' \in Seq(Commands) /\ MarkersAreOver' /\ ToldIsOver'
  BY TerminalKept
<1>8. Commands' = Commands
  BY DEF Commands
<1>9. TerminalTypeOK'
  BY <1>1, <1>2, <1>3, <1>4, <1>5, <1>6, <1>7, <1>8 DEF TerminalTypeOK
<1> QED BY <1>7, <1>9 DEF TerminalInv

-----------------------------------------------------------------------------
(* The three together *)

\* The services start with their invariants.
LEMMA LiveBegins == LiveInit => IpcTypeOK /\ DelegationInv /\ TerminalInv
<1> SUFFICES ASSUME LiveInit PROVE IpcTypeOK /\ DelegationInv /\ TerminalInv
  OBVIOUS
<1>1. IpcTypeOK
  <2>1. SlotsOK
    BY DEF LiveInit, IpcInit, SlotsOK
  <2>2. IdsOK
    <3>1. 0 \in 0..MaxCalls /\ 1 \in 1..(MaxCalls + 1)
      BY IpcAssumption
    <3> QED BY <3>1 DEF LiveInit, IpcInit, IdsOK
  <2>3. WireOK
    <3>1. wire = <<>> /\ wire \in Seq(0..MaxCalls) /\ Len(wire) = 0
      BY DEF LiveInit, IpcInit
    <3>2. Len(wire) <= IpcRoom
      BY <3>1, IpcAssumption
    <3> QED BY <3>1, <3>2 DEF LiveInit, IpcInit, WireOK
  <2> QED BY <2>1, <2>2, <2>3, IpcParts
<1>2. DelegationInv
  <2>1. LiveRows = {}
    BY DEF LiveInit, DelegationInit, LiveRows
  <2>2. Capped
    BY <2>1, FS_EmptySet, DelegationAssumption DEF Capped
  <2>3. KidTypes
    BY DEF LiveInit, DelegationInit, KidTypes, RowStates, KidStates
  <2>4. ParentTypes
    BY DEF LiveInit, DelegationInit, ParentTypes, Waits
  <2>5. Spawning /\ Cancelling /\ RowsOfTurns /\ RunningIsReal
    BY <2>1 DEF LiveInit, DelegationInit, Spawning, Cancelling, RowsOfTurns, RunningIsReal
  <2> QED BY <2>2, <2>3, <2>4, <2>5, DelegationParts DEF DelegationInv
<1>3. TerminalInv
  <2>1. buffer = <<>> /\ pipe = <<>> /\ <<>> \in Seq(Commands) /\ <<>> \in Seq({0} \cup Commands)
    BY DEF LiveInit, TerminalInit
  <2>2. TerminalTypeOK
    BY <2>1 DEF LiveInit, TerminalInit, TerminalTypeOK
  <2>3. DOMAIN buffer = {}
    BY <2>1
  <2> QED BY <2>2, <2>3 DEF LiveInit, TerminalInit, TerminalInv, MarkersAreOver, ToldIsOver
<1> QED BY <1>1, <1>2, <1>3

\* A step of the whole is a step of each service, or leaves it alone.
LEMMA LiveMoves ==
    ASSUME [LiveNext]_liveVars
    PROVE  [IpcNext]_ipcVars /\ [DelegationNext]_dgVars /\ [TerminalNext]_terminalVars
BY DEF LiveNext, liveVars

\* The slots of the socket, the children, and the shell keep their types: in
\* particular no call leaves its slot behind, and the cap on children holds.
LEMMA LiveInvariant == LiveSpec => [](IpcTypeOK /\ DelegationInv /\ TerminalInv)
<1>1. (IpcTypeOK /\ DelegationInv /\ TerminalInv) /\ [LiveNext]_liveVars
          => (IpcTypeOK /\ DelegationInv /\ TerminalInv)'
  BY LiveMoves, IpcStepTypes, DelegationStep, TerminalStep
<1> QED BY <1>1, LiveBegins, PTL DEF LiveSpec

\* Every variable of the three services has its type; no call leaves its slot in the
\* pending map (ipc.rs), no more children run than the cap allows (subagents.rs),
\* and a shell with a background command is given no other (terminal.rs).
THEOREM LiveTypes == LiveSpec => []LiveTypeOK
<1>1. IpcTypeOK /\ DelegationInv /\ TerminalInv => LiveTypeOK
  BY DEF DelegationInv, TerminalInv, LiveTypeOK
<1> QED BY <1>1, LiveInvariant, PTL

\* Every registry row that says "running" has a turn behind it that will settle it,
\* unless that turn died with its worker or the registry refused its end.
THEOREM RowsAreReal == LiveSpec => []RunningIsReal
<1>1. DelegationInv => RunningIsReal
  BY DEF DelegationInv
<1> QED BY <1>1, LiveInvariant, PTL

\* The verdict of a child's own turn is never overwritten, by a late cancel or by
\* the sweep of a gateway that restarts.
THEOREM VerdictsStay == LiveSpec => VerdictStands
<1>1. DelegationInv /\ [LiveNext]_liveVars =>
          [\A c \in Kids : row[c] \in {"done", "failed"} => row'[c] = row[c]]_dgVars
  BY LiveMoves, RowsStep
<1> QED BY <1>1, LiveInvariant, PTL DEF LiveSpec, VerdictStands

\* A call to a shell that reports a command finished speaks of a command that is:
\* no marker of an earlier command is taken for this one's.
THEOREM ReportsAreTrue == LiveSpec => []ToldIsOver
<1>1. TerminalInv => ToldIsOver
  BY DEF TerminalInv
<1> QED BY <1>1, LiveInvariant, PTL
=============================================================================
