-------------------------- MODULE WorkerFleetProofs --------------------------
(* Proofs about WorkerFleet, for any number of callers, stoppers, spawns and *)
(* stalled frames.                                                           *)
EXTENDS WorkerFleet, TLAPS

-----------------------------------------------------------------------------
(* Types *)

Slots == Workers \cup {NoWorker}
CallRecords == [at: {"idle", "lock", "hello", "wait"}, on: Slots]
StopRecords == [at: {"idle", "asked", "mark", "capture", "adopt", "compare", "tell"},
                asked: Slots, on: Slots]
Watching == {"none", "watch", "ended", "remove", "file", "fallback", "done"}

ProcessOK ==
    /\ proc \in [Workers -> {"none", "booting", "up", "exiting", "dead"}]
    /\ ready \subseteq Workers /\ settled \in BOOLEAN
RouterOK ==
    /\ closed \subseteq Workers /\ stopping \subseteq Workers
    /\ entry \in Slots /\ attempt \in 0..MaxWorkers /\ fast \in Nat
    /\ kernel \in {"trunk", "branch"} /\ spawnedOn \in {"trunk", "branch"}
    /\ lock \in Callers \cup {"free"}
TasksOK ==
    /\ call \in [Callers -> CallRecords]
    /\ sup \in [Workers -> Watching] /\ requested \subseteq Workers
    /\ stop \in [Stoppers -> StopRecords] /\ stalls \in Nat
FleetTypes == ProcessOK /\ RouterOK /\ TasksOK

-----------------------------------------------------------------------------
(* The invariant *)

\* Whoever is spawning holds the lock, and spawns only while nobody is live.
LockHeld == \A c \in Callers : call[c].at = "hello" => lock = c /\ ~Live

\* A worker with an open, watched connection is the one in the router.
OpenIsEntry == \A w \in Workers : sup[w] = "watch" /\ w \notin closed => entry = w

\* A supervisor that has seen the end has closed the peer.
EndedIsClosed ==
    \A w \in Workers : sup[w] \in {"ended", "remove", "file", "fallback", "done"} => w \in closed

\* A restart that remembers who asked aims at nobody else.
AimKept ==
    \A s \in Stoppers :
        stop[s].at \in {"adopt", "compare", "mark", "tell"} /\ stop[s].asked # NoWorker =>
            stop[s].on = stop[s].asked

RouterInv == LockHeld /\ OpenIsEntry /\ EndedIsClosed

-----------------------------------------------------------------------------
(* Types *)

\* A caller's new record is one.
LEMMA CallerType ==
    ASSUME FleetTypes, NEW c \in Callers, NEW at \in {"idle", "lock", "hello", "wait"},
           NEW w \in Slots, Caller(c, at, w)
    PROVE  call' \in [Callers -> CallRecords]
<1>1. [at |-> at, on |-> w] \in CallRecords
  BY DEF CallRecords
<1> QED BY <1>1 DEF Caller, FleetTypes, TasksOK

\* So is a stopper's.
LEMMA StopperType ==
    ASSUME FleetTypes, NEW s \in Stoppers,
           NEW at \in {"idle", "asked", "mark", "capture", "adopt", "compare", "tell"},
           NEW v \in Slots, NEW w \in Slots, Stopper(s, at, v, w)
    PROVE  stop' \in [Stoppers -> StopRecords]
<1>1. [at |-> at, asked |-> v, on |-> w] \in StopRecords
  BY DEF StopRecords
<1> QED BY <1>1 DEF Stopper, FleetTypes, TasksOK

\* A worker told to shut down exits or, if nobody is there to hear it, does nothing.
LEMMA ShutDownType ==
    ASSUME FleetTypes, NEW w, ShutDown(w)
    PROVE  proc' \in [Workers -> {"none", "booting", "up", "exiting", "dead"}]
BY DEF ShutDown, FleetTypes, ProcessOK

\* The types hold at the start.
LEMMA FleetTypesInit == FleetInit => FleetTypes
<1> SUFFICES ASSUME FleetInit PROVE FleetTypes
  OBVIOUS
<1> USE FleetAssumption DEF FleetInit
<1>1. ProcessOK
  BY DEF ProcessOK
<1>2. RouterOK
  BY DEF RouterOK, Slots
<1>3. TasksOK
  <2>1. [at |-> "idle", on |-> NoWorker] \in CallRecords
    BY DEF CallRecords, Slots
  <2>2. [at |-> "idle", asked |-> NoWorker, on |-> NoWorker] \in StopRecords
    BY DEF StopRecords, Slots
  <2> QED BY <2>1, <2>2 DEF TasksOK, Watching
<1> QED BY <1>1, <1>2, <1>3 DEF FleetTypes

\* Every step keeps the types.
LEMMA FleetTypesStep == FleetTypes /\ [FleetNext]_fleetVars => FleetTypes'
<1> SUFFICES ASSUME FleetTypes, [FleetNext]_fleetVars PROVE FleetTypes'
  OBVIOUS
<1> USE FleetAssumption
<1> USE DEF fleetProcess, fleetRouter
<1>0. /\ NoWorker \in Slots /\ entry \in Slots
      /\ \A s \in Stoppers : stop[s].asked \in Slots /\ stop[s].on \in Slots
      /\ \A c \in Callers : call[c].on \in Slots
  BY DEF FleetTypes, RouterOK, TasksOK, CallRecords, StopRecords, Slots
<1>1. ASSUME NEW c \in Callers, LookUp(c) \/ Serve(c) \/ DiedStarting(c) \/ ReadyTimeout(c)
      PROVE  FleetTypes'
  <2>1. call' \in [Callers -> CallRecords]
    BY <1>0, <1>1, CallerType DEF LookUp, Serve, DiedStarting, ReadyTimeout
  <2> QED BY <1>1, <2>1 DEF LookUp, Serve, DiedStarting, ReadyTimeout, FleetTypes, ProcessOK,
                            RouterOK, TasksOK
<1>2. ASSUME NEW c \in Callers, EnterMaterialize(c) PROVE FleetTypes'
  <2>1. attempt < MaxWorkers => attempt + 1 \in Workers /\ attempt + 1 \in 0..MaxWorkers
    BY DEF FleetTypes, RouterOK, Workers
  <2>2. call' \in [Callers -> CallRecords]
    <3>1. attempt < MaxWorkers => attempt + 1 \in Slots
      BY <2>1 DEF Slots
    <3> QED BY <1>0, <1>2, <3>1, CallerType DEF EnterMaterialize
  <2>3. ProcessOK'
    BY <1>2 DEF EnterMaterialize, FleetTypes, ProcessOK
  <2>4. RouterOK'
    BY <1>2, <2>1 DEF EnterMaterialize, FleetTypes, RouterOK
  <2> QED BY <1>2, <2>2, <2>3, <2>4 DEF EnterMaterialize, FleetTypes, TasksOK
<1>3. ASSUME NEW c \in Callers, HandshakeFails(c) PROVE FleetTypes'
  <2>1. call' \in [Callers -> CallRecords]
    BY <1>0, <1>3, CallerType DEF HandshakeFails
  <2> QED BY <1>3, <2>1 DEF HandshakeFails, FleetTypes, ProcessOK, RouterOK, TasksOK
<1>4. ASSUME NEW c \in Callers, Publish(c) PROVE FleetTypes'
  <2>1. call' \in [Callers -> CallRecords]
    BY <1>0, <1>4, CallerType DEF Publish
  <2> QED BY <1>0, <1>4, <2>1 DEF Publish, FleetTypes, ProcessOK, RouterOK, TasksOK, Watching
<1>5. ASSUME NEW w \in Workers, ReportReady(w) \/ ProcessDies(w) \/ FrameStalls(w) PROVE FleetTypes'
  BY <1>5 DEF ReportReady, ProcessDies, FrameStalls, FleetTypes, ProcessOK, RouterOK, TasksOK
<1>6. CASE Settles
  BY <1>6 DEF Settles, FleetTypes, ProcessOK, RouterOK, TasksOK
<1>7. ASSUME NEW w \in Workers, Notice(w) \/ ReadRequested(w) PROVE FleetTypes'
  BY <1>7 DEF Notice, ReadRequested, FleetTypes, ProcessOK, RouterOK, TasksOK, Watching
<1>8. ASSUME NEW w \in Workers, Remove(w) PROVE FleetTypes'
  BY <1>0, <1>8 DEF Remove, RemoveOwn, FleetTypes, ProcessOK, RouterOK, TasksOK, Watching
<1>9. ASSUME NEW w \in Workers, File(w) \/ FallBack(w) PROVE FleetTypes'
  BY <1>9 DEF File, FallBack, FleetTypes, ProcessOK, RouterOK, TasksOK, Watching
<1>10. ASSUME NEW s \in Stoppers, ReapAsk(s) PROVE FleetTypes'
  <2>1. entry \in Workers
    BY <1>10 DEF ReapAsk, FleetTypes, RouterOK, Slots
  <2>2. stop' \in [Stoppers -> StopRecords]
    BY <1>0, <1>10, StopperType DEF ReapAsk
  <2> QED BY <1>10, <2>1, <2>2 DEF ReapAsk, FleetTypes, ProcessOK, RouterOK, TasksOK
<1>11. ASSUME NEW s \in Stoppers, ReapBusy(s) \/ ReapTimeout(s) PROVE FleetTypes'
  <2>1. stop' \in [Stoppers -> StopRecords]
    BY <1>0, <1>11, StopperType DEF ReapBusy, ReapTimeout
  <2> QED BY <1>11, <2>1 DEF ReapBusy, ReapTimeout, FleetTypes, ProcessOK, RouterOK, TasksOK
<1>12. ASSUME NEW s \in Stoppers, ReapStop(s) \/ StopTell(s) PROVE FleetTypes'
  <2>1. stop' \in [Stoppers -> StopRecords]
    BY <1>0, <1>12, StopperType DEF ReapStop, StopTell
  <2>2. proc' \in [Workers -> {"none", "booting", "up", "exiting", "dead"}]
    BY <1>12, ShutDownType DEF ReapStop, StopTell
  <2> QED BY <1>12, <2>1, <2>2 DEF ReapStop, StopTell, FleetTypes, ProcessOK, RouterOK, TasksOK
<1>13. ASSUME NEW s \in Stoppers,
              StopLook(s) \/ (\E w \in Workers : RestartAsked(s, w)) \/ RestartCapture(s)
                 \/ RestartCompare(s)
       PROVE  FleetTypes'
  <2>1. stop' \in [Stoppers -> StopRecords]
    <3>1. CASE StopLook(s)
      BY <1>0, <3>1, StopperType DEF StopLook
    <3>2. ASSUME NEW w \in Workers, RestartAsked(s, w) PROVE stop' \in [Stoppers -> StopRecords]
      <4>1. w \in Slots
        BY DEF Slots
      <4> QED BY <1>0, <3>2, <4>1, StopperType DEF RestartAsked
    <3>3. CASE RestartCapture(s)
      BY <1>0, <3>3, StopperType DEF RestartCapture
    <3>4. CASE RestartCompare(s)
      BY <1>0, <3>4, StopperType DEF RestartCompare
    <3> QED BY <1>13, <3>1, <3>2, <3>3, <3>4
  <2> QED BY <1>13, <2>1 DEF StopLook, RestartAsked, RestartCapture, RestartCompare, FleetTypes,
                             ProcessOK, RouterOK, TasksOK
<1>14. ASSUME NEW s \in Stoppers, Adopt(s) PROVE FleetTypes'
  <2>1. stop' \in [Stoppers -> StopRecords]
    BY <1>0, <1>14, StopperType DEF Adopt
  <2> QED BY <1>14, <2>1 DEF Adopt, FleetTypes, ProcessOK, RouterOK, TasksOK
<1>15. ASSUME NEW s \in Stoppers, StopMark(s) PROVE FleetTypes'
  <2>1. Marked \subseteq Workers
    BY DEF Marked, FleetTypes, RouterOK, Slots
  <2>2. stop' \in [Stoppers -> StopRecords]
    BY <1>0, <1>15, StopperType DEF StopMark
  <2> QED BY <1>15, <2>1, <2>2 DEF StopMark, FleetTypes, ProcessOK, RouterOK, TasksOK
<1>16. CASE UNCHANGED fleetVars
  BY <1>16 DEF fleetVars, FleetTypes, ProcessOK, RouterOK, TasksOK
<1> QED
  BY <1>1, <1>2, <1>3, <1>4, <1>5, <1>6, <1>7, <1>8, <1>9, <1>10, <1>11, <1>12, <1>13, <1>14, <1>15,
     <1>16
     DEF FleetNext, Calling, Supervising, Process, Stopping, Reaping

-----------------------------------------------------------------------------
(* One open worker, and the entry that stays *)

\* A step that leaves the router's entry, the lock, the peers, the supervisors and
\* whoever is in a handshake alone.
LEMMA RouterFrame ==
    ASSUME RouterInv, UNCHANGED <<entry, closed, lock, sup>>,
           \A c \in Callers : call'[c].at = "hello" => call[c].at = "hello"
    PROVE  RouterInv'
BY DEF RouterInv, LockHeld, OpenIsEntry, EndedIsClosed, Live

\* No worker exists at the start.
LEMMA RouterInit == FleetInit => RouterInv /\ AimKept
BY DEF FleetInit, RouterInv, LockHeld, OpenIsEntry, EndedIsClosed, AimKept

\* Every step keeps the router's picture of the workers true.
LEMMA RouterStep == FleetTypes /\ RouterInv /\ [FleetNext]_fleetVars => RouterInv'
<1> SUFFICES ASSUME FleetTypes, RouterInv, [FleetNext]_fleetVars PROVE RouterInv'
  OBVIOUS
<1> USE DEF fleetProcess, fleetRouter
<1>0. /\ call \in [Callers -> CallRecords] /\ sup \in [Workers -> Watching]
      /\ "free" \notin Callers /\ NoWorker \notin Workers
  BY FleetAssumption DEF FleetTypes, TasksOK, Workers, NoWorker
<1>1. ASSUME NEW c \in Callers, LookUp(c) \/ Serve(c) \/ DiedStarting(c) \/ ReadyTimeout(c)
      PROVE  RouterInv'
  <2>1. \A d \in Callers : call'[d].at = "hello" => call[d].at = "hello"
    BY <1>0, <1>1 DEF LookUp, Serve, DiedStarting, ReadyTimeout, Caller
  <2> QED BY <1>1, <2>1, RouterFrame DEF LookUp, Serve, DiedStarting, ReadyTimeout
<1>2. ASSUME NEW c \in Callers, EnterMaterialize(c) PROVE RouterInv'
  <2>1. /\ UNCHANGED <<entry, closed, sup>> /\ lock = "free"
        /\ \A d \in Callers : d # c => call'[d] = call[d]
        /\ call'[c].at = "hello" => lock' = c /\ ~Live
    BY <1>0, <1>2 DEF EnterMaterialize, Caller, Spawned
  <2>2. \A d \in Callers : call[d].at # "hello"
    BY <1>0, <2>1 DEF RouterInv, LockHeld
  <2>3. LockHeld'
    BY <2>1, <2>2 DEF LockHeld, Live
  <2> QED BY <2>1, <2>3 DEF RouterInv, OpenIsEntry, EndedIsClosed
<1>3. ASSUME NEW c \in Callers, HandshakeFails(c) PROVE RouterInv'
  <2>1. /\ UNCHANGED <<entry, closed, sup>> /\ lock = c
        /\ \A d \in Callers : d # c => call'[d] = call[d]
        /\ call'[c].at = "idle"
    BY <1>0, <1>3 DEF HandshakeFails, Caller, RouterInv, LockHeld
  <2>2. LockHeld'
    BY <2>1 DEF RouterInv, LockHeld
  <2> QED BY <2>1, <2>2 DEF RouterInv, OpenIsEntry, EndedIsClosed
<1>4. ASSUME NEW c \in Callers, Publish(c) PROVE RouterInv'
  <2> DEFINE w == call[c].on
  <2>1. /\ lock = c /\ ~Live /\ entry' = w /\ UNCHANGED closed
        /\ \A d \in Callers : d # c => call'[d] = call[d]
        /\ call'[c].at = "wait"
        /\ sup' = [sup EXCEPT ![w] = "watch"]
    BY <1>0, <1>4 DEF Publish, Caller, RouterInv, LockHeld
  <2> HIDE DEF w
  <2>2. LockHeld'
    BY <2>1 DEF RouterInv, LockHeld
  <2>3. \A v \in Workers : v # w => sup'[v] = sup[v] /\ ~(sup[v] = "watch" /\ v \notin closed)
    BY <1>0, <2>1 DEF RouterInv, OpenIsEntry, Live
  <2>4. OpenIsEntry'
    BY <2>1, <2>3 DEF OpenIsEntry
  <2>5. \A v \in Workers : v = w => sup'[v] = "watch"
    BY <1>0, <2>1
  <2>6. EndedIsClosed'
    BY <2>1, <2>3, <2>5 DEF RouterInv, EndedIsClosed
  <2> QED BY <2>2, <2>4, <2>6 DEF RouterInv
<1>5. ASSUME NEW w \in Workers, ReportReady(w) \/ ProcessDies(w) PROVE RouterInv'
  BY <1>5, RouterFrame DEF ReportReady, ProcessDies
<1>6. ASSUME NEW w \in Workers, FrameStalls(w) PROVE RouterInv'
  BY <1>6 DEF FrameStalls, RouterInv, LockHeld, OpenIsEntry, EndedIsClosed, Live
<1>7. CASE Settles
  BY <1>7, RouterFrame DEF Settles
<1>8. ASSUME NEW w \in Workers, Notice(w) PROVE RouterInv'
  BY <1>0, <1>8 DEF Notice, RouterInv, LockHeld, OpenIsEntry, EndedIsClosed, Live
<1>9. ASSUME NEW w \in Workers, ReadRequested(w) \/ File(w) \/ FallBack(w) PROVE RouterInv'
  <2>1. /\ UNCHANGED <<entry, closed, lock, call>>
        /\ sup[w] \in {"ended", "file", "fallback"} /\ sup'[w] \in {"remove", "fallback", "done"}
        /\ \A v \in Workers : v # w => sup'[v] = sup[v]
    BY <1>0, <1>9 DEF ReadRequested, File, FallBack
  <2> QED BY <2>1 DEF RouterInv, LockHeld, OpenIsEntry, EndedIsClosed, Live
<1>10. ASSUME NEW w \in Workers, Remove(w) PROVE RouterInv'
  <2>1. /\ UNCHANGED <<closed, lock, call>> /\ entry' \in {entry, NoWorker}
        /\ entry # w => entry' = entry
        /\ sup[w] = "remove" /\ sup'[w] = "file"
        /\ \A v \in Workers : v # w => sup'[v] = sup[v]
    BY <1>0, <1>10 DEF Remove, RemoveOwn
  <2>2. LockHeld'
    BY <2>1 DEF RouterInv, LockHeld, Live
  <2>3. OpenIsEntry'
    BY <2>1 DEF RouterInv, OpenIsEntry
  <2> QED BY <2>1, <2>2, <2>3 DEF RouterInv, EndedIsClosed
<1>11. ASSUME NEW s \in Stoppers, Stopping(s) \/ Reaping(s) PROVE RouterInv'
  <2>1. UNCHANGED <<entry, closed, lock, sup, call>>
    BY <1>11 DEF Stopping, Reaping, StopLook, RestartCapture, Adopt, RestartCompare, StopMark,
                 StopTell, RestartAsked, ReapAsk, ReapBusy, ReapStop, ReapTimeout
  <2> QED BY <2>1, RouterFrame
<1>12. CASE UNCHANGED fleetVars
  BY <1>12, RouterFrame DEF fleetVars
<1> QED
  BY <1>1, <1>2, <1>3, <1>4, <1>5, <1>6, <1>7, <1>8, <1>9, <1>10, <1>11, <1>12
     DEF FleetNext, Calling, Supervising, Process

\* However many callers race to bring the worker up, however its predecessors die
\* and are filed, at most one worker has an open connection.
THEOREM AtMostOneOpen == FleetSpec => []OneOpenWorker
<1>1. RouterInv => OneOpenWorker
  BY DEF RouterInv, OpenIsEntry, OneOpenWorker
<1>2. FleetInit => FleetTypes /\ RouterInv
  BY FleetTypesInit, RouterInit
<1>3. FleetTypes /\ RouterInv /\ [FleetNext]_fleetVars => (FleetTypes /\ RouterInv)'
  BY FleetTypesStep, RouterStep
<1> QED BY <1>1, <1>2, <1>3, PTL DEF FleetSpec

\* An entry whose peer is open stays in the router: neither a spawn nor the
\* supervisor of a dead predecessor takes it away.
THEOREM OpenEntryStays == FleetSpec => LiveEntryStays
<1>1. FleetTypes /\ RouterInv /\ [FleetNext]_fleetVars => [Live => entry' = entry]_fleetVars
  <2> SUFFICES ASSUME FleetTypes, RouterInv, FleetNext, Live PROVE entry' = entry
    BY DEF fleetVars, fleetRouter
  <2> USE DEF fleetProcess, fleetRouter
  <2>1. ASSUME NEW c \in Callers, Calling(c) \/ ReadyTimeout(c) PROVE entry' = entry
    BY <2>1 DEF Calling, LookUp, EnterMaterialize, HandshakeFails, Publish, Serve, DiedStarting,
                ReadyTimeout, RouterInv, LockHeld
  <2>2. ASSUME NEW w \in Workers, Supervising(w) \/ Process(w) PROVE entry' = entry
    BY <2>2 DEF Supervising, Process, Notice, ReadRequested, Remove, RemoveOwn, File, FallBack,
                ReportReady, ProcessDies, FrameStalls, RouterInv, EndedIsClosed, Live
  <2>3. ASSUME NEW s \in Stoppers, Stopping(s) \/ Reaping(s) PROVE entry' = entry
    BY <2>3 DEF Stopping, Reaping, StopLook, RestartCapture, Adopt, RestartCompare, StopMark,
                StopTell, RestartAsked, ReapAsk, ReapBusy, ReapStop, ReapTimeout
  <2>4. CASE Settles
    BY <2>4 DEF Settles
  <2> QED BY <2>1, <2>2, <2>3, <2>4 DEF FleetNext
<1>2. FleetInit => FleetTypes /\ RouterInv
  BY FleetTypesInit, RouterInit
<1>3. FleetTypes /\ RouterInv /\ [FleetNext]_fleetVars => (FleetTypes /\ RouterInv)'
  BY FleetTypesStep, RouterStep
<1> QED BY <1>1, <1>2, <1>3, PTL DEF FleetSpec, LiveEntryStays

-----------------------------------------------------------------------------
(* Restarts *)

\* Every step keeps the aim of a restart on the worker that asked for it.
LEMMA AimStep == FleetTypes /\ AimKept /\ [FleetNext]_fleetVars => AimKept'
<1> SUFFICES ASSUME FleetTypes, AimKept, [FleetNext]_fleetVars PROVE AimKept'
  OBVIOUS
<1> USE DEF fleetProcess, fleetRouter
<1>0. stop \in [Stoppers -> StopRecords]
  BY DEF FleetTypes, TasksOK
<1>1. ASSUME UNCHANGED stop PROVE AimKept'
  BY <1>1 DEF AimKept
<1>2. ASSUME NEW s \in Stoppers, NEW at, NEW v, NEW w, Stopper(s, at, v, w),
             at \in {"adopt", "compare", "mark", "tell"} /\ v # NoWorker => w = v
      PROVE  AimKept'
  <2>1. /\ stop'[s] = [at |-> at, asked |-> v, on |-> w]
        /\ \A r \in Stoppers : r # s => stop'[r] = stop[r]
    BY <1>0, <1>2 DEF Stopper
  <2> QED BY <1>2, <2>1 DEF AimKept
<1>3. ASSUME NEW c \in Callers, Calling(c) \/ ReadyTimeout(c) PROVE AimKept'
  BY <1>1, <1>3 DEF Calling, LookUp, EnterMaterialize, HandshakeFails, Publish, Serve,
                    DiedStarting, ReadyTimeout
<1>4. ASSUME NEW w \in Workers, Supervising(w) \/ Process(w) PROVE AimKept'
  BY <1>1, <1>4 DEF Supervising, Process, Notice, ReadRequested, Remove, File, FallBack,
                    ReportReady, ProcessDies, FrameStalls
<1>5. ASSUME NEW s \in Stoppers, Reaping(s) PROVE AimKept'
  BY <1>2, <1>5 DEF Reaping, ReapAsk, ReapBusy, ReapStop, ReapTimeout
<1>6. ASSUME NEW s \in Stoppers, Stopping(s) PROVE AimKept'
  <2>1. CASE StopLook(s) \/ \E w \in Workers : RestartAsked(s, w)
    BY <1>2, <2>1 DEF StopLook, RestartAsked
  <2>2. CASE RestartCapture(s)
    BY <1>2, <2>2 DEF RestartCapture
  <2>3. CASE Adopt(s)
    BY <1>2, <2>3 DEF Adopt, AimKept
  <2>4. CASE RestartCompare(s)
    BY <1>2, <2>4 DEF RestartCompare, StillThere, AimKept
  <2>5. CASE StopMark(s)
    BY <1>2, <2>5 DEF StopMark, AimKept
  <2>6. CASE StopTell(s)
    BY <1>2, <2>6 DEF StopTell
  <2> QED BY <1>6, <2>1, <2>2, <2>3, <2>4, <2>5, <2>6 DEF Stopping
<1>7. CASE Settles \/ UNCHANGED fleetVars
  BY <1>1, <1>7 DEF Settles, fleetVars
<1> QED BY <1>3, <1>4, <1>5, <1>6, <1>7 DEF FleetNext

\* A restart whose adoption took minutes never shuts down the replacement of the
\* worker that asked for it.
THEOREM RestartHitsTheAsker == FleetSpec => []RestartSparesReplacement
<1>1. AimKept => RestartSparesReplacement
  BY DEF AimKept, RestartSparesReplacement
<1>2. FleetInit => FleetTypes /\ AimKept
  BY FleetTypesInit, RouterInit
<1>3. FleetTypes /\ AimKept /\ [FleetNext]_fleetVars => (FleetTypes /\ AimKept)'
  BY FleetTypesStep, AimStep
<1> QED BY <1>1, <1>2, <1>3, PTL DEF FleetSpec
=============================================================================
