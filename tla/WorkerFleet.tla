----------------------------- MODULE WorkerFleet -----------------------------
(***************************************************************************)
(* The life of one conversation's workers as the gateway sees it           *)
(* (crates/thetis/src/workers.rs): callers that need the worker, the lock  *)
(* under which one is materialised, the router entry, the supervisor that  *)
(* files a death, the reaper, and whoever stops or restarts a worker.      *)
(*                                                                         *)
(* Every await of these tasks is a step. A worker is the number of its     *)
(* attempt; the router's map has one key, because no step reads another    *)
(* conversation's entry.                                                   *)
(*                                                                         *)
(* Simplifications:                                                        *)
(*  - what a call does in the worker, and the interrupted turn a death     *)
(*    leaves, are modules SessionActor's and TurnRecovery's;               *)
(*  - any worker may have been quiet for IDLE_TIMEOUT, and may be busy     *)
(*    when it is asked.                                                    *)
(***************************************************************************)
EXTENDS Naturals, FiniteSets

CONSTANTS Callers,      \* tasks that call into the conversation
          Stoppers,     \* tasks that reap, stop or restart its worker
          MaxWorkers,   \* bound: attempts to spawn a worker
          MaxStalls     \* bound: frames that stall on the way to a worker

ASSUME FleetAssumption ==
    MaxWorkers \in Nat /\ MaxStalls \in Nat /\ "free" \notin Callers

Workers == 1..MaxWorkers
NoWorker == 0

VARIABLES
    proc,       \* per worker: its process
    closed,     \* peers that admit no call
    ready,      \* workers whose ready note has arrived
    stopping,   \* entries marked as being stopped
    entry,      \* the worker in the router, or NoWorker
    attempt,    \* number of workers spawned
    settled,    \* MIN_UPTIME has passed since last_start
    fast,       \* fast_deaths
    kernel,     \* "trunk" or "branch": what the next spawn runs
    spawnedOn,  \* what the last one was spawned on
    lock,       \* who materialises, or "free"
    call,       \* per caller: [at, on]
    sup,        \* per worker: where its supervisor is
    requested,  \* workers whose supervisor took the death for a stop
    stop,       \* per stopper: [at, asked, on]
    stalls      \* stalled frames so far

fleetProcess == <<proc, ready, settled>>
fleetRouter == <<closed, stopping, entry, attempt, fast, kernel, spawnedOn, lock>>
fleetVars == <<fleetProcess, fleetRouter, call, sup, requested, stop, stalls>>

Alive(w) == proc[w] \in {"booting", "up", "exiting"}
Live == entry # NoWorker /\ entry \notin closed

Caller(c, at, w) == call' = [call EXCEPT ![c] = [at |-> at, on |-> w]]
Stopper(s, at, asked, w) == stop' = [stop EXCEPT ![s] = [at |-> at, asked |-> asked, on |-> w]]

-----------------------------------------------------------------------------
(* call_session and ensure_worker *)

\* The fast path: a worker whose peer is open is waited for.
LookUp(c) ==
    /\ call[c].at = "idle"
    /\ IF Live THEN Caller(c, "wait", entry) ELSE Caller(c, "lock", NoWorker)
    /\ UNCHANGED <<fleetProcess, fleetRouter, sup, requested, stop, stalls>>

\* Mutant: whoever gets the lock spawns.
SpawnsAnyway == FALSE
\* The re-check under the guard: whoever held it may have just spawned it.
Spawned == Live

\* The lock is taken, the router asked again, the crash loop refused (once).
EnterMaterialize(c) ==
    /\ call[c].at = "lock" /\ lock = "free"
    /\ \/ /\ Spawned
          /\ Caller(c, "wait", entry)
          /\ UNCHANGED <<fast, attempt, lock, proc, spawnedOn, settled>>
       \/ /\ ~Spawned /\ fast >= 2
          /\ fast' = 0
          /\ Caller(c, "idle", NoWorker)
          /\ UNCHANGED <<attempt, lock, proc, spawnedOn, settled>>
       \/ /\ ~Spawned /\ fast < 2 /\ attempt < MaxWorkers
          /\ attempt' = attempt + 1
          /\ lock' = c
          /\ proc' = [proc EXCEPT ![attempt + 1] = "booting"]
          /\ spawnedOn' = kernel /\ settled' = FALSE
          /\ Caller(c, "hello", attempt + 1)
          /\ UNCHANGED fast
    /\ UNCHANGED <<ready, closed, stopping, entry, kernel, sup, requested, stop,
                   stalls>>

\* The branch cannot be set up, or the handshake fails: the child is killed, and
\* a branch kernel that does not speak the protocol is set aside.
HandshakeFails(c) ==
    LET w == call[c].on IN
    /\ call[c].at = "hello"
    /\ proc' = [proc EXCEPT ![w] = "dead"]
    /\ kernel' \in IF spawnedOn = "branch" THEN {kernel, "trunk"} ELSE {kernel}
    /\ lock' = "free"
    /\ Caller(c, "idle", NoWorker)
    /\ UNCHANGED <<ready, settled, closed, stopping, entry, attempt, fast, spawnedOn, sup, requested,
                   stop, stalls>>

\* The entry is published and its supervisor started.
Publish(c) ==
    LET w == call[c].on IN
    /\ call[c].at = "hello"
    /\ entry' = w
    /\ sup' = [sup EXCEPT ![w] = "watch"]
    /\ lock' = "free"
    /\ Caller(c, "wait", w)
    /\ UNCHANGED <<fleetProcess, closed, stopping, attempt, fast, kernel, spawnedOn, requested, stop,
                   stalls>>

\* wait_ready, then the call itself (module Ipc).
Serve(c) ==
    /\ call[c].at = "wait" /\ call[c].on \in ready
    /\ Caller(c, "idle", NoWorker)
    /\ UNCHANGED <<fleetProcess, fleetRouter, sup, requested, stop, stalls>>

\* The ready channel closes with the connection.
DiedStarting(c) ==
    /\ call[c].at = "wait" /\ sup[call[c].on] # "watch" /\ call[c].on \notin ready
    /\ Caller(c, "idle", NoWorker)
    /\ UNCHANGED <<fleetProcess, fleetRouter, sup, requested, stop, stalls>>

ReadyTimeout(c) ==
    /\ call[c].at = "wait" /\ call[c].on \notin ready
    /\ Caller(c, "idle", NoWorker)
    /\ UNCHANGED <<fleetProcess, fleetRouter, sup, requested, stop, stalls>>

-----------------------------------------------------------------------------
(* The worker's process *)

\* The ready note.
ReportReady(w) ==
    /\ proc[w] = "booting" /\ sup[w] = "watch"
    /\ proc' = [proc EXCEPT ![w] = "up"]
    /\ ready' = ready \cup {w}
    /\ UNCHANGED <<settled, fleetRouter, call, sup, requested, stop, stalls>>

\* A crash, or the exit a tenth of a second after agreeing to shut down.
ProcessDies(w) ==
    /\ Alive(w)
    /\ proc' = [proc EXCEPT ![w] = "dead"]
    /\ UNCHANGED <<ready, settled, fleetRouter, call, sup, requested, stop, stalls>>

\* MIN_UPTIME passes since the last start.
Settles ==
    /\ attempt > 0 /\ ~settled
    /\ settled' = TRUE
    /\ UNCHANGED <<proc, ready, fleetRouter, call, sup, requested, stop, stalls>>

\* A worker stops reading and a frame stalls for SEND_TIMEOUT: force_close.
FrameStalls(w) ==
    /\ Alive(w) /\ sup[w] = "watch" /\ w \notin closed /\ stalls < MaxStalls
    /\ stalls' = stalls + 1
    /\ closed' = closed \cup {w}
    /\ UNCHANGED <<fleetProcess, stopping, entry, attempt, fast, kernel, spawnedOn, lock, call, sup, requested,
                   stop>>

\* The "shutdown" request reaches the worker, which agrees and exits soon.
ShutDown(w) ==
    IF Alive(w) /\ w \notin closed
    THEN proc' = [proc EXCEPT ![w] = "exiting"]
    ELSE UNCHANGED proc

-----------------------------------------------------------------------------
(* supervise *)

\* The socket closes or the process exits; either way the peer is closed.
Notice(w) ==
    /\ sup[w] = "watch" /\ proc[w] = "dead"
    /\ closed' = closed \cup {w}
    /\ sup' = [sup EXCEPT ![w] = "ended"]
    /\ UNCHANGED <<fleetProcess, stopping, entry, attempt, fast, kernel, spawnedOn, lock, call, requested,
                   stop, stalls>>

\* The stopping flag is that of the entry in the router, whosever it is.
MarkedStopping == {w \in Workers : entry # NoWorker /\ entry \in stopping}

ReadRequested(w) ==
    /\ sup[w] = "ended"
    /\ requested' = IF w \in MarkedStopping THEN requested \cup {w} ELSE requested
    /\ sup' = [sup EXCEPT ![w] = "remove"]
    /\ UNCHANGED <<fleetProcess, fleetRouter, call, stop, stalls>>

\* Mutant: whatever is in the router goes.
RemoveAny(w) == entry' = NoWorker
\* Only the entry it owns: a respawn may have replaced it.
RemoveOwn(w) == entry' = IF entry = w THEN NoWorker ELSE entry

Remove(w) ==
    /\ sup[w] = "remove"
    /\ RemoveOwn(w)
    /\ sup' = [sup EXCEPT ![w] = "file"]
    /\ UNCHANGED <<fleetProcess, closed, stopping, attempt, fast, kernel, spawnedOn, lock, call, requested,
                   stop, stalls>>

\* The death ledger: a requested stop clears it, as does a worker that lived;
\* how long it lived is measured from the last start of the conversation.
File(w) ==
    LET crash == w \notin requested /\ ~settled IN
    /\ sup[w] = "file"
    /\ fast' = IF crash THEN fast + 1 ELSE 0
    /\ sup' = [sup EXCEPT ![w] = IF crash /\ fast + 1 >= 2 THEN "fallback" ELSE "done"]
    /\ requested' = requested \ {w} /\ stopping' = stopping \ {w}
    /\ UNCHANGED <<fleetProcess, closed, entry, attempt, kernel, spawnedOn, lock, call, stop,
                   stalls>>

\* A branch kernel that keeps dying is abandoned, and the count with it.
FallBack(w) ==
    /\ sup[w] = "fallback"
    /\ kernel' = "trunk"
    /\ fast' = IF kernel = "branch" THEN 0 ELSE fast
    /\ sup' = [sup EXCEPT ![w] = "done"]
    /\ UNCHANGED <<fleetProcess, closed, stopping, entry, attempt, spawnedOn, lock, call, requested, stop,
                   stalls>>

-----------------------------------------------------------------------------
(* The reaper *)

\* Ask, don't kill: the entry is marked before the worker is asked.
ReapAsk(s) ==
    /\ stop[s].at = "idle" /\ entry # NoWorker
    /\ stopping' = stopping \cup {entry}
    /\ Stopper(s, "asked", NoWorker, entry)
    /\ UNCHANGED <<fleetProcess, closed, entry, attempt, fast, kernel, spawnedOn, lock, call, sup,
                   requested, stalls>>

\* A worker in the middle of a turn or a build declines, and is unmarked.
ReapBusy(s) ==
    LET w == stop[s].on IN
    /\ stop[s].at = "asked" /\ proc[w] = "up" /\ w \notin closed
    /\ stopping' = stopping \ {w}
    /\ Stopper(s, "idle", NoWorker, NoWorker)
    /\ UNCHANGED <<fleetProcess, closed, entry, attempt, fast, kernel, spawnedOn, lock, call, sup,
                   requested, stalls>>

ReapStop(s) ==
    /\ stop[s].at = "asked"
    /\ ShutDown(stop[s].on)
    /\ Stopper(s, "idle", NoWorker, NoWorker)
    /\ UNCHANGED <<ready, settled, fleetRouter, call, sup, requested, stalls>>

\* The question times out: the mark stays.
ReapTimeout(s) ==
    /\ stop[s].at = "asked"
    /\ Stopper(s, "idle", NoWorker, NoWorker)
    /\ UNCHANGED <<fleetProcess, fleetRouter, call, sup, requested, stalls>>

-----------------------------------------------------------------------------
(* stop-worker, archive, stop_all and restart_worker *)

\* live_peer: the worker to stop is looked up first.
StopLook(s) ==
    /\ stop[s].at = "idle" /\ Live
    /\ Stopper(s, "mark", NoWorker, entry)
    /\ UNCHANGED <<fleetProcess, fleetRouter, call, sup, requested, stalls>>

\* A worker asks for its restart; the note's task looks up who is live.
RestartAsked(s, w) ==
    /\ stop[s].at = "idle" /\ proc[w] = "up"
    /\ Stopper(s, "capture", w, NoWorker)
    /\ UNCHANGED <<fleetProcess, fleetRouter, call, sup, requested, stalls>>

\* `asked` keeps the worker that asked only if it is the one captured.
RestartCapture(s) ==
    LET captured == IF Live THEN entry ELSE NoWorker IN
    /\ stop[s].at = "capture"
    /\ Stopper(s, "adopt", IF captured = stop[s].asked THEN captured ELSE NoWorker, captured)
    /\ UNCHANGED <<fleetProcess, fleetRouter, call, sup, requested, stalls>>

\* adopt_branch_kernel: minutes, and then the branch points at its own kernel.
Adopt(s) ==
    /\ stop[s].at = "adopt"
    /\ kernel' \in {kernel, "branch"}
    /\ Stopper(s, "compare", stop[s].asked, stop[s].on)
    /\ UNCHANGED <<fleetProcess, closed, stopping, entry, attempt, fast, spawnedOn, lock, call, sup,
                   requested, stalls>>

\* Mutant: whoever is live now is shut down.
AnyoneLive(captured) == Live
\* The worker captured, or whoever is live when none was.
StillThere(captured) == Live /\ captured \in {entry, NoWorker}

RestartCompare(s) ==
    /\ stop[s].at = "compare"
    /\ IF StillThere(stop[s].on)
       THEN Stopper(s, "mark", stop[s].asked, entry)
       ELSE Stopper(s, "idle", NoWorker, NoWorker)
    /\ UNCHANGED <<fleetProcess, fleetRouter, call, sup, requested, stalls>>

\* mark_stopping marks the entry in the router now, if there is one.
Marked == {entry} \ {NoWorker}

StopMark(s) ==
    /\ stop[s].at = "mark"
    /\ stopping' = stopping \cup Marked
    /\ Stopper(s, "tell", stop[s].asked, stop[s].on)
    /\ UNCHANGED <<fleetProcess, closed, entry, attempt, fast, kernel, spawnedOn, lock, call, sup, requested,
                   stalls>>

StopTell(s) ==
    /\ stop[s].at = "tell"
    /\ ShutDown(stop[s].on)
    /\ Stopper(s, "idle", NoWorker, NoWorker)
    /\ UNCHANGED <<ready, settled, fleetRouter, call, sup, requested, stalls>>

-----------------------------------------------------------------------------

FleetInit ==
    /\ proc = [w \in Workers |-> "none"] /\ settled = FALSE /\ spawnedOn = "trunk"
    /\ closed = {} /\ ready = {} /\ stopping = {}
    /\ entry = NoWorker /\ attempt = 0 /\ fast = 0 /\ kernel \in {"trunk", "branch"}
    /\ lock = "free"
    /\ call = [c \in Callers |-> [at |-> "idle", on |-> NoWorker]]
    /\ sup = [w \in Workers |-> "none"] /\ requested = {}
    /\ stop = [s \in Stoppers |-> [at |-> "idle", asked |-> NoWorker, on |-> NoWorker]]
    /\ stalls = 0

Calling(c) ==
    LookUp(c) \/ EnterMaterialize(c) \/ HandshakeFails(c) \/ Publish(c) \/ Serve(c) \/ DiedStarting(c)
Supervising(w) == Notice(w) \/ ReadRequested(w) \/ Remove(w) \/ File(w) \/ FallBack(w)
Process(w) == ReportReady(w) \/ ProcessDies(w) \/ FrameStalls(w)
Stopping(s) ==
    \/ StopLook(s) \/ RestartCapture(s) \/ Adopt(s) \/ RestartCompare(s) \/ StopMark(s) \/ StopTell(s)
    \/ \E w \in Workers : RestartAsked(s, w)
Reaping(s) == ReapAsk(s) \/ ReapBusy(s) \/ ReapStop(s) \/ ReapTimeout(s)

FleetNext ==
    \/ \E c \in Callers : Calling(c) \/ ReadyTimeout(c)
    \/ \E w \in Workers : Supervising(w) \/ Process(w)
    \/ \E s \in Stoppers : Stopping(s) \/ Reaping(s)
    \/ Settles

FleetSpec == FleetInit /\ [][FleetNext]_fleetVars

-----------------------------------------------------------------------------
(* Properties *)

\* However many callers race, at most one worker of the conversation has an open
\* connection (materializing_aspect, and the re-check under it).
OneOpenWorker ==
    \A v, w \in Workers :
        sup[v] = "watch" /\ sup[w] = "watch" /\ {v, w} \cap closed = {} => v = w

\* An entry whose peer is open is never lost: the supervisor of a worker that
\* was replaced leaves its replacement in the router.
LiveEntryStays == [][Live => entry' = entry]_fleetVars

\* A restart whose adoption took long does not shut down the replacement of the
\* worker that asked for it, if that worker was the one captured.
RestartSparesReplacement ==
    \A s \in Stoppers :
        stop[s].at \in {"mark", "tell"} /\ stop[s].asked # NoWorker => stop[s].on = stop[s].asked
=============================================================================
