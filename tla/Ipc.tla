--------------------------------- MODULE Ipc ---------------------------------
(***************************************************************************)
(* One end of a gateway-worker connection (crates/thetis/src/ipc.rs):      *)
(* Peer::call_within of several tasks over one writer lock, the read loop  *)
(* that hands answers to the callers registered in `pending`, and the      *)
(* three ways a connection ends (EOF, the supervisor's force_close, a      *)
(* frame that stalls).                                                     *)
(*                                                                         *)
(* Every lock, atomic access and await is a step. The far end reads        *)
(* frames when it likes, answers them in any order, or dies; the socket    *)
(* buffer holds IpcRoom frames. A frame is the id of its request.          *)
(***************************************************************************)
EXTENDS Naturals, Sequences, FiniteSets

CONSTANTS IpcCallers,   \* tasks that call
          IpcRoom,      \* frames the socket buffer holds
          MaxCalls      \* bound: requests

ASSUME IpcAssumption == IpcRoom \in Nat /\ MaxCalls \in Nat

Garbled == 0              \* a line that is two halves of frames
NoAnswer == 0             \* the oneshot is empty
HungUp == MaxCalls + 1    \* its sender was dropped

VARIABLES
    at,         \* per caller: its place in call_within
    callId,     \* per caller: the id it drew
    answer,     \* per caller: what its oneshot holds
    pending,    \* ids registered
    nextId,
    shut,       \* Peer.closed
    clearing,   \* who has set closed and not yet cleared `pending`
    writer,     \* who holds the writer lock
    wire,       \* frames in the socket buffer
    torn,       \* the buffer ends in half a frame
    far,        \* the other process, "up" or "dead"
    handling,   \* requests its handlers work on
    replies     \* answers on their way back

ipcCall == <<at, callId, answer>>
ipcPeer == <<pending, nextId, shut, clearing, writer>>
ipcWire == <<wire, torn>>
ipcFar  == <<far, handling, replies>>
ipcVars == <<ipcCall, ipcPeer, ipcWire, ipcFar>>

Goto(c, place) == at' = [at EXCEPT ![c] = place]
InFlight == {"register", "recheck", "queue", "write", "closing", "wait"}

\* However a call ends, its slot leaves the map (PendingSlot::drop).
Unregister(c) == pending' = pending \ {callId[c]}
\* Mutant: only an answer removes the slot.
KeepSlot(c) == UNCHANGED pending
DropSlot(c) == Unregister(c)

Ends(c) ==
    /\ Goto(c, "idle")
    /\ DropSlot(c)
    /\ UNCHANGED <<callId, answer>>

-----------------------------------------------------------------------------
(* call_within *)

\* closed is checked, then an id drawn; a call on a closed peer fails at once.
Begin(c) ==
    /\ at[c] = "idle" /\ nextId <= MaxCalls /\ ~shut
    /\ nextId' = nextId + 1
    /\ Goto(c, "register")
    /\ callId' = [callId EXCEPT ![c] = nextId]
    /\ answer' = [answer EXCEPT ![c] = NoAnswer]
    /\ UNCHANGED <<pending, shut, clearing, writer, ipcWire, ipcFar>>

Register(c) ==
    /\ at[c] = "register"
    /\ pending' = pending \cup {callId[c]}
    /\ Goto(c, "recheck")
    /\ UNCHANGED <<callId, answer, nextId, shut, clearing, writer, ipcWire, ipcFar>>

\* Mutant: the check is not repeated.
CheckedOnce == FALSE
\* The peer may have died since the check, and the map been drained.
GoneMeanwhile == shut

Recheck(c) ==
    /\ at[c] = "recheck"
    /\ IF GoneMeanwhile THEN Ends(c)
                        ELSE Goto(c, "queue") /\ UNCHANGED <<callId, answer, pending>>
    /\ UNCHANGED <<nextId, shut, clearing, writer, ipcWire, ipcFar>>

\* send_line: the writer lock, then the frame.
TakeWriter(c) ==
    /\ at[c] = "queue" /\ writer = "free"
    /\ writer' = c
    /\ Goto(c, "write")
    /\ UNCHANGED <<callId, answer, pending, nextId, shut, clearing, ipcWire, ipcFar>>

\* A frame written after half of another makes one unreadable line.
Written(id) ==
    IF torn THEN SubSeq(wire, 1, Len(wire) - 1) \o <<Garbled>> ELSE Append(wire, id)

\* A write that parked with half of its frame in the buffer.
PartlyOut ==
    /\ ~torn /\ Len(wire) < IpcRoom
    /\ wire' = Append(wire, Garbled) /\ torn' = TRUE

WriteFrame(c) ==
    /\ at[c] = "write" /\ far # "dead" /\ (torn \/ Len(wire) < IpcRoom)
    /\ wire' = Written(callId[c])
    /\ torn' = FALSE
    /\ writer' = "free"
    /\ Goto(c, "wait")
    /\ UNCHANGED <<callId, answer, pending, nextId, shut, clearing, ipcFar>>

\* The far end is gone: the write fails.
WriteFails(c) ==
    /\ at[c] = "write" /\ far = "dead"
    /\ writer' = "free"
    /\ Ends(c)
    /\ UNCHANGED <<nextId, shut, clearing, ipcWire, ipcFar>>

\* SEND_TIMEOUT: the connection is treated as lost (force_close, with the lock held).
WriteStalls(c) ==
    /\ at[c] = "write" /\ far # "dead"
    /\ \/ Len(wire) = IpcRoom /\ UNCHANGED <<wire, torn>>
       \/ PartlyOut
    /\ shut' = TRUE /\ clearing' = clearing \cup {c}
    /\ Goto(c, "closing")
    /\ UNCHANGED <<callId, answer, pending, nextId, writer, ipcFar>>

Stalled(c) ==
    /\ at[c] = "closing" /\ c \notin clearing
    /\ writer' = "free"
    /\ Ends(c)
    /\ UNCHANGED <<nextId, shut, clearing, ipcWire, ipcFar>>

\* The oneshot resolves: an answer, or the connection's end.
Answered(c) ==
    /\ at[c] = "wait" /\ answer[c] # NoAnswer
    /\ Ends(c)
    /\ UNCHANGED <<nextId, shut, clearing, writer, ipcWire, ipcFar>>

\* CALL_TIMEOUT.
CallTimeout(c) ==
    /\ at[c] = "wait" /\ answer[c] = NoAnswer
    /\ Ends(c)
    /\ UNCHANGED <<nextId, shut, clearing, writer, ipcWire, ipcFar>>

\* The caller drops its future at an await, perhaps of a write that parked.
Cancel(c) ==
    /\ at[c] \in {"queue", "write", "wait"}
    /\ Ends(c)
    /\ writer' = IF at[c] = "write" THEN "free" ELSE writer
    /\ \/ UNCHANGED ipcWire
       \/ at[c] = "write" /\ far # "dead" /\ PartlyOut
    /\ UNCHANGED <<nextId, shut, clearing, ipcFar>>

-----------------------------------------------------------------------------
(* The read loop and the end of the connection *)

\* An answer goes to whoever is registered under its id.
Deliver(id) ==
    /\ id \in replies /\ ~(shut /\ far = "dead")
    /\ replies' = replies \ {id}
    /\ pending' = pending \ {id}
    /\ answer' = [c \in IpcCallers |->
                    IF id \in pending /\ callId[c] = id /\ at[c] \in InFlight /\ answer[c] = NoAnswer
                    THEN id ELSE answer[c]]
    /\ UNCHANGED <<at, callId, nextId, shut, clearing, writer, ipcWire, far, handling>>

\* EOF, or the supervisor's force_close: first the flag, then the map.
Close ==
    /\ far = "dead" /\ ~shut
    /\ shut' = TRUE /\ clearing' = clearing \cup {"loop"}
    /\ UNCHANGED <<ipcCall, pending, nextId, writer, ipcWire, ipcFar>>

\* The senders in the map are dropped, and their callers woken.
ClearPending(who) ==
    /\ who \in clearing
    /\ clearing' = clearing \ {who}
    /\ answer' = [c \in IpcCallers |->
                    IF callId[c] \in pending /\ answer[c] = NoAnswer THEN HungUp ELSE answer[c]]
    /\ pending' = {}
    /\ UNCHANGED <<at, callId, nextId, shut, writer, ipcWire, ipcFar>>

-----------------------------------------------------------------------------
(* The far end *)

WholeLine == wire # <<>> /\ (torn => Len(wire) > 1)

\* Its read loop: a line that is not JSON is ignored.
FarReads ==
    /\ far = "up" /\ WholeLine
    /\ wire' = Tail(wire)
    /\ handling' = handling \cup ({Head(wire)} \ {Garbled})
    /\ UNCHANGED <<ipcCall, ipcPeer, torn, far, replies>>

FarAnswers(id) ==
    /\ far # "dead" /\ id \in handling
    /\ handling' = handling \ {id}
    /\ replies' = replies \cup {id}
    /\ UNCHANGED <<ipcCall, ipcPeer, ipcWire, far>>

FarDies ==
    /\ far # "dead"
    /\ far' = "dead"
    /\ handling' = {}
    /\ UNCHANGED <<ipcCall, ipcPeer, ipcWire, replies>>

-----------------------------------------------------------------------------

IpcInit ==
    /\ at = [c \in IpcCallers |-> "idle"] /\ callId = [c \in IpcCallers |-> 0]
    /\ answer = [c \in IpcCallers |-> NoAnswer]
    /\ pending = {} /\ nextId = 1 /\ shut = FALSE /\ clearing = {} /\ writer = "free"
    /\ wire = <<>> /\ torn = FALSE
    /\ far = "up" /\ handling = {} /\ replies = {}

IpcStep(c) ==
    \/ Register(c) \/ Recheck(c) \/ TakeWriter(c) \/ WriteFrame(c) \/ WriteFails(c) \/ WriteStalls(c)
    \/ Stalled(c) \/ Answered(c)
IpcClosing == Close \/ \E who \in clearing : ClearPending(who)

IpcNext ==
    \/ \E c \in IpcCallers : Begin(c) \/ IpcStep(c) \/ CallTimeout(c) \/ Cancel(c)
    \/ \E id \in 1..MaxCalls : Deliver(id) \/ FarAnswers(id)
    \/ IpcClosing \/ FarReads \/ FarDies

-----------------------------------------------------------------------------
(* Properties *)

\* Every variable has its type. The map holds calls that are under way and nothing
\* else, however calls end: a health poll that gives up every second leaks no entry.
IpcTypeOK ==
    /\ at \in [IpcCallers -> {"idle"} \cup InFlight]
    /\ callId \in [IpcCallers -> 0..MaxCalls]
    /\ answer \in [IpcCallers -> {NoAnswer, HungUp} \cup 1..MaxCalls]
    /\ pending \subseteq {callId[c] : c \in {d \in IpcCallers : at[d] \in InFlight}}
    /\ nextId \in 1..(MaxCalls + 1)
    /\ writer \in IpcCallers \cup {"free"} /\ wire \in Seq(0..MaxCalls) /\ Len(wire) <= IpcRoom
    /\ torn => wire # <<>>

\* Once the connection is closed every call under way ends, without waiting for
\* the deadline of its answer (a queue of writers may each wait for their own send).
ClosedWakes == \A c \in IpcCallers : shut /\ at[c] # "idle" ~> at[c] = "idle"
=============================================================================
