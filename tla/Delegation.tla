----------------------------- MODULE Delegation -----------------------------
(***************************************************************************)
(* Sub-agents: the registry of crates/thetis/src/subagents.rs, the spawn,  *)
(* wait and cancel of delegation.rs, and what a child's and its parent's   *)
(* session actors do with them when a turn ends (session.rs).              *)
(*                                                                         *)
(* Parent and children run in one worker; the registry is the gateway's,   *)
(* so every access to it is an await that may fail. A child has one turn.  *)
(*                                                                         *)
(* Simplifications:                                                        *)
(*  - of a child's session actor (module SessionActor) only the submitted  *)
(*    message, the beginning of the turn and its end are kept: a stop      *)
(*    raised before the turn begins is lost there;                         *)
(*  - labels, profiles, models, costs and ceilings are left out.           *)
(***************************************************************************)
EXTENDS Naturals, FiniteSets

CONSTANTS Kids,           \* child sessions the parent may create
          NoKid,
          MaxChildren,    \* subagents.max_children, 0 for no limit
          MaxKidFaults,   \* bound: registry accesses that fail
          MaxFleetDeaths  \* bound: deaths of the worker

ASSUME DelegationAssumption ==
    NoKid \notin Kids /\ MaxChildren \in Nat /\ MaxKidFaults \in Nat /\ MaxFleetDeaths \in Nat

VARIABLES
    row,        \* per child: its row in the registry, or "none"
    kid,        \* per child: where its turn is
    ended,      \* per child: how its turn ended
    raised,     \* children whose turn has its stop raised
    parent,     \* where the parent's turn is
    subject,    \* the child being spawned or cancelled, or NoKid
    todo,       \* children a stopped parent has yet to cancel
    until,      \* what the parent waits for
    stopRaised, \* the parent's stop
    kidFaults, fleetDeaths,
    lost        \* history: children whose end the registry was never told

kidVars == <<kid, ended, raised>>
parentVars == <<parent, subject, todo, until, stopRaised>>
dgVars == <<row, kidVars, parentVars, kidFaults, fleetDeaths, lost>>

Settled == {"done", "failed", "cancelled"}
Waits == {"all", "any", "first_failure"}
Registered == {c \in Kids : row[c] # "none"}
LiveRows == {c \in Kids : row[c] = "running"}

\* An access to the registry that fails (the gateway is slow or gone).
Fault == kidFaults < MaxKidFaults /\ kidFaults' = kidFaults + 1

ParentAt(place) == parent' = place
Calm == UNCHANGED <<kidFaults, fleetDeaths>>

-----------------------------------------------------------------------------
(* The parent's turn *)

ParentBegins ==
    /\ parent = "idle"
    /\ ParentAt("turn") /\ stopRaised' = FALSE
    /\ UNCHANGED <<row, kidVars, subject, todo, until, lost>> /\ Calm

\* The stop button.
ParentStopped ==
    /\ parent \notin {"idle", "sweep", "mark", "raise"} /\ ~stopRaised
    /\ stopRaised' = TRUE
    /\ UNCHANGED <<row, kidVars, parent, subject, todo, until, lost>> /\ Calm

\* The guest returns. A parent that was stopped takes its children with it: the
\* list is read once, and a list that cannot be read is empty.
ParentReturns ==
    /\ parent = "turn"
    /\ IF stopRaised
       THEN /\ \/ todo' = LiveRows /\ UNCHANGED kidFaults
               \/ todo' = {} /\ Fault
            /\ ParentAt("sweep")
       ELSE todo' = {} /\ ParentAt("idle") /\ UNCHANGED kidFaults
    /\ UNCHANGED <<row, kidVars, subject, until, stopRaised, fleetDeaths, lost>>

-----------------------------------------------------------------------------
(* spawn *)

\* The child's session is created.
SpawnCreate(c) ==
    /\ parent = "turn" /\ ~stopRaised /\ kid[c] = "none"
    /\ ParentAt("register") /\ subject' = c
    /\ kid' = [kid EXCEPT ![c] = "created"]
    /\ UNCHANGED <<row, ended, raised, todo, until, stopRaised, lost>> /\ Calm

AtCap == MaxChildren > 0 /\ Cardinality(LiveRows) >= MaxChildren

\* register: refused at the cap (the new session is archived), or failed.
SpawnRegister ==
    /\ parent = "register"
    /\ \/ /\ ~AtCap
          /\ row' = [row EXCEPT ![subject] = "running"]
          /\ ParentAt("submit") /\ UNCHANGED <<kid, subject, kidFaults>>
       \/ /\ IF AtCap THEN UNCHANGED kidFaults ELSE Fault
          /\ kid' = [kid EXCEPT ![subject] = "archived"]
          /\ ParentAt("turn") /\ subject' = NoKid /\ UNCHANGED row
    /\ UNCHANGED <<ended, raised, todo, until, stopRaised, fleetDeaths, lost>>

\* The brief is on the channel of the child's actor, and the spawn returns.
SpawnSubmit ==
    /\ parent = "submit"
    /\ kid' = [kid EXCEPT ![subject] = "queued"]
    /\ ParentAt("turn") /\ subject' = NoKid
    /\ UNCHANGED <<row, ended, raised, todo, until, stopRaised, lost>> /\ Calm

-----------------------------------------------------------------------------
(* wait *)

Satisfied(w, rows) ==
    CASE w = "all" -> \A c \in DOMAIN rows : rows[c] \in Settled
      [] w = "any" -> DOMAIN rows = {} \/ \E c \in DOMAIN rows : rows[c] \in Settled
      [] w = "first_failure" ->
            \/ DOMAIN rows = {}
            \/ \E c \in DOMAIN rows : rows[c] \in {"failed", "cancelled"}
            \/ \A c \in DOMAIN rows : rows[c] \in Settled

WaitBegins(w) ==
    /\ parent = "turn" /\ ~stopRaised
    /\ ParentAt("check") /\ until' = w
    /\ UNCHANGED <<row, kidVars, subject, todo, stopRaised, lost>> /\ Calm

\* The rows are read; rows that cannot be read are none.
WaitReads(rows) ==
    /\ parent = "check"
    /\ ParentAt(IF Satisfied(until, rows) THEN "turn" ELSE "decided")
    /\ UNCHANGED <<row, kidVars, subject, todo, until, stopRaised, fleetDeaths, lost>>
WaitReadsRows == WaitReads([c \in Registered |-> row[c]]) /\ UNCHANGED kidFaults
WaitReadsNone == WaitReads([c \in {} |-> "none"]) /\ Fault

\* The deadline has passed.
WaitTimesOut ==
    /\ parent = "decided"
    /\ ParentAt("turn")
    /\ UNCHANGED <<row, kidVars, subject, todo, until, stopRaised, lost>> /\ Calm

\* The select: from here on a ring is heard.
WaitParks ==
    /\ parent = "decided"
    /\ ParentAt("parked")
    /\ UNCHANGED <<row, kidVars, subject, todo, until, stopRaised, lost>> /\ Calm

\* Mutant: only the bell wakes a wait.
NoBackstop == FALSE
Backstop == parent = "parked"

\* The backstop poll.
WaitPolls ==
    /\ Backstop
    /\ ParentAt("check")
    /\ UNCHANGED <<row, kidVars, subject, todo, until, stopRaised, lost>> /\ Calm

WaitStopped ==
    /\ parent = "parked" /\ stopRaised
    /\ ParentAt("turn")
    /\ UNCHANGED <<row, kidVars, subject, todo, until, stopRaised, lost>> /\ Calm

\* notify_waiters: only who is parked hears it.
Ring(place) == parent' = IF place = "parked" THEN "check" ELSE place

-----------------------------------------------------------------------------
(* cancel_child, and cancel_all_children of a stopped parent *)

CancelBegins(c) ==
    /\ parent = "turn" /\ ~stopRaised /\ c \in Registered
    /\ ParentAt("mark") /\ subject' = c
    /\ UNCHANGED <<row, kidVars, todo, until, stopRaised, lost>> /\ Calm

SweepNext(c) ==
    /\ parent = "sweep" /\ c \in todo
    /\ ParentAt("mark") /\ subject' = c /\ todo' = todo \ {c}
    /\ UNCHANGED <<row, kidVars, until, stopRaised, lost>> /\ Calm

SweepDone ==
    /\ parent = "sweep" /\ todo = {}
    /\ ParentAt("idle")
    /\ UNCHANGED <<row, kidVars, subject, todo, until, stopRaised, lost>> /\ Calm

\* Mutant: a child that has settled is marked as well.
MarkAlways(state) == "cancelled"
MarkCancelled(state) == IF state \in Settled THEN state ELSE "cancelled"

\* The registry first, "so every watcher sees it". A mark that fails ends
\* cancel_child with an error; the sweep carries on.
CancelMarks ==
    /\ parent = "mark"
    /\ \/ /\ row' = [row EXCEPT ![subject] = MarkCancelled(row[subject])]
          /\ ParentAt("raise") /\ UNCHANGED <<subject, kidFaults>>
       \/ /\ Fault /\ UNCHANGED row
          /\ IF stopRaised THEN ParentAt("raise") /\ UNCHANGED subject
                           ELSE ParentAt("turn") /\ subject' = NoKid
    /\ UNCHANGED <<kidVars, todo, until, stopRaised, fleetDeaths, lost>>

\* Then the turn's stop, which is lost on a turn that has not begun.
CancelRaises ==
    /\ parent = "raise"
    /\ raised' = IF kid[subject] \in {"running", "returned"} THEN raised \cup {subject} ELSE raised
    /\ ParentAt(IF stopRaised THEN "sweep" ELSE "turn") /\ subject' = NoKid
    /\ UNCHANGED <<row, kid, ended, todo, until, stopRaised, lost>> /\ Calm

-----------------------------------------------------------------------------
(* A child's turn *)

KidBegins(c) ==
    /\ kid[c] = "queued"
    /\ kid' = [kid EXCEPT ![c] = "running"]
    /\ UNCHANGED <<row, ended, raised, parentVars, lost>> /\ Calm

\* The guest returns: an answer, a turn that ended without one, or a fault,
\* which counts as the stop it was asked for if one stands.
KidReturns(c) ==
    /\ kid[c] = "running"
    /\ \E how \in {"answer", "silent", "fault"} :
          ended' = [ended EXCEPT ![c] = IF how = "fault" /\ c \in raised THEN "stopped" ELSE how]
    /\ kid' = [kid EXCEPT ![c] = "returned"]
    /\ UNCHANGED <<row, raised, parentVars, lost>> /\ Calm

\* Mutant: a child that said nothing is not settled.
SilenceIgnored ==
    [answer |-> "done", silent |-> "running", fault |-> "failed", stopped |-> "cancelled"]
\* Subagents::settle: a turn without an answer has failed.
Verdict ==
    [answer |-> "done", silent |-> "failed", fault |-> "failed", stopped |-> "cancelled"]

\* settle, whatever the row says by now, and the bell, even if settling failed;
\* a session that cannot be recognised as a child settles nothing.
KidSettles(c) ==
    /\ kid[c] = "returned"
    /\ kid' = [kid EXCEPT ![c] = "over"]
    /\ \/ /\ row' = [row EXCEPT ![c] = Verdict[ended[c]]]
          /\ Ring(parent) /\ UNCHANGED <<lost, kidFaults>>
       \/ /\ UNCHANGED row
          /\ Ring(parent) \/ UNCHANGED parent
          /\ lost' = lost \cup {c} /\ Fault
    /\ UNCHANGED <<ended, raised, subject, todo, until, stopRaised, fleetDeaths>>

-----------------------------------------------------------------------------
(* Failures *)

\* The worker dies with every turn in it. The parent's turn is resumed in the
\* next one; a child is not a conversation, and is not.
FleetDies ==
    /\ fleetDeaths < MaxFleetDeaths
    /\ fleetDeaths' = fleetDeaths + 1
    /\ lost' = lost \cup {c \in Kids : kid[c] \in {"queued", "running", "returned"}}
                    \cup {c \in {subject} \ {NoKid} : parent \in {"register", "submit"}}
    /\ kid' = [c \in Kids |-> IF kid[c] = "none" THEN "none" ELSE "over"]
    /\ raised' = {} /\ stopRaised' = FALSE /\ todo' = {} /\ subject' = NoKid
    /\ ParentAt(IF parent = "idle" THEN "idle" ELSE "turn")
    /\ UNCHANGED <<row, ended, until, kidFaults>>

\* Mutant: nothing is swept.
NoSweep == {}
\* Subagents::fail_orphans
Swept == LiveRows

\* A restart of the gateway ends every worker and fails every child still running.
GatewayRestarts ==
    /\ fleetDeaths < MaxFleetDeaths
    /\ fleetDeaths' = fleetDeaths + 1
    /\ row' = [c \in Kids |-> IF c \in Swept THEN "failed" ELSE row[c]]
    /\ kid' = [c \in Kids |-> IF kid[c] = "none" THEN "none" ELSE "over"]
    /\ lost' = {}
    /\ raised' = {} /\ stopRaised' = FALSE /\ todo' = {} /\ subject' = NoKid
    /\ ParentAt(IF parent = "idle" THEN "idle" ELSE "turn")
    /\ UNCHANGED <<ended, until, kidFaults>>

-----------------------------------------------------------------------------

DelegationInit ==
    /\ row = [c \in Kids |-> "none"] /\ kid = [c \in Kids |-> "none"]
    /\ ended = [c \in Kids |-> "answer"] /\ raised = {}
    /\ parent = "idle" /\ subject = NoKid /\ todo = {} /\ until = "all"
    /\ stopRaised = FALSE /\ kidFaults = 0 /\ fleetDeaths = 0 /\ lost = {}

KidStep(c) == KidBegins(c) \/ KidReturns(c) \/ KidSettles(c)
ParentStep ==
    \/ SpawnRegister \/ SpawnSubmit \/ WaitReadsRows \/ WaitParks \/ WaitPolls \/ WaitStopped
    \/ SweepDone \/ CancelMarks \/ CancelRaises \/ \E c \in Kids : SweepNext(c)
ParentChoice ==
    \/ ParentBegins \/ ParentStopped \/ ParentReturns \/ WaitReadsNone \/ WaitTimesOut
    \/ \E w \in Waits : WaitBegins(w)
    \/ \E c \in Kids : SpawnCreate(c) \/ CancelBegins(c)

DelegationNext ==
    ParentStep \/ ParentChoice \/ (\E c \in Kids : KidStep(c)) \/ FleetDies \/ GatewayRestarts

-----------------------------------------------------------------------------
(* Properties *)

\* Every variable has its type; no more children run than the cap allows.
DelegationTypeOK ==
    /\ row \in [Kids -> Settled \cup {"none", "running"}]
    /\ kid \in [Kids -> {"none", "created", "archived", "queued", "running", "returned", "over"}]
    /\ ended \in [Kids -> {"answer", "silent", "fault", "stopped"}]
    /\ raised \subseteq Kids /\ lost \subseteq Kids /\ todo \subseteq Kids
    /\ parent \in {"idle", "turn", "register", "submit", "check", "decided", "parked",
                   "sweep", "mark", "raise"}
    /\ subject \in Kids \cup {NoKid} /\ until \in Waits
    /\ MaxChildren > 0 => Cardinality(LiveRows) <= MaxChildren

\* Every registry row that says "running" has a turn behind it that will settle
\* it, unless that turn died with its worker or the registry refused its end.
RunningIsReal ==
    \A c \in LiveRows \ lost :
        kid[c] \in {"queued", "running", "returned"} \/ (parent = "submit" /\ subject = c)

\* A verdict of a child's own turn is for good: neither a late cancel nor a
\* gateway's sweep overwrites the result the parent may already have read.
VerdictStands ==
    [][\A c \in Kids : row[c] \in {"done", "failed"} => row'[c] = row[c]]_dgVars

\* A wait whose children are all over ends: a ring it missed between reading the
\* rows and parking costs it a poll, not its deadline.
WaitSeesTheEnd == (parent = "parked" /\ LiveRows = {}) ~> parent # "parked"

\* A child that was submitted is settled some day, unless its worker died or the
\* registry refused it.
KidsSettle == \A c \in Kids : kid[c] = "queued" ~> row[c] \in Settled \/ c \in lost
=============================================================================
