---------------------------- MODULE Conversation ----------------------------
(***************************************************************************)
(* What a conversation promises the people in it, without the actor, its   *)
(* channel, its inbox or its deferred queue: a message the host accepted   *)
(* waits until it is said, once, in the conversation's record, or until    *)
(* the record refuses it; one turn runs at a time, on somebody's           *)
(* authority, and during it only that person's messages are said.          *)
(* Module SessionActor is shown to implement this.                         *)
(***************************************************************************)
EXTENDS Naturals

CONSTANTS Requests,   \* messages: an id and an author each
          People,     \* on whose authority a turn can run
          Nobody      \* no authority is known, or needed

VARIABLES
    waiting,    \* accepted, and neither said nor refused
    said,       \* ids of the messages in the record
    failed,     \* ids of those the record refused
    busy,       \* is a turn running?
    whose       \* on whose authority it runs

convVars == <<waiting, said, failed, busy, whose>>

Known == said \cup failed \cup {m.id : m \in waiting}

ConvInit == waiting = {} /\ said = {} /\ failed = {} /\ busy = FALSE /\ whose = Nobody

Ask(m) ==
    /\ m.id \notin Known
    /\ waiting' = waiting \cup {m}
    /\ UNCHANGED <<said, failed, busy, whose>>

\* A message is said as the first of its own turn, or into a turn of its author's.
Say(m) ==
    /\ m \in waiting
    /\ busy => m.from = whose
    /\ waiting' = waiting \ {m} /\ said' = said \cup {m.id}
    /\ busy' = TRUE /\ whose' = m.from
    /\ UNCHANGED failed

Refuse(m) ==
    /\ m \in waiting
    /\ waiting' = waiting \ {m} /\ failed' = failed \cup {m.id}
    /\ UNCHANGED <<said, busy, whose>>

\* A turn without a message of its own: a resume, or one for what was left over.
Carry ==
    /\ ~busy /\ busy' = TRUE
    /\ whose' \in People
    /\ UNCHANGED <<waiting, said, failed>>

Rest ==
    /\ busy /\ busy' = FALSE /\ whose' = Nobody
    /\ UNCHANGED <<waiting, said, failed>>

ConvNext == (\E m \in Requests : Ask(m) \/ Say(m) \/ Refuse(m)) \/ Carry \/ Rest

ConvSafety == ConvInit /\ [][ConvNext]_convVars

\* Every message is said or refused some day, every turn ends.
ConvFairness ==
    /\ WF_convVars(Rest)
    /\ \A m \in Requests : SF_convVars(Say(m) \/ Refuse(m))

ConvSpec == ConvSafety /\ ConvFairness
=============================================================================
