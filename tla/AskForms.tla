------------------------------ MODULE AskForms ------------------------------
(***************************************************************************)
(* The forms an ask_user call becomes on Discord (discord/mod.rs, ask.rs): *)
(* every follower of the conversation tries to post the call's form, every *)
(* press of a control is a task of its own, and all they share is the kv   *)
(* table, with a put and a compare-and-swap. Each call of the kv table or  *)
(* of Discord is a step.                                                   *)
(*                                                                         *)
(* A form is named by the follower that posts it. A value of the kv table  *)
(* is <<>> for absent (and empty), or <<[answers, noted]>>: the answers so *)
(* far, and whether the message's id is on it.                             *)
(*                                                                         *)
(* Simplifications:                                                        *)
(*  - every press is the right person's and comes before the form expires; *)
(*  - a modal is a later press of the same control; the edits of messages  *)
(*    show in `shown` only: a client may still press any control it was    *)
(*    ever shown;                                                          *)
(*  - the kv table is local to the process and does not fail.              *)
(***************************************************************************)
EXTENDS Naturals, Sequences, FiniteSets

CONSTANTS Followers,    \* readers of the conversation's events
          AskCalls,     \* ask_user calls
          CallOf,       \* the call each of them is reading
          Presses,      \* presses of a control
          Replies,      \* what one can answer
          Questions,    \* questions on a form
          MaxRefusals   \* bound: requests Discord refuses

ASSUME AskAssumption ==
    /\ CallOf \in [Followers -> AskCalls]
    /\ Questions \in Nat \ {0} /\ MaxRefusals \in Nat

VARIABLES
    claim,        \* per call: the form that has claimed it, or none
    form,         \* per form: its state in the kv table
    live,         \* the conversation's live form, or none
    posting,      \* per follower: its next step
    former,       \* per follower: the form it found live, or none
    shown,        \* per form: the latest question on screen, 0 for none
    pressing,     \* per press: its next step
    pressed,      \* per press: the form and the question of the control
    read,         \* per press: the state it read
    refusals,     \* requests refused so far
    submitted,    \* history: how often a call's answers were submitted
    overwritten   \* history: forms whose answers a follower's put erased

postVars == <<claim, live, posting, former>>
pressVars == <<pressing, pressed, read>>
askVars == <<postVars, pressVars, form, shown, refusals, submitted, overwritten>>

None == <<>>
Fresh(noted) == <<[answers |-> <<>>, noted |-> noted]>>
Index(state) == Len(state[1].answers) + 1
PostAt(f, place) == posting' = [posting EXCEPT ![f] = place]
PressAt(k, place) ==
    /\ pressing' = [pressing EXCEPT ![k] = place]
    /\ pressed' = IF place = "idle" THEN [pressed EXCEPT ![k] = None] ELSE pressed
Put(f, state) == form' = [form EXCEPT ![f] = state]
Refuses == refusals < MaxRefusals /\ refusals' = refusals + 1

-----------------------------------------------------------------------------
(* post_form *)

\* Mutant: whoever reads the event posts.
AnyClaim(f) == TRUE
ClaimFree(f) == claim[CallOf[f]] = None

\* At most one follower gets to post the call's form.
ClaimCall(f) ==
    /\ posting[f] = "idle"
    /\ IF ClaimFree(f)
       THEN claim' = [claim EXCEPT ![CallOf[f]] = <<f>>] /\ PostAt(f, "find")
       ELSE UNCHANGED claim /\ PostAt(f, "done")
    /\ UNCHANGED <<live, former, pressVars, form, shown, refusals, submitted, overwritten>>

\* retire_live_form: find it, claim its retirement, drop its state.
FindLive(f) ==
    /\ posting[f] = "find"
    /\ former' = [former EXCEPT ![f] = live]
    /\ PostAt(f, IF live = None THEN "create" ELSE "retire")
    /\ UNCHANGED <<claim, live, pressVars, form, shown, refusals, submitted, overwritten>>

ClaimLive(f) ==
    /\ posting[f] = "retire"
    /\ IF live = former[f]
       THEN live' = None /\ PostAt(f, "clear")
       ELSE UNCHANGED live /\ PostAt(f, "create")
    /\ former' = IF live = former[f] THEN former ELSE [former EXCEPT ![f] = None]
    /\ UNCHANGED <<claim, pressVars, form, shown, refusals, submitted, overwritten>>

ClearFormer(f) ==
    /\ posting[f] = "clear"
    /\ Put(former[f][1], None) /\ PostAt(f, "create")
    /\ former' = [former EXCEPT ![f] = None]
    /\ UNCHANGED <<claim, live, pressVars, shown, refusals, submitted, overwritten>>

CreateForm(f) ==
    /\ posting[f] = "create"
    /\ IF form[f] = None THEN Put(f, Fresh(FALSE)) /\ PostAt(f, "send")
       ELSE UNCHANGED form /\ PostAt(f, "done")
    /\ UNCHANGED <<claim, live, former, pressVars, shown, refusals, submitted, overwritten>>

\* The message with its controls; refused, the state goes again and the claim stays.
SendForm(f) ==
    /\ posting[f] = "send"
    /\ \/ /\ shown' = [shown EXCEPT ![f] = 1] /\ PostAt(f, "note")
          /\ UNCHANGED <<form, refusals>>
       \/ Refuses /\ Put(f, None) /\ PostAt(f, "done") /\ UNCHANGED shown
    /\ UNCHANGED <<claim, live, former, pressVars, submitted, overwritten>>

\* save_form_unconditionally: the state as it was created, with the message's id.
NoteMessage(f) ==
    /\ posting[f] = "note"
    /\ overwritten' = IF form[f] = Fresh(FALSE) THEN overwritten ELSE overwritten \cup {f}
    /\ Put(f, Fresh(TRUE)) /\ PostAt(f, "point")
    /\ UNCHANGED <<claim, live, former, pressVars, shown, refusals, submitted>>

PointAtForm(f) ==
    /\ posting[f] = "point"
    /\ live' = <<f>> /\ PostAt(f, "done")
    /\ UNCHANGED <<claim, former, pressVars, form, shown, refusals, submitted, overwritten>>

-----------------------------------------------------------------------------
(* handle_component *)

\* A press of any control ever shown, and load_form; a form that is gone and a
\* control of an earlier question are answered with a remark, and nothing changes.
Press(k, f, i) ==
    /\ pressing[k] = "idle" /\ i \in 1..shown[f]
    /\ form[f] # None /\ Index(form[f]) = i
    /\ pressed' = [pressed EXCEPT ![k] = <<f, i>>]
    /\ read' = [read EXCEPT ![k] = form[f]]
    /\ pressing' = [pressing EXCEPT ![k] = "advance"]
    /\ UNCHANGED <<postVars, form, shown, refusals, submitted, overwritten>>

\* Mutant: the answer is written over whatever is there.
SwapsAnyway(k) == TRUE
UnchangedSince(k) == form[pressed[k][1]] = read[k]

Finished(k) == pressed[k][2] = Questions

\* advance_form: the last answer clears the form; whoever loses gives up.
AdvanceForm(k, reply) ==
    /\ pressing[k] = "advance"
    /\ IF UnchangedSince(k)
       THEN /\ Put(pressed[k][1], IF Finished(k) THEN None
                   ELSE <<[read[k][1] EXCEPT !.answers = Append(@, reply)]>>)
            /\ PressAt(k, "show")
       ELSE UNCHANGED form /\ PressAt(k, "idle")
    /\ read' = [read EXCEPT ![k] = None]
    /\ UNCHANGED <<postVars, shown, refusals, submitted, overwritten>>

\* The message moves on to the next question. An update Discord refuses is an error,
\* an edit it refuses after a modal is only logged.
ShowNext(k) ==
    /\ pressing[k] = "show"
    /\ LET next == pressed[k][2] + 1 IN
       \/ /\ shown' = [shown EXCEPT ![pressed[k][1]] =
                          IF next <= Questions /\ @ < next THEN next ELSE @]
          /\ PressAt(k, IF Finished(k) THEN "unpoint" ELSE "idle")
          /\ UNCHANGED refusals
       \/ /\ Refuses /\ UNCHANGED shown
          /\ PressAt(k, "idle") \/ (Finished(k) /\ PressAt(k, "unpoint"))
    /\ UNCHANGED <<postVars, read, form, submitted, overwritten>>

Unpoint(k) ==
    /\ pressing[k] = "unpoint"
    /\ live' = IF live = <<pressed[k][1]>> THEN None ELSE live
    /\ PressAt(k, "submit")
    /\ UNCHANGED <<claim, posting, former, read, form, shown, refusals, submitted, overwritten>>

\* The answers become a message of the conversation.
SubmitAnswers(k) ==
    /\ pressing[k] = "submit"
    /\ submitted' = [submitted EXCEPT ![CallOf[pressed[k][1]]] = @ + 1]
    /\ PressAt(k, "idle")
    /\ UNCHANGED <<postVars, read, form, shown, refusals, overwritten>>

\* The process restarts: what was under way is forgotten, the table is not.
ForgetAll ==
    /\ posting' = [f \in Followers |-> IF posting[f] = "idle" THEN "idle" ELSE "done"]
    /\ pressing' = [k \in Presses |-> "idle"]
    /\ read' = [k \in Presses |-> None] /\ pressed' = [k \in Presses |-> None]
    /\ former' = [f \in Followers |-> None]
    /\ <<posting, pressing>>' # <<posting, pressing>>
    /\ UNCHANGED <<claim, live, form, shown, refusals, submitted, overwritten>>

-----------------------------------------------------------------------------

AskInit ==
    /\ claim = [c \in AskCalls |-> None] /\ live = None
    /\ form = [f \in Followers |-> None] /\ shown = [f \in Followers |-> 0]
    /\ posting = [f \in Followers |-> "idle"] /\ former = [f \in Followers |-> None]
    /\ pressing = [k \in Presses |-> "idle"] /\ pressed = [k \in Presses |-> None]
    /\ read = [k \in Presses |-> None]
    /\ refusals = 0 /\ submitted = [c \in AskCalls |-> 0] /\ overwritten = {}

PostStep(f) ==
    \/ ClaimCall(f) \/ FindLive(f) \/ ClaimLive(f) \/ ClearFormer(f) \/ CreateForm(f)
    \/ SendForm(f) \/ NoteMessage(f) \/ PointAtForm(f)
PressStep(k) ==
    \/ (\E reply \in Replies : AdvanceForm(k, reply)) \/ ShowNext(k) \/ Unpoint(k) \/ SubmitAnswers(k)

AskNext ==
    \/ \E f \in Followers : PostStep(f)
    \/ \E k \in Presses : PressStep(k) \/ \E f \in Followers, i \in 1..Questions : Press(k, f, i)
    \/ ForgetAll

-----------------------------------------------------------------------------
(* Properties *)

States == {None} \cup {<<[answers |-> a, noted |-> n]>> :
                           a \in UNION {[1..j -> Replies] : j \in 0..Questions - 1}, n \in BOOLEAN}
MaybeForm == {None} \cup {<<f>> : f \in Followers}

\* Every state is one a form can be in: a finished form is gone, never kept.
AskTypeOK ==
    /\ claim \in [AskCalls -> MaybeForm] /\ live \in MaybeForm
    /\ form \in [Followers -> States] /\ read \in [Presses -> States]
    /\ shown \in [Followers -> 0..Questions] /\ former \in [Followers -> MaybeForm]
    /\ pressed \in [Presses -> {None} \cup (Followers \X (1..Questions))]
    /\ refusals \in 0..MaxRefusals /\ overwritten \subseteq Followers

\* However many followers read a call, its questions are on screen once.
OneFormPerCall ==
    \A f, g \in Followers : shown[f] > 0 /\ shown[g] > 0 /\ CallOf[f] = CallOf[g] => f = g

\* One set of questions is answered once, whatever presses race, unless the put of
\* the message's id erased answers already given.
AnsweredOnce ==
    \A f \in Followers : f \notin overwritten /\ claim[CallOf[f]] = <<f>> => submitted[CallOf[f]] <= 1
=============================================================================
