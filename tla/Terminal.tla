------------------------------ MODULE Terminal ------------------------------
(***************************************************************************)
(* One shell session of terminal.rs: the marker that turns an endless      *)
(* stream back into request and response. The agent makes one call at a    *)
(* time; its awaits interleave with the shell, with the pump that fills    *)
(* the buffer, and with a close from the drawer, the reaper or a shutdown. *)
(*                                                                         *)
(* The buffer is the sequence of the markers in it, a command its number.  *)
(*                                                                         *)
(* Simplifications:                                                        *)
(*  - the session is local (no ssh, no control bytes);                     *)
(*  - a script fits the pipe, and a command does not read the shell's      *)
(*    input: `send` is a line the shell runs, with no marker after it;     *)
(*  - output other than markers, the display and the feed are left out.    *)
(***************************************************************************)
EXTENDS Naturals, Sequences, FiniteSetsExt

CONSTANTS MaxCommands,   \* bound: commands the agent runs
          MaxSends,      \* bound: lines it sends without a marker
          MaxFloods      \* bound: times leftover output fills the buffer

ASSUME TerminalAssumption == {MaxCommands, MaxSends, MaxFloods} \subseteq Nat

VARIABLES
    open,      \* is the session in the map?
    shell,     \* is the shell running?
    pipe,      \* its input: numbers of commands, 0 for a line with no marker
    running,   \* what it runs: <<>> or <<number>>
    killed,    \* has a signal ended it, so that only its marker is to come?
    buffer,    \* the markers read and not yet taken
    backgrounded,   \* the backgrounded command, or 0
    stage,        \* where the agent's call is
    mine,      \* the command that call is about
    bg,        \* does it leave it in the background?
    counter,   \* commands started
    sends,     \* lines sent
    floods,    \* floods so far
    over,      \* history: commands that are over
    told       \* history: commands a call reported finished

shellVars == <<shell, pipe, running, killed, over>>
callVars == <<stage, mine, bg, counter, sends, told>>
terminalVars == <<open, shellVars, buffer, backgrounded, callVars, floods>>

Commands == 1..MaxCommands
Unchanged == UNCHANGED <<open, shellVars, backgrounded, mine, bg, counter, sends, floods>>

\* Mutant: any marker will do.
AnyMarker(i) == buffer # <<>>
MarkerThere(i) == i \in {buffer[k] : k \in DOMAIN buffer}

\* split_at_marker: everything up to the last such marker is consumed.
SplitBuffer(i) ==
    LET last == Max({1} \cup {k \in DOMAIN buffer : buffer[k] = i})
    IN SubSeq(buffer, last + 1, Len(buffer))

-----------------------------------------------------------------------------
(* run_until *)

NotBusy == backgrounded = 0

\* A session that is busy, gone or whose shell has exited refuses; otherwise what
\* is left of earlier commands is thrown away.
RunTakes(inBackground) ==
    /\ stage = "free" /\ NotBusy /\ open /\ shell /\ counter < MaxCommands
    /\ counter' = counter + 1 /\ mine' = counter' /\ bg' = inBackground
    /\ buffer' = <<>> /\ stage' = "write"
    /\ UNCHANGED <<open, shellVars, backgrounded, sends, told, floods>>

\* The command and the line that echoes its marker.
RunWrites ==
    /\ stage = "write"
    /\ IF shell
       THEN /\ pipe' = Append(pipe, mine)
            /\ backgrounded' = IF bg /\ open THEN mine ELSE backgrounded
            /\ stage' = IF bg THEN "early" ELSE "poll"
       ELSE stage' = "free" /\ UNCHANGED <<pipe, backgrounded>>
    /\ UNCHANGED <<open, shell, running, killed, over, buffer, mine, bg, counter, sends, told, floods>>

\* 300 ms into a background command: what it has printed is taken.
BgEarly ==
    /\ stage = "early"
    /\ buffer' = <<>> /\ stage' = "free" /\ UNCHANGED told /\ Unchanged

PollDone ==
    /\ stage = "poll" /\ MarkerThere(mine)
    /\ buffer' = SplitBuffer(mine) /\ told' = told \cup {mine} /\ stage' = "free"
    /\ Unchanged

\* signal_children: each process of the group except the shell is signalled once. A
\* simple command ends. What the shell does itself (a builtin, a loop, the rest of a
\* list), what is started later, what left the group or what ignores the signal goes
\* on; and an idle shell has nothing to end.
SignalChildren == killed' \in {killed, running # <<>>}

\* The deadline, or a stop. The call stops waiting, whatever the shell goes on doing.
PollExpires ==
    /\ stage = "poll" /\ ~MarkerThere(mine)
    /\ SignalChildren
    /\ stage' = "settle"
    /\ UNCHANGED <<open, shell, pipe, running, over, buffer, backgrounded, mine, bg, counter, sends, told, floods>>

\* The marker is consumed if it comes within 750 ms, and not reported as an end.
SettleEnds ==
    /\ stage = "settle"
    /\ buffer' = IF MarkerThere(mine) THEN SplitBuffer(mine) ELSE <<>>
    /\ stage' = "free" /\ UNCHANGED told /\ Unchanged

-----------------------------------------------------------------------------
(* read, signal, send, close *)

ReadAsked ==
    /\ stage = "free" /\ open
    /\ stage' = "read" /\ UNCHANGED <<buffer, told>> /\ Unchanged

\* A signal to what the shell runs; then a read.
Signal ==
    /\ stage = "free" /\ open
    /\ SignalChildren
    /\ stage' = "read"
    /\ UNCHANGED <<open, shell, pipe, running, over, buffer, backgrounded, mine, bg, counter, sends, told, floods>>

\* A line for the shell; then a read.
Send ==
    /\ stage = "free" /\ open /\ shell /\ sends < MaxSends
    /\ pipe' = Append(pipe, 0) /\ sends' = sends + 1 /\ stage' = "read"
    /\ UNCHANGED <<open, shell, running, killed, over, buffer, backgrounded, mine, bg, counter, told, floods>>

\* The read finds no session, nothing pending, the marker of what is pending, or
\* no marker; in the last case it comes back for what there is.
Read ==
    /\ stage = "read"
    /\ \/ ~open /\ stage' = "free" /\ UNCHANGED <<buffer, backgrounded, told>>
       \/ open /\ backgrounded = 0 /\ buffer' = <<>> /\ stage' = "free" /\ UNCHANGED <<backgrounded, told>>
       \/ /\ open /\ backgrounded # 0 /\ MarkerThere(backgrounded)
          /\ buffer' = SplitBuffer(backgrounded) /\ told' = told \cup {backgrounded}
          /\ backgrounded' = 0 /\ stage' = "free"
       \/ open /\ backgrounded # 0 /\ ~MarkerThere(backgrounded) /\ stage' = "drain" /\ UNCHANGED <<buffer, backgrounded, told>>
    /\ UNCHANGED <<open, shellVars, mine, bg, counter, sends, floods>>

ReadDrains ==
    /\ stage = "drain"
    /\ buffer' = <<>> /\ stage' = "free" /\ UNCHANGED told /\ Unchanged

\* terminals.close, reap, close_all: the whole process group dies.
CloseSession ==
    /\ open
    /\ open' = FALSE /\ shell' = FALSE /\ pipe' = <<>> /\ running' = <<>> /\ killed' = FALSE
    /\ backgrounded' = 0
    /\ over' = over \cup {running[k] : k \in DOMAIN running}
    /\ UNCHANGED <<buffer, callVars, floods>>

-----------------------------------------------------------------------------
(* The shell and the pump *)

ShellReads ==
    /\ shell /\ running = <<>> /\ pipe # <<>>
    /\ running' = <<Head(pipe)>> /\ pipe' = Tail(pipe) /\ killed' = FALSE
    /\ UNCHANGED <<open, shell, over, buffer, backgrounded, callVars, floods>>

\* The command is over, and its marker reaches the buffer.
CommandEnds ==
    /\ running # <<>>
    /\ buffer' = IF running[1] = 0 THEN buffer ELSE Append(buffer, running[1])
    /\ over' = over \cup {running[1]}
    /\ running' = <<>> /\ killed' = FALSE
    /\ UNCHANGED <<open, shell, pipe, backgrounded, callVars, floods>>

\* The command was `exit`.
ShellExits ==
    /\ shell /\ running # <<>> /\ ~killed
    /\ shell' = FALSE /\ pipe' = <<>> /\ running' = <<>>
    /\ over' = over \cup {running[1]}
    /\ UNCHANGED <<open, killed, buffer, backgrounded, callVars, floods>>

\* What still runs fills the buffer, whose head is cut off.
PumpTrims ==
    /\ buffer # <<>> /\ over # {} /\ floods < MaxFloods
    /\ buffer' = <<>> /\ floods' = floods + 1
    /\ UNCHANGED <<open, shellVars, backgrounded, callVars>>

-----------------------------------------------------------------------------

TerminalInit ==
    /\ open = TRUE /\ shell = TRUE /\ pipe = <<>> /\ running = <<>> /\ killed = FALSE
    /\ buffer = <<>> /\ backgrounded = 0
    /\ stage = "free" /\ mine = 0 /\ bg = FALSE /\ counter = 0 /\ sends = 0
    /\ floods = 0 /\ over = {} /\ told = {}

CallStep == RunWrites \/ BgEarly \/ PollDone \/ PollExpires \/ SettleEnds \/ Read \/ ReadDrains
TerminalNext ==
    \/ \E inBackground \in BOOLEAN : RunTakes(inBackground)
    \/ CallStep \/ ReadAsked \/ Signal \/ Send \/ CloseSession
    \/ ShellReads \/ CommandEnds \/ ShellExits \/ PumpTrims
TerminalSpec == TerminalInit /\ [][TerminalNext]_terminalVars

-----------------------------------------------------------------------------
(* Properties *)

\* Besides the types: while a background command is pending the agent has no
\* foreground command of its own in the session.
TerminalTypeOK ==
    /\ {open, shell, killed, bg} \subseteq BOOLEAN
    /\ pipe \in Seq({0} \cup Commands) /\ buffer \in Seq(Commands)
    /\ running \in {<<>>} \cup {<<i>> : i \in {0} \cup Commands}
    /\ {backgrounded, mine, counter} \subseteq {0} \cup Commands
    /\ stage \in {"free", "write", "early", "poll", "settle", "read", "drain"}
    /\ backgrounded # 0 => stage \notin {"write", "poll", "settle"}

\* A call that reports a command finished speaks of a command that is: the markers
\* of earlier commands, killed and late, are never taken for this one's.
ToldIsOver == told \subseteq over

\* "Draining it blindly would swallow the marker and leave the session marked busy
\* for ever, refusing every later command": while a background command is pending
\* it is running, or its marker is in the buffer.
NoStrandedSession ==
    backgrounded # 0 /\ shell => backgrounded \notin over \/ MarkerThere(backgrounded)
=============================================================================
