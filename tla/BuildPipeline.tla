---------------------------- MODULE BuildPipeline ----------------------------
(***************************************************************************)
(* How a change to a tool's source becomes the component that serves: the  *)
(* watcher, the claim on the build (Grip::begin_build and BuildGuard),     *)
(* pipeline.rs's gates, the content-keyed build cache, the loader, the     *)
(* circuit breaker of watchdog.rs and its reset to the last green build.   *)
(*                                                                         *)
(* One tool aspect in one worker's checkout. A source tree is a member of  *)
(* Sources, the tool's deletion is Gone. Every await is a step: people and *)
(* the agent edit the tree, and turns checkpoint it, between any two.      *)
(*                                                                         *)
(* Simplifications:                                                        *)
(*  - cargo reads the source at one instant;                               *)
(*  - `hist` is the branch's log since the last pull or contract change,   *)
(*    where the search for a green build stops;                            *)
(*  - a cache entry stays readable and its artifact loads;                 *)
(*  - one reset runs at a time: a failure reported during a reset, which   *)
(*    would begin another beside it, is left out, and so is a probe.       *)
(***************************************************************************)
EXTENDS Naturals, Sequences

CONSTANTS Working,      \* sources that build and run
          Twin,         \* a source that builds to the bytes of First
          First,        \* the source of the checkout at the start
          Crashing,     \* sources that build and fail the smoke test
          Broken,       \* sources that do not build
          Gone,         \* no crate
          NoSource,
          Threshold,    \* failures that trip the breaker
          MaxEdits,     \* bound: writes to the source
          MaxResets     \* bound: resets the watchdog begins

ASSUME PipelineAssumption ==
    /\ First \in Working /\ Twin \in Working
    /\ Threshold \in Nat \ {0} /\ MaxEdits \in Nat /\ MaxResets \in Nat
    /\ {Gone, NoSource} \cap (Working \cup Crashing \cup Broken) = {} /\ Gone # NoSource
    /\ Working \cap (Crashing \cup Broken) = {} /\ Crashing \cap Broken = {}

Sources == Working \cup Crashing \cup Broken
Trees == Sources \cup {Gone}
\* The artifact cargo makes of a source; reproducible, and blind to comments.
Artifact(s) == IF s = Twin THEN First ELSE s

VARIABLES
    disk, head,     \* the working tree, and the tree of HEAD
    hist,           \* trees committed, oldest first
    cache,          \* green artifacts, keyed by the tree they are filed under
    loaded,         \* what the loader serves: [rev: its tree, art: its bytes]
    event,          \* a change the watcher has yet to look at
    followUp,       \* rebuilds spawned by a build's guard
    claimed,        \* Grip.building
    wanted,         \* Grip.rebuild_wanted
    dropping,       \* guards that have released the aspect, and do more
    bad,            \* the source remembered as failed
    build,          \* the build: [at, print, art, same: art is what serves]
    failures,       \* the breaker's count
    reset,          \* the reset: [at, to]
    quietWatch,     \* the watcher is suppressed
    edits, resets,
    \* history
    swallowed,      \* a change's event was suppressed
    crossed,        \* a build or an edit ran into the last restore
    errored,        \* the last build ended in an error nobody remembers
    misfiled        \* trees under which another source's verdict is filed

treeVars == <<disk, head, hist>>
serveVars == <<cache, loaded>>
claimVars == <<event, followUp, claimed, wanted, dropping>>
watchVars == <<failures, reset, quietWatch, resets>>
ghostVars == <<swallowed, crossed, errored, misfiled>>
pipelineVars == <<treeVars, serveVars, claimVars, bad, build, watchVars, edits, ghostVars>>

NoBuild == [at |-> "idle", print |-> NoSource, art |-> NoSource, same |-> FALSE]
NoReset == [at |-> "idle", to |-> NoSource]
NotLoaded == [rev |-> NoSource, art |-> NoSource]

\* The reset has picked its build and not installed it yet.
Restoring == reset.at \in {"sync", "commit", "install"}

BuildAt(place) == build' = [build EXCEPT !.at = place]

\* Grip::commit_worktree: whatever is on disk, if it differs from HEAD.
Commit ==
    /\ head' = disk
    /\ hist' = IF disk = head THEN hist ELSE Append(hist, disk)
    /\ UNCHANGED disk

-----------------------------------------------------------------------------
(* The tree, and the watcher *)

\* A person, a shell or a tool writes the source (content_changed drops the rest).
Edit(s) ==
    /\ edits < MaxEdits /\ s # disk
    /\ edits' = edits + 1
    /\ disk' = s /\ event' = TRUE /\ crossed' = (crossed \/ Restoring)
    /\ UNCHANGED <<head, hist, serveVars, followUp, claimed, wanted, dropping, bad, build, watchVars,
                   swallowed, errored, misfiled>>

\* The checkpoint at the end of a turn.
Checkpoint ==
    /\ disk # head
    /\ Commit
    /\ UNCHANGED <<serveVars, claimVars, bad, build, watchVars, edits, ghostVars>>

\* Mutant: a change that finds a build running is taken care of.
NotWanted == UNCHANGED wanted
RebuildWanted == wanted' = TRUE

\* build_and_activate: the aspect is claimed, or the build that holds it is told.
Claim ==
    \/ /\ ~claimed
       /\ claimed' = TRUE /\ build' = [NoBuild EXCEPT !.at = "gone?"]
       /\ crossed' = (crossed \/ Restoring) /\ errored' = FALSE
       /\ UNCHANGED wanted
    \/ /\ claimed
       /\ RebuildWanted /\ UNCHANGED <<claimed, build, crossed, errored>>

WatcherSees ==
    /\ event
    /\ event' = FALSE
    /\ IF quietWatch THEN swallowed' = TRUE /\ UNCHANGED <<claimed, wanted, build, crossed, errored>>
                     ELSE Claim /\ UNCHANGED swallowed
    /\ UNCHANGED <<treeVars, serveVars, followUp, dropping, bad, watchVars, edits, misfiled>>

FollowUpStarts ==
    /\ followUp > 0
    /\ followUp' = followUp - 1
    /\ Claim
    /\ UNCHANGED <<treeVars, serveVars, event, dropping, bad, watchVars, edits, swallowed, misfiled>>

-----------------------------------------------------------------------------
(* build_and_activate *)

\* 0. A tool whose crate is gone leaves service.
CheckGone ==
    /\ build.at = "gone?"
    /\ IF disk = Gone
       THEN /\ BuildAt("done") /\ loaded' = NotLoaded
            /\ (loaded # NotLoaded /\ Commit) \/ UNCHANGED treeVars
       ELSE BuildAt("clean?") /\ UNCHANGED <<loaded, treeVars>>
    /\ UNCHANGED <<cache, claimVars, bad, watchVars, edits, ghostVars>>

\* 1. The cache, for a clean tree only.
CheckClean ==
    /\ build.at = "clean?"
    /\ BuildAt(IF disk = head THEN "cached?" ELSE "known?")
    /\ UNCHANGED <<treeVars, serveVars, claimVars, bad, watchVars, edits, ghostVars>>

LookUpCache ==
    /\ build.at = "cached?"
    /\ IF head \in DOMAIN cache
       THEN BuildAt("done") /\ loaded' = IF loaded.rev = head THEN loaded
                                         ELSE [rev |-> head, art |-> cache[head]]
       ELSE BuildAt("known?") /\ UNCHANGED loaded
    /\ UNCHANGED <<treeVars, cache, claimVars, bad, watchVars, edits, ghostVars>>

\* 2. A source that failed is not built again; any other forgets the failure.
CheckKnownBad ==
    /\ build.at = "known?"
    /\ IF disk = bad
       THEN BuildAt("done") /\ UNCHANGED bad
       ELSE build' = [build EXCEPT !.at = "compile", !.print = disk] /\ bad' = NoSource
    /\ UNCHANGED <<treeVars, serveVars, claimVars, watchVars, edits, ghostVars>>

\* A verdict is filed under tree t; `right' says whether it is t's own.
File(t, right) == misfiled' = IF right THEN misfiled ELSE misfiled \cup {t}

\* The source read at the start is remembered as failed.
Remember(right) == bad' = build.print /\ File(build.print, right) /\ BuildAt("done")

\* 3. cargo fails, or the wait for the fleet's lock was too long; it cannot be started,
\* or leaves no artifact, and nothing is remembered; or it builds what is on disk by now.
Compile ==
    /\ build.at = "compile"
    /\ \/ Remember(disk = build.print) /\ UNCHANGED errored
       \/ BuildAt("done") /\ errored' = TRUE /\ UNCHANGED <<bad, misfiled>>
       \/ /\ disk \in Sources \ Broken
          /\ build' = [build EXCEPT !.at = "same?", !.art = Artifact(disk)]
          /\ UNCHANGED <<bad, errored, misfiled>>
    /\ UNCHANGED <<treeVars, serveVars, claimVars, watchVars, edits, swallowed, crossed>>

\* 4. The bytes that are serving need no smoke test.
CheckSame ==
    /\ build.at = "same?"
    /\ LET serving == loaded.art = build.art
       IN  build' = [build EXCEPT !.at = IF serving THEN "commit" ELSE "smoke", !.same = serving]
    /\ UNCHANGED <<treeVars, serveVars, claimVars, bad, watchVars, edits, ghostVars>>

\* Mutant: what compiles is good enough.
SmokeSkipped(art) == TRUE
SmokeTest(art) == art \notin Crashing

\* 5 and 6. Is it a component, and does it run?
Smoke ==
    /\ build.at = "smoke"
    /\ IF SmokeTest(build.art) THEN BuildAt("commit") /\ UNCHANGED <<bad, misfiled>>
                               ELSE Remember(build.art = Artifact(build.print))
    /\ UNCHANGED <<treeVars, serveVars, claimVars, watchVars, edits, swallowed, crossed, errored>>

\* 7. Green: the source is committed (or cannot be) ...
Freeze ==
    /\ build.at = "commit"
    /\ BuildAt("file")
    /\ Commit \/ UNCHANGED treeVars
    /\ UNCHANGED <<serveVars, claimVars, bad, watchVars, edits, ghostVars>>

\* ... and the artifact is filed under HEAD's tree, write-once, and serves, whatever
\* HEAD has come to hold since cargo read the source.
Filed == IF head \in DOMAIN cache \cup {Gone} THEN cache
         ELSE [t \in DOMAIN cache \cup {head} |-> IF t = head THEN build.art ELSE cache[t]]

FileAndInstall ==
    /\ build.at = "file"
    /\ cache' = Filed
    /\ loaded' = IF build.same THEN loaded
                 ELSE [rev |-> IF head = Gone THEN NoSource ELSE head, art |-> build.art]
    /\ File(head, head = Gone \/ build.art = Artifact(head))
    /\ BuildAt("done")
    /\ UNCHANGED <<treeVars, claimVars, bad, watchVars, edits, swallowed, crossed, errored>>

\* Mutant: a build that ends keeps the aspect.
StaysClaimed == UNCHANGED claimed
Unclaim == claimed' = FALSE

\* BuildGuard::drop: the aspect is released, then whoever came meanwhile is owed
\* a build.
Release ==
    /\ build.at = "done"
    /\ Unclaim /\ dropping' = dropping + 1
    /\ build' = NoBuild
    /\ UNCHANGED <<treeVars, serveVars, event, followUp, wanted, bad, watchVars, edits,
                   ghostVars>>

SpawnFollowUp ==
    /\ dropping > 0
    /\ dropping' = dropping - 1
    /\ followUp' = IF wanted THEN followUp + 1 ELSE followUp
    /\ wanted' = FALSE
    /\ UNCHANGED <<treeVars, serveVars, event, claimed, bad, build, watchVars, edits, ghostVars>>

-----------------------------------------------------------------------------
(* The watchdog *)

\* A call into the component fails; the breaker counts, and trips.
GuestFails ==
    /\ loaded # NotLoaded /\ reset.at = "idle"
    /\ failures < Threshold \/ resets < MaxResets
    /\ failures' = IF failures < Threshold THEN failures + 1 ELSE failures
    /\ IF failures + 1 >= Threshold
       THEN resets < MaxResets /\ resets' = resets + 1 /\ reset' = [NoReset EXCEPT !.at = "search"]
       ELSE UNCHANGED <<resets, reset>>
    /\ UNCHANGED <<treeVars, serveVars, claimVars, bad, build, quietWatch, edits, ghostVars>>

\* A probe that passes clears it.
GuestHealthy ==
    /\ failures > 0 /\ reset.at = "idle"
    /\ failures' = 0
    /\ UNCHANGED <<treeVars, serveVars, claimVars, bad, build, reset, quietWatch, resets, edits,
                   ghostVars>>

\* The newest commit with a green artifact that is not the one serving.
Greens == {i \in DOMAIN hist : hist[i] \in DOMAIN cache /\ hist[i] # loaded.rev}
Newest(S) == CHOOSE i \in S : \A j \in S : j <= i

SearchGreen ==
    /\ reset.at = "search"
    /\ reset' = IF Greens = {} THEN NoReset
                ELSE [at |-> "sync", to |-> hist[Newest(Greens)]]
    /\ crossed' = IF Greens = {} THEN crossed ELSE claimed
    /\ UNCHANGED <<treeVars, serveVars, claimVars, bad, build, failures, quietWatch, resets, edits,
                   swallowed, errored, misfiled>>

\* The watcher would take the restore for an edit.
SyncToGreen ==
    /\ reset.at = "sync"
    /\ quietWatch' = TRUE
    /\ disk' = reset.to /\ event' = (event \/ disk # reset.to)
    /\ reset' = [reset EXCEPT !.at = "commit"]
    /\ UNCHANGED <<head, hist, serveVars, followUp, claimed, wanted, dropping, bad, build, failures, resets,
                   edits, ghostVars>>

CommitReset ==
    /\ reset.at = "commit"
    /\ Commit
    /\ reset' = [reset EXCEPT !.at = "install"]
    /\ UNCHANGED <<serveVars, claimVars, bad, build, failures, quietWatch, resets, edits, ghostVars>>

InstallGreen ==
    /\ reset.at = "install"
    /\ loaded' = [rev |-> reset.to, art |-> cache[reset.to]]
    /\ failures' = 0
    /\ reset' = NoReset
    /\ UNCHANGED <<treeVars, cache, claimVars, bad, build, quietWatch, resets, edits, ghostVars>>

\* watch_suppression runs out.
WatchAgain ==
    /\ quietWatch
    /\ quietWatch' = FALSE
    /\ UNCHANGED <<treeVars, serveVars, claimVars, bad, build, failures, reset, resets, edits, ghostVars>>

-----------------------------------------------------------------------------

PipelineInit ==
    /\ disk = First /\ head = First /\ hist = <<First>>
    /\ cache = [t \in {First} |-> First] /\ loaded = [rev |-> First, art |-> First]
    /\ event = FALSE /\ followUp = 0 /\ claimed = FALSE /\ wanted = FALSE /\ dropping = 0
    /\ bad = NoSource /\ build = NoBuild
    /\ failures = 0 /\ reset = NoReset /\ quietWatch = FALSE /\ resets = 0
    /\ edits = 0 /\ swallowed = FALSE /\ crossed = FALSE /\ errored = FALSE /\ misfiled = {}

Building ==
    \/ CheckGone \/ CheckClean \/ LookUpCache \/ CheckKnownBad \/ Compile \/ CheckSame \/ Smoke
    \/ Freeze \/ FileAndInstall \/ Release \/ SpawnFollowUp
Resetting == SearchGreen \/ SyncToGreen \/ CommitReset \/ InstallGreen

PipelineNext ==
    \/ \E s \in Trees : Edit(s)
    \/ Checkpoint \/ WatcherSees \/ FollowUpStarts \/ WatchAgain
    \/ Building \/ Resetting \/ GuestFails \/ GuestHealthy

PipelineSpec == PipelineInit /\ [][PipelineNext]_pipelineVars

-----------------------------------------------------------------------------
(* Properties *)

\* Every variable has its type; the build runs exactly while the aspect is claimed.
PipelineTypeOK ==
    /\ {disk, head} \subseteq Trees /\ hist \in Seq(Trees)
    /\ DOMAIN cache \subseteq Sources
    /\ bad \in Trees \cup {NoSource} /\ reset.to \in Sources \cup {NoSource}
    /\ followUp \in 0..(MaxEdits + MaxResets) /\ failures \in 0..Threshold
    /\ claimed <=> build.at # "idle"

\* Whatever serves, and whatever the cache will serve without asking again, has
\* passed its smoke test: a broken edit never goes live, also when it lands in
\* the middle of another build.
OnlyTestedServes ==
    /\ loaded.art \notin Crashing \cup Broken
    /\ \A t \in DOMAIN cache : cache[t] \notin Crashing \cup Broken

\* No change is forgotten: once everything is quiet, what serves is the artifact of the
\* tree on disk (nothing, when the tool was removed), or that tree is remembered as
\* failed. The ways the code has of leaving a change without its answer are exempt, one
\* by one: a suppressed watcher swallowed it; it ran into a restore of the watchdog's,
\* which takes no claim; its build ended in an error that is only logged; or another
\* source's verdict stands under its tree, because the source changed during a build.
Quiet == ~event /\ followUp = 0 /\ dropping = 0 /\ build.at = "idle" /\ reset.at = "idle"
NoChangeForgotten ==
    Quiet /\ ~swallowed /\ ~crossed /\ ~errored =>
        \/ disk \in misfiled \/ disk = bad
        \/ IF disk = Gone THEN loaded = NotLoaded ELSE loaded.art = Artifact(disk)
=============================================================================
