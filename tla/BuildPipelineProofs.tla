------------------------- MODULE BuildPipelineProofs -------------------------
(* Proofs about BuildPipeline, for every set of sources, every threshold and *)
(* every number of edits and resets.                                         *)
EXTENDS BuildPipeline, WellFoundedInduction, TLAPS

-----------------------------------------------------------------------------
(* The invariants *)

Stages == {"idle", "gone?", "clean?", "cached?", "known?", "compile", "same?", "smoke", "commit",
           "file", "done"}
Tested == {"commit", "file"}
Compiled == {"same?", "smoke"} \cup Tested
Resets == {"idle", "search"} \cup {"sync", "commit", "install"}

TreesOK == disk \in Trees /\ head \in Trees /\ hist \in Seq(Trees)
ServeOK ==
    /\ DOMAIN cache \subseteq Sources /\ cache \in [DOMAIN cache -> Sources]
    /\ loaded \in [rev: Sources \cup {NoSource}, art: Sources \cup {NoSource}]
ClaimOK ==
    /\ event \in BOOLEAN /\ claimed \in BOOLEAN /\ wanted \in BOOLEAN
    /\ followUp \in Nat /\ dropping \in Nat
BuildRec ==
    [at: Stages, print: Trees \cup {NoSource}, art: Sources \cup {NoSource}, same: BOOLEAN]
BuildOK ==
    /\ bad \in Trees \cup {NoSource}
    /\ build \in BuildRec
    /\ claimed <=> build.at # "idle"
WatchOK ==
    /\ failures \in 0..Threshold /\ resets \in 0..MaxResets /\ edits \in 0..MaxEdits
    /\ reset \in [at: Resets, to: Sources \cup {NoSource}]
    /\ Restoring => reset.to \in DOMAIN cache
    /\ quietWatch \in BOOLEAN /\ swallowed \in BOOLEAN /\ crossed \in BOOLEAN /\ errored \in BOOLEAN

\* Every rebuild owed, and every change the watcher has yet to see, is paid for by an
\* edit or by a reset: the queue of follow-ups is bounded.
One(b) == IF b THEN 1 ELSE 0
FollowUpsPaid ==
    followUp + One(wanted) + One(event) + One(reset.at \in {"search", "sync"}) <= edits + resets

PipelineTypes == TreesOK /\ ServeOK /\ ClaimOK /\ BuildOK /\ WatchOK

\* What a build carries past its gates has passed them.
GatesHeld ==
    /\ build.at \in Compiled => build.art \in Sources \ Broken
    /\ build.at \in Tested => build.art \notin Crashing

\* What is filed under a tree that is not misfiled is the tree's own artifact.
Ours(t) == t \notin misfiled
FiledRight ==
    /\ \A t \in DOMAIN cache : Ours(t) => cache[t] = Artifact(t)
    /\ loaded.rev # NoSource /\ Ours(loaded.rev) => loaded.art = Artifact(loaded.rev)

\* The pipeline has an answer for a tree.
AnsweredFor(t) ==
    \/ t \in misfiled \/ t = bad
    \/ IF t = Gone THEN loaded = NotLoaded ELSE loaded.art = Artifact(t)

\* Somebody will come to build again.
RebuildOwed == event \/ followUp > 0 \/ wanted
WantedIsHeard == wanted => claimed \/ dropping > 0

\* The build that runs will answer for the tree on disk; after it, there is an answer.
Covers ==
    /\ build.at \in {"idle", "done"} => AnsweredFor(disk)
    /\ build.at = "cached?" => disk = head
    /\ build.at = "compile" => build.print = disk
    /\ build.at \in Compiled => build.print = disk /\ disk # Gone /\ build.art = Artifact(disk)
    /\ build.at \in {"smoke"} \cup Tested /\ build.same => loaded.art = build.art
CoveredOrOwed == ~swallowed /\ ~crossed /\ ~errored /\ ~Restoring => RebuildOwed \/ Covers

\* A restore that nothing ran into finds no build and puts its own tree on disk.
RestoreAlone ==
    Restoring /\ ~crossed => ~claimed /\ (reset.at # "sync" => disk = reset.to)

AnswerInv == WantedIsHeard /\ CoveredOrOwed /\ RestoreAlone
PipelineInv ==
    PipelineTypes /\ FollowUpsPaid /\ GatesHeld /\ OnlyTestedServes /\ FiledRight /\ AnswerInv

-----------------------------------------------------------------------------
(* Facts about the operators *)

\* The kinds of source exclude each other.
LEMMA KindsOfSource ==
    /\ First \in Sources /\ Twin \in Sources /\ Gone \notin Sources /\ NoSource \notin Sources
    /\ First \notin Crashing \cup Broken /\ NoSource \notin Crashing \cup Broken
    /\ Gone # NoSource
BY PipelineAssumption DEF Sources

\* What a source that builds is built to is an artifact of a source that builds.
LEMMA ArtifactType ==
    ASSUME NEW s \in Sources \ Broken
    PROVE  Artifact(s) \in Sources \ Broken
BY KindsOfSource DEF Artifact

\* A set of numbers that is bounded and not empty has a largest.
LEMMA HasLargest ==
    ASSUME NEW n \in Nat, NEW T, T \subseteq 0..n, T # {}
    PROVE  \E i \in T : \A j \in T : j <= i
<1> DEFINE U == {n - i : i \in T}
           R == OpToRel(<, Nat)
<1>1. U \subseteq Nat /\ U # {}
  <2>1. \A i \in T : n - i \in Nat
    OBVIOUS
  <2>2. PICK i \in T : TRUE
    OBVIOUS
  <2>3. n - i \in U
    BY <2>2
  <2> QED BY <2>1, <2>3
<1>2. IsWellFoundedOn(R, Nat)
  BY NatLessThanWellFounded
<1>3. \A x, y \in Nat : <<y, x>> \in R <=> y < x
  BY DEF OpToRel
<1> HIDE DEF R, U
<1>4. PICK x \in U : \A y \in U : ~(<<y, x>> \in R)
  BY <1>1, <1>2, WFMin
<1>5. ASSUME NEW y \in U PROVE x <= y
  <2>1. x \in Nat /\ y \in Nat
    BY <1>1
  <2>2. ~(y < x)
    BY <1>3, <1>4, <2>1
  <2> QED BY <2>1, <2>2
<1>6. PICK i \in T : x = n - i
  BY DEF U
<1>7. ASSUME NEW j \in T PROVE j <= i
  <2>1. n - j \in U
    BY DEF U
  <2> QED BY <1>5, <1>6, <2>1
<1> QED BY <1>7

\* The commit the watchdog goes back to has a green artifact in the cache.
LEMMA NewestIsGreen ==
    ASSUME TreesOK, Greens # {}
    PROVE  hist[Newest(Greens)] \in DOMAIN cache
<1>1. Greens \subseteq 0..Len(hist) /\ Len(hist) \in Nat
  BY DEF TreesOK, Greens
<1>2. \E i \in Greens : \A j \in Greens : j <= i
  BY <1>1, HasLargest
<1>3. Newest(Greens) \in Greens
  BY <1>2 DEF Newest
<1> QED BY <1>3 DEF Greens

\* Committing keeps the trees' types, and leaves HEAD at what is on disk.
LEMMA CommitType == ASSUME TreesOK, Commit PROVE TreesOK' /\ head' = disk' /\ disk' = disk
BY DEF TreesOK, Commit

\* Filing adds at most HEAD to the cache, with the artifact just built.
LEMMA FiledType ==
    ASSUME TreesOK, ServeOK, build.art \in Sources
    PROVE  /\ DOMAIN Filed \subseteq Sources /\ Filed \in [DOMAIN Filed -> Sources]
           /\ DOMAIN cache \subseteq DOMAIN Filed
           /\ \A t \in DOMAIN Filed :
                  Filed[t] = build.art \/ (t \in DOMAIN cache /\ Filed[t] = cache[t])
<1>1. CASE head \in DOMAIN cache \cup {Gone}
  <2>1. Filed = cache
    BY <1>1 DEF Filed
  <2> QED BY <2>1 DEF ServeOK
<1>2. CASE head \notin DOMAIN cache \cup {Gone}
  <2>1. head \in Sources
    BY <1>2 DEF TreesOK, Trees
  <2>2. Filed = [t \in DOMAIN cache \cup {head} |-> IF t = head THEN build.art ELSE cache[t]]
    BY <1>2 DEF Filed
  <2>3. \A t \in DOMAIN cache : cache[t] \in Sources
    BY DEF ServeOK
  <2> QED BY <2>1, <2>2, <2>3 DEF ServeOK
<1> QED BY <1>1, <1>2

-----------------------------------------------------------------------------
(* Types *)

\* The types hold at the start.
LEMMA PipelineTypesInit == PipelineInit => PipelineTypes
<1> SUFFICES ASSUME PipelineInit PROVE PipelineTypes
  OBVIOUS
<1> USE PipelineAssumption, KindsOfSource DEF PipelineInit
<1>1. TreesOK
  <2>1. First \in Trees
    BY DEF Trees
  <2>2. <<First>> \in Seq(Trees)
    BY <2>1
  <2> QED BY <2>1, <2>2 DEF TreesOK
<1>2. ServeOK
  BY DEF ServeOK
<1>3. ClaimOK
  BY DEF ClaimOK
<1>4. BuildOK
  BY DEF BuildRec, BuildOK, NoBuild, Stages
<1>5. WatchOK
  <2>1. failures \in 0..Threshold /\ resets \in 0..MaxResets /\ edits \in 0..MaxEdits
    OBVIOUS
  <2>2. reset \in [at: Resets, to: Sources \cup {NoSource}] /\ ~Restoring
    BY DEF NoReset, Resets, Restoring
  <2> QED BY <2>1, <2>2 DEF WatchOK
<1> QED BY <1>1, <1>2, <1>3, <1>4, <1>5 DEF PipelineTypes

\* Claiming the aspect starts a build or tells the one that runs.
LEMMA ClaimType ==
    ASSUME ClaimOK, BuildOK, crossed \in BOOLEAN, errored \in BOOLEAN, Claim
    PROVE  /\ claimed' \in BOOLEAN /\ wanted' \in BOOLEAN /\ crossed' \in BOOLEAN
           /\ errored' \in BOOLEAN
           /\ build' \in BuildRec
           /\ claimed' <=> build'.at # "idle"
<1>1. CASE ~claimed
  <2>1. build' = [at |-> "gone?", print |-> NoSource, art |-> NoSource, same |-> FALSE]
    BY <1>1 DEF Claim, NoBuild
  <2> QED BY <1>1, <2>1 DEF Claim, ClaimOK, BuildRec, BuildOK, Stages
<1>2. CASE claimed
  BY <1>2 DEF Claim, RebuildWanted, ClaimOK, BuildOK
<1> QED BY <1>1, <1>2

\* A step of the build to another stage.
LEMMA BuildAtType ==
    ASSUME BuildOK, build.at # "idle", UNCHANGED claimed, NEW at \in Stages \ {"idle"}, BuildAt(at)
    PROVE  /\ build' \in BuildRec
           /\ claimed' <=> build'.at # "idle"
           /\ build'.at = at /\ build'.print = build.print /\ build'.art = build.art
BY DEF BuildRec, BuildOK, BuildAt

\* The groups of variables a step leaves alone keep their types.
LEMMA TypesFrame ==
    ASSUME PipelineTypes
    PROVE  /\ UNCHANGED treeVars => TreesOK'
           /\ UNCHANGED serveVars => ServeOK'
           /\ UNCHANGED claimVars => ClaimOK'
           /\ UNCHANGED <<claimed, bad, build>> => BuildOK'
           /\ UNCHANGED <<serveVars, watchVars, edits, ghostVars>> => WatchOK'
<1>1. UNCHANGED treeVars => TreesOK'
  BY DEF PipelineTypes, TreesOK, treeVars
<1>2. UNCHANGED serveVars => ServeOK'
  BY DEF PipelineTypes, ServeOK, serveVars
<1>3. UNCHANGED claimVars => ClaimOK'
  BY DEF PipelineTypes, ClaimOK, claimVars
<1>4. UNCHANGED <<claimed, bad, build>> => BuildOK'
  BY DEF PipelineTypes, BuildOK
<1>5. UNCHANGED <<serveVars, watchVars, edits, ghostVars>> => WatchOK'
  BY DEF PipelineTypes, WatchOK, Restoring, serveVars, watchVars, ghostVars
<1> QED BY <1>1, <1>2, <1>3, <1>4, <1>5

\* Every step keeps the types.
LEMMA PipelineTypesStep ==
    PipelineTypes /\ GatesHeld /\ [PipelineNext]_pipelineVars => PipelineTypes'
<1> SUFFICES ASSUME PipelineTypes, GatesHeld, [PipelineNext]_pipelineVars PROVE PipelineTypes'
  OBVIOUS
<1> USE PipelineAssumption, KindsOfSource, TypesFrame DEF ghostVars
<1>0. TreesOK /\ ServeOK /\ ClaimOK /\ BuildOK /\ WatchOK /\ crossed \in BOOLEAN /\ errored \in BOOLEAN
  BY DEF PipelineTypes, WatchOK
<1>1. ASSUME NEW s \in Trees, Edit(s) PROVE PipelineTypes'
  <2>1. TreesOK'
    BY <1>0, <1>1 DEF Edit, TreesOK
  <2>2. ServeOK' /\ BuildOK'
    BY <1>1 DEF Edit
  <2>3. ClaimOK'
    BY <1>0, <1>1 DEF Edit, ClaimOK
  <2>4. edits' \in 0..MaxEdits
    BY <1>0, <1>1 DEF Edit, WatchOK
  <2>5. crossed' \in BOOLEAN
    BY <1>0, <1>1 DEF Edit, Restoring
  <2>6. WatchOK'
    BY <1>0, <1>1, <2>4, <2>5 DEF Edit, WatchOK, Restoring, serveVars, watchVars
  <2> QED BY <2>1, <2>2, <2>3, <2>6 DEF PipelineTypes
<1>2. CASE Checkpoint
  <2>1. TreesOK'
    BY <1>0, <1>2, CommitType DEF Checkpoint
  <2>2. BuildOK'
    BY <1>2 DEF Checkpoint, claimVars
  <2> QED BY <1>2, <2>1, <2>2 DEF Checkpoint, PipelineTypes
<1>3. ASSUME Claim, UNCHANGED <<treeVars, serveVars, dropping, bad, watchVars, edits, swallowed, misfiled>>,
             event' \in BOOLEAN, followUp' \in Nat
      PROVE  PipelineTypes'
  <2>1. TreesOK' /\ ServeOK'
    BY <1>3
  <2>2. ClaimOK' /\ BuildOK'
    BY <1>0, <1>3, ClaimType DEF ClaimOK, BuildOK
  <2>3. crossed' \in BOOLEAN /\ errored' \in BOOLEAN
    BY <1>0, <1>3, ClaimType
  <2>4. WatchOK'
    BY <1>0, <1>3, <2>3 DEF WatchOK, Restoring, serveVars, watchVars
  <2> QED BY <2>1, <2>2, <2>4 DEF PipelineTypes
<1>4. CASE WatcherSees
  <2>1. CASE quietWatch
    <3>1. TreesOK' /\ ServeOK' /\ BuildOK'
      BY <1>4, <2>1 DEF WatcherSees
    <3>2. ClaimOK'
      BY <1>0, <1>4, <2>1 DEF WatcherSees, ClaimOK
    <3>3. WatchOK'
      BY <1>0, <1>4, <2>1 DEF WatcherSees, WatchOK, Restoring, serveVars, watchVars
    <3> QED BY <3>1, <3>2, <3>3 DEF PipelineTypes
  <2>2. CASE ~quietWatch
    BY <1>0, <1>3, <1>4, <2>2 DEF WatcherSees, ClaimOK
  <2> QED BY <2>1, <2>2
<1>5. CASE FollowUpStarts
  BY <1>0, <1>3, <1>5 DEF FollowUpStarts, ClaimOK
<1>6. CASE WatchAgain
  <2>1. TreesOK' /\ ServeOK' /\ ClaimOK' /\ BuildOK'
    BY <1>6 DEF WatchAgain, claimVars
  <2>2. WatchOK'
    BY <1>0, <1>6 DEF WatchAgain, WatchOK, Restoring, serveVars
  <2> QED BY <2>1, <2>2 DEF PipelineTypes
<1>7. ASSUME ServeOK', DOMAIN cache \subseteq DOMAIN cache', BuildOK', TreesOK',
             UNCHANGED <<claimVars, watchVars, edits, swallowed, crossed>>, errored' \in {errored, TRUE}
      PROVE  PipelineTypes'
  <2>1. ClaimOK'
    BY <1>7
  <2>2. WatchOK'
    BY <1>0, <1>7 DEF WatchOK, Restoring, watchVars
  <2> QED BY <1>7, <2>1, <2>2 DEF PipelineTypes
<1>8. ASSUME NEW at \in Stages \ {"idle"}, BuildAt(at), build.at # "idle", UNCHANGED claimed,
             bad' \in Trees \cup {NoSource}
      PROVE  BuildOK'
  BY <1>0, <1>8, BuildAtType DEF BuildRec, BuildOK
<1> USE <1>7
<1> USE DEF Stages
<1>9. CASE CheckGone
  <2>1. TreesOK'
    BY <1>0, <1>9, CommitType DEF CheckGone
  <2>2. ServeOK' /\ cache' = cache
    BY <1>0, <1>9 DEF CheckGone, ServeOK, NotLoaded
  <2>3. BuildOK'
    BY <1>0, <1>8, <1>9 DEF CheckGone, BuildOK, claimVars
  <2> QED BY <1>9, <2>1, <2>2, <2>3 DEF CheckGone
<1>10. CASE CheckClean
  <2>1. BuildOK'
    BY <1>0, <1>8, <1>10 DEF CheckClean, BuildOK, claimVars
  <2> QED BY <1>10, <2>1 DEF CheckClean, serveVars
<1>11. CASE LookUpCache
  <2>1. ServeOK' /\ cache' = cache
    BY <1>0, <1>11 DEF LookUpCache, ServeOK
  <2>2. BuildOK'
    BY <1>0, <1>8, <1>11 DEF LookUpCache, BuildOK, claimVars
  <2> QED BY <1>11, <2>1, <2>2 DEF LookUpCache
<1>12. CASE CheckKnownBad
  <2>1. BuildOK'
    <3>1. CASE disk = bad
      BY <1>0, <1>8, <1>12, <3>1 DEF CheckKnownBad, BuildOK, claimVars
    <3>2. CASE disk # bad
      <4>1. build' = [build EXCEPT !.at = "compile", !.print = disk] /\ bad' = NoSource
            /\ build.at = "known?" /\ UNCHANGED claimed
        BY <1>12, <3>2 DEF CheckKnownBad, claimVars
      <4> QED BY <1>0, <4>1 DEF BuildRec, BuildOK, TreesOK
    <3> QED BY <3>1, <3>2
  <2> QED BY <1>12, <2>1 DEF CheckKnownBad, serveVars
<1>13. ASSUME NEW right, Remember(right), build.at # "idle", UNCHANGED claimed PROVE BuildOK'
  <2>1. build.print \in Trees \cup {NoSource}
    BY <1>0 DEF BuildRec, BuildOK
  <2> QED BY <1>8, <1>13, <2>1 DEF Remember
<1>14. CASE Compile
  <2>1. BuildOK'
    <3>1. CASE Remember(disk = build.print)
      BY <1>13, <1>14, <3>1 DEF Compile, claimVars
    <3>3. CASE BuildAt("done") /\ UNCHANGED bad
      BY <1>0, <1>8, <1>14, <3>3 DEF Compile, BuildOK, claimVars
    <3>2. CASE disk \in Sources \ Broken /\ UNCHANGED bad
               /\ build' = [build EXCEPT !.at = "same?", !.art = Artifact(disk)]
      <4>1. Artifact(disk) \in Sources
        BY <3>2, ArtifactType
      <4>2. build.at = "compile" /\ UNCHANGED claimed
        BY <1>14 DEF Compile, claimVars
      <4> QED BY <1>0, <3>2, <4>1, <4>2 DEF BuildRec, BuildOK
    <3> QED BY <1>14, <3>1, <3>2, <3>3 DEF Compile
  <2>2. errored' \in {errored, TRUE}
    BY <1>14 DEF Compile
  <2> QED BY <1>0, <1>14, <2>1, <2>2 DEF Compile, serveVars
<1>15. CASE CheckSame
  <2>1. BuildOK'
    <3>1. CASE loaded.art = build.art
      BY <1>0, <1>15, <3>1 DEF CheckSame, BuildRec, BuildOK, claimVars
    <3>2. CASE loaded.art # build.art
      BY <1>0, <1>15, <3>2 DEF CheckSame, BuildRec, BuildOK, claimVars
    <3> QED BY <3>1, <3>2
  <2> QED BY <1>15, <2>1 DEF CheckSame, serveVars
<1>16. CASE Smoke
  <2>1. BuildOK'
    <3>1. CASE SmokeTest(build.art)
      BY <1>0, <1>8, <1>16, <3>1 DEF Smoke, BuildOK, claimVars
    <3>2. CASE ~SmokeTest(build.art)
      BY <1>13, <1>16, <3>2 DEF Smoke, claimVars
    <3> QED BY <3>1, <3>2
  <2> QED BY <1>16, <2>1 DEF Smoke, serveVars
<1>17. CASE Freeze
  <2>1. TreesOK'
    BY <1>0, <1>17, CommitType DEF Freeze
  <2>2. BuildOK'
    BY <1>0, <1>8, <1>17 DEF Freeze, BuildOK, claimVars
  <2> QED BY <1>17, <2>1, <2>2 DEF Freeze, serveVars
<1>18. CASE FileAndInstall
  <2>1. build.art \in Sources
    BY <1>18 DEF FileAndInstall, GatesHeld, Compiled, Tested
  <2>2. /\ DOMAIN cache' \subseteq Sources /\ cache' \in [DOMAIN cache' -> Sources]
        /\ DOMAIN cache \subseteq DOMAIN cache'
    BY <1>0, <1>18, <2>1, FiledType DEF FileAndInstall
  <2>3. loaded' \in [rev: Sources \cup {NoSource}, art: Sources \cup {NoSource}]
    BY <1>0, <1>18, <2>1 DEF FileAndInstall, ServeOK, TreesOK, Trees
  <2>4. BuildOK'
    BY <1>0, <1>8, <1>18 DEF FileAndInstall, BuildOK, claimVars
  <2> QED BY <1>18, <2>2, <2>3, <2>4 DEF FileAndInstall, ServeOK
<1>19. CASE Release
  <2>1. TreesOK' /\ ServeOK' /\ WatchOK'
    BY <1>19 DEF Release
  <2>2. ClaimOK'
    <3>1. dropping' \in Nat
      BY <1>0, <1>19 DEF Release, ClaimOK
    <3>2. claimed' = FALSE /\ UNCHANGED <<event, followUp, wanted>>
      BY <1>19 DEF Release, Unclaim
    <3> QED BY <1>0, <3>1, <3>2 DEF ClaimOK
  <2>3. BuildOK'
    BY <1>0, <1>19 DEF Release, Unclaim, BuildRec, BuildOK, NoBuild, Stages
  <2> QED BY <2>1, <2>2, <2>3 DEF PipelineTypes
<1>20. CASE SpawnFollowUp
  <2>1. TreesOK' /\ ServeOK' /\ WatchOK' /\ BuildOK'
    BY <1>20 DEF SpawnFollowUp
  <2>2. ClaimOK'
    <3>1. dropping' \in Nat /\ followUp' \in Nat
      BY <1>0, <1>20 DEF SpawnFollowUp, ClaimOK
    <3>2. wanted' = FALSE /\ UNCHANGED <<event, claimed>>
      BY <1>20 DEF SpawnFollowUp
    <3> QED BY <1>0, <3>1, <3>2 DEF ClaimOK
  <2> QED BY <2>1, <2>2 DEF PipelineTypes
<1>21. CASE GuestFails
  <2>1. TreesOK' /\ ServeOK' /\ ClaimOK' /\ BuildOK'
    BY <1>21 DEF GuestFails, claimVars
  <2>2. failures' \in 0..Threshold
    <3>1. failures \in 0..Threshold
      BY <1>0 DEF WatchOK
    <3>2. failures' = IF failures < Threshold THEN failures + 1 ELSE failures
      BY <1>21 DEF GuestFails
    <3> QED BY <3>1, <3>2
  <2>3. resets' \in 0..MaxResets
    <3>1. resets \in 0..MaxResets
      BY <1>0 DEF WatchOK
    <3>2. resets' = resets \/ (resets < MaxResets /\ resets' = resets + 1)
      BY <1>21 DEF GuestFails
    <3> QED BY <3>1, <3>2
  <2>4. reset' \in [at: Resets, to: Sources \cup {NoSource}] /\ ~Restoring'
    <3>1. reset' = reset \/ reset' = [at |-> "search", to |-> NoSource]
      BY <1>21 DEF GuestFails, NoReset
    <3> QED BY <1>0, <1>21, <3>1 DEF GuestFails, WatchOK, Resets, Restoring
  <2>5. UNCHANGED <<cache, edits, quietWatch, swallowed, crossed, errored>>
    BY <1>21 DEF GuestFails, serveVars
  <2>6. WatchOK'
    BY <1>0, <2>2, <2>3, <2>4, <2>5 DEF WatchOK
  <2> QED BY <2>1, <2>6 DEF PipelineTypes
<1>22. CASE GuestHealthy
  <2>1. TreesOK' /\ ServeOK' /\ ClaimOK' /\ BuildOK'
    BY <1>22 DEF GuestHealthy, claimVars
  <2>2. failures' \in 0..Threshold
    BY <1>22 DEF GuestHealthy
  <2>3. WatchOK'
    BY <1>0, <1>22, <2>2 DEF GuestHealthy, WatchOK, Restoring, serveVars
  <2> QED BY <2>1, <2>3 DEF PipelineTypes
<1>23. CASE SearchGreen
  <2>1. TreesOK' /\ ServeOK' /\ ClaimOK' /\ BuildOK'
    BY <1>23 DEF SearchGreen, claimVars
  <2>2. crossed' \in BOOLEAN
    BY <1>0, <1>23 DEF SearchGreen, ClaimOK
  <2>3. reset' \in [at: Resets, to: Sources \cup {NoSource}] /\ (Restoring' => reset'.to \in DOMAIN cache)
    <3>1. CASE Greens = {}
      BY <1>23, <3>1 DEF SearchGreen, NoReset, Resets, Restoring
    <3>2. CASE Greens # {}
      <4>1. hist[Newest(Greens)] \in DOMAIN cache
        BY <1>0, <3>2, NewestIsGreen
      <4> QED BY <1>0, <1>23, <3>2, <4>1 DEF SearchGreen, ServeOK, Resets, Restoring
    <3> QED BY <3>1, <3>2
  <2>4. WatchOK'
    BY <1>0, <1>23, <2>2, <2>3 DEF SearchGreen, WatchOK, serveVars
  <2> QED BY <2>1, <2>4 DEF PipelineTypes
<1>24. CASE SyncToGreen
  <2>1. reset.at = "sync" /\ reset.to \in DOMAIN cache
    BY <1>0, <1>24 DEF SyncToGreen, WatchOK, Restoring
  <2>2. TreesOK'
    BY <1>0, <1>24, <2>1 DEF SyncToGreen, TreesOK, ServeOK, Trees
  <2>3. ServeOK' /\ BuildOK'
    BY <1>24 DEF SyncToGreen
  <2>4. ClaimOK'
    BY <1>0, <1>24 DEF SyncToGreen, ClaimOK
  <2>5. reset' \in [at: Resets, to: Sources \cup {NoSource}] /\ reset'.to = reset.to
    BY <1>0, <1>24 DEF SyncToGreen, WatchOK, Resets
  <2>6. WatchOK'
    BY <1>0, <1>24, <2>1, <2>5 DEF SyncToGreen, WatchOK, serveVars
  <2> QED BY <2>2, <2>3, <2>4, <2>6 DEF PipelineTypes
<1>25. CASE CommitReset
  <2>1. reset.at = "commit" /\ reset.to \in DOMAIN cache
    BY <1>0, <1>25 DEF CommitReset, WatchOK, Restoring
  <2>2. TreesOK'
    BY <1>0, <1>25, CommitType DEF CommitReset
  <2>3. ServeOK' /\ BuildOK' /\ ClaimOK'
    BY <1>25 DEF CommitReset, claimVars
  <2>4. reset' \in [at: Resets, to: Sources \cup {NoSource}] /\ reset'.to = reset.to
    BY <1>0, <1>25 DEF CommitReset, WatchOK, Resets
  <2>5. WatchOK'
    BY <1>0, <1>25, <2>1, <2>4 DEF CommitReset, WatchOK, serveVars
  <2> QED BY <2>2, <2>3, <2>5 DEF PipelineTypes
<1>26. CASE InstallGreen
  <2>1. reset.to \in DOMAIN cache
    BY <1>0, <1>26 DEF InstallGreen, WatchOK, Restoring
  <2>2. TreesOK' /\ BuildOK' /\ ClaimOK'
    BY <1>26 DEF InstallGreen, claimVars
  <2>3. ServeOK'
    <3>1. cache[reset.to] \in Sources /\ reset.to \in Sources
      BY <1>0, <2>1 DEF ServeOK
    <3> QED BY <1>0, <1>26, <3>1 DEF InstallGreen, ServeOK
  <2>4. reset' \in [at: Resets, to: Sources \cup {NoSource}] /\ ~Restoring'
    BY <1>26 DEF InstallGreen, NoReset, Resets, Restoring
  <2>5. failures' \in 0..Threshold
    BY <1>26 DEF InstallGreen
  <2>6. WatchOK'
    BY <1>0, <1>26, <2>4, <2>5 DEF InstallGreen, WatchOK
  <2> QED BY <2>2, <2>3, <2>6 DEF PipelineTypes
<1>27. CASE UNCHANGED pipelineVars
  BY <1>27 DEF pipelineVars, claimVars, PipelineTypes
<1> QED
  BY <1>1, <1>2, <1>4, <1>5, <1>6, <1>9, <1>10, <1>11, <1>12, <1>14, <1>15, <1>16, <1>17, <1>18,
     <1>19, <1>20, <1>21, <1>22, <1>23, <1>24, <1>25, <1>26, <1>27
     DEF PipelineNext, Building, Resetting

-----------------------------------------------------------------------------
(* Only what was tested serves *)

\* What serves at the start is green.
LEMMA GatesInit == PipelineInit => GatesHeld /\ OnlyTestedServes
BY KindsOfSource DEF PipelineInit, NoBuild, GatesHeld, Compiled, Tested, OnlyTestedServes

\* Every step keeps the gates closed to what has not passed them.
LEMMA GatesStep ==
    PipelineTypes /\ GatesHeld /\ OnlyTestedServes /\ [PipelineNext]_pipelineVars
        => GatesHeld' /\ OnlyTestedServes'
<1> SUFFICES ASSUME PipelineTypes, GatesHeld, OnlyTestedServes, [PipelineNext]_pipelineVars
             PROVE  GatesHeld' /\ OnlyTestedServes'
  OBVIOUS
<1> USE DEF serveVars
<1>0. TreesOK /\ ServeOK /\ BuildOK /\ WatchOK
  BY DEF PipelineTypes
<1>1. ASSUME UNCHANGED build PROVE GatesHeld'
  BY <1>1 DEF GatesHeld
<1>2. ASSUME UNCHANGED serveVars PROVE OnlyTestedServes'
  BY <1>2 DEF OnlyTestedServes
<1>3. ASSUME build' \in {NoBuild, [NoBuild EXCEPT !.at = "gone?"]} PROVE GatesHeld'
  <2>1. build'.at \in {"idle", "gone?"}
    BY <1>3 DEF NoBuild
  <2> QED BY <2>1 DEF GatesHeld, Compiled, Tested
<1>4. ASSUME NEW at, BuildAt(at), at \in Compiled => build.at \in Compiled,
             at \in Tested => build.art \notin Crashing
      PROVE  GatesHeld'
  <2>1. build'.at = at /\ build'.art = build.art
    BY <1>0, <1>4 DEF BuildAt, BuildOK
  <2> QED BY <1>4, <2>1 DEF GatesHeld
<1>5. ASSUME Claim PROVE GatesHeld'
  BY <1>1, <1>3, <1>5 DEF Claim
<1>6. CASE (\E s \in Trees : Edit(s)) \/ Checkpoint \/ WatchAgain
  BY <1>1, <1>2, <1>6 DEF Edit, Checkpoint, WatchAgain
<1>7. CASE WatcherSees \/ FollowUpStarts
  BY <1>1, <1>2, <1>5, <1>7 DEF WatcherSees, FollowUpStarts
<1>8. CASE CheckGone
  <2>1. GatesHeld'
    BY <1>4, <1>8 DEF CheckGone, Compiled, Tested
  <2>2. OnlyTestedServes'
    BY <1>8, KindsOfSource DEF CheckGone, NotLoaded, OnlyTestedServes
  <2> QED BY <2>1, <2>2
<1>9. CASE CheckClean
  BY <1>2, <1>4, <1>9 DEF CheckClean, Compiled, Tested
<1>10. CASE LookUpCache
  <2>1. GatesHeld'
    BY <1>4, <1>10 DEF LookUpCache, Compiled, Tested
  <2>2. OnlyTestedServes'
    BY <1>10 DEF LookUpCache, OnlyTestedServes
  <2> QED BY <2>1, <2>2
<1>11. CASE CheckKnownBad
  <2>1. CASE disk = bad
    BY <1>2, <1>4, <1>11, <2>1 DEF CheckKnownBad, Compiled, Tested
  <2>2. CASE disk # bad
    <3>1. build'.at = "compile"
      BY <1>0, <1>11, <2>2 DEF CheckKnownBad, BuildRec, BuildOK
    <3> QED BY <1>2, <1>11, <3>1 DEF CheckKnownBad, GatesHeld, Compiled, Tested
  <2> QED BY <2>1, <2>2
<1>12. CASE Compile
  <2>1. GatesHeld'
    <3>1. CASE Remember(disk = build.print) \/ BuildAt("done")
      BY <1>4, <3>1 DEF Remember, Compiled, Tested
    <3>2. CASE disk \in Sources \ Broken /\ build' = [build EXCEPT !.at = "same?", !.art = Artifact(disk)]
      <4>1. build'.at = "same?" /\ build'.art = Artifact(disk)
        BY <1>0, <3>2 DEF BuildRec, BuildOK
      <4>2. Artifact(disk) \in Sources \ Broken
        BY <3>2, ArtifactType
      <4> QED BY <4>1, <4>2 DEF GatesHeld, Tested
    <3> QED BY <1>12, <3>1, <3>2 DEF Compile
  <2> QED BY <1>2, <1>12, <2>1 DEF Compile
<1>13. CASE CheckSame
  <2>1. loaded.art = build.art => build.art \notin Crashing
    BY DEF OnlyTestedServes
  <2>2. GatesHeld'
    <3>1. build'.art = build.art /\ build'.at \in {"commit", "smoke"}
          /\ (build'.at = "commit" => loaded.art = build.art)
      BY <1>0, <1>13 DEF CheckSame, BuildRec, BuildOK
    <3>2. build.art \in Sources \ Broken
      BY <1>13 DEF CheckSame, GatesHeld, Compiled
    <3> QED BY <2>1, <3>1, <3>2 DEF GatesHeld, Tested
  <2> QED BY <1>2, <1>13, <2>2 DEF CheckSame
<1>14. CASE Smoke
  <2>1. GatesHeld'
    BY <1>4, <1>14 DEF Smoke, SmokeTest, Remember, Compiled, Tested
  <2> QED BY <1>2, <1>14, <2>1 DEF Smoke
<1>15. CASE Freeze
  <2>1. build.art \notin Crashing
    BY <1>15 DEF Freeze, GatesHeld, Tested
  <2> QED BY <1>2, <1>4, <1>15, <2>1 DEF Freeze, Compiled, Tested
<1>16. CASE FileAndInstall
  <2>1. build.art \in Sources \ (Crashing \cup Broken)
    BY <1>16 DEF FileAndInstall, GatesHeld, Compiled, Tested
  <2>2. GatesHeld'
    BY <1>4, <1>16 DEF FileAndInstall, Compiled, Tested
  <2>3. loaded'.art \notin Crashing \cup Broken
    BY <1>16, <2>1 DEF FileAndInstall, OnlyTestedServes
  <2>4. \A t \in DOMAIN cache' : cache'[t] \notin Crashing \cup Broken
    <3>1. \A t \in DOMAIN cache' :
              cache'[t] = build.art \/ (t \in DOMAIN cache /\ cache'[t] = cache[t])
      BY <1>0, <1>16, <2>1, FiledType DEF FileAndInstall
    <3> QED BY <2>1, <3>1 DEF OnlyTestedServes
  <2> QED BY <2>2, <2>3, <2>4 DEF OnlyTestedServes
<1>17. CASE Release \/ SpawnFollowUp
  BY <1>1, <1>2, <1>3, <1>17 DEF Release, SpawnFollowUp
<1>18. CASE GuestFails \/ GuestHealthy \/ SearchGreen \/ SyncToGreen \/ CommitReset
  BY <1>1, <1>2, <1>18 DEF GuestFails, GuestHealthy, SearchGreen, SyncToGreen, CommitReset
<1>19. CASE InstallGreen
  <2>1. reset.to \in DOMAIN cache
    BY <1>0, <1>19 DEF InstallGreen, WatchOK, Restoring
  <2>2. OnlyTestedServes'
    BY <1>19, <2>1 DEF InstallGreen, OnlyTestedServes
  <2> QED BY <1>1, <1>19, <2>2 DEF InstallGreen
<1>20. CASE UNCHANGED pipelineVars
  BY <1>1, <1>2, <1>20 DEF pipelineVars
<1> QED
  BY <1>6, <1>7, <1>8, <1>9, <1>10, <1>11, <1>12, <1>13, <1>14, <1>15, <1>16, <1>17, <1>18, <1>19, <1>20
     DEF PipelineNext, Building, Resetting

\* A broken edit never goes live: whatever serves, or could be served from the cache
\* without asking again, has passed its smoke test, wherever edits, checkpoints and
\* resets fall between the steps of a build.
THEOREM OnlyGreenServes == PipelineSpec => []OnlyTestedServes
<1>1. PipelineInit => PipelineTypes /\ GatesHeld /\ OnlyTestedServes
  BY PipelineTypesInit, GatesInit
<1>2. PipelineTypes /\ GatesHeld /\ OnlyTestedServes /\ [PipelineNext]_pipelineVars
          => (PipelineTypes /\ GatesHeld /\ OnlyTestedServes)'
  BY PipelineTypesStep, GatesStep
<1> QED BY <1>1, <1>2, PTL DEF PipelineSpec

-----------------------------------------------------------------------------
(* The follow-ups are bounded *)

\* Every step keeps the account of rebuilds owed.
LEMMA PaidStep ==
    PipelineTypes /\ FollowUpsPaid /\ [PipelineNext]_pipelineVars => FollowUpsPaid'
<1> SUFFICES ASSUME PipelineTypes, FollowUpsPaid, [PipelineNext]_pipelineVars PROVE FollowUpsPaid'
  OBVIOUS
<1> USE DEF claimVars, watchVars
<1>0. /\ followUp \in Nat /\ edits \in Nat /\ resets \in Nat
      /\ wanted \in BOOLEAN /\ event \in BOOLEAN
  BY PipelineAssumption DEF PipelineTypes, ClaimOK, WatchOK
<1>1. ASSUME UNCHANGED <<followUp, wanted, event, reset, edits, resets>> PROVE FollowUpsPaid'
  BY <1>1 DEF FollowUpsPaid, One
<1>2. ASSUME NEW s \in Trees, Edit(s) PROVE FollowUpsPaid'
  BY <1>0, <1>2 DEF Edit, FollowUpsPaid, One
<1>3. CASE WatcherSees
  <2>1. /\ event /\ ~event' /\ UNCHANGED <<followUp, reset, edits, resets>>
    BY <1>3 DEF WatcherSees
  <2> QED BY <1>0, <2>1 DEF FollowUpsPaid, One
<1>4. CASE FollowUpStarts
  <2>1. /\ followUp > 0 /\ followUp' = followUp - 1 /\ UNCHANGED <<event, reset, edits, resets>>
    BY <1>4 DEF FollowUpStarts
  <2>2. wanted' = wanted \/ wanted' = TRUE
    BY <1>4 DEF FollowUpStarts, Claim, RebuildWanted
  <2> QED BY <1>0, <2>1, <2>2 DEF FollowUpsPaid, One
<1>5. CASE SpawnFollowUp
  BY <1>0, <1>5 DEF SpawnFollowUp, FollowUpsPaid, One
<1>6. CASE GuestFails
  <2>1. /\ UNCHANGED <<followUp, wanted, event, edits>> /\ reset.at = "idle"
        /\ (resets' = resets /\ reset' = reset) \/ resets' = resets + 1
    BY <1>6 DEF GuestFails
  <2> QED BY <1>0, <2>1 DEF FollowUpsPaid, One
<1>7. CASE SearchGreen
  BY <1>0, <1>7 DEF SearchGreen, FollowUpsPaid, One
<1>8. CASE SyncToGreen
  <2>1. /\ UNCHANGED <<followUp, wanted, edits, resets>> /\ reset.at = "sync"
        /\ reset'.at = "commit"
    BY <1>8 DEF SyncToGreen, PipelineTypes, WatchOK
  <2> QED BY <1>0, <2>1 DEF FollowUpsPaid, One
<1>9. CASE CommitReset \/ InstallGreen
  <2>1. UNCHANGED <<followUp, wanted, event, edits, resets>> /\ reset'.at \in {"install", "idle"}
    BY <1>9 DEF CommitReset, InstallGreen, NoReset, PipelineTypes, WatchOK
  <2> QED BY <1>0, <2>1 DEF FollowUpsPaid, One
<1>10. CASE Checkpoint \/ WatchAgain \/ GuestHealthy \/ CheckGone \/ CheckClean \/ LookUpCache
            \/ CheckKnownBad
  BY <1>1, <1>10 DEF Checkpoint, WatchAgain, GuestHealthy, CheckGone, CheckClean, LookUpCache,
                     CheckKnownBad
<1>11. CASE Compile \/ CheckSame \/ Smoke \/ Freeze \/ FileAndInstall \/ Release
  BY <1>1, <1>11 DEF Compile, CheckSame, Smoke, Freeze, FileAndInstall, Release
<1>12. CASE UNCHANGED pipelineVars
  BY <1>1, <1>12 DEF pipelineVars
<1> QED
  BY <1>2, <1>3, <1>4, <1>5, <1>6, <1>7, <1>8, <1>9, <1>10, <1>11, <1>12
     DEF PipelineNext, Building, Resetting

\* Every variable of the pipeline has its type, the aspect is claimed exactly while a
\* build runs, and no more rebuilds are queued than edits and resets account for.
THEOREM PipelineTyped == PipelineSpec => []PipelineTypeOK
<1>1. PipelineInit => PipelineTypes /\ GatesHeld /\ OnlyTestedServes /\ FollowUpsPaid
  <2>1. PipelineInit => FollowUpsPaid
    BY DEF PipelineInit, NoReset, FollowUpsPaid, One
  <2> QED BY <2>1, PipelineTypesInit, GatesInit
<1>2. PipelineTypes /\ GatesHeld /\ OnlyTestedServes /\ FollowUpsPaid /\ [PipelineNext]_pipelineVars
          => (PipelineTypes /\ GatesHeld /\ OnlyTestedServes /\ FollowUpsPaid)'
  BY PipelineTypesStep, GatesStep, PaidStep
<1>3. PipelineTypes /\ FollowUpsPaid => PipelineTypeOK
  <2> SUFFICES ASSUME PipelineTypes, FollowUpsPaid PROVE PipelineTypeOK
    OBVIOUS
  <2>1. /\ followUp \in Nat /\ edits \in 0..MaxEdits /\ resets \in 0..MaxResets
    BY DEF PipelineTypes, ClaimOK, WatchOK
  <2>2. followUp <= edits + resets
    BY <2>1, PipelineAssumption DEF FollowUpsPaid, One
  <2>3. followUp \in 0..(MaxEdits + MaxResets)
    BY <2>1, <2>2, PipelineAssumption
  <2> QED BY <2>3 DEF PipelineTypes, TreesOK, ServeOK, BuildOK, WatchOK, PipelineTypeOK
<1> QED BY <1>1, <1>2, <1>3, PTL DEF PipelineSpec

-----------------------------------------------------------------------------
(* What is filed under a tree is its own, unless the tree is misfiled *)

\* A step that leaves the cache and the loader alone leaves what is filed alone.
LEMMA FiledFrame ==
    ASSUME FiledRight, UNCHANGED <<cache, loaded>>, misfiled \subseteq misfiled'
    PROVE  FiledRight'
BY DEF FiledRight, Ours

\* At the start the cache holds the artifact of the checkout's tree.
LEMMA FiledInit == PipelineInit => FiledRight
BY KindsOfSource DEF PipelineInit, FiledRight, Ours, Artifact

\* Every step keeps apart what is a tree's own and what is not.
LEMMA FiledStep ==
    PipelineTypes /\ GatesHeld /\ FiledRight /\ [PipelineNext]_pipelineVars => FiledRight'
<1> SUFFICES ASSUME PipelineTypes, GatesHeld, FiledRight, [PipelineNext]_pipelineVars PROVE FiledRight'
  OBVIOUS
<1> USE DEF serveVars, ghostVars
<1>0. TreesOK /\ ServeOK /\ BuildOK /\ WatchOK
  BY DEF PipelineTypes
<1>1. CASE (\E s \in Trees : Edit(s)) \/ Checkpoint \/ WatchAgain \/ WatcherSees \/ FollowUpStarts
  BY <1>1, FiledFrame DEF Edit, Checkpoint, WatchAgain, WatcherSees, FollowUpStarts
<1>2. CASE CheckGone
  <2>1. misfiled' = misfiled /\ cache' = cache /\ (loaded' = loaded \/ loaded' = NotLoaded)
    BY <1>2 DEF CheckGone
  <2> QED BY <2>1 DEF FiledRight, Ours, NotLoaded
<1>3. CASE LookUpCache
  <2>1. /\ misfiled' = misfiled /\ cache' = cache
        /\ \/ loaded' = loaded
           \/ head \in DOMAIN cache /\ loaded' = [rev |-> head, art |-> cache[head]]
    BY <1>3 DEF LookUpCache
  <2> QED BY <2>1 DEF FiledRight, Ours
<1>4. CASE CheckClean \/ CheckKnownBad \/ CheckSame \/ Freeze \/ Release \/ SpawnFollowUp
  BY <1>4, FiledFrame DEF CheckClean, CheckKnownBad, CheckSame, Freeze, Release, SpawnFollowUp
<1>5. CASE Compile
  <2>1. misfiled \subseteq misfiled'
    BY <1>5 DEF Compile, Remember, File
  <2> QED BY <1>5, <2>1, FiledFrame DEF Compile
<1>6. CASE Smoke
  <2>1. misfiled \subseteq misfiled'
    BY <1>6 DEF Smoke, Remember, File
  <2> QED BY <1>6, <2>1, FiledFrame DEF Smoke
<1>7. CASE FileAndInstall
  <2>1. build.art \in Sources
    BY <1>7 DEF FileAndInstall, GatesHeld, Compiled, Tested
  <2>2. /\ misfiled \subseteq misfiled'
        /\ head # Gone /\ head \notin misfiled' => build.art = Artifact(head)
    BY <1>7 DEF FileAndInstall, File
  <2>3. \A t \in DOMAIN cache' : t \notin misfiled' => cache'[t] = Artifact(t)
    <3>1. CASE head \in DOMAIN cache \cup {Gone}
      BY <1>7, <2>2, <3>1 DEF FileAndInstall, Filed, FiledRight, Ours
    <3>2. CASE head \notin DOMAIN cache \cup {Gone}
      <4>1. cache' = [t \in DOMAIN cache \cup {head} |-> IF t = head THEN build.art ELSE cache[t]]
        BY <1>7, <3>2 DEF FileAndInstall, Filed
      <4> QED BY <2>2, <3>2, <4>1 DEF FiledRight, Ours
    <3> QED BY <3>1, <3>2
  <2>4. loaded'.rev # NoSource /\ loaded'.rev \notin misfiled' => loaded'.art = Artifact(loaded'.rev)
    <3>1. CASE build.same
      BY <1>7, <2>2, <3>1 DEF FileAndInstall, FiledRight, Ours
    <3>2. CASE ~build.same
      <4>1. loaded' = [rev |-> IF head = Gone THEN NoSource ELSE head, art |-> build.art]
        BY <1>7, <3>2 DEF FileAndInstall
      <4> QED BY <2>2, <4>1
    <3> QED BY <3>1, <3>2
  <2> QED BY <2>3, <2>4 DEF FiledRight, Ours
<1>8. CASE GuestFails \/ GuestHealthy \/ SearchGreen \/ SyncToGreen \/ CommitReset
  BY <1>8, FiledFrame DEF GuestFails, GuestHealthy, SearchGreen, SyncToGreen, CommitReset
<1>9. CASE InstallGreen
  <2>1. /\ misfiled' = misfiled /\ cache' = cache /\ reset.to \in DOMAIN cache
        /\ loaded' = [rev |-> reset.to, art |-> cache[reset.to]]
    BY <1>0, <1>9 DEF InstallGreen, WatchOK, Restoring
  <2> QED BY <2>1 DEF FiledRight, Ours
<1>10. CASE UNCHANGED pipelineVars
  BY <1>10, FiledFrame DEF pipelineVars
<1> QED
  BY <1>1, <1>2, <1>3, <1>4, <1>5, <1>6, <1>7, <1>8, <1>9, <1>10 DEF PipelineNext, Building, Resetting

-----------------------------------------------------------------------------
(* No change is forgotten *)

\* The tree of the checkout is served at the start.
LEMMA AnswerInit == PipelineInit => AnswerInv
<1> SUFFICES ASSUME PipelineInit PROVE AnswerInv
  OBVIOUS
<1>1. ~wanted /\ build.at = "idle" /\ reset.at = "idle" /\ disk = First
      /\ loaded.art = First
  BY DEF PipelineInit, NoBuild, NoReset
<1>2. Covers
  BY <1>1, KindsOfSource DEF Covers, AnsweredFor, Artifact, Compiled, Tested
<1> QED BY <1>1, <1>2 DEF AnswerInv, WantedIsHeard, CoveredOrOwed, RestoreAlone, Restoring

\* A step of the build that leaves whoever is owed one alone: if it covers the tree
\* on disk after the step, nothing is forgotten.
LEMMA BuildStepAnswers ==
    ASSUME PipelineTypes, AnswerInv, build.at # "idle", UNCHANGED <<disk, claimVars, reset, swallowed, crossed>>,
           (errored' = errored /\ (Covers => Covers')) \/ errored' = TRUE
    PROVE  AnswerInv'
<1>1. claimed
  BY DEF PipelineTypes, BuildOK
<1>2. WantedIsHeard'
  BY DEF AnswerInv, WantedIsHeard, claimVars
<1>3. CoveredOrOwed'
  BY DEF AnswerInv, CoveredOrOwed, RebuildOwed, Restoring, claimVars
<1>4. RestoreAlone'
  BY <1>1 DEF AnswerInv, RestoreAlone, Restoring
<1> QED BY <1>2, <1>3, <1>4 DEF AnswerInv

\* Claiming the aspect starts a build that reads the tree afresh, or leaves word with
\* the one that runs.
LEMMA ClaimAnswers ==
    ASSUME PipelineTypes, AnswerInv, Claim, UNCHANGED <<disk, reset, dropping, swallowed>>
    PROVE  AnswerInv'
<1>1. claimed'
  BY DEF Claim
<1>2. WantedIsHeard'
  BY <1>1 DEF WantedIsHeard
<1>3. CoveredOrOwed'
  <2>1. CASE claimed
    BY <2>1 DEF Claim, RebuildWanted, CoveredOrOwed, RebuildOwed
  <2>2. CASE ~claimed
    <3>1. build'.at = "gone?"
      BY <2>2 DEF Claim, NoBuild
    <3> QED BY <3>1 DEF CoveredOrOwed, Covers, Compiled, Tested
  <2> QED BY <2>1, <2>2
<1>4. RestoreAlone'
  BY DEF Claim, AnswerInv, RestoreAlone, Restoring
<1> QED BY <1>2, <1>3, <1>4 DEF AnswerInv

\* Every step keeps each change answered, covered by the build that runs, or owed one.
LEMMA AnswerStep ==
    PipelineTypes /\ FiledRight /\ AnswerInv /\ [PipelineNext]_pipelineVars => AnswerInv'
<1> SUFFICES ASSUME PipelineTypes, FiledRight, AnswerInv, [PipelineNext]_pipelineVars PROVE AnswerInv'
  OBVIOUS
<1> USE DEF treeVars, serveVars, watchVars, ghostVars
<1>0. /\ build \in BuildRec
      /\ claimed <=> build.at # "idle"
      /\ followUp \in Nat /\ dropping \in Nat
      /\ Restoring => reset.to \in DOMAIN cache
  BY DEF PipelineTypes, BuildOK, ClaimOK, WatchOK
<1>1. ASSUME NEW s \in Trees, Edit(s) PROVE AnswerInv'
  BY <1>1 DEF Edit, AnswerInv, WantedIsHeard, CoveredOrOwed, RebuildOwed, RestoreAlone, Restoring
<1>2. CASE Checkpoint
  <2>1. /\ head' = disk /\ disk' = disk
        /\ UNCHANGED <<cache, loaded, claimVars, bad, build, reset, ghostVars>>
    BY <1>2 DEF Checkpoint, Commit
  <2>2. Covers => Covers'
    BY <2>1 DEF Covers, AnsweredFor
  <2> QED BY <2>1, <2>2 DEF AnswerInv, WantedIsHeard, CoveredOrOwed, RebuildOwed, RestoreAlone,
                            Restoring, claimVars
<1>3. CASE WatcherSees
  <2>1. CASE quietWatch
    BY <1>3, <2>1 DEF WatcherSees, AnswerInv, WantedIsHeard, CoveredOrOwed, RestoreAlone, Restoring
  <2>2. CASE ~quietWatch
    BY <1>3, <2>2, ClaimAnswers DEF WatcherSees
  <2> QED BY <2>1, <2>2
<1>4. CASE FollowUpStarts
  BY <1>4, ClaimAnswers DEF FollowUpStarts
<1>5. ASSUME UNCHANGED <<treeVars, serveVars, claimVars, bad, build, ghostVars>>,
             ~Restoring, ~Restoring'
      PROVE  AnswerInv'
  <2>1. Covers => Covers'
    BY <1>5 DEF Covers, AnsweredFor
  <2> QED BY <1>5, <2>1 DEF AnswerInv, WantedIsHeard, CoveredOrOwed, RebuildOwed, RestoreAlone,
                            claimVars
<1>6. CASE WatchAgain \/ UNCHANGED pipelineVars
  <2>1. UNCHANGED <<treeVars, serveVars, claimVars, bad, build, reset, ghostVars>>
    BY <1>6 DEF WatchAgain, pipelineVars
  <2>2. Covers => Covers'
    BY <2>1 DEF Covers, AnsweredFor
  <2> QED BY <2>1, <2>2 DEF AnswerInv, WantedIsHeard, CoveredOrOwed, RebuildOwed, RestoreAlone,
                            Restoring, claimVars
<1>7. CASE GuestFails
  <2>1. ~Restoring /\ ~Restoring'
    BY <1>7 DEF GuestFails, NoReset, Restoring
  <2> QED BY <1>5, <1>7, <2>1 DEF GuestFails
<1>8. CASE GuestHealthy
  <2>1. ~Restoring /\ ~Restoring'
    BY <1>8 DEF GuestHealthy, Restoring
  <2> QED BY <1>5, <1>8, <2>1 DEF GuestHealthy
<1>9. ASSUME NEW at, BuildAt(at) PROVE build'.at = at /\ build'.print = build.print /\ build'.art = build.art
                                        /\ build'.same = build.same
  BY <1>0, <1>9 DEF BuildAt, BuildRec
<1>10. ASSUME NEW right, Remember(right), build.at \in {"compile", "smoke"},
              UNCHANGED <<disk, claimVars, reset, swallowed, crossed, errored>>
       PROVE  AnswerInv'
  <2>1. build'.at = "done"
    BY <1>9, <1>10 DEF Remember
  <2>2. Covers => Covers'
    BY <1>10, <2>1 DEF Covers, AnsweredFor, Remember, Compiled, Tested
  <2> QED BY <1>10, <2>2, BuildStepAnswers
<1>11. CASE CheckGone
  <2>1. CASE disk = Gone
    <3>1. build.at = "gone?" /\ build'.at = "done" /\ loaded' = NotLoaded /\ disk' = disk
      BY <1>9, <1>11, <2>1 DEF CheckGone, Commit
    <3>2. Covers'
      BY <2>1, <3>1 DEF Covers, AnsweredFor, Compiled, Tested
    <3> QED BY <1>11, <3>1, <3>2, BuildStepAnswers DEF CheckGone
  <2>2. CASE disk # Gone
    <3>1. build.at = "gone?" /\ build'.at = "clean?"
      BY <1>9, <1>11, <2>2 DEF CheckGone
    <3>2. Covers'
      BY <3>1 DEF Covers, Compiled, Tested
    <3> QED BY <1>11, <2>2, <3>1, <3>2, BuildStepAnswers DEF CheckGone
  <2> QED BY <2>1, <2>2
<1>12. CASE CheckClean
  <2>1. build.at = "clean?" /\ (build'.at = "known?" \/ (build'.at = "cached?" /\ disk = head))
    BY <1>9, <1>12 DEF CheckClean
  <2>2. Covers'
    BY <1>12, <2>1 DEF CheckClean, Covers, Compiled, Tested
  <2> QED BY <1>12, <2>1, <2>2, BuildStepAnswers DEF CheckClean
<1>13. CASE LookUpCache
  <2>1. /\ build.at = "cached?"
        /\ build'.at = "known?" \/ (build'.at = "done" /\ head \in DOMAIN cache)
    BY <1>9, <1>13 DEF LookUpCache
  <2>3. ASSUME build'.at = "known?" PROVE Covers => Covers'
    BY <2>3 DEF Covers, Compiled, Tested
  <2>4. ASSUME build'.at = "done", head \in DOMAIN cache PROVE Covers => Covers'
    <3>1. /\ disk' = disk /\ misfiled' = misfiled
          /\ loaded' = IF loaded.rev = head THEN loaded ELSE [rev |-> head, art |-> cache[head]]
      BY <1>13, <2>4 DEF LookUpCache
    <3>2. head # Gone /\ head # NoSource
      BY <2>4, KindsOfSource DEF PipelineTypes, ServeOK
    <3>3. head \notin misfiled => loaded'.art = Artifact(head)
      BY <2>4, <3>1, <3>2 DEF FiledRight, Ours
    <3>4. Covers => disk = head
      BY <2>1 DEF Covers
    <3>5. disk = head => AnsweredFor(disk)'
      BY <3>1, <3>2, <3>3 DEF AnsweredFor
    <3> QED BY <2>4, <3>4, <3>5 DEF Covers, Compiled, Tested
  <2>2. Covers => Covers'
    BY <2>1, <2>3, <2>4
  <2> QED BY <1>13, <2>1, <2>2, BuildStepAnswers DEF LookUpCache
<1>14. CASE CheckKnownBad
  <2>1. CASE disk = bad
    <3>1. build.at = "known?" /\ build'.at = "done" /\ UNCHANGED <<disk, bad>>
      BY <1>9, <1>14, <2>1 DEF CheckKnownBad
    <3>2. Covers'
      BY <2>1, <3>1 DEF Covers, AnsweredFor, Compiled, Tested
    <3> QED BY <1>14, <3>1, <3>2, BuildStepAnswers DEF CheckKnownBad
  <2>2. CASE disk # bad
    <3>1. build.at = "known?" /\ build'.at = "compile" /\ build'.print = disk /\ disk' = disk
      BY <1>0, <1>14, <2>2 DEF CheckKnownBad, BuildRec
    <3>2. Covers'
      BY <3>1 DEF Covers, Compiled, Tested
    <3> QED BY <1>14, <3>1, <3>2, BuildStepAnswers DEF CheckKnownBad
  <2> QED BY <2>1, <2>2
<1>15. CASE Compile
  <2>1. CASE Remember(disk = build.print) /\ UNCHANGED errored
    BY <1>10, <1>15, <2>1 DEF Compile
  <2>3. CASE errored' = TRUE
    BY <1>15, <2>3, BuildStepAnswers DEF Compile
  <2>2. CASE /\ disk \in Sources \ Broken /\ UNCHANGED errored
             /\ build' = [build EXCEPT !.at = "same?", !.art = Artifact(disk)]
    <3>1. /\ build.at = "compile" /\ build'.at = "same?" /\ build'.art = Artifact(disk)
          /\ build'.print = build.print /\ disk' = disk /\ disk # Gone
      BY <1>0, <1>15, <2>2, KindsOfSource DEF Compile
    <3>2. Covers => Covers'
      BY <3>1 DEF Covers, Compiled, Tested
    <3> QED BY <1>15, <3>1, <3>2, BuildStepAnswers DEF Compile
  <2> QED BY <1>15, <2>1, <2>2, <2>3 DEF Compile
<1>16. CASE CheckSame
  <2>1. /\ build.at = "same?" /\ build'.at \in {"commit", "smoke"} /\ disk' = disk
        /\ build'.print = build.print /\ build'.art = build.art /\ loaded' = loaded
        /\ build'.same => loaded.art = build.art
    BY <1>0, <1>16 DEF CheckSame, BuildRec
  <2>2. Covers => Covers'
    BY <2>1 DEF Covers, Compiled, Tested
  <2> QED BY <1>16, <2>1, <2>2, BuildStepAnswers DEF CheckSame
<1>17. CASE Smoke
  <2>1. CASE SmokeTest(build.art)
    <3>1. /\ build.at = "smoke" /\ build'.at = "commit" /\ disk' = disk /\ loaded' = loaded
          /\ build'.print = build.print /\ build'.art = build.art /\ build'.same = build.same
      BY <1>9, <1>17, <2>1 DEF Smoke
    <3>2. Covers => Covers'
      BY <3>1 DEF Covers, Compiled, Tested
    <3> QED BY <1>17, <3>1, <3>2, BuildStepAnswers DEF Smoke
  <2>2. CASE ~SmokeTest(build.art)
    BY <1>10, <1>17, <2>2 DEF Smoke
  <2> QED BY <2>1, <2>2
<1>18. CASE Freeze
  <2>1. /\ build.at = "commit" /\ build'.at = "file" /\ disk' = disk /\ loaded' = loaded
        /\ build'.print = build.print /\ build'.art = build.art /\ build'.same = build.same
    BY <1>9, <1>18 DEF Freeze, Commit
  <2>2. Covers => Covers'
    BY <2>1 DEF Covers, Compiled, Tested
  <2> QED BY <1>18, <2>1, <2>2, BuildStepAnswers DEF Freeze
<1>19. CASE FileAndInstall
  <2>1. /\ build.at = "file" /\ build'.at = "done" /\ disk' = disk
        /\ Covers => loaded'.art = build.art
    BY <1>9, <1>19 DEF FileAndInstall, Covers, Tested
  <2>2. Covers => Covers'
    BY <2>1 DEF Covers, AnsweredFor, Compiled, Tested
  <2> QED BY <1>19, <2>1, <2>2, BuildStepAnswers DEF FileAndInstall
<1>20. CASE Release
  <2>1. /\ build.at = "done" /\ build'.at = "idle" /\ dropping' > 0 /\ claimed
        /\ UNCHANGED <<disk, cache, loaded, bad, event, followUp, wanted, reset, ghostVars>>
    BY <1>0, <1>20 DEF Release, NoBuild
  <2>2. Covers => Covers'
    BY <2>1 DEF Covers, AnsweredFor, Compiled, Tested
  <2>3. WantedIsHeard' /\ CoveredOrOwed'
    BY <2>1, <2>2 DEF AnswerInv, WantedIsHeard, CoveredOrOwed, RebuildOwed, Restoring
  <2>4. RestoreAlone'
    BY <2>1 DEF AnswerInv, RestoreAlone, Restoring
  <2> QED BY <2>3, <2>4 DEF AnswerInv
<1>21. CASE SpawnFollowUp
  <2>1. /\ wanted' = FALSE /\ followUp' = IF wanted THEN followUp + 1 ELSE followUp
        /\ UNCHANGED <<treeVars, serveVars, event, claimed, bad, build, reset, ghostVars>>
    BY <1>21 DEF SpawnFollowUp
  <2>2. Covers => Covers'
    BY <2>1 DEF Covers, AnsweredFor
  <2>3. RebuildOwed => RebuildOwed'
    BY <1>0, <2>1 DEF RebuildOwed
  <2> QED BY <2>1, <2>2, <2>3 DEF AnswerInv, WantedIsHeard, CoveredOrOwed, RestoreAlone, Restoring
<1>22. CASE SearchGreen
  <2>1. CASE Greens = {}
    <3>1. ~Restoring /\ ~Restoring' /\ crossed' = crossed
      BY <1>22, <2>1 DEF SearchGreen, NoReset, Restoring
    <3> QED BY <1>5, <1>22, <3>1 DEF SearchGreen
  <2>2. CASE Greens # {}
    <3>1. Restoring' /\ crossed' = claimed /\ reset'.at = "sync" /\ UNCHANGED claimVars
      BY <1>22, <2>2 DEF SearchGreen, Restoring
    <3> QED BY <3>1 DEF AnswerInv, WantedIsHeard, CoveredOrOwed, RestoreAlone, claimVars
  <2> QED BY <2>1, <2>2
<1>23. CASE SyncToGreen
  <2>1. /\ Restoring /\ Restoring' /\ disk' = reset'.to
        /\ UNCHANGED <<claimed, wanted, dropping, crossed>>
    BY <1>23 DEF SyncToGreen, Restoring, PipelineTypes, WatchOK
  <2> QED BY <2>1 DEF AnswerInv, WantedIsHeard, CoveredOrOwed, RestoreAlone
<1>24. CASE CommitReset
  <2>1. /\ Restoring /\ Restoring' /\ disk' = disk /\ reset'.to = reset.to /\ reset.at = "commit"
        /\ UNCHANGED <<claimed, wanted, dropping, crossed>>
    BY <1>24 DEF CommitReset, Commit, Restoring, claimVars, PipelineTypes, WatchOK
  <2> QED BY <2>1 DEF AnswerInv, WantedIsHeard, CoveredOrOwed, RestoreAlone
<1>25. CASE InstallGreen
  <2>1. /\ Restoring /\ ~Restoring' /\ reset.at = "install" /\ reset.to \in DOMAIN cache
        /\ UNCHANGED <<disk, cache, claimVars, build, ghostVars>> /\ loaded'.art = cache[reset.to]
    BY <1>0, <1>25 DEF InstallGreen, Restoring, NoReset
  <2>3. ~crossed => build.at = "idle" /\ disk = reset.to
    BY <1>0, <2>1 DEF AnswerInv, RestoreAlone
  <2>4. disk = reset.to => disk # Gone /\ (disk \in misfiled \/ cache[disk] = Artifact(disk))
    BY <2>1, KindsOfSource DEF FiledRight, Ours, PipelineTypes, ServeOK
  <2>2. ~crossed => Covers'
    BY <2>1, <2>3, <2>4 DEF Covers, AnsweredFor, Compiled, Tested
  <2> QED BY <2>1, <2>2 DEF AnswerInv, WantedIsHeard, CoveredOrOwed, RestoreAlone, claimVars
<1> QED
  BY <1>1, <1>2, <1>3, <1>4, <1>6, <1>7, <1>8, <1>11, <1>12, <1>13, <1>14, <1>15, <1>16, <1>17,
     <1>18, <1>19, <1>20, <1>21, <1>22, <1>23, <1>24, <1>25
     DEF PipelineNext, Building, Resetting

\* No change to the source is forgotten: once nothing is left to do, what serves is the
\* artifact of the tree on disk, or the tree is remembered as failed, unless the change
\* was swallowed by a suppressed watcher, ran into a restore of the watchdog's, met an
\* error nobody remembers, or another source's verdict is filed under the tree.
THEOREM ChangesAreAnswered == PipelineSpec => []NoChangeForgotten
<1>1. PipelineInit => PipelineTypes /\ GatesHeld /\ OnlyTestedServes /\ FiledRight /\ AnswerInv
  BY PipelineTypesInit, GatesInit, FiledInit, AnswerInit
<1>2. PipelineTypes /\ GatesHeld /\ OnlyTestedServes /\ FiledRight /\ AnswerInv /\ [PipelineNext]_pipelineVars
          => (PipelineTypes /\ GatesHeld /\ OnlyTestedServes /\ FiledRight /\ AnswerInv)'
  BY PipelineTypesStep, GatesStep, FiledStep, AnswerStep
<1>3. PipelineTypes /\ AnswerInv => NoChangeForgotten
  BY DEF PipelineTypes, BuildOK, ClaimOK, AnswerInv, WantedIsHeard, CoveredOrOwed, RebuildOwed,
         Covers, AnsweredFor, Restoring, Quiet, NoChangeForgotten
<1> QED BY <1>1, <1>2, <1>3, PTL DEF PipelineSpec
=============================================================================
