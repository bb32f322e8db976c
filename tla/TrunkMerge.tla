----------------------------- MODULE TrunkMerge -----------------------------
(***************************************************************************)
(* How a conversation's branch reaches trunk: merge_to_trunk of merge.rs,  *)
(* squash_onto and merge_ff_only of gitctl.rs, in the gateway, against the *)
(* workers that go on committing to their branches (branchops.rs, the      *)
(* checkpoints of commit_worktree, the watchdog's resets).                 *)
(*                                                                         *)
(* A tree is the set of changes it holds; a commit is its tree, its        *)
(* ancestors (itself included) and whether its subject names a reset.      *)
(* Every await of the gateway is a step; an operation of a worker is one.  *)
(*                                                                         *)
(* Simplifications:                                                        *)
(*  - all aspects are one: the changes in Gated are to its source;         *)
(*  - reset_to is an edit like any other, and changes are never undone but *)
(*    by a watchdog's reset (module BuildPipeline has its steps);          *)
(*  - the record of the merge in the log, the UI's reload and the rebuild  *)
(*    of trunk's kernel come after the merge and move no ref.              *)
(***************************************************************************)
EXTENDS Naturals, Sequences, FiniteSets

CONSTANTS Convs,       \* conversations
          Changes,     \* changes people and agents make
          Gated,       \* the ones to the aspect's source
          Faulty,      \* of those, the ones that do not build
          Markers,     \* a file with conflict markers in it
          MaxLog,      \* commits a merge's `git log` reads: 200
          MaxRevs      \* bound: commits

ASSUME TrunkMergeAssumption ==
    /\ Faulty \subseteq Gated /\ Gated \subseteq Changes /\ Markers \notin Changes
    /\ MaxLog \in Nat \ {0} /\ MaxRevs \in Nat \ {0}

VARIABLES
    revs,       \* the commits, by number
    trunk,      \* the branch the root checkout is on
    tip,        \* per conversation: its branch
    work,       \* per conversation: the tree in its checkout
    mergeHead,  \* per conversation: MERGE_HEAD, or 0
    kept,       \* tips kept under refs/thetis/presquash
    greens,     \* aspect sources with a green build
    step,       \* per conversation: the next step of its merge
    gatedTip,   \* per conversation: the commit the gate judges
    oldTip,     \* per conversation: the tip squash_onto read
    target,     \* per conversation: what trunk is to move to
    \* history
    dropped,    \* changes a watchdog's reset took out of a checkout
    blind       \* conversations whose look for reverts saw only part of the log

branchVars == <<tip, work, mergeHead>>
mergeVars == <<step, gatedTip, oldTip, target, blind>>
trunkVars == <<revs, trunk, branchVars, kept, greens, mergeVars, dropped>>

Tree(i) == revs[i].tree
Ancestors(i) == revs[i].anc
Source(t) == t \cap Gated
NextRev == Len(revs) + 1
\* What the branch has that trunk has not.
Own(c) == Ancestors(tip[c]) \ Ancestors(trunk)

Rev(tree, parents, isReset) ==
    [tree |-> tree, reset |-> isReset,
     anc |-> {NextRev} \cup UNION {Ancestors(p) : p \in parents}]
Room == Len(revs) < MaxRevs
Parents(c) == {tip[c], mergeHead[c]} \ {0}

\* Grip::commit_worktree: `add -A` and `commit`, which also concludes a merge
\* that is open, whatever the files hold.
CommitTree(c, tree, isReset) ==
    IF tree = Tree(tip[c])
    THEN UNCHANGED <<revs, tip, mergeHead>>
    ELSE /\ Room
         /\ revs' = Append(revs, Rev(tree, Parents(c), isReset))
         /\ tip' = [tip EXCEPT ![c] = NextRev]
         /\ mergeHead' = [mergeHead EXCEPT ![c] = 0]

MergeAt(c, place) == step' = [step EXCEPT ![c] = place]

-----------------------------------------------------------------------------
(* The conversation's worker *)

Used == UNION ({Tree(i) : i \in DOMAIN revs} \cup {work[c] : c \in Convs})

Write(c, w) ==
    /\ w \notin Used
    /\ work' = [work EXCEPT ![c] = @ \cup {w}]
    /\ UNCHANGED <<revs, trunk, tip, mergeHead, kept, greens, mergeVars, dropped>>

\* The checkpoint at the end of a turn, of a build, of a skill's edit.
CheckpointTree(c) ==
    /\ work[c] # Tree(tip[c])
    /\ CommitTree(c, work[c], FALSE)
    /\ UNCHANGED <<trunk, work, kept, greens, mergeVars, dropped>>

\* A green build of what is checked out (module BuildPipeline).
GreenBuild(c) ==
    /\ work[c] = Tree(tip[c]) /\ Source(work[c]) \cap Faulty = {}
    /\ greens' = greens \cup {Source(work[c])}
    /\ UNCHANGED <<revs, trunk, branchVars, kept, mergeVars, dropped>>

\* reset_aspect_to_green: the source of an earlier green commit, as a commit.
ResetSource(c) ==
    \E i \in Ancestors(tip[c]) :
        /\ Source(Tree(i)) \in greens /\ Source(Tree(i)) # Source(work[c])
        /\ work' = [work EXCEPT ![c] = (@ \ Gated) \cup Source(Tree(i))]
        /\ CommitTree(c, work'[c], TRUE)
        /\ dropped' = dropped \cup (Source(work[c]) \ Source(Tree(i)))
        /\ UNCHANGED <<trunk, kept, greens, mergeVars>>

\* git's merge is three-way: what one side added since they met comes in, and what
\* one side took out, and the other left alone, stays out.
Merged(ours, theirs, base) == (ours \cap theirs) \cup (ours \ base) \cup (theirs \ base)
Common(c) == Ancestors(tip[c]) \cap Ancestors(trunk)
MergeBases(c) == {b \in Common(c) : \A i \in Common(c) : b \in Ancestors(i) => i = b}

\* `git merge` of trunk into the branch: a fast-forward, clean, or stopped on a
\* conflict, which shows both sides of what it could not merge.
PullTrunk(c) ==
    \/ /\ tip[c] \in Ancestors(trunk)
       /\ tip' = [tip EXCEPT ![c] = trunk] /\ work' = [work EXCEPT ![c] = Tree(trunk)]
       /\ UNCHANGED <<revs, mergeHead>>
    \/ /\ tip[c] \notin Ancestors(trunk)
       /\ \E b \in MergeBases(c) :
             LET merged == Merged(work[c], Tree(trunk), Tree(b)) IN
             \/ /\ Room
                /\ revs' = Append(revs, Rev(merged, {tip[c], trunk}, FALSE))
                /\ tip' = [tip EXCEPT ![c] = NextRev] /\ work' = [work EXCEPT ![c] = merged]
                /\ UNCHANGED mergeHead
             \/ /\ \E shown \in SUBSET ((work[c] \cup Tree(trunk)) \ merged) :
                       work' = [work EXCEPT ![c] = merged \cup shown \cup {Markers}]
                /\ mergeHead' = [mergeHead EXCEPT ![c] = trunk]
                /\ UNCHANGED <<revs, tip>>

\* branch.update for the agent or the user, with its own checkpoint before it
\* (here: nothing is left to commit).
UpdateFromTrunk(c) ==
    /\ work[c] = Tree(tip[c]) /\ mergeHead[c] = 0 /\ trunk \notin Ancestors(tip[c])
    /\ PullTrunk(c)
    /\ UNCHANGED <<trunk, kept, greens, mergeVars, dropped>>

Resolve(c) ==
    /\ mergeHead[c] # 0 /\ Markers \in work[c]
    /\ work' = [work EXCEPT ![c] = @ \ {Markers}]
    /\ UNCHANGED <<revs, trunk, tip, mergeHead, kept, greens, mergeVars, dropped>>

\* commit_merge refuses while markers remain.
CompleteMerge(c) ==
    /\ mergeHead[c] # 0 /\ Markers \notin work[c] /\ Room
    /\ revs' = Append(revs, Rev(work[c], Parents(c), FALSE))
    /\ tip' = [tip EXCEPT ![c] = NextRev]
    /\ mergeHead' = [mergeHead EXCEPT ![c] = 0]
    /\ UNCHANGED <<trunk, work, kept, greens, mergeVars, dropped>>

AbortMerge(c) ==
    /\ mergeHead[c] # 0
    /\ mergeHead' = [mergeHead EXCEPT ![c] = 0]
    /\ work' = [work EXCEPT ![c] = Tree(tip[c])]
    /\ UNCHANGED <<revs, trunk, tip, kept, greens, mergeVars, dropped>>

-----------------------------------------------------------------------------
(* merge_to_trunk, in the gateway *)

\* The merge returns, and its locals with it.
Returns(c) ==
    /\ MergeAt(c, "idle")
    /\ gatedTip' = [gatedTip EXCEPT ![c] = 0] /\ oldTip' = [oldTip EXCEPT ![c] = 0]
    /\ target' = [target EXCEPT ![c] = 0] /\ blind' = blind \ {c}
NoRefMoves == UNCHANGED <<revs, trunk, branchVars, kept, greens, dropped>>

\* branch.commit_dirty
MergeAsked(c) ==
    /\ step[c] = "idle"
    /\ CommitTree(c, work[c], FALSE)
    /\ MergeAt(c, "update")
    /\ UNCHANGED <<trunk, work, kept, greens, gatedTip, oldTip, target, blind, dropped>>

\* Trunk comes in first, after another checkpoint. An open merge or a conflict ends
\* the merge here.
MergeUpdates(c) ==
    /\ step[c] = "update"
    /\ \/ /\ trunk \in Ancestors(tip[c])
          /\ MergeAt(c, "pin") /\ UNCHANGED <<revs, branchVars>>
       \/ /\ trunk \notin Ancestors(tip[c]) /\ work[c] # Tree(tip[c])
          /\ CommitTree(c, work[c], FALSE) /\ UNCHANGED <<work, step>>
       \/ /\ trunk \notin Ancestors(tip[c]) /\ work[c] = Tree(tip[c]) /\ mergeHead[c] # 0
          /\ MergeAt(c, "idle") /\ UNCHANGED <<revs, branchVars>>
       \/ /\ trunk \notin Ancestors(tip[c]) /\ work[c] = Tree(tip[c]) /\ mergeHead[c] = 0
          /\ PullTrunk(c)
          /\ MergeAt(c, IF mergeHead'[c] # 0 THEN "idle" ELSE "pin")
    /\ UNCHANGED <<trunk, kept, greens, gatedTip, oldTip, target, blind, dropped>>

\* The commit everything below judges.
PinnedTip(c) == tip[c]
MergePins(c) ==
    /\ step[c] = "pin"
    /\ gatedTip' = [gatedTip EXCEPT ![c] = PinnedTip(c)]
    /\ MergeAt(c, "gate")
    /\ UNCHANGED <<oldTip, target, blind>> /\ NoRefMoves

PassesGate(c) ==
    LET source == Source(Tree(gatedTip[c])) IN source = Source(Tree(trunk)) \/ source \in greens

MergeGate(c) ==
    /\ step[c] = "gate"
    /\ IF PassesGate(c) THEN MergeAt(c, "reverts") /\ UNCHANGED <<gatedTip, oldTip, target, blind>> ELSE Returns(c)
    /\ NoRefMoves

\* A log of what the branch has of its own: the newest MaxLog commits, or nothing
\* when `git log` fails.
Logs(c) == {{}, {i \in Own(c) : Cardinality({j \in Own(c) : j > i}) < MaxLog}}

\* refuse_live_watchdog_reverts
LiveRevert(c, i) ==
    /\ revs[i].reset
    /\ Source(Tree(i)) = Source(Tree(gatedTip[c]))
    /\ Source(Tree(i)) # Source(Tree(trunk))
\* Mutant: a reset is work like any other.
NoneReverts(c, log) == FALSE
Reverts(c, log) == \E i \in log : LiveRevert(c, i)

MergeReverts(c) ==
    /\ step[c] = "reverts"
    /\ \E log \in Logs(c) :
          IF Reverts(c, log) THEN Returns(c)
          ELSE /\ MergeAt(c, "recheck") /\ UNCHANGED <<gatedTip, oldTip, target>>
               /\ blind' = IF log = Own(c) THEN blind ELSE blind \cup {c}
    /\ NoRefMoves

\* Did the conversation commit meanwhile?
MergeRechecks(c) ==
    /\ step[c] = "recheck"
    /\ IF tip[c] # gatedTip[c] THEN Returns(c) ELSE MergeAt(c, "count") /\ UNCHANGED <<gatedTip, oldTip, target, blind>>
    /\ NoRefMoves

\* squash_branch: nothing mid-merge, and one commit, or no log, is tidy as it is.
MergeCounts(c) ==
    /\ step[c] = "count"
    /\ \/ mergeHead[c] # 0 /\ Returns(c)
       \/ /\ mergeHead[c] = 0
          /\ \E log \in Logs(c) :
                \/ /\ Cardinality(log) < 2
                   /\ target' = [target EXCEPT ![c] = gatedTip[c]]
                   /\ MergeAt(c, "forward") /\ UNCHANGED <<gatedTip, oldTip, blind>>
                \/ /\ Cardinality(log) >= 2
                   /\ MergeAt(c, "squash") /\ UNCHANGED <<gatedTip, oldTip, target, blind>>
    /\ NoRefMoves

\* The model has written the subject line: squash_onto reads the branch and
\* trunk; the tree is the tip's, byte for byte. A branch with nothing of its own
\* is left as it is.
SquashReads(c) ==
    /\ step[c] = "squash"
    /\ \/ trunk \notin Ancestors(tip[c]) /\ Returns(c)
       \/ /\ trunk \in Ancestors(tip[c])
          /\ oldTip' = [oldTip EXCEPT ![c] = tip[c]]
          /\ target' = [target EXCEPT ![c] = trunk]
          /\ MergeAt(c, IF tip[c] = trunk THEN "forward" ELSE "swap") /\ UNCHANGED <<gatedTip, blind>>
    /\ NoRefMoves

\* Mutant: the branch is moved whatever it points at by now.
MovesAnyway(c) == TRUE
TipUnmoved(c) == tip[c] = oldTip[c]

\* The old tip is kept, then the branch moves by compare-and-swap.
SquashSwaps(c) ==
    /\ step[c] = "swap"
    /\ kept' = kept \cup {oldTip[c]}
    /\ \/ /\ TipUnmoved(c) /\ Room
          /\ revs' = Append(revs, Rev(Tree(oldTip[c]), {target[c]}, FALSE))
          /\ tip' = [tip EXCEPT ![c] = NextRev]
          /\ target' = [target EXCEPT ![c] = NextRev]
          /\ MergeAt(c, "forward") /\ UNCHANGED <<gatedTip, oldTip, blind>>
       \/ /\ ~TipUnmoved(c) /\ Returns(c) /\ UNCHANGED <<revs, tip>>
    /\ UNCHANGED <<trunk, work, mergeHead, greens, dropped>>

\* Mutant: trunk is put where the branch is, wherever it was.
Forced(c) == TRUE
FastForwards(c) == trunk \in Ancestors(target[c])

\* merge_ff_only, a no-op for what trunk already has.
MergeForwards(c) ==
    /\ step[c] = "forward"
    /\ trunk' = IF FastForwards(c) THEN target[c] ELSE trunk
    /\ Returns(c)
    /\ UNCHANGED <<revs, branchVars, kept, greens, dropped>>

\* A call of the merge's fails: whatever it has done so far stays done.
MergeErrs(c) ==
    /\ step[c] # "idle"
    /\ Returns(c)
    /\ NoRefMoves

Nowhere == [c \in Convs |-> 0]

\* The gateway dies in the middle of its merges.
MergesDie ==
    /\ \E c \in Convs : step[c] # "idle"
    /\ step' = [c \in Convs |-> "idle"]
    /\ gatedTip' = Nowhere /\ oldTip' = Nowhere /\ target' = Nowhere /\ blind' = {}
    /\ NoRefMoves

-----------------------------------------------------------------------------

TrunkInit ==
    /\ revs = <<[tree |-> {}, anc |-> {1}, reset |-> FALSE]>>
    /\ trunk = 1 /\ tip = [c \in Convs |-> 1] /\ work = [c \in Convs |-> {}]
    /\ mergeHead = Nowhere /\ kept = {} /\ greens = {{}}
    /\ step = [c \in Convs |-> "idle"] /\ gatedTip = Nowhere
    /\ oldTip = Nowhere /\ target = Nowhere /\ dropped = {} /\ blind = {}

WorkerStep(c) ==
    \/ \E w \in Changes : Write(c, w)
    \/ CheckpointTree(c) \/ GreenBuild(c) \/ ResetSource(c) \/ UpdateFromTrunk(c) \/ Resolve(c)
    \/ CompleteMerge(c) \/ AbortMerge(c)
MergeStep(c) ==
    \/ MergeAsked(c) \/ MergeUpdates(c) \/ MergePins(c) \/ MergeGate(c) \/ MergeReverts(c)
    \/ MergeRechecks(c) \/ MergeCounts(c) \/ SquashReads(c) \/ SquashSwaps(c) \/ MergeForwards(c)
    \/ MergeErrs(c)

TrunkNext == (\E c \in Convs : WorkerStep(c) \/ MergeStep(c)) \/ MergesDie
TrunkSpec == TrunkInit /\ [][TrunkNext]_trunkVars

-----------------------------------------------------------------------------
(* Properties *)

Steps == {"idle", "update", "pin", "gate", "reverts", "recheck", "count", "squash", "swap", "forward"}
\* Every variable has its type; a merge that judges has pinned a commit.
TrunkTypeOK ==
    /\ revs \in Seq([tree: SUBSET (Changes \cup {Markers}), anc: SUBSET (1..MaxRevs), reset: BOOLEAN])
    /\ {trunk} \cup kept \subseteq DOMAIN revs
    /\ tip \in [Convs -> DOMAIN revs] /\ work \in [Convs -> SUBSET (Changes \cup {Markers})]
    /\ mergeHead \in [Convs -> {0} \cup DOMAIN revs] /\ greens \subseteq SUBSET Gated
    /\ dropped \subseteq Gated /\ blind \subseteq Convs
    /\ step \in [Convs -> Steps] /\ {gatedTip, oldTip, target} \subseteq [Convs -> {0} \cup DOMAIN revs]
    /\ \A c \in Convs : step[c] \in {"idle", "update", "pin"} <=> gatedTip[c] = 0
    /\ \A c \in Convs : step[c] \in {"swap", "forward"} <=> target[c] # 0

\* No commit is ever lost: whatever squashes and commits race, every commit is in
\* the history of trunk, of a branch or of a tip a squash kept.
NothingUnreachable ==
    DOMAIN revs \subseteq
        UNION {Ancestors(i) : i \in {trunk} \cup kept \cup {tip[c] : c \in Convs}}

\* A merge takes nothing off trunk, whatever else lands while it runs: every change
\* on trunk stays there, but for what a watchdog's reset took out of some checkout.
TrunkKeepsWork == [][Tree(trunk) \ (dropped \cup {Markers}) \subseteq Tree(trunk')]_trunkVars

\* And what a reset took out of a checkout does not leave trunk in a commit that was
\* judged and whose history names the reset, while the source is still what the reset
\* left: unless the look at the log saw only part of it.
Lands(c) == step[c] = "forward" /\ trunk' # trunk /\ trunk' = target[c]
RevertsStayOff ==
    [][\A c \in Convs : Lands(c) /\ oldTip[c] \in {0, gatedTip[c]} /\ c \notin blind =>
          \A i \in Ancestors(gatedTip[c]) \ Ancestors(trunk) : ~LiveRevert(c, i)]_trunkVars

\* "A branch that moves at the last instant cannot slip unverified work onto
\* trunk": whatever source trunk is at has a green build.
TrunkIsJudged == Source(Tree(trunk)) \in greens
=============================================================================
