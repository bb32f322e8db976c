---------------------------- MODULE ServicesProofs ----------------------------
(* Proofs about the services of MCServices: the merge to trunk and the        *)
(* question forms, for any number of conversations, changes, commits,         *)
(* followers, calls and presses. The build pipeline's are in                  *)
(* BuildPipelineProofs.                                                       *)
EXTENDS MCServices, BuildPipelineProofs, FiniteSetTheorems, SequenceTheorems

-----------------------------------------------------------------------------
(* The invariants of the merge to trunk *)

\* What no reset and no resolution has taken out of a tree.
Lasting(tree) == tree \ (dropped \cup {Markers})

\* A commit is its own ancestor, its ancestors are older and their ancestors its
\* own, and what lasts of their trees is in its tree.
History ==
    \A i \in DOMAIN revs :
        /\ i \in Ancestors(i) /\ Ancestors(i) \subseteq 1..i
        /\ \A j \in Ancestors(i) :
              Ancestors(j) \subseteq Ancestors(i) /\ Lasting(Tree(j)) \subseteq Tree(i)

\* A checkout holds what lasts of its branch and of the trunk it is merging.
Checkouts ==
    \A c \in Convs :
        /\ Lasting(Tree(tip[c])) \subseteq work[c]
        /\ mergeHead[c] # 0 =>
              mergeHead[c] \in Ancestors(trunk) /\ Lasting(Tree(mergeHead[c])) \subseteq work[c]

\* Conversations share only what is on trunk.
Heads(c) == {tip[c], gatedTip[c], target[c]} \ {0}
Apart ==
    \A c, d \in Convs : c # d =>
        \A i \in Heads(c), j \in Heads(d) : Ancestors(i) \cap Ancestors(j) \subseteq Ancestors(trunk)

\* Until the squash the commit that was judged is in the branch's history, and the
\* squash goes from a trunk that was in it and has not got the branch.
Pinned ==
    \A c \in Convs :
        step[c] \in {"gate", "reverts", "recheck", "count", "squash", "swap"} =>
            gatedTip[c] \in Ancestors(tip[c])
Swapping ==
    \A c \in Convs : step[c] = "swap" =>
        oldTip[c] # 0 /\ target[c] \in Ancestors(oldTip[c]) /\ target[c] \in Ancestors(trunk)

Ahead == \A c \in Convs : step[c] \in {"squash", "swap"} => tip[c] \notin Ancestors(trunk)

\* What the check for reverts established, if it saw the whole log, stands until trunk
\* moves.
Checked ==
    \A c \in Convs :
        /\ step[c] \in {"recheck", "count", "squash", "swap", "forward"} /\ c \notin blind
        /\ trunk \in Ancestors(gatedTip[c])
        => \A r \in Ancestors(gatedTip[c]) \ Ancestors(trunk) : ~LiveRevert(c, r)

\* What is about to go to trunk is the commit that was judged, or a squash of the tip
\* that was read.
Landing ==
    \A c \in Convs : step[c] = "forward" =>
        \/ target[c] = gatedTip[c]
        \/ oldTip[c] # 0 /\ Ancestors(target[c]) \ {target[c]} \subseteq Ancestors(oldTip[c])

TrunkInv ==
    /\ TrunkTypeOK /\ History /\ Checkouts /\ Apart /\ Pinned /\ Swapping
    /\ Ahead /\ Checked /\ Landing /\ NothingUnreachable

-----------------------------------------------------------------------------
(* Types of the merge to trunk *)

TreeSets == SUBSET (Changes \cup {Markers})
RevSet == [tree: TreeSets, anc: SUBSET (1..MaxRevs), reset: BOOLEAN]
Early == {"idle", "update", "pin"}

\* What the types say of a commit.
LEMMA RevTypes ==
    ASSUME TrunkTypeOK
    PROVE  /\ revs \in Seq(RevSet) /\ Len(revs) \in Nat /\ DOMAIN revs = 1..Len(revs)
           /\ 0 \notin DOMAIN revs
           /\ \A i \in DOMAIN revs : i \in Nat /\ Tree(i) \in TreeSets /\ Ancestors(i) \subseteq 1..MaxRevs
<1>1. revs \in Seq(RevSet)
  BY DEF TrunkTypeOK, RevSet, TreeSets
<1>2. Len(revs) \in Nat /\ DOMAIN revs = 1..Len(revs)
  BY <1>1
<1>3. \A i \in DOMAIN revs : revs[i] \in RevSet /\ i \in Nat /\ i # 0
  BY <1>1, <1>2
<1>4. \A i \in DOMAIN revs : Tree(i) \in TreeSets /\ Ancestors(i) \subseteq 1..MaxRevs
  BY <1>3 DEF RevSet, Tree, Ancestors
<1> QED BY <1>1, <1>2, <1>3, <1>4

\* The types by conversation.
LEMMA ConvTypes ==
    ASSUME TrunkTypeOK, NEW c \in Convs
    PROVE  /\ tip[c] \in DOMAIN revs /\ work[c] \in TreeSets /\ mergeHead[c] \in {0} \cup DOMAIN revs
           /\ gatedTip[c] \in {0} \cup DOMAIN revs /\ oldTip[c] \in {0} \cup DOMAIN revs
           /\ target[c] \in {0} \cup DOMAIN revs /\ trunk \in DOMAIN revs
           /\ Parents(c) \subseteq DOMAIN revs
<1>1. /\ tip \in [Convs -> DOMAIN revs] /\ work \in [Convs -> TreeSets]
      /\ mergeHead \in [Convs -> {0} \cup DOMAIN revs] /\ trunk \in DOMAIN revs
  BY DEF TrunkTypeOK, TreeSets
<1>2. gatedTip \in [Convs -> {0} \cup DOMAIN revs] /\ oldTip \in [Convs -> {0} \cup DOMAIN revs]
      /\ target \in [Convs -> {0} \cup DOMAIN revs]
  BY DEF TrunkTypeOK
<1> QED BY <1>1, <1>2 DEF Parents

\* The number of the next commit is a new one.
LEMMA NextIsNew ==
    ASSUME TrunkTypeOK
    PROVE  /\ NextRev \in Nat /\ NextRev # 0 /\ NextRev \notin DOMAIN revs
           /\ (Room => NextRev \in 1..MaxRevs)
           /\ \A i \in DOMAIN revs : i < NextRev /\ 1..i \subseteq DOMAIN revs
<1>1. Len(revs) \in Nat /\ DOMAIN revs = 1..Len(revs)
  BY RevTypes
<1> QED BY <1>1, TrunkMergeAssumption DEF NextRev, Room

Adds(c, r, parents) ==
    /\ Room /\ r \in RevSet /\ r.anc = {NextRev} \cup UNION {Ancestors(p) : p \in parents}
    /\ revs' = Append(revs, r) /\ tip' = [tip EXCEPT ![c] = NextRev]

\* A commit as the operations make it.
LEMMA RevIsRev ==
    ASSUME TrunkTypeOK, Room, NEW tree \in TreeSets, NEW parents, parents \subseteq DOMAIN revs
    PROVE  /\ Rev(tree, parents, TRUE) \in RevSet /\ Rev(tree, parents, FALSE) \in RevSet
           /\ Rev(tree, parents, TRUE).tree = tree /\ Rev(tree, parents, FALSE).tree = tree
           /\ Rev(tree, parents, TRUE).reset /\ ~Rev(tree, parents, FALSE).reset
           /\ Rev(tree, parents, TRUE).anc = {NextRev} \cup UNION {Ancestors(p) : p \in parents}
           /\ Rev(tree, parents, FALSE).anc = {NextRev} \cup UNION {Ancestors(p) : p \in parents}
<1>1. NextRev \in 1..MaxRevs /\ \A i \in DOMAIN revs : Ancestors(i) \subseteq 1..MaxRevs
  BY NextIsNew, RevTypes
<1>2. {NextRev} \cup UNION {Ancestors(p) : p \in parents} \subseteq 1..MaxRevs
  BY <1>1
<1> QED BY <1>2 DEF Rev, RevSet

\* What a commit adds, and that it leaves the others as they are.
LEMMA Added ==
    ASSUME TrunkTypeOK, NEW c \in Convs, NEW r, NEW parents, Adds(c, r, parents)
    PROVE  /\ revs' \in Seq(RevSet)
           /\ DOMAIN revs' = DOMAIN revs \cup {NextRev}
           /\ \A i \in DOMAIN revs : revs'[i] = revs[i]
           /\ revs'[NextRev] = r
           /\ tip'[c] = NextRev /\ tip' \in [Convs -> DOMAIN revs']
           /\ \A d \in Convs \ {c} : tip'[d] = tip[d]
<1>0. revs \in Seq(RevSet) /\ Len(revs) \in Nat /\ DOMAIN revs = 1..Len(revs)
  BY RevTypes
<1>1. r \in RevSet /\ revs' = Append(revs, r) /\ NextRev = Len(revs) + 1
  BY DEF Adds, NextRev
<1>5. revs' \in Seq(RevSet) /\ Len(revs') = Len(revs) + 1 /\ revs'[Len(revs) + 1] = r
      /\ \A i \in 1..Len(revs) : revs'[i] = revs[i]
  BY <1>0, <1>1
<1>6. DOMAIN revs' = 1..(Len(revs) + 1)
  BY <1>5
<1>7. DOMAIN revs' = DOMAIN revs \cup {NextRev}
  BY <1>0, <1>1, <1>6
<1>8. tip \in [Convs -> DOMAIN revs] /\ tip' = [tip EXCEPT ![c] = NextRev]
  BY DEF TrunkTypeOK, Adds
<1>9. tip'[c] = NextRev /\ tip' \in [Convs -> DOMAIN revs'] /\ \A d \in Convs \ {c} : tip'[d] = tip[d]
  BY <1>7, <1>8
<1> QED BY <1>0, <1>1, <1>5, <1>7, <1>9

-----------------------------------------------------------------------------
(* The shapes a step of a branch can have *)

Holds(c, tree) == work' = [work EXCEPT ![c] = tree]
NoCommit == UNCHANGED <<revs, tip, mergeHead>>

Edited(c) ==
    \E t \in TreeSets : Holds(c, t) /\ work[c] \subseteq t \cup {Markers} \cup dropped' /\ NoCommit
Committed(c) ==
    \E r \in RevSet :
        /\ Adds(c, r, Parents(c)) /\ Holds(c, r.tree) /\ work[c] \subseteq r.tree \cup dropped'
        /\ mergeHead' = [mergeHead EXCEPT ![c] = 0]
FastForwarded(c) ==
    /\ tip[c] \in Ancestors(trunk) /\ tip' = [tip EXCEPT ![c] = trunk] /\ Holds(c, Tree(trunk))
    /\ mergeHead[c] = 0 /\ UNCHANGED <<revs, mergeHead>>
\* A merge of trunk keeps what lasts of both sides.
Joins(c, tree) == Lasting(Tree(tip[c])) \cup Lasting(Tree(trunk)) \subseteq tree
Pulled(c) ==
    /\ \E r \in RevSet : Adds(c, r, {tip[c], trunk}) /\ Holds(c, r.tree) /\ Joins(c, r.tree)
    /\ mergeHead[c] = 0 /\ UNCHANGED mergeHead
Conflicted(c) ==
    /\ \E t \in TreeSets : Holds(c, t) /\ Joins(c, t)
    /\ mergeHead' = [mergeHead EXCEPT ![c] = trunk] /\ UNCHANGED <<revs, tip>>
Aborted(c) ==
    /\ Holds(c, Tree(tip[c])) /\ mergeHead' = [mergeHead EXCEPT ![c] = 0]
    /\ UNCHANGED <<revs, tip>>

BranchMoves(c) ==
    Edited(c) \/ Committed(c) \/ FastForwarded(c) \/ Pulled(c) \/ Conflicted(c) \/ Aborted(c)
BranchStep(c) ==
    /\ BranchMoves(c) /\ dropped \subseteq dropped'
    /\ UNCHANGED <<trunk, kept, gatedTip, oldTip, target, blind>>
    /\ \/ step' = step
       \/ step[c] \in Early /\ \E s \in Early : step' = [step EXCEPT ![c] = s]

\* A step that leaves a checkout and its branch alone has such a shape.
LEMMA StillShape ==
    ASSUME TrunkTypeOK, NEW c \in Convs, work' = work, NoCommit
    PROVE  Edited(c)
<1>1. work[c] \in TreeSets /\ work \in [Convs -> TreeSets]
  BY ConvTypes DEF TrunkTypeOK, TreeSets
<1>2. work' = [work EXCEPT ![c] = work[c]]
  BY <1>1
<1> QED BY <1>1, <1>2 DEF Edited, Holds

\* So has a checkpoint.
LEMMA CheckpointShape ==
    ASSUME TrunkTypeOK, NEW c \in Convs, CommitTree(c, work[c], FALSE), work' = work
    PROVE  Edited(c) \/ Committed(c)
<1>1. work[c] \in TreeSets /\ work \in [Convs -> TreeSets]
  BY ConvTypes DEF TrunkTypeOK, TreeSets
<1>2. work' = [work EXCEPT ![c] = work[c]]
  BY <1>1
<1>3. CASE work[c] = Tree(tip[c])
  BY <1>3, StillShape DEF CommitTree, NoCommit
<1>4. CASE work[c] # Tree(tip[c])
  <2> DEFINE r == Rev(work[c], Parents(c), FALSE)
  <2>1. /\ Room /\ revs' = Append(revs, r) /\ tip' = [tip EXCEPT ![c] = NextRev]
        /\ mergeHead' = [mergeHead EXCEPT ![c] = 0]
    BY <1>4 DEF CommitTree
  <2>2. r \in RevSet /\ r.tree = work[c] /\ r.anc = {NextRev} \cup UNION {Ancestors(p) : p \in Parents(c)}
    BY <1>1, <2>1, ConvTypes, RevIsRev
  <2> HIDE DEF r
  <2>3. Adds(c, r, Parents(c))
    BY <2>1, <2>2 DEF Adds
  <2> QED BY <1>1, <1>2, <2>1, <2>2, <2>3 DEF Committed, Holds
<1> QED BY <1>3, <1>4

\* And a merge of trunk: what lasts of what the two sides have in common, both have.
LEMMA PullShape ==
    ASSUME TrunkTypeOK, History, NEW c \in Convs, PullTrunk(c), work[c] = Tree(tip[c]), mergeHead[c] = 0
    PROVE  FastForwarded(c) \/ Pulled(c) \/ Conflicted(c)
<1>1. {tip[c], trunk} \subseteq DOMAIN revs /\ work[c] \in TreeSets /\ Tree(trunk) \in TreeSets
  BY ConvTypes, RevTypes
<1>2. CASE tip[c] \in Ancestors(trunk)
  BY <1>2 DEF PullTrunk, FastForwarded, Holds
<1>3. ASSUME NEW b \in MergeBases(c)
      PROVE  Joins(c, Merged(work[c], Tree(trunk), Tree(b)))
             /\ Merged(work[c], Tree(trunk), Tree(b)) \in TreeSets
  <2>1. b \in Ancestors(tip[c]) /\ b \in Ancestors(trunk)
    BY DEF MergeBases, Common
  <2>2. Lasting(Tree(b)) \subseteq work[c] /\ Lasting(Tree(b)) \subseteq Tree(trunk)
    BY <1>1, <2>1 DEF History
  <2>3. Joins(c, Merged(work[c], Tree(trunk), Tree(b)))
    BY <2>2 DEF Joins, Merged, Lasting
  <2>4. Merged(work[c], Tree(trunk), Tree(b)) \in TreeSets
    BY <1>1 DEF Merged, TreeSets
  <2> QED BY <2>3, <2>4
<1>4. ASSUME NEW b \in MergeBases(c), NEW t, t = Merged(work[c], Tree(trunk), Tree(b)),
             \/ /\ Room
                /\ revs' = Append(revs, Rev(t, {tip[c], trunk}, FALSE))
                /\ tip' = [tip EXCEPT ![c] = NextRev] /\ work' = [work EXCEPT ![c] = t]
                /\ UNCHANGED mergeHead
             \/ /\ \E seen \in SUBSET ((work[c] \cup Tree(trunk)) \ t) :
                       work' = [work EXCEPT ![c] = t \cup seen \cup {Markers}]
                /\ mergeHead' = [mergeHead EXCEPT ![c] = trunk]
                /\ UNCHANGED <<revs, tip>>
      PROVE  Pulled(c) \/ Conflicted(c)
  <2>1. Joins(c, t) /\ t \in TreeSets
    BY <1>3, <1>4
  <2>2. CASE /\ Room
             /\ revs' = Append(revs, Rev(t, {tip[c], trunk}, FALSE))
             /\ tip' = [tip EXCEPT ![c] = NextRev] /\ work' = [work EXCEPT ![c] = t]
             /\ UNCHANGED mergeHead
    <3> DEFINE r == Rev(t, {tip[c], trunk}, FALSE)
    <3>1. /\ r \in RevSet /\ r.tree = t
          /\ r.anc = {NextRev} \cup UNION {Ancestors(p) : p \in {tip[c], trunk}}
      BY <1>1, <2>1, <2>2, RevIsRev
    <3>2. revs' = Append(revs, r)
      BY <2>2
    <3> HIDE DEF r
    <3>3. Adds(c, r, {tip[c], trunk})
      BY <2>2, <3>1, <3>2 DEF Adds
    <3> QED BY <2>1, <2>2, <3>1, <3>3 DEF Pulled, Holds
  <2>3. ASSUME NEW seen \in SUBSET ((work[c] \cup Tree(trunk)) \ t),
               work' = [work EXCEPT ![c] = t \cup seen \cup {Markers}],
               mergeHead' = [mergeHead EXCEPT ![c] = trunk], UNCHANGED <<revs, tip>>
        PROVE  Conflicted(c)
    <3>1. t \cup seen \cup {Markers} \in TreeSets /\ Joins(c, t \cup seen \cup {Markers})
      BY <1>1, <2>1 DEF TreeSets, Joins
    <3> QED BY <2>3, <3>1 DEF Conflicted, Holds
  <2> QED BY <1>4, <2>2, <2>3
<1> QED BY <1>2, <1>4 DEF PullTrunk

\* And a reset: what it takes out of the checkout is on record.
LEMMA ResetShape ==
    ASSUME TrunkTypeOK, NEW c \in Convs, ResetSource(c)
    PROVE  (Committed(c) \/ Edited(c)) /\ dropped \subseteq dropped'
<1>0. work[c] \in TreeSets /\ work \in [Convs -> TreeSets]
  BY ConvTypes DEF TrunkTypeOK, TreeSets
<1>1. PICK i \in Ancestors(tip[c]) :
          /\ work' = [work EXCEPT ![c] = (@ \ Gated) \cup Source(Tree(i))]
          /\ CommitTree(c, work'[c], TRUE)
          /\ dropped' = dropped \cup (Source(work[c]) \ Source(Tree(i)))
  BY DEF ResetSource
<1> DEFINE t == (work[c] \ Gated) \cup Source(Tree(i))
<1>2. work' = [work EXCEPT ![c] = t] /\ work'[c] = t
  BY <1>0, <1>1
<1>3. t \in TreeSets /\ work[c] \subseteq t \cup dropped'
  BY <1>0, <1>1, TrunkMergeAssumption DEF Source, TreeSets
<1> HIDE DEF t
<1>4. CASE t = Tree(tip[c])
  <2>1. NoCommit
    BY <1>1, <1>2, <1>4 DEF CommitTree, NoCommit
  <2> QED BY <1>1, <1>2, <1>3, <2>1 DEF Edited, Holds
<1>5. CASE t # Tree(tip[c])
  <2> DEFINE r == Rev(t, Parents(c), TRUE)
  <2>1. /\ Room /\ revs' = Append(revs, r) /\ tip' = [tip EXCEPT ![c] = NextRev]
        /\ mergeHead' = [mergeHead EXCEPT ![c] = 0]
    BY <1>1, <1>2, <1>5 DEF CommitTree
  <2>2. r \in RevSet /\ r.tree = t
        /\ r.anc = {NextRev} \cup UNION {Ancestors(p) : p \in Parents(c)}
    BY <1>3, <2>1, ConvTypes, RevIsRev
  <2> HIDE DEF r
  <2>3. Adds(c, r, Parents(c))
    BY <2>1, <2>2 DEF Adds
  <2> QED BY <1>1, <1>2, <1>3, <2>1, <2>2, <2>3 DEF Committed, Holds
<1> QED BY <1>4, <1>5

\* What a worker does, and the merge before it pins a commit, has one of the shapes.
LEMMA BranchShape ==
    ASSUME TrunkTypeOK, History, NEW c \in Convs, WorkerStep(c) \/ MergeAsked(c) \/ MergeUpdates(c)
    PROVE  BranchStep(c)
<1>0. work[c] \in TreeSets /\ work \in [Convs -> TreeSets] /\ step \in [Convs -> Steps]
  BY ConvTypes DEF TrunkTypeOK, TreeSets
<1>1. ASSUME NEW w \in Changes, Write(c, w) PROVE BranchStep(c)
  <2>1. work[c] \cup {w} \in TreeSets /\ work[c] \subseteq (work[c] \cup {w}) \cup {Markers}
    BY <1>0 DEF TreeSets
  <2>2. work' = [work EXCEPT ![c] = work[c] \cup {w}]
    BY <1>1 DEF Write
  <2> QED BY <1>1, <2>1, <2>2 DEF Write, BranchStep, BranchMoves, Edited, Holds, NoCommit, mergeVars
<1>2. CASE CheckpointTree(c)
  BY <1>2, CheckpointShape DEF CheckpointTree, BranchStep, BranchMoves, mergeVars
<1>3. CASE GreenBuild(c)
  BY <1>3, StillShape DEF GreenBuild, BranchStep, BranchMoves, mergeVars, branchVars, NoCommit
<1>4. CASE ResetSource(c)
  BY <1>4, ResetShape DEF ResetSource, BranchStep, BranchMoves, mergeVars
<1>5. CASE UpdateFromTrunk(c)
  BY <1>5, PullShape DEF UpdateFromTrunk, BranchStep, BranchMoves, mergeVars
<1>6. CASE Resolve(c)
  <2>1. work[c] \ {Markers} \in TreeSets /\ work[c] \subseteq (work[c] \ {Markers}) \cup {Markers}
    BY <1>0 DEF TreeSets
  <2>2. work' = [work EXCEPT ![c] = work[c] \ {Markers}]
    BY <1>6 DEF Resolve
  <2> QED BY <1>6, <2>1, <2>2 DEF Resolve, BranchStep, BranchMoves, Edited, Holds, NoCommit, mergeVars
<1>7. CASE CompleteMerge(c)
  <2> DEFINE r == Rev(work[c], Parents(c), FALSE)
  <2>1. /\ Room /\ revs' = Append(revs, r) /\ tip' = [tip EXCEPT ![c] = NextRev]
        /\ mergeHead' = [mergeHead EXCEPT ![c] = 0] /\ work' = work
    BY <1>7 DEF CompleteMerge
  <2>2. r \in RevSet /\ r.tree = work[c] /\ r.anc = {NextRev} \cup UNION {Ancestors(p) : p \in Parents(c)}
    BY <1>0, <2>1, ConvTypes, RevIsRev
  <2> HIDE DEF r
  <2>4. Adds(c, r, Parents(c)) /\ work' = [work EXCEPT ![c] = work[c]]
    BY <1>0, <2>1, <2>2 DEF Adds
  <2>3. Committed(c)
    BY <2>1, <2>2, <2>4 DEF Committed, Holds
  <2> QED BY <1>7, <2>3 DEF CompleteMerge, BranchStep, BranchMoves, mergeVars
<1>8. CASE AbortMerge(c)
  BY <1>8 DEF AbortMerge, BranchStep, BranchMoves, Aborted, Holds, mergeVars
<1>9. CASE MergeAsked(c)
  <2>1. Edited(c) \/ Committed(c)
    BY <1>9, CheckpointShape DEF MergeAsked
  <2>2. step[c] \in Early /\ \E s \in Early : step' = [step EXCEPT ![c] = s]
    BY <1>9 DEF MergeAsked, MergeAt, Early
  <2> QED BY <1>9, <2>1, <2>2 DEF MergeAsked, BranchStep, BranchMoves
<1>10. CASE MergeUpdates(c)
  <2>1. UNCHANGED <<trunk, kept, gatedTip, oldTip, target, blind, dropped>>
    BY <1>10 DEF MergeUpdates
  <2>2. step' = step \/ (step[c] \in Early /\ \E s \in Early : step' = [step EXCEPT ![c] = s])
    BY <1>10 DEF MergeUpdates, MergeAt, Early
  <2>3. CASE UNCHANGED <<revs, branchVars>>
    BY <2>1, <2>2, <2>3, StillShape DEF BranchStep, BranchMoves, branchVars, NoCommit
  <2>4. CASE work[c] = Tree(tip[c]) /\ mergeHead[c] = 0 /\ PullTrunk(c)
    BY <2>1, <2>2, <2>4, PullShape DEF BranchStep, BranchMoves
  <2>5. CASE CommitTree(c, work[c], FALSE) /\ UNCHANGED work
    BY <2>1, <2>2, <2>5, CheckpointShape DEF BranchStep, BranchMoves
  <2> QED BY <1>10, <2>3, <2>4, <2>5 DEF MergeUpdates
<1> QED BY <1>1, <1>2, <1>3, <1>4, <1>5, <1>6, <1>7, <1>8, <1>9, <1>10 DEF WorkerStep

RefTypes ==
    /\ revs \in Seq(RevSet) /\ {trunk} \cup kept \subseteq DOMAIN revs
    /\ tip \in [Convs -> DOMAIN revs] /\ work \in [Convs -> TreeSets]
    /\ mergeHead \in [Convs -> {0} \cup DOMAIN revs]
LocalTypes ==
    /\ step \in [Convs -> Steps] /\ gatedTip \in [Convs -> {0} \cup DOMAIN revs]
    /\ oldTip \in [Convs -> {0} \cup DOMAIN revs] /\ target \in [Convs -> {0} \cup DOMAIN revs]
    /\ \A c \in Convs : step[c] \in {"idle", "update", "pin"} <=> gatedTip[c] = 0
    /\ \A c \in Convs : step[c] \in {"swap", "forward"} <=> target[c] # 0
OtherTypes == greens \subseteq SUBSET Gated /\ dropped \subseteq Gated /\ blind \subseteq Convs

\* The types by kind.
LEMMA TrunkParts == TrunkTypeOK <=> RefTypes /\ LocalTypes /\ OtherTypes
BY DEF TrunkTypeOK, RefTypes, LocalTypes, OtherTypes, RevSet, TreeSets

\* Commits stay as they are.
Extends == DOMAIN revs \subseteq DOMAIN revs' /\ \A i \in DOMAIN revs : revs'[i] = revs[i]

\* What all the shapes have in common: no commit changes, at most one is added and
\* it is the branch's new tip, whose history has grown by it and by trunk's at most,
\* and no other conversation notices.
LEMMA BranchFacts ==
    ASSUME TrunkTypeOK, History, Checkouts, NEW c \in Convs, BranchStep(c)
    PROVE  /\ RefTypes' /\ Extends
           /\ DOMAIN revs' = DOMAIN revs \/ (DOMAIN revs' = DOMAIN revs \cup {NextRev} /\ tip'[c] = NextRev)
           /\ \A d \in Convs \ {c} : tip'[d] = tip[d] /\ work'[d] = work[d] /\ mergeHead'[d] = mergeHead[d]
           /\ Ancestors(tip[c]) \subseteq revs'[tip'[c]].anc
           /\ revs'[tip'[c]].anc \subseteq Ancestors(tip[c]) \cup Ancestors(trunk) \cup {NextRev}
<1>0. /\ RefTypes /\ tip[c] \in DOMAIN revs /\ trunk \in DOMAIN revs /\ Parents(c) \subseteq DOMAIN revs
      /\ tip[c] \in Parents(c) /\ work[c] \in TreeSets
      /\ \A i \in DOMAIN revs : Tree(i) \in TreeSets
      /\ trunk' = trunk /\ kept' = kept
  <2>1. tip[c] # 0
    BY ConvTypes, RevTypes
  <2> QED BY <2>1, TrunkParts, ConvTypes, RevTypes DEF BranchStep, Parents
<1> DEFINE G == /\ RefTypes' /\ Extends
                /\ DOMAIN revs' = DOMAIN revs \/ (DOMAIN revs' = DOMAIN revs \cup {NextRev} /\ tip'[c] = NextRev)
                /\ \A d \in Convs \ {c} : tip'[d] = tip[d] /\ work'[d] = work[d] /\ mergeHead'[d] = mergeHead[d]
                /\ Ancestors(tip[c]) \subseteq revs'[tip'[c]].anc
                /\ revs'[tip'[c]].anc \subseteq Ancestors(tip[c]) \cup Ancestors(trunk) \cup {NextRev}
<1>1. ASSUME NEW t \in TreeSets, Holds(c, t), UNCHANGED <<revs, tip>>,
             mergeHead' \in {mergeHead, [mergeHead EXCEPT ![c] = trunk], [mergeHead EXCEPT ![c] = 0]}
      PROVE  G
  <2>1. work' \in [Convs -> TreeSets] /\ \A d \in Convs \ {c} : work'[d] = work[d]
    BY <1>0, <1>1 DEF Holds, RefTypes
  <2>2. mergeHead' \in [Convs -> {0} \cup DOMAIN revs] /\ \A d \in Convs \ {c} : mergeHead'[d] = mergeHead[d]
    BY <1>0, <1>1 DEF RefTypes
  <2> QED BY <1>0, <1>1, <2>1, <2>2 DEF RefTypes, Extends, Ancestors
<1>2. ASSUME NEW r \in RevSet, NEW parents, Adds(c, r, parents), Holds(c, r.tree), tip[c] \in parents,
             \A p \in parents : Ancestors(p) \subseteq Ancestors(tip[c]) \cup Ancestors(trunk),
             mergeHead' \in {mergeHead, [mergeHead EXCEPT ![c] = 0]}
      PROVE  G
  <2>1. /\ revs' \in Seq(RevSet) /\ DOMAIN revs' = DOMAIN revs \cup {NextRev}
        /\ (\A i \in DOMAIN revs : revs'[i] = revs[i])
        /\ revs'[NextRev] = r
        /\ tip'[c] = NextRev /\ tip' \in [Convs -> DOMAIN revs']
        /\ \A d \in Convs \ {c} : tip'[d] = tip[d]
    BY <1>2, Added
  <2>2. work' \in [Convs -> TreeSets] /\ \A d \in Convs \ {c} : work'[d] = work[d]
    <3>1. r.tree \in TreeSets
      BY DEF RevSet
    <3> QED BY <1>0, <1>2, <3>1 DEF Holds, RefTypes
  <2>7. revs'[NextRev].anc = {NextRev} \cup UNION {Ancestors(p) : p \in parents}
    BY <1>2, <2>1 DEF Adds
  <2>3. mergeHead' \in [Convs -> {0} \cup DOMAIN revs'] /\ \A d \in Convs \ {c} : mergeHead'[d] = mergeHead[d]
    BY <1>0, <1>2, <2>1 DEF RefTypes
  <2>4. RefTypes'
    BY <1>0, <2>1, <2>2, <2>3 DEF RefTypes
  <2>5. Ancestors(tip[c]) \subseteq revs'[NextRev].anc
    BY <1>2, <2>7
  <2>6. revs'[NextRev].anc \subseteq Ancestors(tip[c]) \cup Ancestors(trunk) \cup {NextRev}
    BY <1>2, <2>7
  <2> QED BY <2>1, <2>2, <2>3, <2>4, <2>5, <2>6 DEF Extends
<1>3. CASE Edited(c)
  BY <1>1, <1>3 DEF Edited, NoCommit
<1>4. CASE Conflicted(c)
  BY <1>1, <1>4 DEF Conflicted
<1>5. CASE Aborted(c)
  BY <1>0, <1>1, <1>5 DEF Aborted
<1>6. CASE Committed(c)
  <2>1. \A p \in Parents(c) : Ancestors(p) \subseteq Ancestors(tip[c]) \cup Ancestors(trunk)
    <3>1. mergeHead[c] # 0 => mergeHead[c] \in Ancestors(trunk)
      BY DEF Checkouts
    <3>2. mergeHead[c] # 0 => Ancestors(mergeHead[c]) \subseteq Ancestors(trunk)
      BY <1>0, <3>1 DEF History
    <3> QED BY <3>2 DEF Parents
  <2> QED BY <1>0, <1>2, <1>6, <2>1 DEF Committed
<1>7. CASE Pulled(c)
  <2>1. PICK r \in RevSet : Adds(c, r, {tip[c], trunk}) /\ Holds(c, r.tree)
    BY <1>7 DEF Pulled
  <2>2. Holds(c, r.tree) /\ mergeHead' = mergeHead
    BY <1>7, <2>1 DEF Pulled
  <2> DEFINE P == {tip[c], trunk}
  <2>3. /\ tip[c] \in P /\ Adds(c, r, P)
        /\ \A p \in P : Ancestors(p) \subseteq Ancestors(tip[c]) \cup Ancestors(trunk)
    BY <2>1
  <2>4. mergeHead' \in {mergeHead, [mergeHead EXCEPT ![c] = 0]}
    BY <2>2
  <2> HIDE DEF G, P
  <2>5. G
    BY <1>2, <2>2, <2>3, <2>4
  <2> QED BY <2>5 DEF G
<1>8. CASE FastForwarded(c)
  <2>1. /\ tip[c] \in Ancestors(trunk) /\ tip' = [tip EXCEPT ![c] = trunk] /\ Holds(c, Tree(trunk))
        /\ revs' = revs /\ mergeHead' = mergeHead
    BY <1>8 DEF FastForwarded
  <2>2. tip' \in [Convs -> DOMAIN revs] /\ tip'[c] = trunk /\ \A d \in Convs \ {c} : tip'[d] = tip[d]
    BY <1>0, <2>1 DEF RefTypes
  <2>3. work' \in [Convs -> TreeSets] /\ \A d \in Convs \ {c} : work'[d] = work[d]
    BY <1>0, <2>1 DEF Holds, RefTypes
  <2>4. Ancestors(tip[c]) \subseteq Ancestors(trunk)
    BY <1>0, <2>1 DEF History
  <2>5. RefTypes' /\ Extends
    BY <1>0, <2>1, <2>2, <2>3 DEF RefTypes, Extends
  <2>6. revs'[tip'[c]].anc = Ancestors(trunk)
    BY <2>1, <2>2 DEF Ancestors
  <2> QED BY <2>1, <2>2, <2>3, <2>4, <2>5, <2>6
<1> QED BY <1>3, <1>4, <1>5, <1>6, <1>7, <1>8 DEF BranchStep, BranchMoves

-----------------------------------------------------------------------------
(* What a step of a branch keeps *)

\* What lasts of a tree after a step, with every prime in sight.
LastsOn(tree) == tree \ (dropped' \cup {Markers})

\* The history of commits that stay as they are stays as it is.
LEMMA OldHistory ==
    ASSUME TrunkTypeOK, History, Extends, dropped \subseteq dropped', NEW i \in DOMAIN revs
    PROVE  /\ i \in revs'[i].anc /\ revs'[i].anc \subseteq 1..i
           /\ \A j \in revs'[i].anc : /\ j \in DOMAIN revs /\ revs'[j].anc \subseteq revs'[i].anc
                                      /\ LastsOn(revs'[j].tree) \subseteq revs'[i].tree
<1>1. revs'[i] = revs[i] /\ Ancestors(i) \subseteq 1..i /\ 1..i \subseteq DOMAIN revs
  BY NextIsNew DEF Extends, History
<1>2. \A j \in Ancestors(i) : j \in DOMAIN revs /\ revs'[j] = revs[j]
  BY <1>1 DEF Extends
<1> QED BY <1>1, <1>2 DEF History, Ancestors, Tree, Lasting, LastsOn

\* A commit whose tree holds what lasts of its parents' joins the history.
LEMMA AddedHistory ==
    ASSUME TrunkTypeOK, History, NEW c \in Convs, NEW r, NEW parents, Adds(c, r, parents),
           parents \subseteq DOMAIN revs, dropped \subseteq dropped',
           \A p \in parents : LastsOn(Tree(p)) \subseteq r.tree
    PROVE  History'
<1>1. /\ DOMAIN revs' = DOMAIN revs \cup {NextRev} /\ Extends /\ revs'[NextRev] = r
      /\ r.anc = {NextRev} \cup UNION {Ancestors(p) : p \in parents}
  <2>1. /\ DOMAIN revs' = DOMAIN revs \cup {NextRev} /\ revs'[NextRev] = r
        /\ \A i \in DOMAIN revs : revs'[i] = revs[i]
    BY Added
  <2> QED BY <2>1 DEF Extends, Adds
<1>2. \A i \in DOMAIN revs :
           /\ i \in revs'[i].anc /\ revs'[i].anc \subseteq 1..i
           /\ \A j \in revs'[i].anc : /\ j \in DOMAIN revs /\ revs'[j].anc \subseteq revs'[i].anc
                                      /\ LastsOn(revs'[j].tree) \subseteq revs'[i].tree
  BY <1>1, OldHistory
<1>3. \A i \in DOMAIN revs : Ancestors(i) = revs'[i].anc /\ Tree(i) = revs'[i].tree
  BY <1>1 DEF Extends, Ancestors, Tree
<1>4. ASSUME NEW p \in parents, NEW j \in Ancestors(p)
      PROVE  /\ j \in DOMAIN revs /\ revs'[j].anc \subseteq Ancestors(p)
             /\ LastsOn(revs'[j].tree) \subseteq r.tree
  <2>1. p \in DOMAIN revs /\ Ancestors(p) = revs'[p].anc /\ Tree(p) = revs'[p].tree
    BY <1>3
  <2>2. j \in DOMAIN revs /\ revs'[j].anc \subseteq revs'[p].anc /\ LastsOn(revs'[j].tree) \subseteq Tree(p)
    BY <1>2, <1>4, <2>1
  <2>3. LastsOn(revs'[j].tree) \subseteq LastsOn(Tree(p))
    BY <2>2 DEF LastsOn
  <2> QED BY <2>1, <2>2, <2>3
<1>5. NextRev \in r.anc /\ r.anc \subseteq 1..NextRev
  <2>1. NextRev \in Nat /\ NextRev # 0 /\ \A i \in DOMAIN revs : i < NextRev /\ i \in Nat /\ i # 0
    BY NextIsNew, RevTypes
  <2> QED BY <1>1, <1>4, <2>1
<1>6. ASSUME NEW j \in r.anc
      PROVE  revs'[j].anc \subseteq r.anc /\ LastsOn(revs'[j].tree) \subseteq r.tree
  <2>1. CASE j = NextRev
    BY <1>1, <2>1 DEF LastsOn
  <2>2. CASE \E p \in parents : j \in Ancestors(p)
    BY <1>1, <1>4, <2>2
  <2> QED BY <1>1, <1>6, <2>1, <2>2
<1>7. ASSUME NEW i \in DOMAIN revs'
      PROVE  /\ i \in revs'[i].anc /\ revs'[i].anc \subseteq 1..i
             /\ \A j \in revs'[i].anc : revs'[j].anc \subseteq revs'[i].anc
                                        /\ LastsOn(revs'[j].tree) \subseteq revs'[i].tree
  <2>1. CASE i \in DOMAIN revs
    BY <1>2, <2>1
  <2>2. CASE i = NextRev
    BY <1>1, <1>5, <1>6, <2>2
  <2> QED BY <1>1, <2>1, <2>2
<1> QED BY <1>7 DEF History, Ancestors, Tree, Lasting, LastsOn

\* A branch's step makes history of what it commits.
LEMMA BranchHistory ==
    ASSUME TrunkTypeOK, History, Checkouts, NEW c \in Convs, BranchStep(c)
    PROVE  History'
<1>0. dropped \subseteq dropped'
  BY DEF BranchStep
<1>1. CASE revs' = revs
  BY <1>0, <1>1 DEF History, Ancestors, Tree, Lasting
<1>2. CASE Committed(c)
  <2>1. PICK r \in RevSet : Adds(c, r, Parents(c)) /\ work[c] \subseteq r.tree \cup dropped'
    BY <1>2 DEF Committed
  <2>2. Parents(c) \subseteq DOMAIN revs
    BY ConvTypes
  <2>3. \A p \in Parents(c) : Lasting(Tree(p)) \subseteq work[c]
    BY DEF Parents, Checkouts
  <2>4. \A p \in Parents(c) : LastsOn(Tree(p)) \subseteq r.tree
    BY <1>0, <2>1, <2>3 DEF Lasting, LastsOn
  <2> QED BY <1>0, <2>1, <2>2, <2>4, AddedHistory
<1>3. CASE Pulled(c)
  <2>1. PICK r \in RevSet : Adds(c, r, {tip[c], trunk}) /\ Joins(c, r.tree)
    BY <1>3 DEF Pulled
  <2> DEFINE P == {tip[c], trunk}
  <2>2. P \subseteq DOMAIN revs /\ Adds(c, r, P)
    BY <2>1, ConvTypes
  <2>3. \A p \in P : LastsOn(Tree(p)) \subseteq r.tree
    BY <1>0, <2>1 DEF Joins, Lasting, LastsOn
  <2> HIDE DEF P
  <2> QED BY <1>0, <2>2, <2>3, AddedHistory
<1> QED BY <1>1, <1>2, <1>3 DEF BranchStep, BranchMoves, Edited, NoCommit, FastForwarded, Conflicted, Aborted

\* The checkout of the branch that moves holds what it must.
LEMMA BranchCheckouts ==
    ASSUME TrunkTypeOK, History, Checkouts, NEW c \in Convs, BranchStep(c)
    PROVE  Checkouts'
<1>0. /\ RefTypes' /\ Extends /\ trunk' = trunk /\ trunk \in DOMAIN revs /\ dropped \subseteq dropped'
      /\ \A d \in Convs \ {c} : tip'[d] = tip[d] /\ work'[d] = work[d] /\ mergeHead'[d] = mergeHead[d]
  BY BranchFacts, ConvTypes DEF BranchStep
<1>1. RefTypes /\ tip[c] \in DOMAIN revs /\ mergeHead[c] \in {0} \cup DOMAIN revs
  BY TrunkParts, ConvTypes
<1>2. /\ Lasting(Tree(tip[c])) \subseteq work[c]
      /\ mergeHead[c] # 0 =>
            mergeHead[c] \in Ancestors(trunk) /\ Lasting(Tree(mergeHead[c])) \subseteq work[c]
  BY DEF Checkouts
<1> DEFINE OK(d) == /\ LastsOn(revs'[tip'[d]].tree) \subseteq work'[d]
                    /\ mergeHead'[d] # 0 => /\ mergeHead'[d] \in revs'[trunk].anc
                                            /\ LastsOn(revs'[mergeHead'[d]].tree) \subseteq work'[d]
<1>3. ASSUME NEW d \in Convs \ {c} PROVE OK(d)
  <2>1. tip[d] \in DOMAIN revs /\ mergeHead[d] \in {0} \cup DOMAIN revs
    BY ConvTypes
  <2> QED BY <1>0, <2>1 DEF Checkouts, Extends, Ancestors, Tree, Lasting, LastsOn
<1>4. OK(c)
  <2>1. ASSUME NEW t \in TreeSets, Holds(c, t) PROVE work'[c] = t
    BY <1>1, <2>1 DEF Holds, RefTypes
  <2>2. CASE Edited(c)
    <3>1. work[c] \subseteq work'[c] \cup {Markers} \cup dropped' /\ UNCHANGED <<revs, tip, mergeHead>>
      BY <2>1, <2>2 DEF Edited, NoCommit
    <3> QED BY <1>0, <1>2, <3>1 DEF Lasting, LastsOn, Ancestors, Tree
  <2>4. CASE Committed(c)
    <3>1. PICK r \in RevSet : Adds(c, r, Parents(c)) /\ Holds(c, r.tree)
                              /\ mergeHead' = [mergeHead EXCEPT ![c] = 0]
      BY <2>4 DEF Committed
    <3>2. r.tree \in TreeSets
      BY DEF RevSet
    <3>3. work'[c] = r.tree /\ mergeHead'[c] = 0
      BY <1>1, <2>1, <3>1, <3>2 DEF RefTypes
    <3>4. revs'[tip'[c]] = r
      BY <3>1, Added
    <3> QED BY <3>3, <3>4 DEF LastsOn
  <2>5. CASE FastForwarded(c)
    <3>1. tip'[c] = trunk /\ work'[c] = Tree(trunk) /\ mergeHead'[c] = 0 /\ revs' = revs
      BY <1>1, <2>5 DEF FastForwarded, Holds, RefTypes
    <3> QED BY <3>1 DEF LastsOn, Tree
  <2>6. CASE Pulled(c)
    <3>1. PICK r \in RevSet : Adds(c, r, {tip[c], trunk}) /\ Holds(c, r.tree)
      BY <2>6 DEF Pulled
    <3>2. revs'[tip'[c]] = r
      BY <3>1, Added
    <3>3. work'[c] = r.tree /\ mergeHead'[c] = 0
      BY <1>1, <2>6, <3>1 DEF Pulled, Holds, RefTypes
    <3> QED BY <3>2, <3>3 DEF LastsOn
  <2>7. CASE Conflicted(c)
    <3>1. mergeHead'[c] = trunk /\ UNCHANGED <<revs, tip>>
      BY <1>1, <2>7 DEF Conflicted, RefTypes
    <3>2. Joins(c, work'[c])
      BY <2>1, <2>7 DEF Conflicted
    <3>3. trunk \in Ancestors(trunk)
      BY <1>0 DEF History
    <3> QED BY <1>0, <3>1, <3>2, <3>3 DEF Joins, Lasting, LastsOn, Ancestors, Tree
  <2>8. CASE Aborted(c)
    <3>1. work'[c] = Tree(tip[c]) /\ mergeHead'[c] = 0 /\ UNCHANGED <<revs, tip>>
      BY <1>1, <2>8 DEF Aborted, Holds, RefTypes
    <3> QED BY <3>1 DEF LastsOn, Tree
  <2> QED BY <2>2, <2>4, <2>5, <2>6, <2>7, <2>8 DEF BranchStep, BranchMoves
<1>5. \A d \in Convs : OK(d)
  BY <1>3, <1>4
<1> QED BY <1>0, <1>5 DEF Checkouts, Lasting, LastsOn, Ancestors, Tree

\* No two commits are each other's ancestors.
LEMMA Antisymmetry ==
    ASSUME TrunkTypeOK, History, NEW i \in DOMAIN revs, NEW j \in DOMAIN revs,
           i \in Ancestors(j), j \in Ancestors(i)
    PROVE  i = j
<1>1. i \in 1..j /\ j \in 1..i /\ i \in Nat /\ j \in Nat
  BY RevTypes DEF History
<1> QED BY <1>1

\* The commits a conversation has had a hand in.
Past(d) == UNION {Ancestors(h) : h \in Heads(d)}

\* A conversation that gains nothing but a new commit and what is on trunk still
\* shares with the others only what is on trunk.
LEMMA ApartStep ==
    ASSUME TrunkTypeOK, History, Apart, NEW c \in Convs,
           Ancestors(trunk) \subseteq revs'[trunk'].anc,
           \A d \in Convs \ {c} : \A i \in Heads(d)' : revs'[i].anc \subseteq Past(d) \cup Ancestors(trunk),
           \A i \in Heads(c)' : revs'[i].anc \subseteq Past(c) \cup Ancestors(trunk) \cup {NextRev}
    PROVE  Apart'
<1>1. \A d \in Convs : NextRev \notin Past(d) \cup Ancestors(trunk)
  <2>1. \A i \in DOMAIN revs : NextRev \notin Ancestors(i)
    <3>1. NextRev \in Nat /\ \A i \in DOMAIN revs : i < NextRev /\ i \in Nat /\ Ancestors(i) \subseteq 1..i
      BY NextIsNew, RevTypes DEF History
    <3> QED BY <3>1
  <2>2. ASSUME NEW d \in Convs, NEW h \in Heads(d) PROVE h \in DOMAIN revs
    BY <2>2, ConvTypes DEF Heads
  <2>3. Convs # {} => trunk \in DOMAIN revs
    BY ConvTypes
  <2> QED BY <2>1, <2>2, <2>3 DEF Past
<1>2. \A d, e \in Convs : d # e => Past(d) \cap Past(e) \subseteq Ancestors(trunk)
  BY DEF Past, Apart
<1>3. ASSUME NEW d \in Convs, NEW e \in Convs, d # e, NEW i \in Heads(d)', NEW j \in Heads(e)',
             NEW x \in revs'[i].anc, x \in revs'[j].anc
      PROVE  x \in revs'[trunk'].anc
  <2>1. x \in Past(d) \cup Ancestors(trunk) \cup {NextRev} /\ x \in Past(e) \cup Ancestors(trunk) \cup {NextRev}
    BY <1>3
  <2>2. d # c \/ e # c
    BY <1>3
  <2>3. x # NextRev
    BY <1>1, <1>3, <2>2
  <2> QED BY <1>2, <1>3, <2>1, <2>3
<1> QED BY <1>3 DEF Apart, Ancestors

\* A conversation whose locals stay as they are keeps what was checked of the
\* commit it judges.
LEMMA OldChecked ==
    ASSUME TrunkTypeOK, History, Extends, trunk' = trunk, Checked, NEW d \in Convs,
           gatedTip[d] # 0, gatedTip'[d] = gatedTip[d], d \notin blind,
           step[d] \in {"recheck", "count", "squash", "swap", "forward"},
           trunk' \in revs'[gatedTip'[d]].anc,
           NEW r \in revs'[gatedTip'[d]].anc, r \notin revs'[trunk'].anc
    PROVE  ~LiveRevert(d, r)'
<1>1. gatedTip[d] \in DOMAIN revs /\ trunk \in DOMAIN revs
  BY ConvTypes
<1>2. revs'[gatedTip'[d]] = revs[gatedTip[d]] /\ revs'[trunk'] = revs[trunk]
  BY <1>1 DEF Extends
<1>3. Ancestors(gatedTip[d]) \subseteq DOMAIN revs
  BY <1>1, NextIsNew DEF History
<1>4. revs'[r] = revs[r]
  BY <1>2, <1>3 DEF Ancestors, Extends
<1>5. ~LiveRevert(d, r)
  BY <1>2, <1>4 DEF Checked, Ancestors
<1> QED BY <1>1, <1>2, <1>4, <1>5 DEF LiveRevert, Source, Tree

\* A step of a branch leaves the merges under way what they rely on.
LEMMA BranchKeeps ==
    ASSUME TrunkInv, NEW c \in Convs, BranchStep(c)
    PROVE  /\ LocalTypes' /\ Apart' /\ Pinned' /\ Swapping' /\ Ahead' /\ Checked' /\ Landing'
           /\ NothingUnreachable'
<1>0. /\ TrunkTypeOK /\ History /\ Checkouts /\ Apart /\ Pinned /\ Swapping
      /\ Ahead /\ Checked /\ Landing /\ NothingUnreachable /\ LocalTypes
  BY TrunkParts DEF TrunkInv
<1>1. /\ RefTypes' /\ Extends /\ trunk' = trunk /\ trunk \in DOMAIN revs /\ kept' = kept /\ kept \subseteq DOMAIN revs
      /\ DOMAIN revs' = DOMAIN revs \/ (DOMAIN revs' = DOMAIN revs \cup {NextRev} /\ tip'[c] = NextRev)
      /\ (\A d \in Convs \ {c} : tip'[d] = tip[d])
      /\ Ancestors(tip[c]) \subseteq revs'[tip'[c]].anc
      /\ revs'[tip'[c]].anc \subseteq Ancestors(tip[c]) \cup Ancestors(trunk) \cup {NextRev}
  BY <1>0, BranchFacts, ConvTypes DEF BranchStep, TrunkTypeOK
<1>2. UNCHANGED <<gatedTip, oldTip, target, blind>>
  BY DEF BranchStep
<1>3. \A i \in DOMAIN revs : i \in DOMAIN revs' /\ revs'[i] = revs[i]
  BY <1>1 DEF Extends
<1>4. \A d \in Convs : /\ tip[d] \in DOMAIN revs /\ tip[d] # 0
                       /\ gatedTip[d] \in {0} \cup DOMAIN revs /\ oldTip[d] \in {0} \cup DOMAIN revs
                       /\ target[d] \in {0} \cup DOMAIN revs
  BY <1>0, ConvTypes, RevTypes
<1>5. step' \in [Convs -> Steps] /\ \A d \in Convs : step'[d] = step[d] \/ (step[d] \in Early /\ step'[d] \in Early)
  <2>1. Early \subseteq Steps
    BY DEF Early, Steps
  <2> QED BY <1>0, <2>1 DEF BranchStep, LocalTypes
<1>6. LocalTypes'
  <2>1. gatedTip' \in [Convs -> {0} \cup DOMAIN revs'] /\ oldTip' \in [Convs -> {0} \cup DOMAIN revs']
        /\ target' \in [Convs -> {0} \cup DOMAIN revs']
    BY <1>0, <1>2, <1>3 DEF LocalTypes
  <2>2. \A d \in Convs : step'[d] \in {"idle", "update", "pin"} <=> gatedTip'[d] = 0
    BY <1>0, <1>2, <1>5 DEF LocalTypes, Early
  <2>3. \A d \in Convs : step'[d] \in {"swap", "forward"} <=> target'[d] # 0
    BY <1>0, <1>2, <1>5 DEF LocalTypes, Early
  <2> QED BY <1>5, <2>1, <2>2, <2>3 DEF LocalTypes
<1>7. Apart'
  <2>1. Ancestors(trunk) \subseteq revs'[trunk'].anc
    BY <1>1, <1>3 DEF Ancestors
  <2>2. ASSUME NEW d \in Convs \ {c}, NEW i \in Heads(d)'
        PROVE  revs'[i].anc \subseteq Past(d) \cup Ancestors(trunk)
    <3>1. i \in Heads(d) /\ i \in DOMAIN revs
      BY <1>1, <1>2, <1>4, <2>2 DEF Heads
    <3>2. revs'[i].anc = Ancestors(i)
      BY <1>3, <3>1 DEF Ancestors
    <3> QED BY <3>1, <3>2 DEF Past
  <2>3. ASSUME NEW i \in Heads(c)'
        PROVE  revs'[i].anc \subseteq Past(c) \cup Ancestors(trunk) \cup {NextRev}
    <3>1. CASE i = tip'[c]
      <4>1. tip[c] \in Heads(c)
        BY <1>4 DEF Heads
      <4>2. Ancestors(tip[c]) \subseteq Past(c)
        BY <4>1 DEF Past
      <4> QED BY <1>1, <3>1, <4>2
    <3>2. CASE i \in Heads(c) /\ i \in DOMAIN revs
      <4>1. revs'[i].anc = Ancestors(i)
        BY <1>3, <3>2 DEF Ancestors
      <4> QED BY <3>2, <4>1 DEF Past
    <3>3. i = tip'[c] \/ (i \in Heads(c) /\ i \in DOMAIN revs)
      BY <1>2, <1>4, <2>3 DEF Heads
    <3> QED BY <3>1, <3>2, <3>3
  <2> QED BY <1>0, <2>1, <2>2, <2>3, ApartStep
<1>8. \A d \in Convs : Ancestors(tip[d]) \subseteq revs'[tip'[d]].anc
  <2>1. ASSUME NEW d \in Convs \ {c} PROVE Ancestors(tip[d]) = revs'[tip'[d]].anc
    BY <1>1, <1>3, <1>4 DEF Ancestors
  <2> QED BY <1>1, <2>1
<1>9. Pinned'
  <2>1. \A d \in Convs : step'[d] \in {"gate", "reverts", "recheck", "count", "squash", "swap"} => step'[d] = step[d]
    BY <1>5 DEF Early
  <2> QED BY <1>0, <1>2, <1>8, <2>1 DEF Pinned, Ancestors
<1>10. Swapping'
  <2>1. \A d \in Convs : step'[d] = "swap" => step'[d] = step[d]
    BY <1>5 DEF Early
  <2> QED BY <1>0, <1>1, <1>2, <1>3, <1>4, <2>1 DEF Swapping, Ancestors
<1>11. Checked' /\ Landing'
  <2>1. \A d \in Convs : step'[d] \in {"recheck", "count", "squash", "swap", "forward"} =>
             step'[d] = step[d] /\ gatedTip[d] # 0
    BY <1>0, <1>5 DEF LocalTypes, Early
  <2>2. \A d \in Convs : step'[d] = "forward" => step'[d] = step[d] /\ target[d] # 0
    BY <1>0, <1>5 DEF LocalTypes, Early
  <2>4. Checked'
    <3> SUFFICES ASSUME NEW d \in Convs, step'[d] \in {"recheck", "count", "squash", "swap", "forward"},
                        d \notin blind', trunk' \in revs'[gatedTip'[d]].anc,
                        NEW r \in revs'[gatedTip'[d]].anc, r \notin revs'[trunk'].anc, LiveRevert(d, r)'
                 PROVE  FALSE
      BY DEF Checked, Ancestors
    <3>1. gatedTip[d] # 0 /\ gatedTip'[d] = gatedTip[d] /\ step[d] = step'[d] /\ d \notin blind
      BY <1>2, <2>1
    <3> QED BY <1>0, <1>1, <3>1, OldChecked
  <2>5. Landing'
    <3> SUFFICES ASSUME NEW d \in Convs, step'[d] = "forward"
                 PROVE  \/ target'[d] = gatedTip'[d]
                        \/ /\ oldTip'[d] # 0
                           /\ revs'[target'[d]].anc \ {target'[d]} \subseteq revs'[oldTip'[d]].anc
      BY DEF Landing, Ancestors
    <3>1. target[d] \in DOMAIN revs /\ step[d] = "forward"
      BY <1>4, <2>2
    <3>2. revs'[target[d]] = revs[target[d]] /\ (oldTip[d] # 0 => revs'[oldTip[d]] = revs[oldTip[d]])
      BY <1>3, <1>4, <3>1
    <3> QED BY <1>0, <1>2, <3>1, <3>2 DEF Landing, Ancestors
  <2> QED BY <2>4, <2>5
<1>12. NothingUnreachable'
  <2> SUFFICES ASSUME NEW i \in DOMAIN revs'
               PROVE  i \in revs'[trunk'].anc \/ (\E k \in kept' : i \in revs'[k].anc)
                      \/ (\E d \in Convs : i \in revs'[tip'[d]].anc)
    BY DEF NothingUnreachable, Ancestors
  <2>1. CASE i \in DOMAIN revs
    <3>1. i \in Ancestors(trunk) \/ (\E k \in kept : i \in Ancestors(k)) \/ (\E d \in Convs : i \in Ancestors(tip[d]))
      BY <1>0, <2>1 DEF NothingUnreachable
    <3>2. Ancestors(trunk) = revs'[trunk'].anc /\ \A k \in kept : Ancestors(k) = revs'[k].anc
      BY <1>1, <1>3 DEF Ancestors
    <3> QED BY <1>1, <1>8, <3>1, <3>2
  <2>2. CASE i = tip'[c]
    <3>1. tip'[c] \in DOMAIN revs'
      BY <1>1 DEF RefTypes
    <3>2. History'
      BY <1>0, BranchHistory
    <3>3. tip'[c] \in revs'[tip'[c]].anc
      BY <3>1, <3>2 DEF History, Ancestors
    <3> QED BY <2>2, <3>3
  <2> QED BY <1>1, <2>1, <2>2
<1>13. Ahead'
  <2>1. \A d \in Convs : step'[d] \in {"squash", "swap"} => step'[d] = step[d]
    BY <1>5 DEF Early
  <2>2. History'
    BY <1>0, BranchHistory
  <2>3. ASSUME NEW d \in Convs, tip'[d] \in Ancestors(trunk) PROVE tip[d] \in Ancestors(trunk)
    <3>1. tip'[d] \in revs'[trunk].anc /\ trunk \in DOMAIN revs'
      BY <1>1, <1>3, <2>3 DEF Ancestors
    <3>2. revs'[tip'[d]].anc \subseteq revs'[trunk].anc
      BY <2>2, <3>1 DEF History, Ancestors
    <3>3. tip[d] \in Ancestors(tip[d])
      BY <1>0, <1>4 DEF History
    <3> QED BY <1>1, <1>3, <1>8, <3>2, <3>3 DEF Ancestors
  <2> QED BY <1>0, <1>1, <1>3, <2>1, <2>3 DEF Ahead, Ancestors
<1> QED BY <1>6, <1>7, <1>9, <1>10, <1>11, <1>12, <1>13

-----------------------------------------------------------------------------
(* What the gateway's own steps keep *)

RefsStill ==
    /\ UNCHANGED <<revs, trunk, tip, work, mergeHead, dropped>>
    /\ kept \subseteq kept' /\ kept' \subseteq DOMAIN revs

\* The gateway's locals before and after one of its steps for a conversation.
Locals(d) == <<step[d], gatedTip[d], oldTip[d], target[d]>>
Becomes(c, s, g, o, t) ==
    \/ s = "idle" /\ g = 0 /\ o = 0 /\ t = 0
    \/ step[c] = "pin" /\ s = "gate" /\ g = tip[c] /\ o = oldTip[c] /\ t = target[c]
    \/ /\ \/ step[c] = "gate" /\ s = "reverts"
          \/ step[c] = "reverts" /\ s = "recheck"
          \/ step[c] = "recheck" /\ s = "count"
          \/ step[c] = "count" /\ s = "squash" /\ Own(c) # {}
       /\ g = gatedTip[c] /\ o = oldTip[c] /\ t = target[c]
    \/ step[c] = "count" /\ s = "forward" /\ t = gatedTip[c] /\ g = gatedTip[c] /\ o = oldTip[c]
    \/ /\ step[c] = "squash" /\ s = "swap" /\ trunk \in Ancestors(tip[c])
       /\ o = tip[c] /\ t = trunk /\ g = gatedTip[c]
LocalMove(c) == Becomes(c, step'[c], gatedTip'[c], oldTip'[c], target'[c])
\* A look at the log that saw only part of it is remembered while the merge runs.
Looks(d) ==
    /\ step'[d] # "idle" /\ d \in blind => d \in blind'
    /\ step[d] = "reverts" /\ step'[d] = "recheck" => d \in blind' \/ ~Reverts(d, Own(d))
LocalStep ==
    /\ RefsStill /\ \A d \in Convs : Looks(d)
    /\ step' \in [Convs -> Steps] /\ gatedTip' \in [Convs -> Nat]
    /\ oldTip' \in [Convs -> Nat] /\ target' \in [Convs -> Nat]
    /\ \A d \in Convs : LocalMove(d) \/ Locals(d)' = Locals(d)

\* The steps of a merge that move no ref.
QuietStep(c) ==
    \/ MergePins(c) \/ MergeGate(c) \/ MergeReverts(c) \/ MergeRechecks(c) \/ MergeCounts(c)
    \/ SquashReads(c) \/ MergeErrs(c) \/ MergesDie \/ (SquashSwaps(c) /\ ~TipUnmoved(c))

\* They forget no look at the log before the merge returns.
LEMMA QuietLooks ==
    ASSUME TrunkTypeOK, NEW c \in Convs, QuietStep(c)
    PROVE  \A d \in Convs : Looks(d)
<1>0. step \in [Convs -> Steps]
  BY DEF TrunkTypeOK
<1>1. CASE Returns(c)
  <2>1. step'[c] = "idle" /\ blind' = blind \ {c} /\ \A d \in Convs \ {c} : step'[d] = step[d]
    BY <1>0, <1>1 DEF Returns, MergeAt
  <2> QED BY <2>1 DEF Looks
<1>2. CASE MergesDie
  <2>1. \A d \in Convs : step'[d] = "idle"
    BY <1>2 DEF MergesDie
  <2> QED BY <2>1 DEF Looks
<1>3. CASE MergeReverts(c) /\ ~Returns(c)
  <2>1. PICK log \in Logs(c) : /\ ~Reverts(c, log) /\ step' = [step EXCEPT ![c] = "recheck"]
                               /\ blind' = IF log = Own(c) THEN blind ELSE blind \cup {c}
    BY <1>3 DEF MergeReverts, MergeAt
  <2>2. blind \subseteq blind' /\ (c \in blind' \/ ~Reverts(c, Own(c)))
    BY <2>1
  <2>3. \A d \in Convs \ {c} : step'[d] = step[d]
    BY <1>0, <2>1
  <2> QED BY <2>2, <2>3 DEF Looks
<1>4. ASSUME NEW s, s # "recheck" \/ step[c] # "reverts", MergeAt(c, s), blind' = blind
      PROVE  \A d \in Convs : Looks(d)
  <2>1. step'[c] = s /\ \A d \in Convs \ {c} : step'[d] = step[d]
    BY <1>0, <1>4 DEF MergeAt
  <2> QED BY <1>4, <2>1 DEF Looks
<1>5. CASE MergePins(c)
  <2>1. MergeAt(c, "gate") /\ blind' = blind
    BY <1>5 DEF MergePins
  <2> QED BY <1>4, <2>1
<1>6. CASE MergeGate(c) /\ ~Returns(c)
  <2>1. MergeAt(c, "reverts") /\ blind' = blind
    BY <1>6 DEF MergeGate
  <2> QED BY <1>4, <2>1
<1>7. CASE MergeRechecks(c) /\ ~Returns(c)
  <2>1. MergeAt(c, "count") /\ blind' = blind
    BY <1>7 DEF MergeRechecks
  <2> QED BY <1>4, <2>1
<1>8. CASE MergeCounts(c) /\ ~Returns(c)
  <2>1. (MergeAt(c, "forward") \/ MergeAt(c, "squash")) /\ blind' = blind
    BY <1>8 DEF MergeCounts
  <2> QED BY <1>4, <2>1
<1>9. CASE SquashReads(c) /\ ~Returns(c)
  <2>1. (MergeAt(c, "forward") \/ MergeAt(c, "swap")) /\ blind' = blind
    BY <1>9 DEF SquashReads
  <2> QED BY <1>4, <2>1
<1>10. CASE MergeErrs(c) \/ (SquashSwaps(c) /\ ~TipUnmoved(c))
  BY <1>1, <1>10 DEF MergeErrs, SquashSwaps
<1> QED BY <1>1, <1>2, <1>3, <1>5, <1>6, <1>7, <1>8, <1>9, <1>10 DEF QuietStep

\* And their other locals go from step to step.
LEMMA LocalShape ==
    ASSUME TrunkTypeOK, History, Swapping, Ahead, NEW c \in Convs, QuietStep(c)
    PROVE  LocalStep /\ greens' = greens
<1>0. /\ step \in [Convs -> Steps] /\ gatedTip \in [Convs -> {0} \cup DOMAIN revs]
      /\ oldTip \in [Convs -> {0} \cup DOMAIN revs] /\ target \in [Convs -> {0} \cup DOMAIN revs]
      /\ {0} \cup DOMAIN revs \subseteq Nat /\ tip[c] \in DOMAIN revs /\ trunk \in DOMAIN revs
  BY TrunkParts, ConvTypes, RevTypes DEF LocalTypes
<1>14. /\ "idle" \in Steps /\ "gate" \in Steps /\ "reverts" \in Steps /\ "recheck" \in Steps
       /\ "count" \in Steps /\ "squash" \in Steps /\ "swap" \in Steps /\ "forward" \in Steps
  BY DEF Steps
<1>1. RefsStill /\ greens' = greens
  <2>1. oldTip[c] \in {0} \cup DOMAIN revs /\ kept \subseteq DOMAIN revs
    BY ConvTypes DEF TrunkTypeOK
  <2>2. step[c] = "swap" => {oldTip[c]} \subseteq DOMAIN revs
    BY <2>1 DEF Swapping
  <2>3. CASE SquashSwaps(c) /\ ~TipUnmoved(c)
    BY <2>1, <2>2, <2>3 DEF SquashSwaps, RefsStill
  <2> QED BY <2>1, <2>3 DEF MergePins, MergeGate, MergeReverts, MergeRechecks, MergeCounts, SquashReads,
                            MergeErrs, MergesDie, NoRefMoves, RefsStill, branchVars, QuietStep
<1> SUFFICES LocalStep
  BY <1>1
<1> DEFINE Sets(s, g, o, t) ==
               /\ Becomes(c, s, g, o, t) /\ step' = [step EXCEPT ![c] = s]
               /\ gatedTip' = [gatedTip EXCEPT ![c] = g] /\ oldTip' = [oldTip EXCEPT ![c] = o]
               /\ target' = [target EXCEPT ![c] = t]
<1>2. ASSUME NEW s \in Steps, NEW g \in Nat, NEW o \in Nat, NEW t \in Nat, Sets(s, g, o, t)
      PROVE  LocalStep
  <2>1. step' \in [Convs -> Steps] /\ step'[c] = s /\ \A d \in Convs \ {c} : step'[d] = step[d]
    BY <1>0, <1>2
  <2>2. gatedTip' \in [Convs -> Nat] /\ gatedTip'[c] = g /\ \A d \in Convs \ {c} : gatedTip'[d] = gatedTip[d]
    BY <1>0, <1>2
  <2>3. oldTip' \in [Convs -> Nat] /\ oldTip'[c] = o /\ \A d \in Convs \ {c} : oldTip'[d] = oldTip[d]
    BY <1>0, <1>2
  <2>4. target' \in [Convs -> Nat] /\ target'[c] = t /\ \A d \in Convs \ {c} : target'[d] = target[d]
    BY <1>0, <1>2
  <2>5. LocalMove(c)
    BY <1>2, <2>1, <2>2, <2>3, <2>4 DEF LocalMove
  <2>6. \A d \in Convs \ {c} : Locals(d)' = Locals(d)
    BY <2>1, <2>2, <2>3, <2>4 DEF Locals
  <2> QED BY <1>1, <2>1, <2>2, <2>3, <2>4, <2>5, <2>6, QuietLooks DEF LocalStep
<1>3. /\ gatedTip = [gatedTip EXCEPT ![c] = gatedTip[c]]
      /\ oldTip = [oldTip EXCEPT ![c] = oldTip[c]] /\ target = [target EXCEPT ![c] = target[c]]
      /\ gatedTip[c] \in Nat /\ oldTip[c] \in Nat /\ target[c] \in Nat /\ tip[c] \in Nat /\ trunk \in Nat
  BY <1>0
<1>4. CASE Returns(c)
  <2>1. Becomes(c, "idle", 0, 0, 0)
    BY DEF Becomes
  <2>2. Sets("idle", 0, 0, 0)
    BY <1>4, <2>1 DEF Returns, MergeAt
  <2> HIDE DEF Sets
  <2> QED BY <1>2, <1>14, <2>2
<1>5. CASE MergePins(c)
  <2>1. /\ step[c] = "pin" /\ step' = [step EXCEPT ![c] = "gate"]
        /\ gatedTip' = [gatedTip EXCEPT ![c] = tip[c]] /\ UNCHANGED <<oldTip, target>>
    BY <1>5 DEF MergePins, PinnedTip, MergeAt
  <2>2. Becomes(c, "gate", tip[c], oldTip[c], target[c])
    BY <2>1 DEF Becomes
  <2>3. Sets("gate", tip[c], oldTip[c], target[c])
    BY <1>3, <2>1, <2>2
  <2> HIDE DEF Sets
  <2> QED BY <1>2, <1>3, <1>14, <2>3
<1> DEFINE Moves(s) == step' = [step EXCEPT ![c] = s] /\ UNCHANGED <<gatedTip, oldTip, target>>
<1>6. ASSUME NEW s \in Steps, Moves(s), Becomes(c, s, gatedTip[c], oldTip[c], target[c])
      PROVE  LocalStep
  <2>1. Sets(s, gatedTip[c], oldTip[c], target[c])
    BY <1>3, <1>6
  <2> HIDE DEF Sets
  <2> QED BY <1>2, <1>3, <2>1
<1>7. CASE MergeGate(c)
  <2>1. Returns(c) \/ (step[c] = "gate" /\ Moves("reverts"))
    BY <1>7 DEF MergeGate, MergeAt
  <2>2. step[c] = "gate" => Becomes(c, "reverts", gatedTip[c], oldTip[c], target[c])
    BY DEF Becomes
  <2> HIDE DEF Moves
  <2> QED BY <1>4, <1>6, <1>14, <2>1, <2>2
<1>8. CASE MergeReverts(c)
  <2>1. Returns(c) \/ (step[c] = "reverts" /\ Moves("recheck"))
    BY <1>8 DEF MergeReverts, MergeAt
  <2>2. step[c] = "reverts" => Becomes(c, "recheck", gatedTip[c], oldTip[c], target[c])
    BY DEF Becomes
  <2> HIDE DEF Moves
  <2> QED BY <1>4, <1>6, <1>14, <2>1, <2>2
<1>9. CASE MergeRechecks(c)
  <2>1. Returns(c) \/ (step[c] = "recheck" /\ Moves("count"))
    BY <1>9 DEF MergeRechecks, MergeAt
  <2>2. step[c] = "recheck" => Becomes(c, "count", gatedTip[c], oldTip[c], target[c])
    BY DEF Becomes
  <2> HIDE DEF Moves
  <2> QED BY <1>4, <1>6, <1>14, <2>1, <2>2
<1>10. CASE MergeCounts(c)
  <2>1. \/ Returns(c)
        \/ (step[c] = "count" /\ Own(c) # {} /\ Moves("squash"))
        \/ (step[c] = "count" /\ step' = [step EXCEPT ![c] = "forward"]
            /\ target' = [target EXCEPT ![c] = gatedTip[c]] /\ UNCHANGED <<gatedTip, oldTip>>)
    <3>1. \A log \in Logs(c) : Cardinality(log) >= 2 => Own(c) # {}
      <4>1. Cardinality({}) = 0
        BY FS_EmptySet
      <4>2. \A log \in Logs(c) : log \subseteq Own(c)
        BY DEF Logs
      <4> QED BY <4>1, <4>2
    <3> QED BY <1>10, <3>1 DEF MergeCounts, MergeAt
  <2>2. step[c] = "count" => /\ Own(c) # {} => Becomes(c, "squash", gatedTip[c], oldTip[c], target[c])
                            /\ Becomes(c, "forward", gatedTip[c], oldTip[c], gatedTip[c])
    BY DEF Becomes
  <2>3. CASE step[c] = "count" /\ step' = [step EXCEPT ![c] = "forward"]
             /\ target' = [target EXCEPT ![c] = gatedTip[c]] /\ UNCHANGED <<gatedTip, oldTip>>
    <3>1. Sets("forward", gatedTip[c], oldTip[c], gatedTip[c])
      BY <1>3, <2>2, <2>3
    <3> HIDE DEF Sets
    <3> QED BY <1>2, <1>3, <1>14, <3>1
  <2> HIDE DEF Moves
  <2> QED BY <1>4, <1>6, <1>14, <2>1, <2>2, <2>3
<1>11. CASE SquashReads(c)
  <2>1. \/ Returns(c)
        \/ (step[c] = "squash" /\ step' = [step EXCEPT ![c] = "swap"] /\ trunk \in Ancestors(tip[c])
            /\ oldTip' = [oldTip EXCEPT ![c] = tip[c]] /\ target' = [target EXCEPT ![c] = trunk]
            /\ UNCHANGED gatedTip)
    <3>1. trunk \in Ancestors(trunk) /\ (step[c] = "squash" => tip[c] \notin Ancestors(trunk))
      BY <1>0 DEF History, Ahead
    <3> QED BY <1>11, <3>1 DEF SquashReads, MergeAt
  <2>2. step[c] = "squash" /\ trunk \in Ancestors(tip[c]) => Becomes(c, "swap", gatedTip[c], tip[c], trunk)
    BY DEF Becomes
  <2>3. Returns(c) \/ Sets("swap", gatedTip[c], tip[c], trunk)
    BY <1>3, <2>1, <2>2
  <2> HIDE DEF Sets
  <2> QED BY <1>2, <1>3, <1>4, <1>14, <2>3
<1>12. CASE MergesDie
  <2>1. step' = [d \in Convs |-> "idle"] /\ gatedTip' = [d \in Convs |-> 0]
        /\ oldTip' = [d \in Convs |-> 0] /\ target' = [d \in Convs |-> 0]
    BY <1>12 DEF MergesDie, Nowhere
  <2> QED BY <1>1, <1>14, <2>1, QuietLooks DEF LocalStep, LocalMove, Becomes
<1>13. CASE SquashSwaps(c) /\ ~TipUnmoved(c)
  BY <1>4, <1>13 DEF SquashSwaps
<1>15. CASE MergeErrs(c)
  BY <1>4, <1>15 DEF MergeErrs
<1> QED BY <1>5, <1>7, <1>8, <1>9, <1>10, <1>11, <1>12, <1>13, <1>15 DEF QuietStep

\* They keep every part of the invariant.
LEMMA LocalKeeps ==
    ASSUME TrunkInv, LocalStep
    PROVE  /\ RefTypes' /\ LocalTypes' /\ History' /\ Checkouts' /\ Apart' /\ Pinned' /\ Swapping'
           /\ Ahead' /\ Checked' /\ Landing' /\ NothingUnreachable'
<1>0. /\ TrunkTypeOK /\ RefTypes /\ LocalTypes /\ History /\ Checkouts /\ Apart /\ Pinned /\ Swapping
      /\ Ahead /\ Checked /\ Landing /\ NothingUnreachable
  BY TrunkParts DEF TrunkInv
<1>1. /\ revs' = revs /\ trunk' = trunk /\ tip' = tip /\ work' = work /\ mergeHead' = mergeHead
      /\ dropped' = dropped /\ kept \subseteq kept' /\ kept' \subseteq DOMAIN revs
  BY DEF LocalStep, RefsStill
<1>2. \A d \in Convs : /\ tip[d] \in DOMAIN revs /\ trunk \in DOMAIN revs /\ 0 \notin DOMAIN revs
                       /\ tip[d] # 0 /\ trunk # 0
                       /\ gatedTip[d] \in {0} \cup DOMAIN revs /\ oldTip[d] \in {0} \cup DOMAIN revs
                       /\ target[d] \in {0} \cup DOMAIN revs
                       /\ step[d] \in {"idle", "update", "pin"} <=> gatedTip[d] = 0
                       /\ step[d] \in {"swap", "forward"} <=> target[d] # 0
  BY <1>0, ConvTypes, RevTypes DEF LocalTypes
<1>3. ASSUME NEW d \in Convs
      PROVE  /\ gatedTip'[d] \in {0, gatedTip[d], tip[d]} /\ oldTip'[d] \in {0, oldTip[d], tip[d]}
             /\ target'[d] \in {0, target[d], gatedTip[d], trunk}
             /\ step'[d] \in {"idle", "update", "pin"} <=> gatedTip'[d] = 0
             /\ step'[d] \in {"swap", "forward"} <=> target'[d] # 0
  <2>1. CASE LocalMove(d)
    BY <1>2, <2>1 DEF LocalMove, Becomes
  <2>2. CASE Locals(d)' = Locals(d)
    BY <1>2, <2>2 DEF Locals
  <2> QED BY <2>1, <2>2 DEF LocalStep
<1>4. RefTypes' /\ LocalTypes'
  <2>1. RefTypes'
    BY <1>0, <1>1 DEF RefTypes
  <2>2. /\ step' \in [Convs -> Steps] /\ gatedTip' \in [Convs -> {0} \cup DOMAIN revs']
        /\ oldTip' \in [Convs -> {0} \cup DOMAIN revs'] /\ target' \in [Convs -> {0} \cup DOMAIN revs']
    BY <1>1, <1>2, <1>3 DEF LocalStep
  <2> QED BY <1>3, <2>1, <2>2 DEF LocalTypes
<1>5. History' /\ Checkouts'
  BY <1>0, <1>1 DEF History, Checkouts, Ancestors, Tree, Lasting
<1>6. Apart'
  <2>1. ASSUME NEW d \in Convs, NEW i \in Heads(d)' PROVE i \in Heads(d) \/ i = trunk
    BY <1>1, <1>3, <2>1 DEF Heads
  <2>2. ASSUME NEW d \in Convs, NEW e \in Convs, d # e, NEW i \in Heads(d)', NEW j \in Heads(e)'
        PROVE  Ancestors(i) \cap Ancestors(j) \subseteq Ancestors(trunk)
    BY <1>0, <2>1, <2>2 DEF Apart
  <2> QED BY <1>1, <2>2 DEF Apart, Ancestors
<1>7. \A d \in Convs : tip[d] \in Ancestors(tip[d]) /\ trunk \in Ancestors(trunk)
  BY <1>0, <1>2 DEF History
<1>8. ASSUME NEW d \in Convs
      PROVE  /\ step'[d] \in {"gate", "reverts", "recheck", "count", "squash", "swap"} =>
                   gatedTip'[d] \in Ancestors(tip[d])
             /\ step'[d] = "swap" => oldTip'[d] # 0 /\ target'[d] \in Ancestors(oldTip'[d])
                                     /\ target'[d] \in Ancestors(trunk)
  <2>1. CASE LocalMove(d)
    BY <1>0, <1>2, <1>7, <2>1 DEF LocalMove, Becomes, Pinned
  <2>2. CASE Locals(d)' = Locals(d)
    BY <1>0, <2>2 DEF Locals, Pinned, Swapping
  <2> QED BY <2>1, <2>2 DEF LocalStep
<1>9. Pinned' /\ Swapping'
  BY <1>1, <1>8 DEF Pinned, Swapping, Ancestors
<1>11. Checked'
  <2> SUFFICES ASSUME NEW d \in Convs, step'[d] \in {"recheck", "count", "squash", "swap", "forward"},
                      d \notin blind', trunk \in Ancestors(gatedTip'[d]),
                      NEW r \in Ancestors(gatedTip'[d]) \ Ancestors(trunk), LiveRevert(d, r)'
               PROVE  FALSE
    BY <1>1 DEF Checked, Ancestors
  <2>1. /\ gatedTip'[d] = gatedTip[d]
        /\ step[d] \in {"reverts", "recheck", "count", "squash", "swap", "forward"}
        /\ step[d] = "reverts" => step'[d] = "recheck"
    <3>1. CASE LocalMove(d)
      BY <3>1 DEF LocalMove, Becomes
    <3>2. CASE Locals(d)' = Locals(d)
      BY <3>2 DEF Locals
    <3> QED BY <3>1, <3>2 DEF LocalStep
  <2>4. LiveRevert(d, r)
    BY <1>1, <2>1 DEF LiveRevert, Source, Tree
  <2>2. CASE step[d] = "reverts"
    <3>1. Ancestors(gatedTip[d]) \subseteq Ancestors(tip[d])
      BY <1>0, <1>2, <2>2 DEF Pinned, History
    <3>2. r \in Own(d)
      BY <2>1, <3>1 DEF Own
    <3>3. ~Reverts(d, Own(d))
      BY <2>1, <2>2 DEF LocalStep, Looks
    <3> QED BY <2>4, <3>2, <3>3 DEF Reverts
  <2>3. CASE step[d] # "reverts"
    <3>1. d \notin blind
      BY DEF LocalStep, Looks
    <3> QED BY <1>0, <2>1, <2>3, <2>4, <3>1 DEF Checked
  <2> QED BY <2>2, <2>3
<1>12. Landing'
  <2>1. ASSUME NEW d \in Convs, step'[d] = "forward", target'[d] # gatedTip'[d]
        PROVE  step[d] = "forward" /\ target'[d] = target[d] /\ gatedTip'[d] = gatedTip[d] /\ oldTip'[d] = oldTip[d]
    <3>1. CASE LocalMove(d)
      BY <2>1, <3>1 DEF LocalMove, Becomes
    <3>2. CASE Locals(d)' = Locals(d)
      BY <2>1, <3>2 DEF Locals
    <3> QED BY <3>1, <3>2 DEF LocalStep
  <2> QED BY <1>0, <1>1, <2>1 DEF Landing, Ancestors
<1>13. NothingUnreachable'
  BY <1>0, <1>1 DEF NothingUnreachable, Ancestors
<1>15. Ahead'
  <2>1. ASSUME NEW d \in Convs, step'[d] \in {"squash", "swap"} PROVE tip[d] \notin Ancestors(trunk)
    <3>1. CASE LocalMove(d)
      <4>1. (step[d] = "count" /\ Own(d) # {}) \/ step[d] = "squash"
        BY <2>1, <3>1 DEF LocalMove, Becomes
      <4>2. Own(d) # {} => tip[d] \notin Ancestors(trunk)
        BY <1>0, <1>2 DEF Own, History
      <4> QED BY <1>0, <4>1, <4>2 DEF Ahead
    <3>2. CASE Locals(d)' = Locals(d)
      BY <1>0, <2>1, <3>2 DEF Locals, Ahead
    <3> QED BY <3>1, <3>2 DEF LocalStep
  <2> QED BY <1>1, <2>1 DEF Ahead, Ancestors
<1> QED BY <1>4, <1>5, <1>6, <1>9, <1>11, <1>12, <1>13, <1>15

-----------------------------------------------------------------------------
(* What a squash keeps *)

\* What a squash does.
LEMMA SquashShape ==
    ASSUME TrunkInv, NEW c \in Convs, SquashSwaps(c), TipUnmoved(c)
    PROVE  \E r \in RevSet :
             /\ Adds(c, r, {target[c]}) /\ r.tree = Tree(tip[c]) /\ ~r.reset
             /\ r.anc = {NextRev} \cup Ancestors(target[c])
             /\ target[c] \in DOMAIN revs /\ target[c] \in Ancestors(tip[c])
             /\ target[c] \in Ancestors(trunk) /\ tip[c] \notin Ancestors(trunk)
             /\ step[c] = "swap" /\ step' = [step EXCEPT ![c] = "forward"]
             /\ target' = [target EXCEPT ![c] = NextRev] /\ kept' = kept \cup {tip[c]}
             /\ oldTip[c] = tip[c]
             /\ UNCHANGED <<trunk, work, mergeHead, greens, gatedTip, oldTip, blind, dropped>>
<1>0. TrunkTypeOK /\ Swapping /\ Ahead
  BY DEF TrunkInv
<1> DEFINE P == {target[c]}
           r == Rev(Tree(tip[c]), P, FALSE)
<1>1. /\ step[c] = "swap" /\ oldTip[c] = tip[c] /\ Room
      /\ kept' = kept \cup {tip[c]} /\ revs' = Append(revs, r)
      /\ tip' = [tip EXCEPT ![c] = NextRev] /\ target' = [target EXCEPT ![c] = NextRev]
      /\ step' = [step EXCEPT ![c] = "forward"]
      /\ UNCHANGED <<trunk, work, mergeHead, greens, gatedTip, oldTip, blind, dropped>>
  BY DEF SquashSwaps, TipUnmoved, MergeAt
<1>2. target[c] \in Ancestors(tip[c]) /\ target[c] \in Ancestors(trunk) /\ tip[c] \notin Ancestors(trunk)
  BY <1>0, <1>1 DEF Swapping, Ahead
<1>3. target[c] \in DOMAIN revs /\ Tree(tip[c]) \in TreeSets /\ P \subseteq DOMAIN revs
  <2>1. target[c] # 0
    BY <1>0, <1>1 DEF TrunkTypeOK
  <2> QED BY <1>0, <2>1, ConvTypes, RevTypes
<1>4. /\ r \in RevSet /\ r.tree = Tree(tip[c]) /\ ~r.reset
      /\ r.anc = {NextRev} \cup UNION {Ancestors(p) : p \in P}
  <2> HIDE DEF P
  <2> QED BY <1>0, <1>1, <1>3, RevIsRev
<1>5. r.anc = {NextRev} \cup Ancestors(target[c])
  <2> HIDE DEF r
  <2> QED BY <1>4
<1>6. Adds(c, r, {target[c]})
  <2> HIDE DEF r
  <2> QED BY <1>1, <1>4 DEF Adds
<1> HIDE DEF r, P
<1> QED BY <1>1, <1>2, <1>3, <1>4, <1>5, <1>6

\* A squash keeps every part of the invariant.
LEMMA SquashKeeps ==
    ASSUME TrunkInv, NEW c \in Convs, SquashSwaps(c), TipUnmoved(c)
    PROVE  /\ RefTypes' /\ LocalTypes' /\ History' /\ Checkouts' /\ Apart' /\ Pinned' /\ Swapping'
           /\ Ahead' /\ Checked' /\ Landing' /\ NothingUnreachable'
           /\ greens' = greens
<1>0. /\ TrunkTypeOK /\ RefTypes /\ LocalTypes /\ History /\ Checkouts /\ Apart /\ Pinned /\ Swapping
      /\ Ahead /\ Checked /\ Landing /\ NothingUnreachable
  BY TrunkParts DEF TrunkInv
<1> DEFINE o == tip[c]
           t == target[c]
<1>1. PICK r \in RevSet :
         /\ Adds(c, r, {t}) /\ r.tree = Tree(o) /\ ~r.reset /\ r.anc = {NextRev} \cup Ancestors(t)
         /\ t \in DOMAIN revs /\ t \in Ancestors(o) /\ t \in Ancestors(trunk) /\ o \notin Ancestors(trunk)
         /\ step[c] = "swap" /\ step' = [step EXCEPT ![c] = "forward"]
         /\ target' = [target EXCEPT ![c] = NextRev] /\ kept' = kept \cup {o}
         /\ oldTip[c] = o
         /\ UNCHANGED <<trunk, work, mergeHead, greens, gatedTip, oldTip, blind, dropped>>
  BY SquashShape
<1> DEFINE P == {t}
<1>2. P \subseteq DOMAIN revs /\ Adds(c, r, P) /\ \A p \in P : p = t
  BY <1>1
<1> HIDE DEF P
<1>3. /\ revs' \in Seq(RevSet) /\ DOMAIN revs' = DOMAIN revs \cup {NextRev}
      /\ (\A i \in DOMAIN revs : revs'[i] = revs[i]) /\ revs'[NextRev] = r
      /\ tip'[c] = NextRev /\ tip' \in [Convs -> DOMAIN revs']
      /\ \A d \in Convs \ {c} : tip'[d] = tip[d]
  BY <1>0, <1>2, Added
<1>4. \A d \in Convs : /\ tip[d] \in DOMAIN revs /\ trunk \in DOMAIN revs /\ tip[d] # 0 /\ trunk # 0
                       /\ gatedTip[d] \in {0} \cup DOMAIN revs /\ oldTip[d] \in {0} \cup DOMAIN revs
                       /\ target[d] \in {0} \cup DOMAIN revs /\ mergeHead[d] \in {0} \cup DOMAIN revs
                       /\ step[d] \in {"idle", "update", "pin"} <=> gatedTip[d] = 0
                       /\ step[d] \in {"swap", "forward"} <=> target[d] # 0
  BY <1>0, ConvTypes, RevTypes DEF LocalTypes
<1>5. NextRev # 0 /\ NextRev \notin DOMAIN revs
  BY <1>0, NextIsNew
<1>6. Extends
  BY <1>3 DEF Extends
<1>7. /\ step'[c] = "forward" /\ target'[c] = NextRev
      /\ \A d \in Convs \ {c} : step'[d] = step[d] /\ target'[d] = target[d]
  BY <1>0, <1>1 DEF LocalTypes
<1>8. RefTypes' /\ LocalTypes'
  <2>1. RefTypes'
    BY <1>0, <1>1, <1>3, <1>4 DEF RefTypes
  <2>2. "forward" \in Steps
    BY DEF Steps
  <2>3. step' \in [Convs -> Steps] /\ target' \in [Convs -> {0} \cup DOMAIN revs']
        /\ gatedTip' \in [Convs -> {0} \cup DOMAIN revs'] /\ oldTip' \in [Convs -> {0} \cup DOMAIN revs']
    BY <1>0, <1>1, <1>3, <2>2 DEF LocalTypes
  <2>4. \A d \in Convs : step'[d] \in {"idle", "update", "pin"} <=> gatedTip'[d] = 0
    BY <1>1, <1>4, <1>7
  <2>5. \A d \in Convs : step'[d] \in {"swap", "forward"} <=> target'[d] # 0
    BY <1>1, <1>4, <1>5, <1>7
  <2> QED BY <2>1, <2>3, <2>4, <2>5 DEF LocalTypes
<1>9. History'
  <2>1. \A p \in P : LastsOn(Tree(p)) \subseteq r.tree
    BY <1>0, <1>1, <1>2, <1>4 DEF History, Lasting, LastsOn
  <2> QED BY <1>0, <1>1, <1>2, <2>1, AddedHistory
<1>10. \A i \in DOMAIN revs : revs'[i].anc = Ancestors(i) /\ revs'[i].tree = Tree(i)
  BY <1>3 DEF Ancestors, Tree
<1>11. Checkouts'
  <2>1. ASSUME NEW d \in Convs
        PROVE  /\ Lasting(revs'[tip'[d]].tree) \subseteq work[d]
               /\ mergeHead[d] # 0 => /\ mergeHead[d] \in Ancestors(trunk)
                                      /\ Lasting(revs'[mergeHead[d]].tree) \subseteq work[d]
    <3>1. revs'[tip'[d]].tree = Tree(tip[d])
      BY <1>1, <1>3, <1>4, <1>10
    <3> QED BY <1>0, <1>4, <1>10, <3>1 DEF Checkouts
  <2> QED BY <1>1, <1>4, <1>10, <2>1 DEF Checkouts, Ancestors, Tree, Lasting
<1>12. Ancestors(t) \subseteq Ancestors(trunk)
  BY <1>0, <1>1, <1>4 DEF History
<1>13. Apart'
  <2>1. Ancestors(trunk) \subseteq revs'[trunk'].anc
    BY <1>1, <1>4, <1>10
  <2>2. ASSUME NEW d \in Convs, NEW i \in Heads(d), i \in DOMAIN revs
        PROVE  revs'[i].anc \subseteq Past(d)
    BY <1>10, <2>2 DEF Past
  <2>3. ASSUME NEW d \in Convs \ {c}, NEW i \in Heads(d)' PROVE i \in Heads(d) /\ i \in DOMAIN revs
    BY <1>1, <1>3, <1>4, <1>7, <2>3 DEF Heads
  <2>4. ASSUME NEW i \in Heads(c)' PROVE (i \in Heads(c) /\ i \in DOMAIN revs) \/ i = NextRev
    BY <1>1, <1>3, <1>4, <1>7, <2>4 DEF Heads
  <2>5. revs'[NextRev].anc \subseteq Ancestors(trunk) \cup {NextRev}
    BY <1>1, <1>3, <1>12
  <2>6. \A d \in Convs \ {c} : \A i \in Heads(d)' : revs'[i].anc \subseteq Past(d) \cup Ancestors(trunk)
    BY <2>2, <2>3
  <2>7. \A i \in Heads(c)' : revs'[i].anc \subseteq Past(c) \cup Ancestors(trunk) \cup {NextRev}
    BY <2>2, <2>4, <2>5
  <2> QED BY <1>0, <2>1, <2>6, <2>7, ApartStep
<1>14. Pinned' /\ Swapping' /\ Ahead'
  <2>1. ASSUME NEW d \in Convs, step'[d] \in {"gate", "reverts", "recheck", "count", "squash", "swap"}
        PROVE  /\ d # c /\ tip'[d] = tip[d] /\ step'[d] = step[d] /\ target'[d] = target[d]
               /\ gatedTip'[d] \in revs'[tip'[d]].anc
    <3>1. d # c
      BY <1>7, <2>1
    <3> QED BY <1>0, <1>1, <1>3, <1>4, <1>7, <1>10, <2>1, <3>1 DEF Pinned
  <2>2. Pinned'
    BY <2>1 DEF Pinned, Ancestors
  <2>3. Swapping'
    BY <1>0, <1>1, <1>4, <1>10, <2>1 DEF Swapping, Ancestors
  <2>4. Ahead'
    BY <1>0, <1>1, <1>4, <1>10, <2>1 DEF Ahead, Ancestors
  <2> QED BY <2>2, <2>3, <2>4
<1>19. Checked'
  <2> SUFFICES ASSUME NEW d \in Convs, step'[d] \in {"recheck", "count", "squash", "swap", "forward"},
                      d \notin blind', trunk' \in revs'[gatedTip'[d]].anc,
                      NEW q \in revs'[gatedTip'[d]].anc, q \notin revs'[trunk'].anc, LiveRevert(d, q)'
               PROVE  FALSE
    BY DEF Checked, Ancestors
  <2>1. step[d] \in {"recheck", "count", "squash", "swap", "forward"} /\ gatedTip[d] # 0
        /\ gatedTip'[d] = gatedTip[d] /\ trunk' = trunk /\ d \notin blind
    <3>1. step[d] \in {"recheck", "count", "squash", "swap", "forward"}
      BY <1>1, <1>7
    <3> QED BY <1>1, <1>4, <3>1
  <2> QED BY <1>0, <1>6, <2>1, OldChecked
<1>20. Landing'
  <2> SUFFICES ASSUME NEW d \in Convs, step'[d] = "forward"
               PROVE  \/ target'[d] = gatedTip'[d]
                      \/ /\ oldTip'[d] # 0
                         /\ revs'[target'[d]].anc \ {target'[d]} \subseteq revs'[oldTip'[d]].anc
    BY DEF Landing, Ancestors
  <2>1. CASE d = c
    <3>1. oldTip'[d] = o /\ o # 0 /\ target'[d] = NextRev
      BY <1>1, <1>4, <1>7, <2>1
    <3>2. revs'[NextRev].anc \ {NextRev} \subseteq Ancestors(t) /\ revs'[o].anc = Ancestors(o)
      BY <1>1, <1>3, <1>4, <1>10
    <3>3. Ancestors(t) \subseteq Ancestors(o)
      BY <1>0, <1>1, <1>4 DEF History
    <3> QED BY <3>1, <3>2, <3>3
  <2>2. CASE d # c
    <3>1. step[d] = "forward" /\ target[d] \in DOMAIN revs /\ target'[d] = target[d]
          /\ gatedTip'[d] = gatedTip[d] /\ oldTip'[d] = oldTip[d]
      BY <1>1, <1>4, <1>7, <2>2
    <3>2. revs'[target[d]].anc = Ancestors(target[d]) /\ (oldTip[d] # 0 => revs'[oldTip[d]].anc = Ancestors(oldTip[d]))
      BY <1>4, <1>10, <3>1
    <3> QED BY <1>0, <3>1, <3>2 DEF Landing
  <2> QED BY <2>1, <2>2
<1>21. NothingUnreachable'
  <2> SUFFICES ASSUME NEW i \in DOMAIN revs'
               PROVE  i \in revs'[trunk'].anc \/ (\E k \in kept' : i \in revs'[k].anc)
                      \/ (\E d \in Convs : i \in revs'[tip'[d]].anc)
    BY DEF NothingUnreachable, Ancestors
  <2>1. CASE i = NextRev
    BY <1>1, <1>3, <2>1
  <2>2. CASE i \in DOMAIN revs
    <3>1. i \in Ancestors(trunk) \/ (\E k \in kept : i \in Ancestors(k)) \/ (\E d \in Convs : i \in Ancestors(tip[d]))
      BY <1>0, <2>2 DEF NothingUnreachable
    <3>2. kept' \subseteq DOMAIN revs /\ kept \subseteq kept' /\ o \in kept'
      BY <1>0, <1>1, <1>4 DEF RefTypes
    <3>3. ASSUME NEW d \in Convs, i \in Ancestors(tip[d])
          PROVE  (\E k \in kept' : i \in revs'[k].anc) \/ (\E e \in Convs : i \in revs'[tip'[e]].anc)
      <4>1. CASE d = c
        BY <1>4, <1>10, <3>2, <3>3, <4>1
      <4>2. CASE d # c
        BY <1>3, <1>4, <1>10, <3>3, <4>2
      <4> QED BY <4>1, <4>2
    <3> QED BY <1>1, <1>4, <1>10, <3>1, <3>2, <3>3
  <2> QED BY <1>3, <2>1, <2>2
<1> QED BY <1>1, <1>8, <1>9, <1>11, <1>13, <1>14, <1>19, <1>20, <1>21

-----------------------------------------------------------------------------
(* What a fast-forward of trunk keeps *)

\* A fast-forward that leaves trunk where it is only returns.
LEMMA ForwardStill ==
    ASSUME TrunkTypeOK, NEW c \in Convs, MergeForwards(c), trunk' = trunk
    PROVE  LocalStep /\ greens' = greens
<1>0. /\ step \in [Convs -> Steps] /\ gatedTip \in [Convs -> {0} \cup DOMAIN revs]
      /\ oldTip \in [Convs -> {0} \cup DOMAIN revs] /\ target \in [Convs -> {0} \cup DOMAIN revs]
      /\ {0} \cup DOMAIN revs \subseteq Nat /\ kept \subseteq DOMAIN revs
  BY TrunkParts, RevTypes DEF LocalTypes, TrunkTypeOK
<1>1. /\ step' = [step EXCEPT ![c] = "idle"] /\ gatedTip' = [gatedTip EXCEPT ![c] = 0]
      /\ oldTip' = [oldTip EXCEPT ![c] = 0] /\ target' = [target EXCEPT ![c] = 0]
      /\ RefsStill /\ greens' = greens /\ blind' = blind \ {c}
  BY <1>0 DEF MergeForwards, Returns, MergeAt, RefsStill, branchVars
<1>2. "idle" \in Steps
  BY DEF Steps
<1>3. step' \in [Convs -> Steps] /\ step'[c] = "idle" /\ \A d \in Convs \ {c} : step'[d] = step[d]
  BY <1>0, <1>1, <1>2
<1>4. /\ gatedTip' \in [Convs -> Nat] /\ oldTip' \in [Convs -> Nat] /\ target' \in [Convs -> Nat]
      /\ gatedTip'[c] = 0 /\ oldTip'[c] = 0 /\ target'[c] = 0
      /\ \A d \in Convs \ {c} : gatedTip'[d] = gatedTip[d] /\ oldTip'[d] = oldTip[d] /\ target'[d] = target[d]
  BY <1>0, <1>1
<1>5. LocalMove(c)
  BY <1>3, <1>4 DEF LocalMove, Becomes
<1>6. \A d \in Convs \ {c} : Locals(d)' = Locals(d)
  BY <1>3, <1>4 DEF Locals
<1>7. \A d \in Convs : Looks(d)
  BY <1>1, <1>3 DEF Looks
<1> QED BY <1>1, <1>3, <1>4, <1>5, <1>6, <1>7 DEF LocalStep

\* What a merge that moves trunk does: trunk goes on to a descendant it had not got.
LEMMA ForwardShape ==
    ASSUME TrunkTypeOK, History, NEW c \in Convs, MergeForwards(c), trunk' # trunk
    PROVE  /\ step[c] = "forward" /\ trunk' = target[c] /\ target[c] \in DOMAIN revs
           /\ trunk \in Ancestors(target[c]) /\ target[c] \notin Ancestors(trunk)
           /\ Ancestors(trunk) \subseteq Ancestors(target[c]) /\ target[c] \in Ancestors(target[c])
<1>1. /\ step[c] = "forward" /\ trunk' = target[c] /\ trunk \in Ancestors(target[c])
  BY DEF MergeForwards, FastForwards
<1>2. target[c] \in DOMAIN revs /\ trunk \in DOMAIN revs
  <2>1. target[c] # 0
    BY <1>1 DEF TrunkTypeOK
  <2> QED BY <2>1, ConvTypes
<1>3. target[c] \notin Ancestors(trunk)
  BY <1>1, <1>2, Antisymmetry
<1> QED BY <1>1, <1>2, <1>3 DEF History

\* It keeps every part of the invariant: no other conversation has what it adds.
LEMMA ForwardKeeps ==
    ASSUME TrunkInv, NEW c \in Convs, MergeForwards(c), trunk' # trunk
    PROVE  /\ RefTypes' /\ LocalTypes' /\ History' /\ Checkouts' /\ Apart' /\ Pinned' /\ Swapping'
           /\ Ahead' /\ Checked' /\ Landing' /\ NothingUnreachable'
           /\ greens' = greens
<1>0. /\ TrunkTypeOK /\ RefTypes /\ LocalTypes /\ History /\ Checkouts /\ Apart /\ Pinned /\ Swapping
      /\ Ahead /\ Checked /\ Landing /\ NothingUnreachable
  BY TrunkParts DEF TrunkInv
<1> DEFINE t == target[c]
<1>1. /\ step[c] = "forward" /\ trunk' = t /\ t \in DOMAIN revs /\ trunk \in Ancestors(t)
      /\ t \notin Ancestors(trunk) /\ Ancestors(trunk) \subseteq Ancestors(t) /\ t \in Ancestors(t)
  BY <1>0, ForwardShape
<1>2. /\ step' = [step EXCEPT ![c] = "idle"] /\ gatedTip' = [gatedTip EXCEPT ![c] = 0]
      /\ oldTip' = [oldTip EXCEPT ![c] = 0] /\ target' = [target EXCEPT ![c] = 0]
      /\ revs' = revs /\ tip' = tip /\ work' = work /\ mergeHead' = mergeHead /\ kept' = kept
      /\ greens' = greens /\ dropped' = dropped
  BY DEF MergeForwards, Returns, MergeAt, branchVars
<1>3. /\ step'[c] = "idle" /\ \A d \in Convs \ {c} : step'[d] = step[d]
  BY <1>0, <1>2 DEF LocalTypes
<1>4. /\ gatedTip'[c] = 0 /\ oldTip'[c] = 0 /\ target'[c] = 0
      /\ \A d \in Convs \ {c} : gatedTip'[d] = gatedTip[d] /\ oldTip'[d] = oldTip[d] /\ target'[d] = target[d]
  BY <1>0, <1>2 DEF LocalTypes
<1>5. \A d \in Convs : /\ tip[d] \in DOMAIN revs /\ trunk \in DOMAIN revs /\ tip[d] # 0
                       /\ gatedTip[d] \in {0} \cup DOMAIN revs /\ target[d] \in {0} \cup DOMAIN revs
                       /\ step[d] \in {"idle", "update", "pin"} <=> gatedTip[d] = 0
                       /\ step[d] \in {"swap", "forward"} <=> target[d] # 0
  BY <1>0, ConvTypes, RevTypes DEF LocalTypes
<1>6. ASSUME NEW d \in Convs \ {c}, NEW i \in Heads(d), i \in DOMAIN revs
      PROVE  t \notin Ancestors(i) /\ i \notin Ancestors(t) \ Ancestors(trunk)
  <2>1. t \in Heads(c)
    BY <1>1, <1>5 DEF Heads
  <2>2. Ancestors(i) \cap Ancestors(t) \subseteq Ancestors(trunk) /\ i \in Ancestors(i)
    BY <1>0, <1>6, <2>1 DEF Apart, History
  <2> QED BY <1>1, <2>2
<1>7. \A d \in Convs \ {c} : /\ tip[d] \in Heads(d) /\ (gatedTip[d] # 0 => gatedTip[d] \in Heads(d))
                             /\ target[d] # 0 => target[d] \in Heads(d)
  BY <1>5 DEF Heads
<1>8. RefTypes' /\ LocalTypes'
  <2>1. RefTypes'
    BY <1>0, <1>1, <1>2 DEF RefTypes
  <2>2. "idle" \in Steps
    BY DEF Steps
  <2>3. step' \in [Convs -> Steps]
    BY <1>0, <1>2, <2>2 DEF LocalTypes
  <2>4. gatedTip' \in [Convs -> {0} \cup DOMAIN revs'] /\ oldTip' \in [Convs -> {0} \cup DOMAIN revs']
        /\ target' \in [Convs -> {0} \cup DOMAIN revs']
    BY <1>0, <1>2 DEF LocalTypes
  <2>5. \A d \in Convs : step'[d] \in {"idle", "update", "pin"} <=> gatedTip'[d] = 0
    BY <1>3, <1>4, <1>5
  <2>6. \A d \in Convs : step'[d] \in {"swap", "forward"} <=> target'[d] # 0
    BY <1>3, <1>4, <1>5
  <2> QED BY <2>1, <2>3, <2>4, <2>5, <2>6 DEF LocalTypes
<1>9. History'
  BY <1>0, <1>2 DEF History, Ancestors, Tree, Lasting
<1>10. Checkouts'
  BY <1>0, <1>1, <1>2 DEF Checkouts, Ancestors, Tree, Lasting
<1>11. Apart'
  <2>1. ASSUME NEW d \in Convs, NEW i \in Heads(d)' PROVE i \in Heads(d)
    BY <1>2, <1>4, <1>5, <2>1 DEF Heads
  <2>2. ASSUME NEW d \in Convs, NEW e \in Convs, d # e, NEW i \in Heads(d)', NEW j \in Heads(e)'
        PROVE  Ancestors(i) \cap Ancestors(j) \subseteq Ancestors(t)
    BY <1>0, <1>1, <2>1, <2>2 DEF Apart
  <2> QED BY <1>1, <1>2, <2>2 DEF Apart, Ancestors
<1>12. Pinned' /\ Swapping'
  <2>1. Pinned'
    BY <1>0, <1>2, <1>3, <1>4 DEF Pinned, Ancestors
  <2>2. Swapping'
    BY <1>0, <1>1, <1>2, <1>3, <1>4 DEF Swapping, Ancestors
  <2> QED BY <2>1, <2>2
<1>13. Ahead'
  <2>1. ASSUME NEW d \in Convs, step'[d] \in {"squash", "swap"} PROVE tip[d] \notin Ancestors(t)
    <3>1. d # c /\ step'[d] = step[d]
      BY <1>3, <2>1
    <3> QED BY <1>0, <1>5, <1>6, <1>7, <2>1, <3>1 DEF Ahead
  <2> QED BY <1>1, <1>2, <2>1 DEF Ahead, Ancestors
<1>16. Checked'
  <2>1. ASSUME NEW d \in Convs, step'[d] \in {"recheck", "count", "squash", "swap", "forward"},
               t \in Ancestors(gatedTip'[d])
        PROVE  FALSE
    <3>1. d # c /\ step'[d] = step[d] /\ gatedTip'[d] = gatedTip[d]
      BY <1>3, <1>4, <2>1
    <3>2. gatedTip[d] # 0
      BY <1>5, <2>1, <3>1
    <3> QED BY <1>5, <1>6, <1>7, <2>1, <3>1, <3>2
  <2> QED BY <1>1, <1>2, <2>1 DEF Checked, Ancestors
<1>17. Landing'
  <2>1. ASSUME NEW d \in Convs, step'[d] = "forward"
        PROVE  /\ step[d] = "forward" /\ target'[d] = target[d] /\ gatedTip'[d] = gatedTip[d]
               /\ oldTip'[d] = oldTip[d]
    BY <1>3, <1>4, <2>1
  <2> QED BY <1>0, <1>2, <2>1 DEF Landing, Ancestors
<1>18. NothingUnreachable'
  BY <1>0, <1>1, <1>2 DEF NothingUnreachable, Ancestors
<1> QED BY <1>2, <1>8, <1>9, <1>10, <1>11, <1>12, <1>13, <1>16, <1>17, <1>18

-----------------------------------------------------------------------------
(* The invariant of the merge to trunk *)

\* It holds at the start.
LEMMA TrunkStart == TrunkInit => TrunkInv
<1> SUFFICES ASSUME TrunkInit PROVE TrunkInv
  OBVIOUS
<1> DEFINE root == [tree |-> {}, anc |-> {1}, reset |-> FALSE]
<1>1. /\ revs = <<root>> /\ trunk = 1 /\ tip = [c \in Convs |-> 1] /\ work = [c \in Convs |-> {}]
      /\ mergeHead = [c \in Convs |-> 0] /\ kept = {} /\ greens = {{}}
      /\ step = [c \in Convs |-> "idle"] /\ gatedTip = [c \in Convs |-> 0]
      /\ oldTip = [c \in Convs |-> 0] /\ target = [c \in Convs |-> 0] /\ dropped = {} /\ blind = {}
  BY DEF TrunkInit, Nowhere
<1>2. root \in RevSet
  BY TrunkMergeAssumption DEF RevSet, TreeSets
<1>3. revs \in Seq(RevSet) /\ DOMAIN revs = {1} /\ revs[1] = root
  <2> HIDE DEF root
  <2> QED BY <1>1, <1>2
<1>4. Ancestors(1) = {1} /\ Tree(1) = {}
  BY <1>3 DEF Ancestors, Tree
<1>5. RefTypes
  BY <1>1, <1>3 DEF RefTypes, TreeSets
<1>6. LocalTypes
  <2>1. "idle" \in Steps
    BY DEF Steps
  <2> QED BY <1>1, <2>1 DEF LocalTypes
<1>7. TrunkTypeOK
  BY <1>1, <1>5, <1>6, TrunkParts DEF OtherTypes
<1>8. \A c \in Convs : tip[c] = 1 /\ work[c] = {} /\ mergeHead[c] = 0 /\ gatedTip[c] = 0 /\ target[c] = 0
                       /\ step[c] = "idle"
  BY <1>1
<1>9. History /\ Checkouts
  BY <1>1, <1>3, <1>4, <1>8 DEF History, Checkouts, Lasting
<1>10. Apart
  BY <1>1, <1>4, <1>8 DEF Apart, Heads
<1>11. Pinned /\ Swapping /\ Ahead /\ Checked /\ Landing
  BY <1>8 DEF Pinned, Swapping, Ahead, Checked, Landing
<1>13. NothingUnreachable
  BY <1>1, <1>3, <1>4 DEF NothingUnreachable
<1> QED BY <1>7, <1>9, <1>10, <1>11, <1>13 DEF TrunkInv

\* The record of builds and resets is of the aspect's source.
LEMMA OtherKept ==
    ASSUME TrunkTypeOK, TrunkNext
    PROVE  OtherTypes'
<1>0. OtherTypes
  BY TrunkParts
<1>1. ASSUME NEW c \in Convs
      PROVE  Returns(c) => blind' \subseteq Convs
  BY <1>0 DEF Returns, OtherTypes
<1>2. ASSUME NEW c \in Convs, WorkerStep(c) PROVE OtherTypes'
  <2>1. CASE GreenBuild(c)
    <3>1. greens' = greens \cup {Source(work[c])} /\ dropped' = dropped /\ blind' = blind
      BY <2>1 DEF GreenBuild, mergeVars
    <3>2. Source(work[c]) \in SUBSET Gated
      BY DEF Source
    <3> QED BY <1>0, <3>1, <3>2 DEF OtherTypes
  <2>2. CASE ResetSource(c)
    <3>1. PICK i \in Ancestors(tip[c]) : dropped' = dropped \cup (Source(work[c]) \ Source(Tree(i)))
      BY <2>2 DEF ResetSource
    <3>2. greens' = greens /\ blind' = blind
      BY <2>2 DEF ResetSource, mergeVars
    <3> QED BY <1>0, <3>1, <3>2 DEF OtherTypes, Source
  <2>3. CASE ~GreenBuild(c) /\ ~ResetSource(c)
    <3>1. greens' = greens /\ dropped' = dropped /\ blind' = blind
      BY <1>2, <2>3 DEF WorkerStep, Write, CheckpointTree, UpdateFromTrunk, Resolve, CompleteMerge,
                        AbortMerge, mergeVars
    <3> QED BY <1>0, <3>1 DEF OtherTypes
  <2> QED BY <2>1, <2>2, <2>3
<1>3. ASSUME NEW c \in Convs, MergeStep(c) PROVE OtherTypes'
  <2>1. greens' = greens /\ dropped' = dropped
    BY <1>3 DEF MergeStep, MergeAsked, MergeUpdates, MergePins, MergeGate, MergeReverts, MergeRechecks,
                MergeCounts, SquashReads, SquashSwaps, MergeForwards, MergeErrs, NoRefMoves
  <2>2. Returns(c) \/ blind' = blind \/ blind' = blind \cup {c}
    BY <1>3 DEF MergeStep, MergeAsked, MergeUpdates, MergePins, MergeGate, MergeReverts, MergeRechecks,
                MergeCounts, SquashReads, SquashSwaps, MergeForwards, MergeErrs
  <2> QED BY <1>0, <1>1, <2>1, <2>2 DEF OtherTypes
<1>4. CASE MergesDie
  BY <1>0, <1>4 DEF MergesDie, NoRefMoves, OtherTypes
<1> QED BY <1>2, <1>3, <1>4 DEF TrunkNext

\* Every step of the merge keeps it.
LEMMA TrunkStep == TrunkInv /\ TrunkNext => TrunkInv'
<1> SUFFICES ASSUME TrunkInv, TrunkNext PROVE TrunkInv'
  OBVIOUS
<1>0. TrunkTypeOK /\ History /\ Checkouts /\ Swapping /\ Ahead /\ OtherTypes'
  BY OtherKept DEF TrunkInv
<1>1. ASSUME /\ RefTypes' /\ LocalTypes' /\ History' /\ Checkouts' /\ Apart' /\ Pinned' /\ Swapping'
             /\ Ahead' /\ Checked' /\ Landing' /\ NothingUnreachable'
      PROVE  TrunkInv'
  <2>1. TrunkTypeOK'
    BY <1>0, <1>1, TrunkParts DEF TrunkTypeOK, RefTypes, LocalTypes, OtherTypes, RevSet, TreeSets
  <2> QED BY <1>1, <2>1 DEF TrunkInv
<1>2. ASSUME LocalStep PROVE TrunkInv'
  BY <1>0, <1>1, <1>2, LocalKeeps
<1>3. ASSUME NEW c \in Convs, WorkerStep(c) \/ MergeAsked(c) \/ MergeUpdates(c) PROVE TrunkInv'
  <2>1. BranchStep(c)
    BY <1>0, <1>3, BranchShape
  <2>2. RefTypes' /\ History' /\ Checkouts'
    BY <1>0, <2>1, BranchFacts, BranchHistory, BranchCheckouts
  <2> QED BY <1>1, <2>1, <2>2, BranchKeeps
<1>4. ASSUME NEW c \in Convs, SquashSwaps(c) PROVE TrunkInv'
  <2>1. CASE TipUnmoved(c)
    BY <1>1, <1>4, <2>1, SquashKeeps
  <2>2. CASE ~TipUnmoved(c)
    BY <1>0, <1>2, <1>4, <2>2, LocalShape DEF QuietStep
  <2> QED BY <2>1, <2>2
<1>5. ASSUME NEW c \in Convs, MergeForwards(c) PROVE TrunkInv'
  <2>1. CASE trunk' = trunk
    BY <1>0, <1>2, <1>5, <2>1, ForwardStill
  <2>2. CASE trunk' # trunk
    BY <1>1, <1>5, <2>2, ForwardKeeps
  <2> QED BY <2>1, <2>2
<1>6. ASSUME NEW c \in Convs, QuietStep(c) PROVE TrunkInv'
  BY <1>0, <1>2, <1>6, LocalShape
<1>7. CASE MergesDie
  <2>1. PICK c \in Convs : step[c] # "idle"
    BY <1>7 DEF MergesDie
  <2>2. QuietStep(c)
    BY <1>7 DEF QuietStep
  <2> QED BY <1>6, <2>2
<1>8. ASSUME NEW c \in Convs, MergeStep(c) PROVE TrunkInv'
  BY <1>3, <1>4, <1>5, <1>6, <1>8 DEF MergeStep, QuietStep
<1> QED BY <1>3, <1>7, <1>8 DEF TrunkNext

\* So does a step that is not its own.
LEMMA TrunkStill == TrunkInv /\ UNCHANGED trunkVars => TrunkInv'
<1> SUFFICES ASSUME TrunkInv, UNCHANGED trunkVars PROVE TrunkInv'
  OBVIOUS
<1>1. /\ revs' = revs /\ trunk' = trunk /\ tip' = tip /\ work' = work /\ mergeHead' = mergeHead
      /\ kept' = kept /\ greens' = greens /\ step' = step /\ gatedTip' = gatedTip
      /\ oldTip' = oldTip /\ target' = target /\ dropped' = dropped /\ blind' = blind
  BY DEF trunkVars, branchVars, mergeVars
<1>2. TrunkTypeOK' /\ NothingUnreachable'
  BY <1>1 DEF TrunkInv, TrunkTypeOK, NothingUnreachable, Ancestors
<1>3. History' /\ Checkouts' /\ Apart' /\ Pinned' /\ Swapping' /\ Ahead'
  BY <1>1 DEF TrunkInv, History, Checkouts, Apart, Heads, Pinned, Swapping, Ahead, Ancestors, Tree, Lasting
<1>4. Checked' /\ Landing'
  BY <1>1 DEF TrunkInv, Checked, Landing, LiveRevert, Ancestors, Tree, Source
<1> QED BY <1>2, <1>3, <1>4 DEF TrunkInv

\* The services' steps, seen from the merge.
LEMMA TrunkKept == TrunkInv /\ [ServicesNext]_serviceVars => TrunkInv'
BY TrunkStep, TrunkStill DEF ServicesNext, serviceVars

\* The types of the merge to trunk hold: in particular a merge that judges has pinned
\* the commit it judges, and one that moves a ref knows where to.
THEOREM TrunkTypes == ServicesSpec => []TrunkTypeOK
<1>1. ServicesInit => TrunkInv
  BY TrunkStart DEF ServicesInit
<1>2. TrunkInv => TrunkTypeOK
  BY DEF TrunkInv
<1> QED BY <1>1, <1>2, TrunkKept, PTL DEF ServicesSpec

\* No commit is ever lost: whatever commits, squashes, fast-forwards and deaths of the
\* gateway race, every commit stays in the history of trunk, of a branch or of a tip
\* that a squash has kept.
THEOREM NoCommitIsLost == ServicesSpec => []NothingUnreachable
<1>1. ServicesInit => TrunkInv
  BY TrunkStart DEF ServicesInit
<1>2. TrunkInv => NothingUnreachable
  BY DEF TrunkInv
<1> QED BY <1>1, <1>2, TrunkKept, PTL DEF ServicesSpec

\* Only a fast-forward moves trunk, and it knows where to.
LEMMA TrunkMoves ==
    ASSUME TrunkInv, [ServicesNext]_serviceVars, trunk' # trunk
    PROVE  \E e \in Convs : MergeForwards(e) /\ trunk' = target[e]
<1>1. TrunkNext
  BY DEF ServicesNext, serviceVars, trunkVars
<1>2. PICK e \in Convs : MergeForwards(e)
  BY <1>1
  DEF TrunkNext, WorkerStep, MergeStep, Write, CheckpointTree, GreenBuild, ResetSource, UpdateFromTrunk,
      Resolve, CompleteMerge, AbortMerge, MergeAsked, MergeUpdates, MergePins, MergeGate, MergeReverts,
      MergeRechecks, MergeCounts, SquashReads, SquashSwaps, MergeErrs, MergesDie, NoRefMoves
<1> QED BY <1>2, ForwardShape DEF TrunkInv

\* A merge takes nothing off trunk but what a watchdog's reset took out of a checkout,
\* whatever commits, merges of trunk and other conversations' merges come in between.
THEOREM MergesKeepWork == ServicesSpec => TrunkKeepsWork
<1> DEFINE Safe == Tree(trunk) \ (dropped \cup {Markers}) \subseteq Tree(trunk')
<1>1. ServicesInit => TrunkInv
  BY TrunkStart DEF ServicesInit
<1>2. TrunkInv /\ [ServicesNext]_serviceVars => [Safe]_trunkVars
  <2> SUFFICES ASSUME TrunkInv, [ServicesNext]_serviceVars, trunk' # trunk PROVE Safe
    OBVIOUS
  <2>1. PICK e \in Convs : MergeForwards(e) /\ trunk' = target[e]
    BY TrunkMoves
  <2>2. trunk \in Ancestors(trunk') /\ trunk' \in DOMAIN revs
    BY <2>1, ForwardShape DEF TrunkInv
  <2> QED BY <2>2 DEF TrunkInv, History, Lasting
<1> QED BY <1>1, <1>2, TrunkKept, PTL DEF ServicesSpec, TrunkKeepsWork

\* A commit that was judged does not take trunk back to what a reset in its own history
\* left, whatever moved trunk after the check for reverts, unless the check saw only part
\* of the log.
THEOREM RevertsAreRefused == ServicesSpec => RevertsStayOff
<1> DEFINE Safe == \A c \in Convs : Lands(c) /\ oldTip[c] \in {0, gatedTip[c]} /\ c \notin blind =>
                      \A i \in Ancestors(gatedTip[c]) \ Ancestors(trunk) : ~LiveRevert(c, i)
<1>1. ServicesInit => TrunkInv
  BY TrunkStart DEF ServicesInit
<1>2. TrunkInv /\ [ServicesNext]_serviceVars => [Safe]_trunkVars
  <2> SUFFICES ASSUME TrunkInv, [ServicesNext]_serviceVars,
                      NEW c \in Convs, Lands(c), oldTip[c] \in {0, gatedTip[c]}, c \notin blind,
                      NEW i \in Ancestors(gatedTip[c]) \ Ancestors(trunk)
               PROVE  ~LiveRevert(c, i)
    OBVIOUS
  <2>0. TrunkTypeOK /\ History /\ Apart /\ Checked /\ Landing
    BY DEF TrunkInv
  <2>1. step[c] = "forward" /\ trunk' # trunk /\ trunk' = target[c]
    BY DEF Lands
  <2>2. PICK e \in Convs : MergeForwards(e) /\ trunk' = target[e]
    BY <2>1, TrunkMoves
  <2>3. trunk \in Ancestors(target[c])
    BY <2>0, <2>1, <2>2, ForwardShape
  <2>4. trunk \in Ancestors(gatedTip[c])
    BY <2>0, <2>1, <2>3 DEF Landing
  <2> QED BY <2>0, <2>1, <2>4 DEF Checked
<1> QED BY <1>1, <1>2, TrunkKept, PTL DEF ServicesSpec, RevertsStayOff

-----------------------------------------------------------------------------
(* The invariants of the question forms *)

PostingPlaces == {"idle", "find", "retire", "clear", "create", "send", "note", "point", "done"}
PressingPlaces == {"idle", "advance", "show", "unpoint", "submit"}
AskTypes ==
    /\ AskTypeOK /\ posting \in [Followers -> PostingPlaces] /\ pressing \in [Presses -> PressingPlaces]
    /\ submitted \in [AskCalls -> Nat]

\* Who posts a form, or has posted one, holds the call's claim.
Posting(f) == posting[f] \notin {"idle", "done"}
ClaimsHeld == \A f \in Followers : Posting(f) \/ shown[f] > 0 => claim[CallOf[f]] = <<f>>
Unshown ==
    \A f \in Followers : posting[f] \in {"idle", "find", "retire", "clear", "create", "send"} => shown[f] = 0

\* A press is of a form that was shown, at the question its state was read at; a
\* finished form is what is left to take down and to submit.
PressesReal ==
    \A k \in Presses : pressing[k] # "idle" =>
        /\ pressed[k] \in Followers \X (1..Questions) /\ shown[pressed[k][1]] > 0
        /\ pressing[k] = "advance" => read[k] # None /\ Index(read[k]) = pressed[k][2]
        /\ pressing[k] \in {"unpoint", "submit"} => Finished(k)

\* What is submitted was on a form that was shown.
SubmittedShown ==
    \A c \in AskCalls : submitted[c] > 0 => \E f \in Followers : claim[c] = <<f>> /\ shown[f] > 0

\* A form is cleared before its answers are submitted, by one press, and stays so.
Finishing(k, f) ==
    /\ pressing[k] \in {"show", "unpoint", "submit"} /\ pressed[k][1] = f /\ pressed[k][2] = Questions
FinishedOnce ==
    \A f \in Followers \ overwritten : claim[CallOf[f]] = <<f>> =>
        /\ submitted[CallOf[f]] <= 1
        /\ submitted[CallOf[f]] = 1 => form[f] = None
        /\ \A k \in Presses : Finishing(k, f) =>
              /\ submitted[CallOf[f]] = 0 /\ form[f] = None
              /\ \A l \in Presses : Finishing(l, f) => l = k

AskInv == AskTypes /\ ClaimsHeld /\ Unshown /\ PressesReal /\ SubmittedShown /\ FinishedOnce

-----------------------------------------------------------------------------
(* Types of the question forms *)

\* A state is answers and whether the message is known.
LEMMA MakesState ==
    ASSUME NEW a \in UNION {[1..j -> Replies] : j \in 0..Questions - 1}, NEW n \in BOOLEAN
    PROVE  <<[answers |-> a, noted |-> n]>> \in States
<1> DEFINE A == UNION {[1..j -> Replies] : j \in 0..Questions - 1}
           E(b, m) == <<[answers |-> b, noted |-> m]>>
           S == {E(b, m) : b \in A, m \in BOOLEAN}
<1>1. a \in A /\ States = {None} \cup S
  BY DEF States
<1> HIDE DEF A, E
<1>2. E(a, n) \in S
  BY <1>1
<1> HIDE DEF S
<1>3. E(a, n) \in States
  BY <1>1, <1>2
<1> QED BY <1>3 DEF E

\* A form that was just created is in one of its states.
LEMMA FreshIsState == None \in States /\ Fresh(TRUE) \in States /\ Fresh(FALSE) \in States
<1>1. <<>> \in [1..0 -> Replies] /\ 0 \in 0..Questions - 1
  BY AskAssumption
<1>2. <<>> \in UNION {[1..j -> Replies] : j \in 0..Questions - 1}
  BY <1>1
<1>3. TRUE \in BOOLEAN /\ FALSE \in BOOLEAN
  OBVIOUS
<1>4. <<[answers |-> <<>>, noted |-> TRUE]>> \in States /\ <<[answers |-> <<>>, noted |-> FALSE]>> \in States
  BY <1>2, <1>3, MakesState, Zenon
<1>5. None \in States
  BY DEF States
<1> QED BY <1>4, <1>5 DEF Fresh

\* What a form's state holds: answers to fewer than all of its questions.
LEMMA StateParts ==
    ASSUME NEW s \in States, s # None
    PROVE  /\ s[1].answers \in Seq(Replies) /\ Len(s[1].answers) \in 0..Questions - 1
           /\ s[1] = [answers |-> s[1].answers, noted |-> s[1].noted] /\ s[1].noted \in BOOLEAN
           /\ Index(s) \in 1..Questions
<1>1. PICK a \in UNION {[1..j -> Replies] : j \in 0..Questions - 1}, n \in BOOLEAN :
          s = <<[answers |-> a, noted |-> n]>>
  BY DEF States
<1>2. PICK j \in 0..Questions - 1 : a \in [1..j -> Replies]
  BY <1>1
<1>3. a \in Seq(Replies) /\ Len(a) = j
  BY <1>2, AskAssumption
<1>4. s[1].answers = a /\ s[1].noted = n /\ s[1] = [answers |-> a, noted |-> n]
  BY <1>1
<1> QED BY <1>1, <1>2, <1>3, <1>4, AskAssumption DEF Index

\* One more answer, but for the last one, makes a state again.
LEMMA AnswerIsState ==
    ASSUME NEW s \in States, s # None, Index(s) # Questions, NEW reply \in Replies
    PROVE  <<[s[1] EXCEPT !.answers = Append(@, reply)]>> \in States
<1> DEFINE a == s[1].answers
           n == s[1].noted
<1>1. /\ a \in Seq(Replies) /\ Len(a) \in 0..Questions - 1 /\ n \in BOOLEAN
      /\ s[1] = [answers |-> a, noted |-> n] /\ Index(s) \in 1..Questions
  BY StateParts
<1>2. Len(a) + 1 \in 0..Questions - 1
  BY <1>1, AskAssumption DEF Index
<1>3. Append(a, reply) \in Seq(Replies) /\ Len(Append(a, reply)) = Len(a) + 1
  BY <1>1
<1>4. Append(a, reply) \in [1..(Len(a) + 1) -> Replies]
  <2> DEFINE b == Append(a, reply)
  <2>1. b \in Seq(Replies) /\ Len(b) = Len(a) + 1
    BY <1>3
  <2> HIDE DEF b
  <2>2. b \in [1..Len(b) -> Replies]
    BY <2>1, LenProperties
  <2> QED BY <2>1, <2>2 DEF b
<1>5. Append(a, reply) \in UNION {[1..j -> Replies] : j \in 0..Questions - 1}
  BY <1>2, <1>4
<1>6. [s[1] EXCEPT !.answers = Append(@, reply)] = [answers |-> Append(a, reply), noted |-> n]
  <2> HIDE DEF a, n
  <2>1. \A r : r = [answers |-> a, noted |-> n] =>
            [r EXCEPT !.answers = Append(@, reply)] = [answers |-> Append(a, reply), noted |-> n]
    OBVIOUS
  <2> QED BY <1>1, <2>1
<1> HIDE DEF a, n
<1>7. <<[answers |-> Append(a, reply), noted |-> n]>> \in States
  BY <1>1, <1>5, MakesState, Zenon
<1> QED BY <1>6, <1>7

\* The types of the variables, one by one.
LEMMA AskKinds ==
    AskTypes <=>
      /\ claim \in [AskCalls -> MaybeForm] /\ live \in MaybeForm
      /\ form \in [Followers -> States] /\ read \in [Presses -> States]
      /\ shown \in [Followers -> 0..Questions] /\ former \in [Followers -> MaybeForm]
      /\ pressed \in [Presses -> {None} \cup (Followers \X (1..Questions))]
      /\ refusals \in 0..MaxRefusals /\ overwritten \subseteq Followers
      /\ posting \in [Followers -> PostingPlaces] /\ pressing \in [Presses -> PressingPlaces]
      /\ submitted \in [AskCalls -> Nat]
BY DEF AskTypes, AskTypeOK

\* A follower's step moves it and at most the table, and every variable stays of its
\* type.
LEMMA PostTypes ==
    ASSUME AskTypes, NEW f \in Followers, PostStep(f)
    PROVE  AskTypes'
<1>0. /\ claim \in [AskCalls -> MaybeForm] /\ live \in MaybeForm
      /\ form \in [Followers -> States] /\ read \in [Presses -> States]
      /\ shown \in [Followers -> 0..Questions] /\ former \in [Followers -> MaybeForm]
      /\ pressed \in [Presses -> {None} \cup (Followers \X (1..Questions))]
      /\ refusals \in 0..MaxRefusals /\ overwritten \subseteq Followers
      /\ posting \in [Followers -> PostingPlaces] /\ pressing \in [Presses -> PressingPlaces]
      /\ submitted \in [AskCalls -> Nat]
  BY AskKinds
<1>1. UNCHANGED <<read, pressed, pressing, submitted>>
  BY DEF PostStep, ClaimCall, FindLive, ClaimLive, ClearFormer, CreateForm, SendForm, NoteMessage,
         PointAtForm, pressVars
<1>2. posting' \in [Followers -> PostingPlaces]
  <2>1. \E p \in PostingPlaces : posting' = [posting EXCEPT ![f] = p]
    BY DEF PostStep, ClaimCall, FindLive, ClaimLive, ClearFormer, CreateForm, SendForm, NoteMessage,
           PointAtForm, PostAt, PostingPlaces
  <2> QED BY <1>0, <2>1
<1>3. <<f>> \in MaybeForm /\ None \in MaybeForm
  BY DEF MaybeForm
<1>4. claim' \in [AskCalls -> MaybeForm]
  <2>1. claim' = claim \/ claim' = [claim EXCEPT ![CallOf[f]] = <<f>>]
    BY DEF PostStep, ClaimCall, FindLive, ClaimLive, ClearFormer, CreateForm, SendForm, NoteMessage,
           PointAtForm
  <2> QED BY <1>0, <1>3, <2>1
<1>5. live' \in MaybeForm
  <2>1. live' \in {live, None, <<f>>}
    BY DEF PostStep, ClaimCall, FindLive, ClaimLive, ClearFormer, CreateForm, SendForm, NoteMessage,
           PointAtForm
  <2> QED BY <1>0, <1>3, <2>1
<1>6. form' \in [Followers -> States]
  <2>1. form' = form \/ \E g, s : s \in {None, Fresh(TRUE), Fresh(FALSE)} /\ form' = [form EXCEPT ![g] = s]
    BY DEF PostStep, ClaimCall, FindLive, ClaimLive, ClearFormer, CreateForm, SendForm, NoteMessage,
           PointAtForm, Put
  <2> QED BY <1>0, <2>1, FreshIsState
<1>7. shown' \in [Followers -> 0..Questions]
  <2>1. shown' = shown \/ shown' = [shown EXCEPT ![f] = 1]
    BY DEF PostStep, ClaimCall, FindLive, ClaimLive, ClearFormer, CreateForm, SendForm, NoteMessage,
           PointAtForm
  <2> QED BY <1>0, <2>1, AskAssumption
<1>8. former' \in [Followers -> MaybeForm]
  <2>1. former' = former \/ \E s \in {live, None} : former' = [former EXCEPT ![f] = s]
    BY DEF PostStep, ClaimCall, FindLive, ClaimLive, ClearFormer, CreateForm, SendForm, NoteMessage,
           PointAtForm
  <2> QED BY <1>0, <1>3, <2>1
<1>9. refusals' \in 0..MaxRefusals
  <2>1. refusals' = refusals \/ (refusals < MaxRefusals /\ refusals' = refusals + 1)
    BY DEF PostStep, ClaimCall, FindLive, ClaimLive, ClearFormer, CreateForm, SendForm, NoteMessage,
           PointAtForm, Refuses
  <2> QED BY <1>0, <2>1, AskAssumption
<1>10. overwritten' \subseteq Followers
  <2>1. overwritten' \in {overwritten, overwritten \cup {f}}
    BY DEF PostStep, ClaimCall, FindLive, ClaimLive, ClearFormer, CreateForm, SendForm, NoteMessage,
           PointAtForm
  <2> QED BY <1>0, <2>1
<1> QED BY <1>0, <1>1, <1>2, <1>4, <1>5, <1>6, <1>7, <1>8, <1>9, <1>10, AskKinds
           DEF AskTypes, AskTypeOK

\* So does a step of a press.
LEMMA PressTypes ==
    ASSUME AskTypes, PressesReal, NEW k \in Presses,
           PressStep(k) \/ \E f \in Followers, i \in 1..Questions : Press(k, f, i)
    PROVE  AskTypes'
<1>0. /\ claim \in [AskCalls -> MaybeForm] /\ live \in MaybeForm
      /\ form \in [Followers -> States] /\ read \in [Presses -> States]
      /\ shown \in [Followers -> 0..Questions] /\ former \in [Followers -> MaybeForm]
      /\ pressed \in [Presses -> {None} \cup (Followers \X (1..Questions))]
      /\ refusals \in 0..MaxRefusals /\ overwritten \subseteq Followers
      /\ posting \in [Followers -> PostingPlaces] /\ pressing \in [Presses -> PressingPlaces]
      /\ submitted \in [AskCalls -> Nat]
  BY AskKinds
<1>1. UNCHANGED <<claim, posting, former, overwritten>>
  BY DEF PressStep, AdvanceForm, ShowNext, Unpoint, SubmitAnswers, Press, postVars
<1>2. pressing' \in [Presses -> PressingPlaces]
  <2>1. \E p \in PressingPlaces : pressing' = [pressing EXCEPT ![k] = p]
    BY DEF PressStep, AdvanceForm, ShowNext, Unpoint, SubmitAnswers, Press, PressAt, PressingPlaces
  <2> QED BY <1>0, <2>1
<1>3. pressed' \in [Presses -> {None} \cup (Followers \X (1..Questions))]
  <2>1. pressed' = pressed \/ \E s \in {None} \cup (Followers \X (1..Questions)) : pressed' = [pressed EXCEPT ![k] = s]
    <3>1. CASE PressStep(k)
      BY <3>1 DEF PressStep, AdvanceForm, ShowNext, Unpoint, SubmitAnswers, PressAt
    <3>2. ASSUME NEW f \in Followers, NEW i \in 1..Questions, Press(k, f, i)
          PROVE  pressed' = [pressed EXCEPT ![k] = <<f, i>>] /\ <<f, i>> \in Followers \X (1..Questions)
      BY <3>2 DEF Press
    <3> QED BY <3>1, <3>2
  <2> QED BY <1>0, <2>1
<1>4. live' \in MaybeForm
  <2>1. live' \in {live, None}
    BY DEF PressStep, AdvanceForm, ShowNext, Unpoint, SubmitAnswers, Press, postVars
  <2> QED BY <1>0, <2>1 DEF MaybeForm
<1>5. form' \in [Followers -> States]
  <2>1. CASE form' = form
    BY <1>0, <2>1
  <2>2. ASSUME NEW reply \in Replies, AdvanceForm(k, reply), form' # form PROVE form' \in [Followers -> States]
    <3>1. /\ pressing[k] = "advance" /\ UnchangedSince(k)
          /\ Put(pressed[k][1], IF Finished(k) THEN None
                                ELSE <<[read[k][1] EXCEPT !.answers = Append(@, reply)]>>)
      BY <2>2 DEF AdvanceForm
    <3>2. read[k] \in States /\ read[k] # None /\ Index(read[k]) = pressed[k][2]
      BY <1>0, <3>1 DEF PressesReal
    <3>3. CASE Finished(k)
      <4>1. form' = [form EXCEPT ![pressed[k][1]] = None]
        BY <3>1, <3>3 DEF Put
      <4> QED BY <1>0, <4>1, FreshIsState
    <3>4. CASE ~Finished(k)
      <4> DEFINE s == <<[read[k][1] EXCEPT !.answers = Append(@, reply)]>>
      <4>1. s \in States
        BY <3>2, <3>4, AnswerIsState DEF Finished
      <4>2. form' = [form EXCEPT ![pressed[k][1]] = s]
        BY <3>1, <3>4 DEF Put
      <4> HIDE DEF s
      <4> QED BY <1>0, <4>1, <4>2
    <3> QED BY <3>3, <3>4
  <2> QED BY <2>1, <2>2 DEF PressStep, ShowNext, Unpoint, SubmitAnswers, Press
<1>6. read' \in [Presses -> States]
  <2>1. read' = read \/ read' = [read EXCEPT ![k] = None]
            \/ \E f \in Followers : read' = [read EXCEPT ![k] = form[f]]
    BY DEF PressStep, AdvanceForm, ShowNext, Unpoint, SubmitAnswers, Press
  <2>2. \A f \in Followers : form[f] \in States
    BY <1>0
  <2> QED BY <1>0, <2>1, <2>2, FreshIsState
<1>7. shown' \in [Followers -> 0..Questions]
  <2>1. CASE shown' = shown
    BY <1>0, <2>1
  <2>2. CASE ShowNext(k) /\ shown' # shown
    <3> DEFINE g == pressed[k][1]
               next == pressed[k][2] + 1
    <3>1. pressing[k] = "show" /\ shown' = [shown EXCEPT ![g] = IF next <= Questions /\ @ < next THEN next ELSE @]
      BY <2>2 DEF ShowNext
    <3>2. g \in Followers /\ pressed[k][2] \in 1..Questions
      BY <3>1 DEF PressesReal
    <3>3. next \in Nat
      BY <3>2, AskAssumption
    <3>4. (IF next <= Questions /\ shown[g] < next THEN next ELSE shown[g]) \in 0..Questions
      <4> HIDE DEF next
      <4> QED BY <1>0, <3>2, <3>3, AskAssumption
    <3> HIDE DEF g, next
    <3> QED BY <1>0, <3>1, <3>4
  <2> QED BY <2>1, <2>2 DEF PressStep, AdvanceForm, Unpoint, SubmitAnswers, Press
<1>8. refusals' \in 0..MaxRefusals
  <2>1. refusals' = refusals \/ (refusals < MaxRefusals /\ refusals' = refusals + 1)
    BY DEF PressStep, AdvanceForm, ShowNext, Unpoint, SubmitAnswers, Press, Refuses
  <2> QED BY <1>0, <2>1, AskAssumption
<1>9. submitted' \in [AskCalls -> Nat]
  <2>1. submitted' = submitted \/ \E c : submitted' = [submitted EXCEPT ![c] = @ + 1]
    BY DEF PressStep, AdvanceForm, ShowNext, Unpoint, SubmitAnswers, Press
  <2> QED BY <1>0, <2>1
<1> QED BY <1>0, <1>1, <1>2, <1>3, <1>4, <1>5, <1>6, <1>7, <1>8, <1>9 DEF AskTypes, AskTypeOK

-----------------------------------------------------------------------------
(* What the followers' steps keep *)

\* What a follower's step changes: its own place, a claim that was free, a form that
\* was never shown or, as it will be known, one whose answers the put erases.
LEMMA PostFacts ==
    ASSUME AskTypes, ClaimsHeld, Unshown, NEW f \in Followers, PostStep(f)
    PROVE  /\ UNCHANGED <<pressing, pressed, read, submitted>> /\ overwritten \subseteq overwritten'
           /\ \A g \in Followers \ {f} : posting'[g] = posting[g] /\ shown'[g] = shown[g]
           /\ \A g \in Followers : shown[g] > 0 => shown'[g] > 0
           /\ \A c \in AskCalls : claim[c] # None => claim'[c] = claim[c]
           /\ Posting(f)' \/ shown'[f] > 0 => claim'[CallOf[f]] = <<f>>
           /\ posting'[f] \in {"idle", "find", "retire", "clear", "create", "send"} => shown'[f] = 0
           /\ \A g \in Followers \ overwritten' : form[g] = None /\ shown[g] > 0 => form'[g] = None
<1>0. /\ claim \in [AskCalls -> MaybeForm] /\ form \in [Followers -> States]
      /\ shown \in [Followers -> 0..Questions] /\ posting \in [Followers -> PostingPlaces]
      /\ CallOf[f] \in AskCalls
  BY AskKinds, AskAssumption
<1>1. UNCHANGED <<pressing, pressed, read, submitted>> /\ overwritten \subseteq overwritten'
  BY DEF PostStep, ClaimCall, FindLive, ClaimLive, ClearFormer, CreateForm, SendForm, NoteMessage,
         PointAtForm, pressVars
<1>2. \E p \in PostingPlaces : posting' = [posting EXCEPT ![f] = p]
  BY DEF PostStep, ClaimCall, FindLive, ClaimLive, ClearFormer, CreateForm, SendForm, NoteMessage,
         PointAtForm, PostAt, PostingPlaces
<1>3. posting' \in [Followers -> PostingPlaces] /\ \A g \in Followers \ {f} : posting'[g] = posting[g]
  BY <1>0, <1>2
<1>4. shown' = shown \/ (SendForm(f) /\ shown' = [shown EXCEPT ![f] = 1] /\ posting'[f] = "note")
  BY <1>0 DEF PostStep, ClaimCall, FindLive, ClaimLive, ClearFormer, CreateForm, SendForm, NoteMessage,
              PointAtForm, PostAt
<1>5. /\ \A g \in Followers \ {f} : shown'[g] = shown[g]
      /\ \A g \in Followers : shown[g] > 0 => shown'[g] > 0
  BY <1>0, <1>4
<1>6. \/ claim' = claim
      \/ /\ posting[f] = "idle" /\ claim[CallOf[f]] = None /\ claim' = [claim EXCEPT ![CallOf[f]] = <<f>>]
         /\ shown' = shown
  BY DEF PostStep, ClaimCall, FindLive, ClaimLive, ClearFormer, CreateForm, SendForm, NoteMessage,
         PointAtForm, ClaimFree
<1>7. \A c \in AskCalls : claim[c] # None => claim'[c] = claim[c]
  BY <1>0, <1>6
<1>8. ASSUME Posting(f)' \/ shown'[f] > 0 PROVE claim'[CallOf[f]] = <<f>>
  <2>1. CASE claim' = [claim EXCEPT ![CallOf[f]] = <<f>>]
    BY <1>0, <2>1
  <2>2. CASE claim' = claim
    <3>1. CASE posting[f] = "idle"
      <4>1. ClaimCall(f)
        BY <3>1 DEF PostStep, FindLive, ClaimLive, ClearFormer, CreateForm, SendForm, NoteMessage, PointAtForm
      <4>2. shown' = shown /\ shown[f] = 0
        BY <3>1, <4>1 DEF ClaimCall, Unshown
      <4>3. Posting(f)'
        BY <1>8, <4>2
      <4>4. posting'[f] # "done"
        BY <4>3 DEF Posting
      <4>5. claim' = [claim EXCEPT ![CallOf[f]] = <<f>>]
        BY <1>0, <4>1, <4>4 DEF ClaimCall, PostAt
      <4> QED BY <1>0, <4>5
    <3>2. CASE posting[f] # "idle"
      <4>1. posting[f] # "done"
        BY <3>2 DEF PostStep, ClaimCall, FindLive, ClaimLive, ClearFormer, CreateForm, SendForm, NoteMessage,
                    PointAtForm
      <4> QED BY <2>2, <3>2, <4>1 DEF ClaimsHeld, Posting
    <3> QED BY <3>1, <3>2
  <2> QED BY <1>6, <2>1, <2>2
<1>9. ASSUME posting'[f] \in {"idle", "find", "retire", "clear", "create", "send"} PROVE shown'[f] = 0
  <2>1. posting[f] \in {"idle", "find", "retire", "clear", "create"}
    BY <1>0, <1>9 DEF PostStep, ClaimCall, FindLive, ClaimLive, ClearFormer, CreateForm, SendForm, NoteMessage,
                      PointAtForm, PostAt
  <2>2. shown' = shown
    BY <1>4, <2>1 DEF SendForm
  <2> QED BY <2>1, <2>2 DEF Unshown
<1>10. ASSUME NEW g \in Followers, g \notin overwritten', form[g] = None, shown[g] > 0 PROVE form'[g] = None
  <2>1. CASE form' = form
    BY <1>10, <2>1
  <2>2. CASE \E h : form' = [form EXCEPT ![h] = None]
    BY <1>0, <1>10, <2>2
  <2>3. CASE CreateForm(f) /\ form' # form
    <3>1. form' = [form EXCEPT ![f] = Fresh(FALSE)] /\ shown[f] = 0
      BY <2>3 DEF CreateForm, Put, Unshown
    <3>2. g # f
      BY <1>10, <3>1
    <3> QED BY <1>0, <1>10, <3>1, <3>2
  <2>4. CASE NoteMessage(f)
    <3>1. form' = [form EXCEPT ![f] = Fresh(TRUE)] /\ (form[f] # Fresh(FALSE) => f \in overwritten')
      BY <2>4 DEF NoteMessage, Put
    <3>2. None # Fresh(FALSE)
      BY DEF Fresh, None
    <3>3. g # f
      BY <1>10, <3>1, <3>2
    <3> QED BY <1>0, <1>10, <3>1, <3>3
  <2> QED BY <2>1, <2>2, <2>3, <2>4
          DEF PostStep, ClaimCall, FindLive, ClaimLive, ClearFormer, CreateForm, SendForm, PointAtForm, Put
<1> QED BY <1>1, <1>3, <1>5, <1>7, <1>8, <1>9, <1>10

\* A follower's step keeps the invariant.
LEMMA PostKeeps ==
    ASSUME AskInv, NEW f \in Followers, PostStep(f)
    PROVE  AskInv'
<1>0. AskTypes /\ ClaimsHeld /\ Unshown /\ PressesReal /\ SubmittedShown /\ FinishedOnce
  BY DEF AskInv
<1>1. /\ UNCHANGED <<pressing, pressed, read, submitted>> /\ overwritten \subseteq overwritten'
      /\ (\A g \in Followers \ {f} : posting'[g] = posting[g] /\ shown'[g] = shown[g])
      /\ (\A g \in Followers : shown[g] > 0 => shown'[g] > 0)
      /\ (\A c \in AskCalls : claim[c] # None => claim'[c] = claim[c])
      /\ Posting(f)' \/ shown'[f] > 0 => claim'[CallOf[f]] = <<f>>
      /\ posting'[f] \in {"idle", "find", "retire", "clear", "create", "send"} => shown'[f] = 0
      /\ \A g \in Followers \ overwritten' : form[g] = None /\ shown[g] > 0 => form'[g] = None
  BY <1>0, PostFacts
<1>2. \A g \in Followers : CallOf[g] \in AskCalls /\ <<g>> # None
  BY AskAssumption DEF None
<1>3. AskTypes'
  BY <1>0, PostTypes
<1>4. ClaimsHeld'
  <2>1. ASSUME NEW g \in Followers, Posting(g)' \/ shown'[g] > 0, g # f PROVE claim'[CallOf[g]] = <<g>>
    <3>1. claim[CallOf[g]] = <<g>>
      BY <1>0, <1>1, <2>1 DEF ClaimsHeld, Posting
    <3> QED BY <1>1, <1>2, <3>1
  <2> QED BY <1>1, <2>1 DEF ClaimsHeld
<1>5. Unshown'
  BY <1>0, <1>1 DEF Unshown
<1>6. PressesReal'
  <2>1. ASSUME NEW k \in Presses, pressing[k] # "idle"
        PROVE  /\ pressed[k] \in Followers \X (1..Questions) /\ shown'[pressed[k][1]] > 0
               /\ pressing[k] = "advance" => read[k] # None /\ Index(read[k]) = pressed[k][2]
               /\ pressing[k] \in {"unpoint", "submit"} => pressed[k][2] = Questions
    <3>1. pressed[k] \in Followers \X (1..Questions) /\ shown[pressed[k][1]] > 0
      BY <1>0, <2>1 DEF PressesReal
    <3>2. shown'[pressed[k][1]] > 0
      BY <1>1, <3>1
    <3> QED BY <1>0, <2>1, <3>1, <3>2 DEF PressesReal, Finished
  <2>2. pressing' = pressing /\ pressed' = pressed /\ read' = read
    BY <1>1
  <2> QED BY <2>1, <2>2 DEF PressesReal, Finished, Index
<1>7. SubmittedShown'
  <2>1. ASSUME NEW c \in AskCalls, submitted[c] > 0
        PROVE  \E g \in Followers : claim'[c] = <<g>> /\ shown'[g] > 0
    <3>1. PICK g \in Followers : claim[c] = <<g>> /\ shown[g] > 0
      BY <1>0, <2>1 DEF SubmittedShown
    <3>2. claim[c] # None
      BY <1>2, <3>1
    <3>3. claim'[c] = <<g>> /\ shown'[g] > 0
      BY <1>1, <3>1, <3>2
    <3> QED BY <3>3
  <2>2. submitted' = submitted
    BY <1>1
  <2> QED BY <2>1, <2>2 DEF SubmittedShown
<1>8. ASSUME NEW g \in Followers, g \notin overwritten', claim'[CallOf[g]] = <<g>>
      PROVE  /\ submitted[CallOf[g]] <= 1
             /\ submitted[CallOf[g]] = 1 => form'[g] = None
             /\ \A k \in Presses : Finishing(k, g) =>
                   /\ submitted[CallOf[g]] = 0 /\ form'[g] = None
                   /\ \A l \in Presses : Finishing(l, g) => l = k
  <2>1. \A k \in Presses : Finishing(k, g) => shown[g] > 0
    BY <1>0 DEF Finishing, PressesReal
  <2>2. CASE claim[CallOf[g]] = None
    <3>1. submitted[CallOf[g]] \in Nat /\ ~(submitted[CallOf[g]] > 0)
      BY <1>0, <1>2, <2>2, AskKinds DEF SubmittedShown
    <3>2. ~(shown[g] > 0)
      BY <1>0, <1>2, <2>2 DEF ClaimsHeld
    <3> QED BY <2>1, <3>1, <3>2
  <2>3. CASE claim[CallOf[g]] # None
    <3>1. claim[CallOf[g]] = <<g>> /\ g \notin overwritten
      BY <1>1, <1>2, <1>8, <2>3
    <3>2. submitted[CallOf[g]] > 0 => shown[g] > 0
      BY <1>0, <1>2, <3>1 DEF SubmittedShown
    <3>3. submitted[CallOf[g]] \in Nat
      BY <1>0, <1>2, AskKinds
    <3> QED BY <1>0, <1>1, <1>8, <2>1, <3>1, <3>2, <3>3 DEF FinishedOnce
  <2> QED BY <2>2, <2>3
<1>9. FinishedOnce'
  BY <1>1, <1>8 DEF FinishedOnce, Finishing
<1> QED BY <1>3, <1>4, <1>5, <1>6, <1>7, <1>9 DEF AskInv

-----------------------------------------------------------------------------
(* What the presses' steps keep *)

\* What a press's step changes for the rest: nothing goes off screen, nothing comes on
\* screen that was not, and a form's state goes only from what the press had read.
LEMMA PressFacts ==
    ASSUME AskTypes, PressesReal, NEW k \in Presses,
           PressStep(k) \/ \E f \in Followers, i \in 1..Questions : Press(k, f, i)
    PROVE  /\ UNCHANGED <<claim, posting, former, overwritten>>
           /\ \A g \in Followers : shown'[g] > 0 <=> shown[g] > 0
           /\ \A g \in Followers : shown[g] = 0 => shown'[g] = 0
           /\ \A l \in Presses \ {k} : pressing'[l] = pressing[l] /\ pressed'[l] = pressed[l] /\ read'[l] = read[l]
           /\ \A g \in Followers : form[g] = None => form'[g] = None
<1>0. /\ form \in [Followers -> States] /\ read \in [Presses -> States]
      /\ shown \in [Followers -> 0..Questions]
      /\ pressed \in [Presses -> {None} \cup (Followers \X (1..Questions))]
      /\ pressing \in [Presses -> PressingPlaces]
  BY AskKinds
<1>1. UNCHANGED <<claim, posting, former, overwritten>>
  BY DEF PressStep, AdvanceForm, ShowNext, Unpoint, SubmitAnswers, Press, postVars
<1>2. /\ \A g \in Followers : shown'[g] > 0 <=> shown[g] > 0
      /\ \A g \in Followers : shown[g] = 0 => shown'[g] = 0
  <2>1. CASE shown' = shown
    BY <2>1
  <2>2. CASE ShowNext(k) /\ shown' # shown
    <3> DEFINE h == pressed[k][1]
               next == pressed[k][2] + 1
    <3>1. pressing[k] = "show" /\ shown' = [shown EXCEPT ![h] = IF next <= Questions /\ @ < next THEN next ELSE @]
      BY <2>2 DEF ShowNext
    <3>2. h \in Followers /\ pressed[k][2] \in 1..Questions /\ shown[h] > 0
      BY <3>1 DEF PressesReal
    <3>3. next \in Nat /\ next > 0
      BY <3>2, AskAssumption
    <3> HIDE DEF next, h
    <3>4. (IF next <= Questions /\ shown[h] < next THEN next ELSE shown[h]) > 0
      BY <3>2, <3>3
    <3>5. shown'[h] > 0 /\ \A g \in Followers \ {h} : shown'[g] = shown[g]
      BY <1>0, <3>1, <3>2, <3>4
    <3>6. shown[h] # 0
      BY <1>0, <3>2
    <3> QED BY <3>2, <3>5, <3>6
  <2> QED BY <2>1, <2>2 DEF PressStep, AdvanceForm, Unpoint, SubmitAnswers, Press
<1>3. \A l \in Presses \ {k} : pressing'[l] = pressing[l] /\ pressed'[l] = pressed[l] /\ read'[l] = read[l]
  <2>1. \E p : pressing' = [pressing EXCEPT ![k] = p]
    BY DEF PressStep, AdvanceForm, ShowNext, Unpoint, SubmitAnswers, Press, PressAt
  <2>2. pressed' = pressed \/ \E p : pressed' = [pressed EXCEPT ![k] = p]
    BY DEF PressStep, AdvanceForm, ShowNext, Unpoint, SubmitAnswers, Press, PressAt
  <2>3. read' = read \/ \E p : read' = [read EXCEPT ![k] = p]
    BY DEF PressStep, AdvanceForm, ShowNext, Unpoint, SubmitAnswers, Press
  <2> QED BY <1>0, <2>1, <2>2, <2>3
<1>4. ASSUME NEW g \in Followers, form[g] = None PROVE form'[g] = None
  <2>1. CASE form' = form
    BY <1>4, <2>1
  <2>2. ASSUME NEW reply \in Replies, AdvanceForm(k, reply), form' # form PROVE form'[g] = None
    <3>1. pressing[k] = "advance" /\ form[pressed[k][1]] = read[k]
      BY <2>2 DEF AdvanceForm, UnchangedSince
    <3>2. pressed[k][1] # g
      BY <1>4, <3>1 DEF PressesReal
    <3>3. \E s : form' = [form EXCEPT ![pressed[k][1]] = s]
      BY <2>2 DEF AdvanceForm, Put
    <3> QED BY <1>0, <1>4, <3>2, <3>3
  <2> QED BY <2>1, <2>2 DEF PressStep, ShowNext, Unpoint, SubmitAnswers, Press
<1> QED BY <1>1, <1>2, <1>3, <1>4

\* Where a press goes: on a form that is on screen, to its end only when its answers
\* are complete and the form is gone.
LEMMA PressGoes ==
    ASSUME AskTypes, PressesReal, NEW k \in Presses,
           PressStep(k) \/ \E f \in Followers, i \in 1..Questions : Press(k, f, i)
    PROVE  \/ /\ pressing'[k] = "idle"
              /\ submitted' = submitted \/ SubmitAnswers(k)
           \/ /\ pressing[k] = "idle" /\ pressing'[k] = "advance" /\ submitted' = submitted
              /\ pressed'[k] \in Followers \X (1..Questions) /\ shown[pressed'[k][1]] > 0
              /\ read'[k] # None /\ Index(read'[k]) = pressed'[k][2]
           \/ /\ pressing[k] = "advance" /\ pressing'[k] = "show" /\ pressed'[k] = pressed[k]
              /\ submitted' = submitted /\ form[pressed[k][1]] # None
              /\ Finished(k) => form'[pressed[k][1]] = None
           \/ /\ pressing[k] \in {"show", "unpoint"} /\ pressing'[k] \in {"unpoint", "submit"}
              /\ pressed'[k] = pressed[k] /\ submitted' = submitted /\ Finished(k)
<1>0. /\ form \in [Followers -> States] /\ read \in [Presses -> States]
      /\ shown \in [Followers -> 0..Questions]
      /\ pressed \in [Presses -> {None} \cup (Followers \X (1..Questions))]
      /\ pressing \in [Presses -> PressingPlaces]
  BY AskKinds
<1>1. ASSUME NEW f \in Followers, NEW i \in 1..Questions, Press(k, f, i)
      PROVE  /\ pressing[k] = "idle" /\ pressing'[k] = "advance" /\ submitted' = submitted
             /\ pressed'[k] \in Followers \X (1..Questions) /\ shown[pressed'[k][1]] > 0
             /\ read'[k] # None /\ Index(read'[k]) = pressed'[k][2]
  <2>1. /\ pressing[k] = "idle" /\ i \in 1..shown[f] /\ form[f] # None /\ Index(form[f]) = i
        /\ pressing' = [pressing EXCEPT ![k] = "advance"] /\ submitted' = submitted
        /\ pressed' = [pressed EXCEPT ![k] = <<f, i>>] /\ read' = [read EXCEPT ![k] = form[f]]
    BY <1>1 DEF Press
  <2>2. pressed'[k] = <<f, i>> /\ read'[k] = form[f] /\ pressing'[k] = "advance"
    BY <1>0, <2>1
  <2>3. shown[f] > 0
    BY <1>0, <2>1
  <2> QED BY <2>1, <2>2, <2>3
<1>2. ASSUME NEW reply \in Replies, AdvanceForm(k, reply)
      PROVE  \/ pressing'[k] = "idle" /\ submitted' = submitted
             \/ /\ pressing[k] = "advance" /\ pressing'[k] = "show" /\ pressed'[k] = pressed[k]
                /\ submitted' = submitted /\ form[pressed[k][1]] # None
                /\ Finished(k) => form'[pressed[k][1]] = None
  <2>1. CASE ~UnchangedSince(k)
    BY <1>0, <1>2, <2>1 DEF AdvanceForm, PressAt
  <2>2. CASE UnchangedSince(k)
    <3>1. /\ pressing[k] = "advance" /\ submitted' = submitted /\ form[pressed[k][1]] = read[k]
          /\ pressing' = [pressing EXCEPT ![k] = "show"] /\ pressed' = pressed
          /\ Finished(k) => form' = [form EXCEPT ![pressed[k][1]] = None]
      BY <1>2, <2>2 DEF AdvanceForm, PressAt, Put, UnchangedSince
    <3>2. read[k] # None /\ pressed[k][1] \in Followers
      BY <3>1 DEF PressesReal
    <3> QED BY <1>0, <3>1, <3>2
  <2> QED BY <2>1, <2>2
<1>3. CASE ShowNext(k)
  <2>1. pressing[k] = "show" /\ submitted' = submitted
        /\ (PressAt(k, "idle") \/ (Finished(k) /\ PressAt(k, "unpoint")))
    BY <1>3 DEF ShowNext
  <2> QED BY <1>0, <2>1 DEF PressAt
<1>4. CASE Unpoint(k)
  <2>1. pressing[k] = "unpoint" /\ submitted' = submitted /\ PressAt(k, "submit") /\ Finished(k)
    BY <1>4 DEF Unpoint, PressesReal
  <2> QED BY <1>0, <2>1 DEF PressAt
<1>5. CASE SubmitAnswers(k)
  BY <1>0, <1>5 DEF SubmitAnswers, PressAt
<1> QED BY <1>1, <1>2, <1>3, <1>4, <1>5 DEF PressStep

\* A press's step keeps the invariant.
LEMMA PressKeeps ==
    ASSUME AskInv, NEW k \in Presses,
           PressStep(k) \/ \E f \in Followers, i \in 1..Questions : Press(k, f, i)
    PROVE  AskInv'
<1>0. AskTypes /\ ClaimsHeld /\ Unshown /\ PressesReal /\ SubmittedShown /\ FinishedOnce
  BY DEF AskInv
<1>1. /\ claim' = claim /\ posting' = posting /\ overwritten' = overwritten
      /\ (\A g \in Followers : shown'[g] > 0 <=> shown[g] > 0)
      /\ (\A g \in Followers : shown[g] = 0 => shown'[g] = 0)
      /\ (\A l \in Presses \ {k} : pressing'[l] = pressing[l] /\ pressed'[l] = pressed[l] /\ read'[l] = read[l])
      /\ (\A g \in Followers : form[g] = None => form'[g] = None)
  BY <1>0, PressFacts
<1>2. \A g \in Followers : CallOf[g] \in AskCalls
  BY AskAssumption
<1>3. AskTypes'
  BY <1>0, PressTypes
<1>4. ClaimsHeld' /\ Unshown'
  BY <1>0, <1>1 DEF ClaimsHeld, Unshown, Posting
<1> DEFINE Submits == SubmitAnswers(k)
           h == pressed[k][1]
<1>5. Submits => /\ pressing[k] = "submit" /\ pressing'[k] = "idle" /\ Finishing(k, h) /\ h \in Followers
                 /\ shown[h] > 0 /\ claim[CallOf[h]] = <<h>> /\ form' = form
                 /\ submitted' = [submitted EXCEPT ![CallOf[h]] = @ + 1]
  <2> SUFFICES ASSUME SubmitAnswers(k)
               PROVE  /\ pressing[k] = "submit" /\ pressing'[k] = "idle" /\ Finishing(k, h) /\ h \in Followers
                      /\ shown[h] > 0 /\ claim[CallOf[h]] = <<h>> /\ form' = form
                      /\ submitted' = [submitted EXCEPT ![CallOf[h]] = @ + 1]
    OBVIOUS
  <2>1. pressing[k] = "submit" /\ form' = form /\ submitted' = [submitted EXCEPT ![CallOf[h]] = @ + 1]
        /\ pressing' = [pressing EXCEPT ![k] = "idle"]
    BY DEF SubmitAnswers, PressAt
  <2>2. pressed[k] \in Followers \X (1..Questions) /\ shown[h] > 0 /\ Finished(k)
    BY <1>0, <2>1 DEF PressesReal
  <2>3. h \in Followers /\ claim[CallOf[h]] = <<h>>
    BY <1>0, <2>2 DEF ClaimsHeld
  <2>4. pressing'[k] = "idle"
    BY <1>0, <2>1, AskKinds
  <2> QED BY <2>1, <2>2, <2>3, <2>4 DEF Finishing, Finished
<1>6. submitted' = submitted \/ Submits
  BY <1>0, PressGoes
<1>7. PressesReal'
  <2> DEFINE Real(l) == pressing'[l] # "idle" =>
                 /\ pressed'[l] \in Followers \X (1..Questions) /\ shown'[pressed'[l][1]] > 0
                 /\ pressing'[l] = "advance" => read'[l] # None /\ Index(read'[l]) = pressed'[l][2]
                 /\ pressing'[l] \in {"unpoint", "submit"} => pressed'[l][2] = Questions
  <2>1. ASSUME NEW l \in Presses \ {k} PROVE Real(l)
    BY <1>0, <1>1, <2>1 DEF PressesReal, Finished
  <2>2. Real(k)
    <3>1. CASE pressing'[k] = "idle"
      BY <3>1
    <3>2. CASE /\ pressing'[k] = "advance"
               /\ pressed'[k] \in Followers \X (1..Questions) /\ shown[pressed'[k][1]] > 0
               /\ read'[k] # None /\ Index(read'[k]) = pressed'[k][2]
      <4>1. shown'[pressed'[k][1]] > 0
        BY <1>1, <3>2
      <4> QED BY <3>2, <4>1
    <3>3. CASE /\ pressing[k] # "idle" /\ pressed'[k] = pressed[k]
               /\ pressing'[k] \in {"show", "unpoint", "submit"}
               /\ pressing'[k] # "show" => Finished(k)
      <4>1. pressed[k] \in Followers \X (1..Questions) /\ shown[pressed[k][1]] > 0
        BY <1>0, <3>3 DEF PressesReal
      <4>2. shown'[pressed[k][1]] > 0
        BY <1>1, <4>1
      <4> QED BY <3>3, <4>1, <4>2 DEF Finished
    <3> HIDE DEF Real
    <3> QED BY <1>0, <3>1, <3>2, <3>3, PressGoes
  <2>3. \A l \in Presses : Real(l)
    BY <2>1, <2>2
  <2> QED BY <2>3 DEF PressesReal, Finished, Index
<1>8. SubmittedShown'
  <2>1. ASSUME NEW c \in AskCalls, submitted'[c] > 0
        PROVE  \E g \in Followers : claim[c] = <<g>> /\ shown[g] > 0
    <3>1. CASE submitted' = submitted
      BY <1>0, <2>1, <3>1 DEF SubmittedShown
    <3>2. CASE Submits
      <4>1. CASE c = CallOf[h]
        BY <1>5, <3>2, <4>1
      <4>2. CASE c # CallOf[h]
        <5>1. submitted'[c] = submitted[c]
          BY <1>0, <1>5, <3>2, <4>2, AskKinds
        <5> QED BY <1>0, <2>1, <5>1 DEF SubmittedShown
      <4> QED BY <4>1, <4>2
    <3> QED BY <1>6, <3>1, <3>2
  <2> QED BY <1>1, <2>1 DEF SubmittedShown
<1>9. FinishedOnce'
  <2> SUFFICES ASSUME NEW g \in Followers, g \notin overwritten, claim[CallOf[g]] = <<g>>
               PROVE  /\ submitted'[CallOf[g]] <= 1
                      /\ submitted'[CallOf[g]] = 1 => form'[g] = None
                      /\ \A l \in Presses : Finishing(l, g)' =>
                            /\ submitted'[CallOf[g]] = 0 /\ form'[g] = None
                            /\ \A m \in Presses : Finishing(m, g)' => m = l
    BY <1>1 DEF FinishedOnce
  <2>1. /\ submitted[CallOf[g]] \in Nat /\ submitted[CallOf[g]] <= 1
        /\ submitted[CallOf[g]] = 1 => form[g] = None
        /\ \A l \in Presses : Finishing(l, g) =>
              /\ submitted[CallOf[g]] = 0 /\ form[g] = None
              /\ \A m \in Presses : Finishing(m, g) => m = l
    BY <1>0, <1>2, AskKinds DEF FinishedOnce
  <2>2. \A l \in Presses \ {k} : Finishing(l, g)' <=> Finishing(l, g)
    BY <1>1 DEF Finishing
  <2>3. CASE Submits
    <3>1. ~Finishing(k, g)'
      BY <1>5, <2>3 DEF Finishing
    <3>2. CASE g = h
      <4>1. submitted[CallOf[g]] = 0 /\ form[g] = None /\ \A m \in Presses : Finishing(m, g) => m = k
        BY <1>5, <2>1, <2>3, <3>2
      <4>2. submitted'[CallOf[g]] = 1
        BY <1>0, <1>2, <1>5, <2>3, <3>2, <4>1, AskKinds
      <4>3. \A m \in Presses : ~Finishing(m, g)'
        BY <2>2, <3>1, <4>1
      <4> QED BY <1>1, <4>1, <4>2, <4>3
    <3>3. CASE g # h
      <4>1. CallOf[g] # CallOf[h]
        BY <1>5, <2>3, <3>3
      <4>2. submitted'[CallOf[g]] = submitted[CallOf[g]]
        BY <1>0, <1>2, <1>5, <2>3, <4>1, AskKinds
      <4> QED BY <1>1, <2>1, <2>2, <3>1, <4>2
    <3> QED BY <3>2, <3>3
  <2>4. CASE submitted' = submitted /\ (Finishing(k, g)' => Finishing(k, g))
    BY <1>1, <2>1, <2>2, <2>4
  <2>5. CASE /\ submitted' = submitted /\ Finishing(k, g)' /\ pressing[k] = "advance" /\ pressed'[k] = pressed[k]
             /\ form[h] # None /\ (Finished(k) => form'[h] = None)
    <3>1. g = h /\ Finished(k)
      BY <2>5 DEF Finishing, Finished
    <3>2. \A m \in Presses : ~Finishing(m, g)
      BY <2>1, <2>5, <3>1
    <3>3. submitted[CallOf[g]] = 0
      BY <2>1, <2>5, <3>1
    <3> QED BY <2>2, <2>5, <3>1, <3>2, <3>3
  <2>6. \/ Submits
        \/ submitted' = submitted /\ (Finishing(k, g)' => Finishing(k, g))
        \/ /\ submitted' = submitted /\ Finishing(k, g)' /\ pressing[k] = "advance" /\ pressed'[k] = pressed[k]
           /\ form[h] # None /\ (Finished(k) => form'[h] = None)
    BY <1>0, PressGoes DEF Finishing
  <2> QED BY <2>3, <2>4, <2>5, <2>6
<1> QED BY <1>3, <1>4, <1>7, <1>8, <1>9 DEF AskInv

\* So does a restart, which forgets every press under way.
LEMMA ForgetKeeps == AskInv /\ ForgetAll => AskInv'
<1> SUFFICES ASSUME AskInv, ForgetAll PROVE AskInv'
  OBVIOUS
<1>0. AskTypes /\ ClaimsHeld /\ Unshown /\ PressesReal /\ SubmittedShown /\ FinishedOnce
  BY DEF AskInv
<1>1. /\ posting' = [f \in Followers |-> IF posting[f] = "idle" THEN "idle" ELSE "done"]
      /\ pressing' = [k \in Presses |-> "idle"]
      /\ read' = [k \in Presses |-> None] /\ pressed' = [k \in Presses |-> None]
      /\ former' = [f \in Followers |-> None]
      /\ claim' = claim /\ live' = live /\ form' = form /\ shown' = shown /\ refusals' = refusals
      /\ submitted' = submitted /\ overwritten' = overwritten
  BY DEF ForgetAll
<1>2. \A f \in Followers : posting'[f] = (IF posting[f] = "idle" THEN "idle" ELSE "done")
  BY <1>1
<1>3. \A k \in Presses : pressing'[k] = "idle"
  BY <1>1
<1>4. AskTypes'
  <2>1. posting' \in [Followers -> PostingPlaces] /\ pressing' \in [Presses -> PressingPlaces]
    BY <1>1 DEF PostingPlaces, PressingPlaces
  <2>2. former' \in [Followers -> MaybeForm] /\ read' \in [Presses -> States]
    BY <1>1, FreshIsState DEF MaybeForm
  <2>3. pressed' \in [Presses -> {None} \cup (Followers \X (1..Questions))]
    BY <1>1
  <2> QED BY <1>0, <1>1, <2>1, <2>2, <2>3, AskKinds DEF AskTypes, AskTypeOK
<1>5. ClaimsHeld' /\ Unshown' /\ PressesReal' /\ SubmittedShown'
  BY <1>0, <1>1, <1>2, <1>3 DEF ClaimsHeld, Unshown, PressesReal, SubmittedShown, Posting
<1>6. FinishedOnce'
  BY <1>0, <1>1, <1>3 DEF FinishedOnce, Finishing
<1> QED BY <1>4, <1>5, <1>6 DEF AskInv

\* The invariant holds at the start.
LEMMA AskStart == AskInit => AskInv
<1> SUFFICES ASSUME AskInit PROVE AskInv
  OBVIOUS
<1>1. /\ claim = [c \in AskCalls |-> None] /\ live = None
      /\ form = [f \in Followers |-> None] /\ shown = [f \in Followers |-> 0]
      /\ posting = [f \in Followers |-> "idle"] /\ former = [f \in Followers |-> None]
      /\ pressing = [k \in Presses |-> "idle"] /\ pressed = [k \in Presses |-> None]
      /\ read = [k \in Presses |-> None]
      /\ refusals = 0 /\ submitted = [c \in AskCalls |-> 0] /\ overwritten = {}
  BY DEF AskInit
<1>2. \A f \in Followers : /\ form[f] = None /\ shown[f] = 0 /\ posting[f] = "idle"
                           /\ CallOf[f] \in AskCalls /\ claim[CallOf[f]] = None
                           /\ submitted[CallOf[f]] = 0 /\ <<f>> # None
  BY <1>1, AskAssumption DEF None
<1>3. AskTypes
  <2>1. posting \in [Followers -> PostingPlaces] /\ pressing \in [Presses -> PressingPlaces]
    BY <1>1 DEF PostingPlaces, PressingPlaces
  <2>2. None \in MaybeForm /\ None \in States
    BY FreshIsState DEF MaybeForm
  <2>3. claim \in [AskCalls -> MaybeForm] /\ live \in MaybeForm /\ former \in [Followers -> MaybeForm]
        /\ form \in [Followers -> States] /\ read \in [Presses -> States]
    BY <1>1, <2>2
  <2>4. shown \in [Followers -> 0..Questions] /\ refusals \in 0..MaxRefusals /\ submitted \in [AskCalls -> Nat]
    BY <1>1, AskAssumption
  <2>5. pressed \in [Presses -> {None} \cup (Followers \X (1..Questions))] /\ overwritten \subseteq Followers
    BY <1>1
  <2> QED BY <2>1, <2>3, <2>4, <2>5, AskKinds
<1>4. ClaimsHeld /\ Unshown
  BY <1>2 DEF ClaimsHeld, Unshown, Posting
<1>5. \A k \in Presses : pressing[k] = "idle"
  BY <1>1
<1>6. PressesReal
  BY <1>5 DEF PressesReal
<1>7. SubmittedShown
  <2>1. \A c \in AskCalls : submitted[c] = 0
    BY <1>1
  <2> QED BY <2>1 DEF SubmittedShown
<1>8. FinishedOnce
  <2>1. \A f \in Followers : claim[CallOf[f]] # <<f>>
    BY <1>2
  <2> QED BY <2>1 DEF FinishedOnce
<1> QED BY <1>3, <1>4, <1>6, <1>7, <1>8 DEF AskInv

\* A step that is not the forms' keeps it.
LEMMA AskStill == AskInv /\ UNCHANGED askVars => AskInv'
<1> SUFFICES ASSUME AskInv, UNCHANGED askVars PROVE AskInv'
  OBVIOUS
<1>0. AskTypes /\ ClaimsHeld /\ Unshown /\ PressesReal /\ SubmittedShown /\ FinishedOnce
  BY DEF AskInv
<1>1. /\ claim' = claim /\ live' = live /\ posting' = posting /\ former' = former
      /\ pressing' = pressing /\ pressed' = pressed /\ read' = read
      /\ form' = form /\ shown' = shown /\ refusals' = refusals
      /\ submitted' = submitted /\ overwritten' = overwritten
  BY DEF askVars, postVars, pressVars
<1>2. AskTypes'
  BY <1>0, <1>1 DEF AskTypes, AskTypeOK
<1>3. ClaimsHeld' /\ Unshown'
  BY <1>0, <1>1 DEF ClaimsHeld, Unshown, Posting
<1>4. PressesReal'
  BY <1>0, <1>1 DEF PressesReal, Finished
<1>5. SubmittedShown'
  BY <1>0, <1>1 DEF SubmittedShown
<1>6. FinishedOnce'
  BY <1>0, <1>1 DEF FinishedOnce, Finishing
<1> QED BY <1>2, <1>3, <1>4, <1>5, <1>6 DEF AskInv

\* The services' steps, seen from the forms.
LEMMA AskKept == AskInv /\ [ServicesNext]_serviceVars => AskInv'
<1>1. AskInv /\ AskNext => AskInv'
  BY PostKeeps, PressKeeps, ForgetKeeps DEF AskNext
<1> QED BY <1>1, AskStill DEF ServicesNext, serviceVars

\* However many followers read an ask_user call, and however they race, its questions are
\* on screen once: the claim of the call is taken by a compare-and-swap and never given
\* back.
THEOREM OneFormIsShown == ServicesSpec => []OneFormPerCall
<1>1. ServicesInit => AskInv
  BY AskStart DEF ServicesInit
<1>2. AskInv => OneFormPerCall
  <2> SUFFICES ASSUME AskInv, NEW f \in Followers, NEW g \in Followers, shown[f] > 0, shown[g] > 0,
                      CallOf[f] = CallOf[g]
               PROVE  f = g
    BY DEF OneFormPerCall
  <2>1. <<f>> = <<g>>
    BY DEF AskInv, ClaimsHeld
  <2> QED BY <2>1
<1> QED BY <1>1, <1>2, AskKept, PTL DEF ServicesSpec

\* The answers to one set of questions become a message once, whatever presses race and
\* whatever restarts and refusals come between, unless the put of the message's id
\* erased answers already given.
THEOREM FormsAnsweredOnce == ServicesSpec => []AnsweredOnce
<1>1. ServicesInit => AskInv
  BY AskStart DEF ServicesInit
<1>2. AskInv => AnsweredOnce
  BY DEF AskInv, FinishedOnce, AnsweredOnce
<1> QED BY <1>1, <1>2, AskKept, PTL DEF ServicesSpec

-----------------------------------------------------------------------------
(* The services together *)

\* Seen from the build pipeline the services are the build pipeline and steps that
\* leave it alone, so that its theorems hold of them.
THEOREM PipelineAmongServices == ServicesSpec => PipelineSpec
<1>1. ServicesInit => PipelineInit
  BY DEF ServicesInit
<1>2. [ServicesNext]_serviceVars => [PipelineNext]_pipelineVars
  BY DEF ServicesNext, serviceVars
<1> QED BY <1>1, <1>2, PTL DEF ServicesSpec, PipelineSpec

\* Every variable of the three services has its type.
THEOREM ServicesTyped == ServicesSpec => []ServicesTypeOK
<1>1. ServicesInit => AskInv
  BY AskStart DEF ServicesInit
<1>2. AskInv => AskTypeOK
  BY DEF AskInv, AskTypes
<1>3. PipelineTypeOK /\ TrunkTypeOK /\ AskTypeOK => ServicesTypeOK
  BY DEF ServicesTypeOK
<1>4. ServicesSpec => []AskTypeOK
  BY <1>1, <1>2, AskKept, PTL DEF ServicesSpec
<1> QED BY <1>3, <1>4, TrunkTypes, PipelineAmongServices, PipelineTyped, PTL
=============================================================================
