-------------------------- MODULE TurnRecoveryProofs --------------------------
(* Proofs about TurnRecovery, for any set of calls, any limit on resumes and  *)
(* any number of messages, deaths and restarts. What relies on a worker not   *)
(* coming up in the middle of a reconciliation says so: ~SlowScan.            *)
EXTENDS TurnRecovery, FiniteSetTheorems, WellFoundedInduction, TLAPS

Events == [ev: Kinds, calls: SUBSET Calls, cost: Nat]

-----------------------------------------------------------------------------
(* The invariant *)

\* A turn cut short is in somebody's hands, unless the last to hold it failed, and a
\* conversation the supervisor left down has no turn to cut short.
HandedOn ==
    /\ worker = "down" /\ Interrupted(log, FALSE) =>
           sweeps > 0 \/ scan # "idle" \/ wake > 0 \/ lost = TRUE
    /\ fast = 2 => worker = "down" /\ ~Interrupted(log, FALSE)

\* A reconciliation has the log to itself.
ScanAlone == scan # "idle" => worker = "down"

\* Whoever is about to write a terminator has a start to close.
TurnOpen ==
    worker \in {"turn", "faulted"} \/ scan # "idle" =>
        LastOf(log, {"started"}) > LastOf(log, {"finished"})

\* The turn bills from the last terminator.
AnchorSettled ==
    worker \in {"anchored", "turn", "faulted"} => anchor = LastOf(log, {"finished"})

\* What a reconciliation still has to answer is what the log leaves unanswered.
OwedIsUnanswered ==
    /\ scan # "idle" => owed = Unanswered(log)
    /\ scan \notin {"idle", "answer"} => owed = {}

\* The turn, or its repair, wrote something after this point.
Work == {"said", "result"}
Wrote(l, n) == \E i \in DOMAIN l : i > n /\ l[i].ev \in Work

\* How the attempts on record bound the fruitless resumes: whoever counts fruitless
\* resumes has answered every call, and only the answers of one repair, written
\* after the log was read, pass for progress later.
Tried ==
    /\ fruitless > 0 => mark # 0 /\ Unanswered(log) = {}
    /\ scan # "idle" => snap # 0
    /\ scan # "idle" /\ Wrote(log, snap) => fruitless = 0
    /\ Wrote(log, mark) => fruitless <= 1
    /\ fruitless <= attempts + 1
    /\ worker \in {"settle", "halt"} => fruitless = 0

RecoveryInv ==
    /\ TypeOK /\ ScanAlone /\ TurnOpen /\ AnchorSettled /\ OneTerminator /\ LedgerExact
    /\ OwedIsUnanswered /\ Tried

-----------------------------------------------------------------------------
(* The log *)

\* A set of numbers that is not empty has a smallest.
LEMMA HasSmallest ==
    ASSUME NEW T, T \subseteq Nat, T # {}
    PROVE  \E i \in T : \A j \in T : i <= j
<1> DEFINE R == OpToRel(<, Nat)
<1>1. IsWellFoundedOn(R, Nat)
  BY NatLessThanWellFounded
<1>2. \A x, y \in Nat : <<y, x>> \in R <=> y < x
  BY DEF OpToRel
<1> HIDE DEF R
<1>3. PICK x \in T : \A y \in T : ~(<<y, x>> \in R)
  BY <1>1, WFMin
<1>4. ASSUME NEW y \in T PROVE x <= y
  <2>1. x \in Nat /\ y \in Nat
    OBVIOUS
  <2>2. ~(y < x)
    BY <1>2, <1>3, <2>1
  <2> QED BY <2>1, <2>2
<1> QED BY <1>4

\* And one that is bounded has a largest.
LEMMA HasLargest ==
    ASSUME NEW n \in Nat, NEW T, T \subseteq 0..n, T # {}
    PROVE  \E i \in T : \A j \in T : j <= i
<1> DEFINE U == {n - i : i \in T}
<1>1. U \subseteq Nat /\ U # {}
  <2>1. \A i \in T : n - i \in Nat
    OBVIOUS
  <2>2. PICK i \in T : TRUE
    OBVIOUS
  <2>3. n - i \in U
    BY <2>2
  <2> QED BY <2>1, <2>3
<1> HIDE DEF U
<1>2. PICK x \in U : \A y \in U : x <= y
  BY <1>1, HasSmallest
<1>3. PICK i \in T : x = n - i
  BY DEF U
<1>4. ASSUME NEW j \in T PROVE j <= i
  <2>1. n - j \in U
    BY DEF U
  <2> QED BY <1>2, <1>3, <2>1
<1> QED BY <1>4

\* The last event of some kinds is one of them, and none comes later.
LEMMA LastOfIs ==
    ASSUME NEW l \in Seq(Events), NEW kinds
    PROVE  /\ LastOf(l, kinds) \in 0..Len(l)
           /\ LastOf(l, kinds) # 0 => l[LastOf(l, kinds)].ev \in kinds
           /\ \A i \in 1..Len(l) : l[i].ev \in kinds => i <= LastOf(l, kinds)
<1> DEFINE T == {0} \cup {i \in DOMAIN l : l[i].ev \in kinds}
<1>1. T \subseteq 0..Len(l) /\ T # {} /\ Len(l) \in Nat /\ DOMAIN l = 1..Len(l)
  OBVIOUS
<1>2. LastOf(l, kinds) = Max(T)
  BY DEF LastOf
<1>3. \A i \in T : i = 0 \/ (i \in 1..Len(l) /\ l[i].ev \in kinds)
  OBVIOUS
<1>4. \A i \in 1..Len(l) : l[i].ev \in kinds => i \in T
  OBVIOUS
<1> HIDE DEF T
<1>5. \E i \in T : \A j \in T : j <= i
  BY <1>1, HasLargest
<1>6. \E i \in T : \A j \in T : i >= j
  BY <1>1, <1>5
<1>7. Max(T) \in T /\ \A j \in T : Max(T) >= j
  BY <1>6 DEF Max
<1> QED BY <1>1, <1>2, <1>3, <1>4, <1>7

\* And it is the only one so.
LEMMA LastOfOnly ==
    ASSUME NEW l \in Seq(Events), NEW kinds, NEW k \in 0..Len(l),
           k # 0 => l[k].ev \in kinds, \A i \in 1..Len(l) : l[i].ev \in kinds => i <= k
    PROVE  LastOf(l, kinds) = k
<1> DEFINE m == LastOf(l, kinds)
<1>1. /\ m \in 0..Len(l) /\ Len(l) \in Nat
      /\ m # 0 => l[m].ev \in kinds
      /\ \A i \in 1..Len(l) : l[i].ev \in kinds => i <= m
  BY LastOfIs
<1> HIDE DEF m
<1>2. m <= k /\ k <= m
  BY <1>1
<1> QED BY <1>1, <1>2 DEF m

\* What one more event does to the last.
LEMMA LastOfAppend ==
    ASSUME NEW l \in Seq(Events), NEW e \in Events, NEW kinds
    PROVE  LastOf(Append(l, e), kinds) =
               IF e.ev \in kinds THEN Len(l) + 1 ELSE LastOf(l, kinds)
<1> DEFINE m == LastOf(l, kinds)
           a == Append(l, e)
<1>1. /\ m \in 0..Len(l) /\ Len(l) \in Nat
      /\ m # 0 => l[m].ev \in kinds
      /\ \A i \in 1..Len(l) : l[i].ev \in kinds => i <= m
  BY LastOfIs
<1>2. /\ a \in Seq(Events) /\ Len(a) = Len(l) + 1 /\ a[Len(l) + 1] = e
      /\ \A i \in 1..Len(l) : a[i] = l[i]
  OBVIOUS
<1> HIDE DEF m, a
<1>3. CASE e.ev \in kinds
  <2>1. LastOf(a, kinds) = Len(l) + 1
    BY <1>1, <1>2, <1>3, LastOfOnly
  <2> QED BY <1>3, <2>1 DEF a
<1>4. CASE e.ev \notin kinds
  <2>1. \A i \in 1..Len(a) : a[i].ev \in kinds => i <= m
    BY <1>1, <1>2, <1>4
  <2>2. m \in 0..Len(a) /\ (m # 0 => a[m].ev \in kinds)
    BY <1>1, <1>2
  <2>3. LastOf(a, kinds) = m
    BY <1>2, <2>1, <2>2, LastOfOnly
  <2> QED BY <1>4, <2>3 DEF a, m
<1> QED BY <1>3, <1>4

\* Only a start opens a turn, only a terminator or, unless it was expected, an
\* incident ends it.
LEMMA InterruptedAppend ==
    ASSUME NEW l \in Seq(Events), NEW e \in Events, NEW exp \in BOOLEAN
    PROVE  Interrupted(Append(l, e), exp) <=>
               \/ e.ev = "started"
               \/ e.ev \notin Markers(exp) /\ Interrupted(l, exp)
<1> DEFINE m == LastOf(l, Markers(exp))
           a == Append(l, e)
           n == LastOf(a, Markers(exp))
<1>1. m \in 0..Len(l) /\ Len(l) \in Nat
  BY LastOfIs
<1>2. n = IF e.ev \in Markers(exp) THEN Len(l) + 1 ELSE m
  BY LastOfAppend
<1>3. a[Len(l) + 1] = e /\ \A i \in 1..Len(l) : a[i] = l[i]
  OBVIOUS
<1>4. Interrupted(l, exp) <=> m # 0 /\ l[m].ev = "started"
  BY DEF Interrupted
<1>5. Interrupted(a, exp) <=> n # 0 /\ a[n].ev = "started"
  BY DEF Interrupted
<1>6. "started" \in Markers(exp)
  BY DEF Markers
<1> HIDE DEF m, a, n
<1>7. Interrupted(a, exp) <=> e.ev = "started" \/ (e.ev \notin Markers(exp) /\ Interrupted(l, exp))
  <2>1. CASE e.ev \in Markers(exp)
    BY <1>1, <1>2, <1>3, <1>5, <2>1
  <2>2. CASE e.ev \notin Markers(exp)
    <3>1. n = m /\ e.ev # "started"
      BY <1>2, <1>6, <2>2
    <3>2. m # 0 => a[m] = l[m]
      BY <1>1, <1>3
    <3> QED BY <1>4, <1>5, <2>2, <3>1, <3>2
  <2> QED BY <2>1, <2>2
<1> QED BY <1>7 DEF a

\* A turn interrupted by surprise is interrupted, and its start follows every end.
LEMMA InterruptedOpen ==
    ASSUME NEW l \in Seq(Events), NEW exp \in BOOLEAN, Interrupted(l, exp)
    PROVE  /\ LastOf(l, {"started"}) > LastOf(l, {"finished"})
           /\ Interrupted(l, TRUE) /\ Len(l) # 0
<1> DEFINE m == LastOf(l, Markers(exp))
           s == LastOf(l, {"started"})
           f == LastOf(l, {"finished"})
           t == LastOf(l, Markers(TRUE))
<1>1. /\ m \in 0..Len(l) /\ Len(l) \in Nat
      /\ \A i \in 1..Len(l) : l[i].ev \in Markers(exp) => i <= m
  BY LastOfIs
<1>2. m # 0 /\ l[m].ev = "started"
  BY DEF Interrupted
<1>3. s \in 0..Len(l) /\ \A i \in 1..Len(l) : l[i].ev \in {"started"} => i <= s
  BY LastOfIs
<1>4. f \in 0..Len(l) /\ (f # 0 => l[f].ev \in {"finished"})
  BY LastOfIs
<1>5. /\ "started" \in Markers(exp) /\ "finished" \in Markers(exp)
      /\ Markers(TRUE) \subseteq Markers(exp) /\ "started" \in Markers(TRUE)
  BY DEF Markers
<1>6. Interrupted(l, TRUE) <=> t # 0 /\ l[t].ev = "started"
  BY DEF Interrupted
<1>7. t = m
  <2>1. \A i \in 1..Len(l) : l[i].ev \in Markers(TRUE) => i <= m
    BY <1>1, <1>5
  <2>2. l[m].ev \in Markers(TRUE)
    BY <1>2, <1>5
  <2> HIDE DEF m
  <2> QED BY <1>1, <2>1, <2>2, LastOfOnly
<1> HIDE DEF m, s, f, t
<1>8. m <= s /\ f <= m /\ f # m
  BY <1>1, <1>2, <1>3, <1>4, <1>5
<1>9. s > f /\ Len(l) # 0
  BY <1>1, <1>2, <1>3, <1>4, <1>8
<1> QED BY <1>2, <1>6, <1>7, <1>9 DEF s, f

\* A call is unanswered when the last reply asked for it and no result followed.
LEMMA UnansweredIs ==
    ASSUME NEW l \in Seq(Events), NEW c
    PROVE  c \in Unanswered(l) <=>
               /\ LastOf(l, {"said"}) # 0
               /\ c \in l[LastOf(l, {"said"})].calls
               /\ \A i \in (LastOf(l, {"said"}) + 1)..Len(l) :
                      l[i].ev = "result" => c \notin l[i].calls
BY DEF Unanswered

\* Unanswered calls are calls.
LEMMA UnansweredType ==
    ASSUME NEW l \in Seq(Events)
    PROVE  Unanswered(l) \subseteq Calls
<1> DEFINE k == LastOf(l, {"said"})
<1>1. k \in 0..Len(l) /\ Len(l) \in Nat
  BY LastOfIs
<1>2. ASSUME NEW c \in Unanswered(l) PROVE c \in Calls
  <2>1. k # 0 /\ c \in l[k].calls
    BY UnansweredIs
  <2>2. l[k] \in Events
    BY <1>1, <2>1
  <2> QED BY <2>1, <2>2 DEF Events
<1> QED BY <1>2

\* A reply opens its calls, a result answers one, nothing else counts.
LEMMA UnansweredAppend ==
    ASSUME NEW l \in Seq(Events), NEW e \in Events
    PROVE  Unanswered(Append(l, e)) =
               IF e.ev = "said" THEN e.calls
               ELSE IF e.ev = "result" THEN Unanswered(l) \ e.calls ELSE Unanswered(l)
<1> DEFINE k == LastOf(l, {"said"})
           a == Append(l, e)
           m == LastOf(a, {"said"})
<1>1. k \in 0..Len(l) /\ Len(l) \in Nat
  BY LastOfIs
<1>2. m = IF e.ev = "said" THEN Len(l) + 1 ELSE k
  <2>1. m = IF e.ev \in {"said"} THEN Len(l) + 1 ELSE k
    BY LastOfAppend
  <2> QED BY <2>1
<1>3. /\ a \in Seq(Events) /\ Len(a) = Len(l) + 1 /\ a[Len(l) + 1] = e
      /\ \A i \in 1..Len(l) : a[i] = l[i]
  OBVIOUS
<1>4. \A c : c \in Unanswered(l) <=>
          /\ k # 0 /\ c \in l[k].calls
          /\ \A i \in (k + 1)..Len(l) : l[i].ev = "result" => c \notin l[i].calls
  BY UnansweredIs
<1> HIDE DEF a
<1>5. \A c : c \in Unanswered(a) <=>
          /\ m # 0 /\ c \in a[m].calls
          /\ \A i \in (m + 1)..Len(a) : a[i].ev = "result" => c \notin a[i].calls
  BY <1>3, UnansweredIs
<1> HIDE DEF k, m
<1>6. CASE e.ev = "said"
  <2>1. \A c : c \in Unanswered(a) <=> c \in e.calls
    BY <1>1, <1>2, <1>3, <1>5, <1>6
  <2> QED BY <1>6, <2>1 DEF a
<1>7. CASE e.ev # "said"
  <2>1. m = k
    BY <1>2, <1>7
  <2>2. k # 0 => a[k] = l[k]
    BY <1>1, <1>3
  <2>3. ASSUME NEW c
        PROVE  c \in Unanswered(a) <=> c \in Unanswered(l) /\ ~(e.ev = "result" /\ c \in e.calls)
    <3>1. (\A i \in (k + 1)..Len(a) : a[i].ev = "result" => c \notin a[i].calls) <=>
              /\ \A i \in (k + 1)..Len(l) : l[i].ev = "result" => c \notin l[i].calls
              /\ ~(e.ev = "result" /\ c \in e.calls)
      <4>1. \A i \in (k + 1)..Len(a) : i \in (k + 1)..Len(l) \/ i = Len(l) + 1
        BY <1>1, <1>3
      <4>2. \A i \in (k + 1)..Len(l) : i \in (k + 1)..Len(a) /\ a[i] = l[i]
        BY <1>1, <1>3
      <4>3. Len(l) + 1 \in (k + 1)..Len(a)
        BY <1>1, <1>3
      <4> QED BY <1>3, <4>1, <4>2, <4>3
    <3> QED BY <1>4, <1>5, <2>1, <2>2, <3>1
  <2> QED BY <1>7, <2>3 DEF a
<1> QED BY <1>6, <1>7

-----------------------------------------------------------------------------
(* What was spent *)

Steps(l, since) == {i \in DOMAIN l : i > since /\ l[i].ev = "said"}

\* What was spent is a number.
LEMMA SpendType ==
    ASSUME NEW l \in Seq(Events), NEW n \in Nat
    PROVE  IsFiniteSet(Steps(l, n)) /\ Spend(l, n) \in Nat /\ Spend(l, n) = Cardinality(Steps(l, n))
<1>1. IsFiniteSet(1..Len(l))
  BY FS_Interval
<1>2. Steps(l, n) \in SUBSET (1..Len(l))
  BY DEF Steps
<1>3. IsFiniteSet(Steps(l, n))
  BY <1>1, <1>2, FS_Subset
<1>4. Spend(l, n) = Cardinality(Steps(l, n))
  BY DEF Spend, Steps
<1> QED BY <1>3, <1>4, FS_CardinalityType

\* Every reply costs one more, nothing else costs anything.
LEMMA SpendAppend ==
    ASSUME NEW l \in Seq(Events), NEW e \in Events, NEW n \in 0..Len(l)
    PROVE  Spend(Append(l, e), n) = IF e.ev = "said" THEN Spend(l, n) + 1 ELSE Spend(l, n)
<1> DEFINE a == Append(l, e)
<1>0. n \in Nat /\ Len(l) \in Nat
  OBVIOUS
<1>1. /\ a \in Seq(Events) /\ DOMAIN a = 1..(Len(l) + 1) /\ a[Len(l) + 1] = e
      /\ DOMAIN l = 1..Len(l) /\ \A i \in 1..Len(l) : a[i] = l[i]
  OBVIOUS
<1> HIDE DEF a
<1>2. /\ IsFiniteSet(Steps(l, n)) /\ Spend(l, n) = Cardinality(Steps(l, n))
      /\ Spend(a, n) = Cardinality(Steps(a, n))
  BY <1>0, <1>1, SpendType
<1>3. Len(l) + 1 \notin Steps(l, n)
  BY <1>0, <1>1 DEF Steps
<1>4. CASE e.ev = "said"
  <2>1. Steps(a, n) = Steps(l, n) \cup {Len(l) + 1}
    BY <1>0, <1>1, <1>4 DEF Steps
  <2>2. Cardinality(Steps(a, n)) = Cardinality(Steps(l, n)) + 1
    BY <1>2, <1>3, <2>1, FS_AddElement
  <2> QED BY <1>2, <1>4, <2>2 DEF a
<1>5. CASE e.ev # "said"
  <2>1. Steps(a, n) = Steps(l, n)
    BY <1>0, <1>1, <1>5 DEF Steps
  <2> QED BY <1>2, <1>5, <2>1 DEF a
<1> QED BY <1>4, <1>5

\* Nothing was spent after the end.
LEMMA SpendAtEnd ==
    ASSUME NEW l \in Seq(Events)
    PROVE  Spend(l, Len(l)) = 0
<1>1. Steps(l, Len(l)) = {}
  BY DEF Steps
<1>2. Spend(l, Len(l)) = Cardinality(Steps(l, Len(l)))
  BY SpendType
<1> QED BY <1>1, <1>2, FS_EmptySet

\* What a log owes after one more event.
LEMMA OwingAppend ==
    ASSUME NEW l \in Seq(Events), NEW e \in Events
    PROVE  /\ Owing(l) \in Nat
           /\ Owing(Append(l, e)) =
                  IF e.ev = "finished" THEN 0
                  ELSE IF e.ev = "said" THEN Owing(l) + 1 ELSE Owing(l)
<1> DEFINE f == LastOf(l, {"finished"})
           a == Append(l, e)
           g == LastOf(a, {"finished"})
<1>1. f \in 0..Len(l) /\ f \in Nat
  <2>1. f \in 0..Len(l)
    BY LastOfIs
  <2> QED BY <2>1
<1>2. g = IF e.ev = "finished" THEN Len(l) + 1 ELSE f
  <2>1. g = IF e.ev \in {"finished"} THEN Len(l) + 1 ELSE f
    BY LastOfAppend
  <2> QED BY <2>1
<1>3. Owing(l) = Spend(l, f) /\ Owing(a) = Spend(a, g)
  BY DEF Owing
<1>4. a \in Seq(Events) /\ Len(a) = Len(l) + 1
  OBVIOUS
<1> HIDE DEF f, g
<1>5. Spend(a, f) = IF e.ev = "said" THEN Spend(l, f) + 1 ELSE Spend(l, f)
  BY <1>1, SpendAppend
<1> HIDE DEF a
<1>6. Spend(a, Len(l) + 1) = 0
  BY <1>4, SpendAtEnd
<1>7. Spend(l, f) \in Nat
  BY <1>1, SpendType
<1> QED BY <1>2, <1>3, <1>5, <1>6, <1>7 DEF a

\* f adds up the costs of the first n events.
AddsUp(f, l, n) ==
    /\ f \in [0..n -> Nat] /\ f[0] = 0
    /\ \A i \in 1..n : f[i] = f[i - 1] + l[i].cost
Totals(l) == CHOOSE f : f = [i \in 0..Len(l) |-> IF i = 0 THEN 0 ELSE f[i - 1] + l[i].cost]

\* The costs of every log can be added up.
LEMMA SumExists ==
    ASSUME NEW l \in Seq(Events), NEW n \in 0..Len(l)
    PROVE  \E f : AddsUp(f, l, n)
<1> DEFINE Bad == {k \in 0..Len(l) : ~\E f : AddsUp(f, l, k)}
<1> SUFFICES ASSUME Bad # {} PROVE FALSE
  OBVIOUS
<1>1. Len(l) \in Nat /\ Bad \subseteq Nat
  OBVIOUS
<1>2. PICK m \in Bad : \A k \in Bad : m <= k
  <2> HIDE DEF Bad
  <2> QED BY <1>1, HasSmallest
<1>3. AddsUp([i \in 0..0 |-> 0], l, 0)
  BY DEF AddsUp
<1>4. m \in 1..Len(l) /\ ~\E f : AddsUp(f, l, m)
  BY <1>1, <1>2, <1>3
<1>5. m - 1 \in 0..Len(l) /\ m - 1 \notin Bad
  BY <1>1, <1>2, <1>4
<1>6. PICK f : AddsUp(f, l, m - 1)
  BY <1>5
<1>7. l[m].cost \in Nat
  <2>1. l[m] \in Events
    BY <1>4
  <2> QED BY <2>1 DEF Events
<1> DEFINE g == [i \in 0..m |-> IF i = m THEN f[m - 1] + l[m].cost ELSE f[i]]
<1>8. f[m - 1] \in Nat /\ \A i \in 0..(m - 1) : f[i] \in Nat
  BY <1>4, <1>6 DEF AddsUp
<1>9. g \in [0..m -> Nat] /\ g[0] = 0
  <2>1. \A i \in 0..m : g[i] \in Nat
    BY <1>4, <1>7, <1>8
  <2>2. f[0] = 0
    BY <1>6 DEF AddsUp
  <2> QED BY <1>4, <2>1, <2>2
<1>10. ASSUME NEW i \in 1..m PROVE g[i] = g[i - 1] + l[i].cost
  <2>1. CASE i = m
    BY <1>4, <2>1
  <2>2. CASE i # m
    <3>1. i \in 1..(m - 1) /\ i \in 0..m /\ i - 1 \in 0..m /\ i - 1 # m
      BY <1>4, <2>2
    <3>2. g[i] = f[i] /\ g[i - 1] = f[i - 1]
      BY <2>2, <3>1
    <3>3. f[i] = f[i - 1] + l[i].cost
      BY <1>6, <3>1 DEF AddsUp
    <3> QED BY <3>2, <3>3
  <2> QED BY <2>1, <2>2
<1>11. AddsUp(g, l, m)
  <2> HIDE DEF g
  <2> QED BY <1>9, <1>10 DEF AddsUp
<1> QED BY <1>4, <1>11

\* There is one way to add them up.
LEMMA SumIsOne ==
    ASSUME NEW l, NEW n \in Nat, NEW f, NEW g, AddsUp(f, l, n), AddsUp(g, l, n)
    PROVE  \A i \in 0..n : f[i] = g[i]
<1> DEFINE Bad == {k \in 0..n : f[k] # g[k]}
<1> SUFFICES ASSUME Bad # {} PROVE FALSE
  OBVIOUS
<1>1. PICK m \in Bad : \A k \in Bad : m <= k
  <2>1. Bad \subseteq Nat
    OBVIOUS
  <2> HIDE DEF Bad
  <2> QED BY <2>1, HasSmallest
<1>2. m \in 1..n /\ f[m] # g[m]
  BY <1>1 DEF AddsUp
<1>3. m - 1 \in 0..n /\ m - 1 \notin Bad
  BY <1>1, <1>2
<1>4. f[m - 1] = g[m - 1]
  BY <1>3
<1> QED BY <1>2, <1>4 DEF AddsUp

\* The terminators' ledger adds up their costs.
LEMMA TotalsAddUp ==
    ASSUME NEW l \in Seq(Events)
    PROVE  AddsUp(Totals(l), l, Len(l)) /\ Billed(l) = Totals(l)[Len(l)]
<1> DEFINE P(f) == f = [i \in 0..Len(l) |-> IF i = 0 THEN 0 ELSE f[i - 1] + l[i].cost]
           t == Totals(l)
<1>0. Len(l) \in Nat /\ Len(l) \in 0..Len(l)
  OBVIOUS
<1>1. PICK f : AddsUp(f, l, Len(l))
  BY <1>0, SumExists
<1>2. P(f)
  <2>1. \A i \in 0..Len(l) : f[i] = IF i = 0 THEN 0 ELSE f[i - 1] + l[i].cost
    BY <1>0, <1>1 DEF AddsUp
  <2> QED BY <1>1, <2>1 DEF AddsUp
<1>3. P(t)
  <2>1. t = CHOOSE h : P(h)
    BY DEF Totals
  <2> HIDE DEF P, t
  <2> QED BY <1>2, <2>1
<1>4. \A i \in 0..Len(l) : t[i] = IF i = 0 THEN 0 ELSE t[i - 1] + l[i].cost
  <2> HIDE DEF t
  <2> QED BY <1>3
<1>5. \A i \in 0..Len(l) : t[i] = f[i]
  <2> DEFINE Bad == {k \in 0..Len(l) : t[k] # f[k]}
  <2> SUFFICES ASSUME Bad # {} PROVE FALSE
    OBVIOUS
  <2> HIDE DEF t
  <2>1. PICK m \in Bad : \A k \in Bad : m <= k
    <3>1. Bad \subseteq Nat
      OBVIOUS
    <3> HIDE DEF Bad
    <3> QED BY <3>1, HasSmallest
  <2>2. m \in 1..Len(l) /\ t[m] # f[m]
    BY <1>0, <1>1, <1>4, <2>1 DEF AddsUp
  <2>3. m - 1 \in 0..Len(l) /\ m - 1 \notin Bad
    BY <2>1, <2>2
  <2>4. t[m - 1] = f[m - 1]
    BY <2>3
  <2> QED BY <1>1, <1>4, <2>2, <2>4 DEF AddsUp
<1>6. AddsUp(t, l, Len(l))
  <2>1. t = [i \in 0..Len(l) |-> t[i]]
    <3> HIDE DEF t
    <3> QED BY <1>3
  <2> HIDE DEF t, P
  <2> QED BY <1>1, <1>5, <2>1 DEF AddsUp
<1>7. Billed(l) = t[Len(l)]
  BY DEF Billed, Totals
<1> QED BY <1>6, <1>7

\* One more event adds its cost to the ledger.
LEMMA BilledAppend ==
    ASSUME NEW l \in Seq(Events), NEW e \in Events
    PROVE  Billed(l) \in Nat /\ Billed(Append(l, e)) = Billed(l) + e.cost
<1> DEFINE a == Append(l, e)
           f == Totals(l)
           g == Totals(a)
           h == [i \in 0..Len(l) |-> g[i]]
<1>0. Len(l) \in Nat
  OBVIOUS
<1>1. /\ a \in Seq(Events) /\ Len(a) = Len(l) + 1 /\ a[Len(l) + 1] = e
      /\ \A i \in 1..Len(l) : a[i] = l[i]
  OBVIOUS
<1> HIDE DEF a
<1>2. AddsUp(f, l, Len(l)) /\ Billed(l) = f[Len(l)]
  BY TotalsAddUp
<1>3. AddsUp(g, a, Len(l) + 1) /\ Billed(a) = g[Len(l) + 1]
  BY <1>1, TotalsAddUp
<1> HIDE DEF f, g
<1>4. AddsUp(h, l, Len(l))
  <2>1. h \in [0..Len(l) -> Nat]
    BY <1>0, <1>3 DEF AddsUp
  <2>2. h[0] = 0
    BY <1>0, <1>3 DEF AddsUp
  <2>3. ASSUME NEW i \in 1..Len(l) PROVE h[i] = h[i - 1] + l[i].cost
    <3>1. i \in 0..Len(l) /\ i - 1 \in 0..Len(l) /\ i \in 1..(Len(l) + 1)
      BY <1>0
    <3>2. g[i] = g[i - 1] + a[i].cost
      BY <1>3, <3>1 DEF AddsUp
    <3> QED BY <1>1, <3>1, <3>2
  <2> HIDE DEF h
  <2> QED BY <2>1, <2>2, <2>3 DEF AddsUp
<1>5. h[Len(l)] = f[Len(l)]
  <2> HIDE DEF h
  <2>1. \A i \in 0..Len(l) : h[i] = f[i]
    BY <1>0, <1>2, <1>4, SumIsOne
  <2> QED BY <1>0, <2>1
<1>6. g[Len(l)] = f[Len(l)] /\ f[Len(l)] \in Nat
  <2>1. h[Len(l)] = g[Len(l)]
    BY <1>0
  <2> QED BY <1>0, <1>2, <1>5, <2>1 DEF AddsUp
<1>7. g[Len(l) + 1] = g[Len(l)] + e.cost
  <2>1. Len(l) + 1 \in 1..(Len(l) + 1) /\ (Len(l) + 1) - 1 = Len(l)
    BY <1>0
  <2>2. g[Len(l) + 1] = g[(Len(l) + 1) - 1] + a[Len(l) + 1].cost
    BY <1>3, <2>1 DEF AddsUp
  <2> QED BY <1>1, <2>1, <2>2
<1> QED BY <1>2, <1>3, <1>6, <1>7 DEF a

-----------------------------------------------------------------------------
(* Types *)

PlacesOK == mark \in 0..Len(log) /\ anchor \in 0..Len(log) /\ snap \in 0..Len(log)
NumbersOK ==
    /\ attempts \in 0..MaxResumeAttempts
    /\ fast \in 0..2 /\ sweeps \in Nat /\ wake \in Nat
    /\ writtenOff \in Nat /\ fruitless \in Nat
FlagsOK ==
    /\ noResume \in BOOLEAN /\ expected \in BOOLEAN /\ ours \in BOOLEAN /\ carryOn \in BOOLEAN
    /\ worker \in {"down", "idle", "open", "anchored", "turn", "settle", "halt", "faulted"}
    /\ restart \in {"none", "building", "due"}
    /\ scan \in {"idle", "answer", "decide", "giveup", "abandon", "close"}
    /\ open \in SUBSET Calls /\ owed \in SUBSET Calls

\* The types by kind.
LEMMA TypeParts ==
    TypeOK <=> log \in Seq(Events) /\ PlacesOK /\ NumbersOK /\ FlagsOK /\ lost \in BOOLEAN
BY DEF TypeOK, Events, PlacesOK, NumbersOK, FlagsOK

\* The events the program writes are events.
LEMMA EventTypes ==
    /\ \A k \in Kinds : Event(k) \in Events
    /\ \A cs \in SUBSET Calls : Said(cs) \in Events
    /\ \A c \in Calls : Result(c) \in Events
    /\ \A n \in Nat : Finished(n) \in Events
BY DEF Events, Event, Said, Result, Finished, Kinds

\* A step writes at most one event.
LEMMA LogStep ==
    ASSUME TypeOK, [Next]_vars
    PROVE  log' = log \/ \E e \in Events : log' = Append(log, e)
<1>0. log \in Seq(Events) /\ PlacesOK /\ NumbersOK /\ FlagsOK
  BY TypeParts
<1> USE EventTypes
<1>1. CASE Submit \/ StartTurn \/ Notice \/ Fail \/ BuildEnds \/ AppendNote \/ SayGivenUp
  <2>1. \A k \in {"user", "started", "incident", "note"} : Event(k) \in Events
    BY DEF Kinds
  <2> QED BY <1>1, <2>1 DEF Submit, StartTurn, Notice, Fail, BuildEnds, AppendNote, SayGivenUp
<1>2. CASE (\E cs \in SUBSET Calls : Say(cs)) \/ (\E c \in Calls : Answer(c) \/ AnswerCall(c))
  BY <1>2 DEF Say, Answer, AnswerCall
<1>3. CASE FinishOk \/ FinishStopped \/ FinishFailed
  <2>1. anchor \in Nat
    BY <1>0 DEF PlacesOK
  <2>2. Finished(Spend(log, anchor)) \in Events
    BY <1>0, <2>1, SpendType
  <2> QED BY <1>3, <2>2 DEF FinishOk, FinishStopped, FinishFailed, Terminate
<1>4. CASE CloseTurn
  BY <1>4 DEF CloseTurn, Closing
<1>5. CASE Restart \/ Crash
  <2>1. Event("incident") \in Events
    BY DEF Kinds
  <2> QED BY <1>5, <2>1 DEF Restart, Crash
<1>6. CASE \/ WorkerUp \/ WorkerRefused \/ Resume \/ ResumeLost \/ ScanFails \/ ReadAnchor \/ Settle
           \/ Reap \/ GatewayCrash
           \/ (\E carry \in BOOLEAN : RequestRestart(carry)) \/ SweepSkips \/ SweepReads \/ Decide
           \/ UNCHANGED vars
  BY <1>6 DEF WorkerUp, WorkerRefused, Resume, ResumeLost, ScanFails, ReadAnchor, Settle, Reap, GatewayCrash,
              RequestRestart, SweepSkips, SweepReads, Decide, vars, store
<1> QED BY <1>1, <1>2, <1>3, <1>4, <1>5, <1>6 DEF Next, Turn, Sweep, Deaths

\* The types hold at the start.
LEMMA TypeInit == Init => TypeOK
<1> SUFFICES ASSUME Init PROVE TypeOK
  OBVIOUS
<1> USE ConstantsAssumption DEF Init
<1>1. log \in Seq(Events) /\ PlacesOK
  BY DEF PlacesOK
<1>2. NumbersOK
  BY DEF NumbersOK
<1>3. FlagsOK /\ lost \in BOOLEAN
  BY DEF FlagsOK
<1> QED BY <1>1, <1>2, <1>3, TypeParts

\* And after every step.
LEMMA TypeStep == TypeOK /\ [Next]_vars => TypeOK'
<1> SUFFICES ASSUME TypeOK, [Next]_vars PROVE TypeOK'
  OBVIOUS
<1>0. log \in Seq(Events) /\ PlacesOK /\ NumbersOK /\ FlagsOK /\ lost \in BOOLEAN
  BY TypeParts
<1>1. /\ log' \in Seq(Events) /\ Len(log') \in Nat
      /\ 0..Len(log) \subseteq 0..Len(log') /\ Len(log) \in 0..Len(log')
  <2>1. log' = log \/ \E e \in Events : log' = Append(log, e)
    BY LogStep
  <2> QED BY <1>0, <2>1
<1>2. PlacesOK'
  <2>0. LastOf(log, {"finished"}) \in 0..Len(log)
    BY <1>0, LastOfIs
  <2>1. /\ mark' \in {mark, snap}
        /\ anchor' \in {anchor, 0, LastOf(log, {"finished"})}
        /\ snap' \in {snap, 0, Len(log)}
    BY DEF Next, Turn, Sweep, Deaths, WorkerUp, WorkerRefused, Submit, Resume, ResumeLost, ScanFails,
           ReadAnchor, StartTurn,
           Say, Answer, Notice, Terminate, FinishOk, FinishStopped, Settle, Fail, FinishFailed,
           RequestRestart, BuildEnds, Dead, Reap, Restart, Crash, GatewayCrash, SweepSkips,
           SweepReads, AnswerCall, AppendNote, Decide, SayGivenUp, CloseTurn, ScanOver, vars, store,
           process, gateway
  <2> QED BY <1>0, <1>1, <2>0, <2>1 DEF PlacesOK
<1>3. NumbersOK'
  <2> USE ConstantsAssumption DEF NumbersOK
  <2>1. CASE \/ WorkerUp \/ WorkerRefused \/ Resume \/ ResumeLost \/ Submit \/ Notice \/ Turn
             \/ (\E carry \in BOOLEAN : RequestRestart(carry)) \/ BuildEnds \/ UNCHANGED vars
    <3>1. /\ attempts' \in {attempts, 0} /\ fast' \in {fast, 0} /\ sweeps' = sweeps
          /\ writtenOff' = writtenOff /\ fruitless' \in {fruitless, 0}
      BY <2>1
         DEF Turn, WorkerUp, WorkerRefused, Submit, Resume, ResumeLost, ReadAnchor, StartTurn, Say, Answer,
             Notice, FinishOk, FinishStopped, Settle, Fail, FinishFailed, RequestRestart, BuildEnds,
             vars, store, gateway, ghosts
    <3>2. wake' \in {wake, 0} \/ (wake > 0 /\ wake' = wake - 1)
      BY <2>1
         DEF Turn, WorkerUp, WorkerRefused, Submit, Resume, ResumeLost, ReadAnchor, StartTurn, Say, Answer,
             Notice, FinishOk, FinishStopped, Settle, Fail, FinishFailed, RequestRestart, BuildEnds,
             vars, store, gateway, ghosts
    <3> QED BY <1>0, <3>1, <3>2
  <2>2. CASE Deaths
    <3>1. attempts' = attempts /\ writtenOff' = writtenOff /\ fruitless' = fruitless
          /\ wake' \in {wake, 0}
      BY <2>2 DEF Deaths, Reap, Restart, Crash, GatewayCrash, Dead, ghosts, store
    <3>2. fast' \in {0, 1, 2} /\ sweeps' \in {1, sweeps, sweeps + 1, sweeps + 2}
      BY <2>2 DEF Deaths, Reap, Restart, Crash, GatewayCrash, Swept
    <3> QED BY <1>0, <3>1, <3>2
  <2>3. CASE \/ SweepSkips \/ SweepReads \/ ScanFails \/ (\E c \in Calls : AnswerCall(c)) \/ AppendNote
             \/ SayGivenUp
    <3>1. /\ attempts' = attempts /\ writtenOff' = writtenOff /\ fruitless' = fruitless
          /\ wake' = wake /\ fast' = fast /\ (sweeps' = sweeps \/ (sweeps > 0 /\ sweeps' = sweeps - 1))
      BY <2>3 DEF SweepSkips, SweepReads, ScanFails, AnswerCall, AppendNote, SayGivenUp, store, ghosts
    <3> QED BY <1>0, <3>1
  <2>4. CASE Decide
    <3> DEFINE kept == IF Progressed(SubSeq(log, 1, snap)) THEN 0 ELSE attempts
    <3>1. kept \in 0..MaxResumeAttempts
      BY <1>0
    <3>2. attempts' = kept \/ (~Exhausted(kept) /\ ~ours /\ attempts' = kept + 1)
      BY <2>4 DEF Decide
    <3>3. fast' = fast /\ sweeps' = sweeps /\ writtenOff' = writtenOff
          /\ wake' \in {wake, wake + 1} /\ fruitless' \in {fruitless, fruitless + 1}
      BY <2>4 DEF Decide
    <3> HIDE DEF kept
    <3>4. attempts' \in 0..MaxResumeAttempts
      BY <3>1, <3>2 DEF Exhausted
    <3> QED BY <1>0, <3>3, <3>4
  <2>5. CASE CloseTurn
    <3>1. LastOf(log, {"finished"}) \in 0..Len(log)
      BY <1>0, LastOfIs
    <3>2. LastOf(log, {"finished"}) \in Nat
      BY <3>1
    <3>3. Spend(log, LastOf(log, {"finished"})) \in Nat
      BY <1>0, <3>2, SpendType
    <3> QED BY <1>0, <2>5, <3>3 DEF CloseTurn
  <2> QED BY <2>1, <2>2, <2>3, <2>4, <2>5 DEF Next, Sweep
<1>3a. lost' = lost \/ lost' = TRUE \/ lost' = FALSE
  BY DEF Next, Turn, Sweep, Deaths, WorkerUp, WorkerRefused, Submit, Resume, ResumeLost, ScanFails,
         ReadAnchor, StartTurn, Say, Answer, Notice, FinishOk, FinishStopped, Settle, Fail,
         FinishFailed, RequestRestart, BuildEnds, Dead, Reap, Restart, Crash, GatewayCrash,
         SweepSkips, SweepReads, AnswerCall, AppendNote, Decide, SayGivenUp, CloseTurn, vars, ghosts
<1>4. FlagsOK'
  <2> USE DEF FlagsOK
  <2>1. CASE \/ WorkerUp \/ WorkerRefused \/ Resume \/ ResumeLost \/ Submit \/ Notice \/ Turn
             \/ (\E carry \in BOOLEAN : RequestRestart(carry)) \/ BuildEnds \/ UNCHANGED vars
    <3>1. /\ worker' \in {worker, "idle", "open", "anchored", "turn", "settle", "halt", "faulted"}
          /\ restart' \in {restart, "none", "building", "due"} /\ scan' = scan
          /\ ours' = ours /\ carryOn' = carryOn /\ owed' = owed
      BY <2>1
         DEF Turn, WorkerUp, WorkerRefused, Submit, Resume, ResumeLost, ReadAnchor, StartTurn, Say, Answer,
             Notice, FinishOk, FinishStopped, Settle, Fail, FinishFailed, RequestRestart, BuildEnds,
             vars, process, gateway
    <3>2. open' \in SUBSET Calls
      BY <1>0, <2>1
         DEF Turn, WorkerUp, WorkerRefused, Submit, Resume, ResumeLost, ReadAnchor, StartTurn, Say, Answer,
             Notice, Terminate, FinishOk, FinishStopped, Settle, Fail, FinishFailed, RequestRestart,
             BuildEnds, vars, process
    <3>3. CASE Settle \/ (\E carry \in BOOLEAN : RequestRestart(carry))
      BY <1>0, <3>1, <3>2, <3>3 DEF Settle, RequestRestart
    <3>4. CASE ~(Settle \/ (\E carry \in BOOLEAN : RequestRestart(carry)))
      <4>1. noResume' = noResume /\ expected' = expected
        BY <2>1, <3>4
           DEF Turn, WorkerUp, WorkerRefused, Submit, Resume, ResumeLost, ReadAnchor, StartTurn, Say, Answer,
               Notice, FinishOk, FinishStopped, Fail, FinishFailed, BuildEnds, vars, store
      <4> QED BY <1>0, <3>1, <3>2, <4>1
    <3> QED BY <3>3, <3>4
  <2>2. CASE Deaths
    BY <1>0, <2>2
       DEF Deaths, Reap, Restart, Crash, GatewayCrash, Dead, ScanOver, ghosts, store
  <2>3. CASE \/ SweepSkips \/ SweepReads \/ ScanFails \/ (\E c \in Calls : AnswerCall(c)) \/ AppendNote
             \/ SayGivenUp
    <3>1. Unanswered(log) \in SUBSET Calls
      BY <1>0, UnansweredType
    <3>2. /\ worker' = worker /\ restart' = restart /\ open' = open /\ carryOn' \in {carryOn, FALSE}
          /\ noResume' = noResume /\ expected' \in {expected, FALSE} /\ ours' \in {ours, expected, FALSE}
          /\ scan' \in {scan, "idle", "answer", "decide", "abandon"}
      BY <2>3 DEF SweepSkips, SweepReads, ScanFails, ScanOver, AnswerCall, AppendNote, SayGivenUp,
                  store, process
    <3>3. owed' \in SUBSET Calls
      BY <1>0, <2>3, <3>1 DEF SweepSkips, SweepReads, ScanFails, ScanOver, AnswerCall, AppendNote,
                              SayGivenUp
    <3>4. noResume' \in BOOLEAN /\ expected' \in BOOLEAN /\ ours' \in BOOLEAN /\ carryOn' \in BOOLEAN
      BY <1>0, <3>2, Zenon
    <3>5. scan' \in {"idle", "answer", "decide", "giveup", "abandon", "close"}
      BY <1>0, <3>2
    <3> QED BY <1>0, <3>2, <3>3, <3>4, <3>5
  <2>4. CASE Decide
    BY <1>0, <2>4 DEF Decide, ScanOver, process
  <2>5. CASE CloseTurn
    BY <1>0, <2>5 DEF CloseTurn, ScanOver, process
  <2> QED BY <2>1, <2>2, <2>3, <2>4, <2>5 DEF Next, Sweep
<1>4a. lost' \in BOOLEAN
  BY <1>0, <1>3a, Zenon
<1>5. (log \in Seq(Events) /\ PlacesOK /\ NumbersOK /\ FlagsOK /\ lost \in BOOLEAN)'
  BY <1>1, <1>2, <1>3, <1>4, <1>4a
<1> QED BY <1>5 DEF TypeOK, Events, PlacesOK, NumbersOK, FlagsOK

\* The flags, counters and positions of turn recovery keep their types, and never
\* more than MAX_RESUME_ATTEMPTS attempts are on record.
THEOREM RecoveryTypes == Spec => []TypeOK
BY TypeInit, TypeStep, PTL DEF Spec

-----------------------------------------------------------------------------
(* A turn cut short is taken care of *)

\* What one more event makes of a turn that nobody expected to end.
LEMMA CutShort ==
    ASSUME NEW l \in Seq(Events), NEW e \in Events
    PROVE  /\ e.ev \in {"finished", "incident"} => ~Interrupted(Append(l, e), FALSE)
           /\ e.ev \in {"user", "said", "result", "note"} =>
                  (Interrupted(Append(l, e), FALSE) <=> Interrupted(l, FALSE))
<1>1. Interrupted(Append(l, e), FALSE) <=>
          \/ e.ev = "started"
          \/ e.ev \notin Markers(FALSE) /\ Interrupted(l, FALSE)
  BY InterruptedAppend
<1>2. Markers(FALSE) = {"started", "finished", "incident"}
  BY DEF Markers
<1> QED BY <1>1, <1>2

\* A worker that is up was not left down.
LEMMA UpIsHandedOn ==
    ASSUME HandedOn, worker # "down", worker' # "down", fast' = fast
    PROVE  HandedOn'
<1>1. (worker' = "down") = FALSE /\ (fast' = 2) = FALSE
  BY DEF HandedOn
<1> QED BY <1>1 DEF HandedOn

\* Nothing is dropped by a step.
LEMMA HandedOnStep == TypeOK /\ HandedOn /\ [Next]_vars => HandedOn'
<1> SUFFICES ASSUME TypeOK, HandedOn, [Next]_vars PROVE HandedOn'
  OBVIOUS
<1>0. log \in Seq(Events) /\ NumbersOK /\ FlagsOK
  BY TypeParts
<1>1. CASE WorkerUp
  BY <1>1 DEF WorkerUp, HandedOn
<1>2. CASE WorkerRefused
  BY <1>2 DEF WorkerRefused, HandedOn, store, process, ghosts
<1>2a. CASE ResumeLost \/ ScanFails
  <2>1. lost' = TRUE /\ log' = log /\ worker' = worker /\ fast' = fast
    BY <1>2a DEF ResumeLost, ScanFails, store, process
  <2> QED BY <2>1 DEF HandedOn
<1>3. CASE Submit \/ Resume \/ Turn \/ Notice \/ BuildEnds \/ \E carry \in BOOLEAN : RequestRestart(carry)
  <2>1. worker # "down" /\ worker' # "down" /\ fast' = fast
    BY <1>3 DEF Submit, Resume, Turn, Notice, BuildEnds, RequestRestart, ReadAnchor, StartTurn, Say,
                Answer, FinishOk, FinishStopped, Settle, Fail, FinishFailed, gateway, process
  <2> QED BY <2>1, UpIsHandedOn
<1>4. CASE Reap \/ Restart \/ GatewayCrash
  <2>1. fast' = 0 /\ sweeps' \in {1, sweeps + 1, sweeps + 2}
    BY <1>4 DEF Reap, Restart, GatewayCrash, Swept
  <2>2. sweeps' > 0 /\ fast' # 2
    BY <1>0, <2>1 DEF NumbersOK
  <2> QED BY <2>2 DEF HandedOn
<1>5. CASE Crash
  <2>1. CASE fast' # 2
    <3>1. sweeps' \in {sweeps + 1, sweeps + 2}
      BY <1>5, <2>1 DEF Crash, Swept
    <3>2. sweeps' > 0
      BY <1>0, <3>1 DEF NumbersOK
    <3> QED BY <2>1, <3>2 DEF HandedOn
  <2>2. CASE fast' = 2
    <3>1. worker' = "down" /\ log' = Append(log, Event("incident"))
      BY <1>5, <2>2 DEF Crash, Dead
    <3>2. Event("incident") \in Events /\ Event("incident").ev = "incident"
      BY EventTypes DEF Kinds, Event
    <3>3. ~Interrupted(log', FALSE)
      BY <1>0, <3>1, <3>2, CutShort
    <3> QED BY <3>1, <3>3 DEF HandedOn
  <2> QED BY <2>1, <2>2
<1>6. CASE SweepSkips
  BY <1>6 DEF SweepSkips, HandedOn, store, process
<1>7. CASE SweepReads
  <2>1. Interrupted(log, FALSE) => Interrupted(log, expected)
    <3>1. Interrupted(log, FALSE) => Interrupted(log, TRUE)
      BY <1>0, InterruptedOpen
    <3>2. expected = TRUE \/ expected = FALSE
      BY <1>0 DEF FlagsOK
    <3> QED BY <3>1, <3>2
  <2>2. log' = log /\ worker' = worker /\ fast' = fast
    BY <1>7 DEF SweepReads, process
  <2>3. Interrupted(log, expected) => scan' # "idle"
    BY <1>7 DEF SweepReads
  <2> QED BY <2>1, <2>2, <2>3 DEF HandedOn
<1>8. CASE (\E c \in Calls : AnswerCall(c)) \/ AppendNote
  <2>1. /\ scan' # "idle" /\ worker' = worker /\ fast' = fast
    BY <1>8 DEF AnswerCall, AppendNote, process
  <2>2. PICK e \in Events : log' = Append(log, e) /\ e.ev \in {"result", "note"}
    <3>1. \A c \in Calls : Result(c) \in Events /\ Result(c).ev = "result"
      BY EventTypes DEF Result
    <3>2. Event("note") \in Events /\ Event("note").ev = "note"
      BY EventTypes DEF Kinds, Event
    <3> QED BY <1>8, <3>1, <3>2 DEF AnswerCall, AppendNote
  <2>3. Interrupted(log', FALSE) <=> Interrupted(log, FALSE)
    BY <1>0, <2>2, CutShort
  <2> QED BY <2>1, <2>3 DEF HandedOn
<1>9. CASE SayGivenUp \/ CloseTurn
  <2>1. worker' = worker /\ fast' = fast
    BY <1>9 DEF SayGivenUp, CloseTurn, process
  <2>2. PICK e \in Events : log' = Append(log, e) /\ e.ev \in {"incident", "finished"}
    <3>1. Closing \in Events /\ Closing.ev = "finished"
      BY EventTypes DEF Closing, Finished
    <3>2. Event("incident") \in Events /\ Event("incident").ev = "incident"
      BY EventTypes DEF Kinds, Event
    <3> QED BY <1>9, <3>1, <3>2 DEF SayGivenUp, CloseTurn
  <2>3. ~Interrupted(log', FALSE)
    BY <1>0, <2>2, CutShort
  <2> QED BY <2>1, <2>3 DEF HandedOn
<1>10. CASE Decide
  <2>1. worker' = worker /\ fast' = fast /\ log' = log
    BY <1>10 DEF Decide, process
  <2>2. scan' # "idle" \/ wake' = wake + 1
    BY <1>10 DEF Decide
  <2>3. wake' = wake + 1 => wake' > 0
    BY <1>0 DEF NumbersOK
  <2> QED BY <2>1, <2>2, <2>3 DEF HandedOn
<1>11. CASE UNCHANGED vars
  BY <1>11 DEF HandedOn, vars, store, process, gateway, ghosts
<1> QED BY <1>1, <1>2, <1>2a, <1>3, <1>4, <1>5, <1>6, <1>7, <1>8, <1>9, <1>10, <1>11 DEF Next, Sweep, Deaths

\* After any number of deaths and repairs, with any timing of workers and
\* reconciliations, no turn is left open with nothing on its way to repair or resume
\* it, unless an incident followed its start or the last resume or reconciliation
\* failed.
THEOREM NoTurnStranded == Spec => []StrandedOnlyByFailure
<1>1. Init => HandedOn
  <2> SUFFICES ASSUME Init PROVE HandedOn
    OBVIOUS
  <2>1. sweeps > 0 /\ fast # 2
    BY DEF Init
  <2> QED BY <2>1 DEF HandedOn
<1>2. TypeOK /\ HandedOn => StrandedOnlyByFailure
  <2>1. SUFFICES ASSUME TypeOK, HandedOn, Quiet, Interrupted(log, FALSE) PROVE lost
    BY DEF StrandedOnlyByFailure
  <2>2. worker = "down" /\ ~(sweeps > 0) /\ scan = "idle" /\ ~(wake > 0)
    BY <2>1 DEF Quiet
  <2> QED BY <2>1, <2>2 DEF HandedOn
<1> QED BY <1>1, <1>2, RecoveryTypes, HandedOnStep, PTL DEF Spec

-----------------------------------------------------------------------------
(* Who writes what *)

Started == LastOf(log, {"started"})
Ended == LastOf(log, {"finished"})
Aside == {"user", "result", "note", "incident"}
Finish == FinishOk \/ FinishStopped \/ FinishFailed

\* Starts, replies and terminators are each written by one kind of step.
LEMMA Writes ==
    ASSUME TypeOK, [Next]_vars
    PROVE  \/ log' = log /\ writtenOff' = writtenOff
           \/ /\ writtenOff' = writtenOff
              /\ \E e \in Events : log' = Append(log, e) /\ e.cost = 0 /\ e.ev \in Aside
           \/ StartTurn
           \/ \E cs \in SUBSET Calls : Say(cs)
           \/ Finish
           \/ CloseTurn
<1>0. \A k \in {"user", "note", "incident"} :
          Event(k) \in Events /\ Event(k).cost = 0 /\ Event(k).ev \in Aside
  BY EventTypes DEF Event, Kinds, Aside
<1>1. \A c \in Calls : Result(c) \in Events /\ Result(c).cost = 0 /\ Result(c).ev \in Aside
  BY EventTypes DEF Result, Aside
<1>2. CASE \/ Submit \/ Notice \/ Fail \/ BuildEnds \/ AppendNote \/ SayGivenUp \/ Restart \/ Crash
  BY <1>0, <1>2
     DEF Submit, Notice, Fail, BuildEnds, AppendNote, SayGivenUp, Restart, Crash, Dead, ghosts
<1>3. CASE \E c \in Calls : Answer(c) \/ AnswerCall(c)
  BY <1>1, <1>3 DEF Answer, AnswerCall, ghosts
<1>4. CASE \/ WorkerUp \/ WorkerRefused \/ Resume \/ ResumeLost \/ ScanFails \/ ReadAnchor \/ Settle
           \/ Reap \/ GatewayCrash
           \/ (\E carry \in BOOLEAN : RequestRestart(carry)) \/ SweepSkips \/ SweepReads \/ Decide
           \/ UNCHANGED vars
  BY <1>4 DEF WorkerUp, WorkerRefused, Resume, ResumeLost, ScanFails, ReadAnchor, Settle, Reap, Dead, GatewayCrash,
              RequestRestart, SweepSkips, SweepReads, Decide, vars, store, ghosts
<1> QED BY <1>2, <1>3, <1>4 DEF Next, Turn, Sweep, Deaths, Finish

\* The events of those steps.
LEMMA Written ==
    ASSUME TypeOK
    PROVE  /\ StartTurn =>
                  /\ Event("started") \in Events /\ Event("started").ev = "started"
                  /\ Event("started").cost = 0
                  /\ log' = Append(log, Event("started")) /\ writtenOff' = writtenOff
           /\ \A cs \in SUBSET Calls : Say(cs) =>
                  /\ Said(cs) \in Events /\ Said(cs).ev = "said" /\ Said(cs).cost = 0
                  /\ log' = Append(log, Said(cs)) /\ writtenOff' = writtenOff
           /\ Finish =>
                  /\ Finished(Spend(log, anchor)) \in Events
                  /\ Finished(Spend(log, anchor)).ev = "finished"
                  /\ Finished(Spend(log, anchor)).cost = Spend(log, anchor)
                  /\ log' = Append(log, Finished(Spend(log, anchor))) /\ writtenOff' = writtenOff
                  /\ worker \in {"turn", "faulted"} /\ worker' \in {"settle", "halt", "idle"}
                  /\ scan' = scan
           /\ CloseTurn =>
                  /\ Closing \in Events /\ Closing.ev = "finished" /\ Closing.cost = 0
                  /\ log' = Append(log, Closing) /\ writtenOff' = writtenOff + Owing(log)
                  /\ scan # "idle" /\ scan' = "idle" /\ worker' = worker
<1>0. log \in Seq(Events) /\ PlacesOK
  BY TypeParts
<1>1. Event("started") \in Events /\ Event("started").ev = "started" /\ Event("started").cost = 0
  BY EventTypes DEF Event, Kinds
<1>2. \A cs \in SUBSET Calls : Said(cs) \in Events /\ Said(cs).ev = "said" /\ Said(cs).cost = 0
  BY EventTypes DEF Said
<1>3. \A n \in Nat : Finished(n) \in Events /\ Finished(n).ev = "finished" /\ Finished(n).cost = n
  BY EventTypes DEF Finished
<1>4. Spend(log, anchor) \in Nat
  <2>1. anchor \in Nat
    BY <1>0 DEF PlacesOK
  <2> QED BY <1>0, <2>1, SpendType
<1>5. StartTurn => log' = Append(log, Event("started")) /\ writtenOff' = writtenOff
  BY DEF StartTurn, ghosts
<1>6. \A cs \in SUBSET Calls : Say(cs) => log' = Append(log, Said(cs)) /\ writtenOff' = writtenOff
  BY DEF Say
<1>7. Finish => /\ log' = Append(log, Finished(Spend(log, anchor))) /\ writtenOff' = writtenOff
                /\ worker \in {"turn", "faulted"} /\ worker' \in {"settle", "halt", "idle"}
                /\ scan' = scan
  BY DEF Finish, FinishOk, FinishStopped, FinishFailed, Terminate, gateway
<1>8. CloseTurn => /\ log' = Append(log, Closing) /\ writtenOff' = writtenOff + Owing(log)
                   /\ scan # "idle" /\ scan' = "idle" /\ worker' = worker
  BY DEF CloseTurn, Owing, ScanOver, process
<1>9. Closing \in Events /\ Closing.ev = "finished" /\ Closing.cost = 0
  BY <1>3 DEF Closing
<1> QED BY <1>1, <1>2, <1>3, <1>4, <1>5, <1>6, <1>7, <1>8, <1>9

\* Where the last start and the last terminator move.
LEMMA EndsMove ==
    ASSUME TypeOK, [Next]_vars
    PROVE  /\ Ended' = Ended \/ Finish \/ CloseTurn
           /\ Started' = Started \/ StartTurn
           /\ StartTurn => Started' > Ended'
<1>0. log \in Seq(Events)
  BY TypeParts
<1>1. \A e \in Events : log' = Append(log, e) =>
          /\ Started' = (IF e.ev = "started" THEN Len(log) + 1 ELSE Started)
          /\ Ended' = (IF e.ev = "finished" THEN Len(log) + 1 ELSE Ended)
  <2> TAKE e \in Events
  <2> HAVE log' = Append(log, e)
  <2>1. /\ LastOf(Append(log, e), {"started"}) =
               (IF e.ev \in {"started"} THEN Len(log) + 1 ELSE LastOf(log, {"started"}))
        /\ LastOf(Append(log, e), {"finished"}) =
               (IF e.ev \in {"finished"} THEN Len(log) + 1 ELSE LastOf(log, {"finished"}))
    BY <1>0, LastOfAppend
  <2> QED BY <2>1 DEF Started, Ended
<1>2. Ended \in 0..Len(log)
  BY <1>0, LastOfIs DEF Ended
<1>3. CASE log' = log
  <2>1. Started' = Started /\ Ended' = Ended
    BY <1>3 DEF Started, Ended
  <2>2. ~StartTurn
    <3>1. Len(Append(log, Event("started"))) # Len(log)
      BY <1>0
    <3> QED BY <1>3, <3>1, Written
  <2> QED BY <2>1, <2>2
<1>4. ASSUME NEW e \in Events, log' = Append(log, e), e.ev \in Aside
      PROVE  Started' = Started /\ Ended' = Ended /\ ~StartTurn
  <2>1. e.ev \notin {"started", "finished"}
    BY <1>4 DEF Aside
  <2>2. StartTurn => e = Event("started")
    <3>1. \A d \in Events : Append(log, d) = Append(log, e) => d = e
      <4> TAKE d \in Events
      <4>1. Append(log, d)[Len(log) + 1] = d /\ Append(log, e)[Len(log) + 1] = e
        BY <1>0
      <4> QED BY <4>1
    <3> QED BY <1>4, <3>1, Written
  <2> QED BY <1>1, <1>4, <2>1, <2>2, Written
<1>5. CASE StartTurn
  <2>1. Started' = Len(log) + 1 /\ Ended' = Ended
    BY <1>1, <1>5, Written
  <2> QED BY <1>0, <1>2, <1>5, <2>1
<1>6. ASSUME NEW cs \in SUBSET Calls, Say(cs)
      PROVE  Started' = Started /\ Ended' = Ended /\ ~StartTurn
  <2>1. Started' = Started /\ Ended' = Ended
    <3>1. Said(cs).ev # "started" /\ Said(cs).ev # "finished"
      BY <1>6, Written
    <3> QED BY <1>1, <1>6, <3>1, Written
  <2>2. ~StartTurn
    BY <1>6 DEF Say, StartTurn
  <2> QED BY <2>1, <2>2
<1>7. CASE Finish \/ CloseTurn
  <2>1. Started' = Started
    <3>1. Finished(Spend(log, anchor)).ev = "finished" => Finished(Spend(log, anchor)).ev # "started"
      OBVIOUS
    <3>2. Closing.ev = "finished" => Closing.ev # "started"
      OBVIOUS
    <3> QED BY <1>1, <1>7, <3>1, <3>2, Written
  <2>2. ~StartTurn
    <3>1. Finish => worker' # "turn"
      BY Written
    <3>2. CloseTurn => worker' = worker
      BY Written
    <3> QED BY <1>7, <3>1, <3>2 DEF StartTurn
  <2> QED BY <1>7, <2>1, <2>2
<1> QED BY <1>3, <1>4, <1>5, <1>6, <1>7, Writes

-----------------------------------------------------------------------------
(* One terminator per turn, and what it bills *)

\* No worker comes up while a reconciliation writes, and none is cut short by one.
LEMMA ScanAloneStep == ~SlowScan /\ TypeOK /\ ScanAlone /\ [Next]_vars => ScanAlone'
<1> SUFFICES ASSUME ~SlowScan, TypeOK, ScanAlone, [Next]_vars PROVE ScanAlone'
  OBVIOUS
<1> USE DEF ScanAlone
<1>1. CASE WorkerUp
  BY <1>1 DEF WorkerUp
<1>2. CASE \/ WorkerRefused \/ Submit \/ Resume \/ ResumeLost \/ Turn \/ Notice \/ BuildEnds
           \/ (\E carry \in BOOLEAN : RequestRestart(carry)) \/ UNCHANGED vars
  <2>1. scan' = scan /\ (worker' = worker \/ worker # "down")
    BY <1>2 DEF WorkerRefused, Submit, Resume, ResumeLost, Turn, Notice, BuildEnds, RequestRestart, ReadAnchor,
                StartTurn, Say, Answer, FinishOk, FinishStopped, Settle, Fail, FinishFailed, vars,
                gateway, process
  <2> QED BY <2>1
<1>3. CASE Deaths
  BY <1>3 DEF Deaths, Reap, Restart, Crash, GatewayCrash, Dead
<1>4. CASE Sweep \/ ScanFails
  <2>1. worker' = worker /\ (scan # "idle" \/ scan' = scan \/ worker = "down")
    BY <1>4 DEF ScanFails, Sweep, SweepSkips, SweepReads, AnswerCall, AppendNote, Decide, SayGivenUp,
                CloseTurn, process
  <2> QED BY <2>1
<1> QED BY <1>1, <1>2, <1>3, <1>4 DEF Next

\* Who is about to write a terminator was, or has just started a turn, or has just
\* read of one cut short.
LEMMA Busy ==
    ASSUME TypeOK, ScanAlone, ScanAlone', [Next]_vars,
           worker' \in {"turn", "faulted"} \/ scan' # "idle"
    PROVE  \/ StartTurn
           \/ SweepReads /\ Interrupted(log, expected)
           \/ (worker \in {"turn", "faulted"} \/ scan # "idle") /\ ~Finish /\ ~CloseTurn
<1>1. CASE worker' \in {"turn", "faulted"}
  <2>1. scan' = "idle" /\ worker' # "down"
    BY <1>1 DEF ScanAlone
  <2>2. ~Finish
    BY <1>1, Written
  <2>3. CloseTurn => worker \in {"turn", "faulted"} /\ scan # "idle"
    BY <1>1, Written
  <2>4. ~CloseTurn
    BY <2>3 DEF ScanAlone
  <2>5. StartTurn \/ worker \in {"turn", "faulted"}
    BY <1>1, <2>1 DEF Next, Turn, Sweep, Deaths, ScanFails, WorkerUp, WorkerRefused, Submit, Resume,
           ResumeLost, ReadAnchor,
           Say, Answer, Notice, FinishOk, FinishStopped, Settle, Fail, FinishFailed,
           RequestRestart, BuildEnds, Dead, Reap, Restart, Crash, GatewayCrash, SweepSkips,
           SweepReads, AnswerCall, AppendNote, Decide, SayGivenUp, CloseTurn, vars, process
  <2> QED BY <2>2, <2>4, <2>5
<1>2. CASE scan' # "idle"
  <2>1. ~CloseTurn
    BY <1>2, Written
  <2>2. Finish => scan # "idle" /\ worker # "down"
    BY <1>2, Written
  <2>3. ~Finish
    BY <2>2 DEF ScanAlone
  <2>4. scan # "idle" \/ (SweepReads /\ Interrupted(log, expected))
    BY <1>2 DEF Next, Turn, Sweep, Deaths, ScanFails, WorkerUp, WorkerRefused, Submit, Resume,
           ResumeLost, ReadAnchor,
           StartTurn, Say, Answer, Notice, FinishOk, FinishStopped, Settle, Fail, FinishFailed,
           RequestRestart, BuildEnds, Dead, Reap, Restart, Crash, GatewayCrash, SweepSkips,
           SweepReads, AnswerCall, AppendNote, Decide, SayGivenUp, CloseTurn, ScanOver, vars, gateway
  <2> QED BY <2>1, <2>3, <2>4
<1> QED BY <1>1, <1>2

\* The last start stays ahead of the last terminator for as long as a turn runs or
\* is repaired.
LEMMA TurnOpenStep ==
    ASSUME TypeOK, ScanAlone, ScanAlone', TurnOpen, [Next]_vars
    PROVE  TurnOpen'
<1>1. SUFFICES ASSUME worker' \in {"turn", "faulted"} \/ scan' # "idle"
               PROVE  Started' > Ended'
  BY DEF TurnOpen, Started, Ended
<1>2. CASE StartTurn
  BY <1>2, EndsMove
<1>3. CASE SweepReads /\ Interrupted(log, expected)
  <2>1. log \in Seq(Events) /\ expected \in BOOLEAN
    BY TypeParts DEF FlagsOK
  <2>2. Started > Ended
    BY <1>3, <2>1, InterruptedOpen DEF Started, Ended
  <2>3. Started' = Started /\ Ended' = Ended
    BY <1>3 DEF SweepReads, Started, Ended
  <2> QED BY <2>2, <2>3
<1>4. CASE (worker \in {"turn", "faulted"} \/ scan # "idle") /\ ~Finish /\ ~CloseTurn
  <2>1. Started > Ended
    BY <1>4 DEF TurnOpen, Started, Ended
  <2>2. Ended' = Ended /\ (Started' = Started \/ Started' > Ended')
    BY <1>4, EndsMove
  <2> QED BY <2>1, <2>2
<1> QED BY <1>1, <1>2, <1>3, <1>4, Busy

\* The turn's anchor stays the last terminator.
LEMMA AnchorStep ==
    ASSUME TypeOK, ScanAlone, AnchorSettled, [Next]_vars
    PROVE  AnchorSettled'
<1>1. SUFFICES ASSUME worker' \in {"anchored", "turn", "faulted"} PROVE anchor' = Ended'
  BY DEF AnchorSettled, Ended
<1>2. CASE ReadAnchor
  BY <1>2 DEF ReadAnchor, Ended, store
<1>3. CASE ~ReadAnchor
  <2>1. worker \in {"anchored", "turn", "faulted"} /\ anchor' = anchor
    BY <1>1, <1>3 DEF Next, Turn, Sweep, Deaths, ScanFails, WorkerUp, WorkerRefused, Submit, Resume,
           ResumeLost, StartTurn, Say, Answer, Notice, FinishOk, FinishStopped, Settle, Fail, FinishFailed,
           RequestRestart, BuildEnds, Dead, Reap, Restart, Crash, GatewayCrash, SweepSkips,
           SweepReads, AnswerCall, AppendNote, Decide, SayGivenUp, CloseTurn, vars, process
  <2>2. ~Finish
    BY <1>1, Written
  <2>3. ~CloseTurn
    BY <2>1, Written DEF ScanAlone
  <2>4. Ended' = Ended
    BY <2>2, <2>3, EndsMove
  <2> QED BY <2>1, <2>4 DEF AnchorSettled, Ended
<1> QED BY <1>2, <1>3

\* A terminator is written only behind a start that none has followed.
LEMMA OneTerminatorStep ==
    ASSUME TypeOK, TurnOpen, OneTerminator, [Next]_vars
    PROVE  OneTerminator'
<1> DEFINE Ends(l) == {0} \cup {i \in DOMAIN l : l[i].ev = "finished"}
           Apart(l) == \A i, j \in Ends(l) : i < j => \E k \in (i + 1)..j : l[k].ev = "started"
<1>0. log \in Seq(Events) /\ Len(log) \in Nat
  BY TypeParts
<1>1. Apart(log)
  BY DEF OneTerminator
<1>2. SUFFICES Apart(log')
  BY DEF OneTerminator
<1>4. ASSUME NEW e \in Events, log' = Append(log, e), e.ev # "finished" \/ Started > Ended
      PROVE  Apart(log')
  <2>1. /\ log' \in Seq(Events) /\ Len(log') = Len(log) + 1 /\ log'[Len(log) + 1] = e
        /\ \A i \in 1..Len(log) : log'[i] = log[i]
    BY <1>0, <1>4
  <2>2. ASSUME NEW i \in Ends(log'), NEW j \in Ends(log'), i < j
        PROVE  \E k \in (i + 1)..j : log'[k].ev = "started"
    <3>1. i \in 0..Len(log) /\ j \in 1..(Len(log) + 1)
      BY <1>0, <2>1, <2>2
    <3>2. i \in Ends(log)
      BY <1>0, <2>1, <3>1
    <3>3. CASE j <= Len(log)
      <4>1. j \in Ends(log)
        BY <1>0, <2>1, <3>1, <3>3
      <4>2. PICK k \in (i + 1)..j : log[k].ev = "started"
        BY <1>1, <2>2, <3>2, <4>1
      <4>3. k \in 1..Len(log)
        BY <1>0, <3>1, <3>3
      <4> QED BY <2>1, <4>2, <4>3
    <3>4. CASE j = Len(log) + 1
      <4>1. e.ev = "finished"
        BY <1>0, <2>1, <3>4
      <4>2. Started > Ended
        BY <1>4, <4>1
      <4>3. /\ Started \in 0..Len(log) /\ (Started # 0 => log[Started].ev \in {"started"})
            /\ Ended \in 0..Len(log)
            /\ \A n \in 1..Len(log) : log[n].ev \in {"finished"} => n <= Ended
        BY <1>0, LastOfIs DEF Started, Ended
      <4>4. i <= Ended
        BY <1>0, <3>1, <3>2, <4>3
      <4>5. Started \in (i + 1)..j /\ Started \in 1..Len(log) /\ log[Started].ev = "started"
        BY <1>0, <3>1, <3>4, <4>2, <4>3, <4>4
      <4> QED BY <2>1, <4>5
    <3> QED BY <1>0, <3>1, <3>3, <3>4
  <2> QED BY <2>2
<1> HIDE DEF Apart
<1>3. CASE log' = log
  BY <1>1, <1>3
<1>5. CASE StartTurn \/ \E cs \in SUBSET Calls : Say(cs)
  <2>1. \E e \in Events : log' = Append(log, e) /\ e.ev \in {"started", "said"}
    BY <1>5, Written
  <2> QED BY <1>4, <2>1
<1>6. CASE Finish \/ CloseTurn
  <2>1. Started > Ended
    BY <1>6, Written DEF TurnOpen, Started, Ended
  <2>2. \E e \in Events : log' = Append(log, e)
    BY <1>6, Written
  <2> QED BY <1>4, <2>1, <2>2
<1>7. CASE \E e \in Events : log' = Append(log, e) /\ e.ev \in Aside
  BY <1>4, <1>7 DEF Aside
<1> QED BY <1>3, <1>5, <1>6, <1>7, Writes

\* Every step keeps the ledger balanced.
LEMMA LedgerStep ==
    ASSUME TypeOK, AnchorSettled, LedgerExact, [Next]_vars
    PROVE  LedgerExact'
<1>0. log \in Seq(Events) /\ writtenOff \in Nat
  BY TypeParts DEF NumbersOK
<1>1. Billed(log) + Owing(log) + writtenOff = Spend(log, 0)
  BY DEF LedgerExact
<1>2. Billed(log) \in Nat /\ Owing(log) \in Nat /\ Spend(log, 0) \in Nat
  <2>1. Event("user") \in Events
    BY EventTypes DEF Kinds
  <2> QED BY <1>0, <2>1, BilledAppend, OwingAppend, SpendType
<1>3. SUFFICES Billed(log') + Owing(log') + writtenOff' = Spend(log', 0)
  BY DEF LedgerExact
<1>4. CASE log' = log /\ writtenOff' = writtenOff
  BY <1>1, <1>4
<1>5. \A e \in Events : log' = Append(log, e) =>
          /\ Billed(log') = Billed(log) + e.cost
          /\ Owing(log') = IF e.ev = "finished" THEN 0
                           ELSE IF e.ev = "said" THEN Owing(log) + 1 ELSE Owing(log)
          /\ Spend(log', 0) = IF e.ev = "said" THEN Spend(log, 0) + 1 ELSE Spend(log, 0)
  <2>1. 0 \in 0..Len(log)
    BY <1>0
  <2> QED BY <1>0, <2>1, BilledAppend, OwingAppend, SpendAppend
<1>6. ASSUME NEW e \in Events, log' = Append(log, e), e.cost = 0, e.ev # "finished",
             writtenOff' = writtenOff
      PROVE  Billed(log') + Owing(log') + writtenOff' = Spend(log', 0)
  BY <1>0, <1>1, <1>2, <1>5, <1>6
<1>7. CASE StartTurn \/ \E cs \in SUBSET Calls : Say(cs)
  <2>1. PICK e \in Events : /\ log' = Append(log, e) /\ e.cost = 0 /\ e.ev \in {"started", "said"}
                            /\ writtenOff' = writtenOff
    BY <1>7, Written
  <2> QED BY <1>6, <2>1
<1>8. CASE writtenOff' = writtenOff /\ \E e \in Events : log' = Append(log, e) /\ e.cost = 0 /\ e.ev \in Aside
  BY <1>6, <1>8 DEF Aside
<1>9. CASE Finish
  <2>1. PICK e \in Events : /\ log' = Append(log, e) /\ e.cost = Spend(log, anchor)
                            /\ e.ev = "finished" /\ writtenOff' = writtenOff
    BY <1>9, Written
  <2>2. Spend(log, anchor) = Owing(log)
    BY <1>9, Written DEF AnchorSettled, Owing
  <2> QED BY <1>0, <1>1, <1>2, <1>5, <2>1, <2>2
<1>10. CASE CloseTurn
  <2>1. PICK e \in Events : /\ log' = Append(log, e) /\ e.cost = 0
                            /\ e.ev = "finished" /\ writtenOff' = writtenOff + Owing(log)
    BY <1>10, Written
  <2> QED BY <1>0, <1>1, <1>2, <1>5, <2>1
<1> QED BY <1>4, <1>7, <1>8, <1>9, <1>10, Writes

-----------------------------------------------------------------------------
(* Repairs and resumes *)

\* A reconciliation under way has just read the log, or takes one of its own steps,
\* or nothing it looks at moves.
LEMMA ScanSteps ==
    ASSUME TypeOK, ScanAlone, [Next]_vars, scan' # "idle"
    PROVE  \/ SweepReads /\ Interrupted(log, expected)
           \/ \E c \in Calls : AnswerCall(c)
           \/ AppendNote \/ Decide \/ SayGivenUp
           \/ UNCHANGED <<log, scan, owed, snap>> /\ scan # "idle"
<1>1. CASE Sweep
  <2>1. SweepReads => Interrupted(log, expected) \/ (UNCHANGED <<log, scan, owed, snap>> /\ scan # "idle")
    BY DEF SweepReads
  <2>2. ~SweepSkips /\ ~CloseTurn
    BY DEF SweepSkips, CloseTurn, ScanOver
  <2> QED BY <1>1, <2>1, <2>2 DEF Sweep
<1>2. CASE WorkerUp \/ WorkerRefused \/ Resume \/ ResumeLost \/ (UNCHANGED vars)
  BY <1>2 DEF WorkerUp, WorkerRefused, Resume, ResumeLost, vars, store, gateway
<1>2a. CASE ScanFails
  BY <1>2a DEF ScanFails, ScanOver, store
<1>3. CASE \/ Submit \/ Turn \/ Notice \/ BuildEnds \/ (\E carry \in BOOLEAN : RequestRestart(carry))
  <2>1. worker # "down" /\ scan' = scan
    BY <1>3 DEF Submit, Turn, Notice, BuildEnds, RequestRestart, ReadAnchor, StartTurn, Say, Answer,
                FinishOk, FinishStopped, Settle, Fail, FinishFailed, gateway
  <2> QED BY <2>1 DEF ScanAlone
<1>4. CASE Deaths
  <2>1. scan' = "idle" \/ (worker # "down" /\ scan' = scan)
    BY <1>4 DEF Deaths, Reap, Restart, Crash, GatewayCrash, Dead, ScanOver
  <2> QED BY <2>1 DEF ScanAlone
<1> QED BY <1>1, <1>2, <1>2a, <1>3, <1>4 DEF Next

\* A reconciliation goes on owing exactly what the log leaves unanswered.
LEMMA OwedStep ==
    ASSUME TypeOK, ScanAlone, OwedIsUnanswered, [Next]_vars
    PROVE  OwedIsUnanswered'
<1>0. log \in Seq(Events) /\ FlagsOK
  BY TypeParts
<1>1. SUFFICES ASSUME scan' # "idle"
               PROVE  owed' = Unanswered(log') /\ (scan' # "answer" => owed' = {})
  BY DEF OwedIsUnanswered
<1>2. CASE SweepReads /\ Interrupted(log, expected)
  BY <1>2 DEF SweepReads
<1>3. ASSUME NEW c \in Calls, AnswerCall(c)
      PROVE  owed' = Unanswered(log') /\ (scan' # "answer" => owed' = {})
  <2>1. Result(c) \in Events /\ Result(c).ev = "result" /\ Result(c).calls = {c}
    BY EventTypes DEF Result
  <2>2. Unanswered(Append(log, Result(c))) = Unanswered(log) \ {c}
    BY <1>0, <2>1, UnansweredAppend
  <2> QED BY <1>3, <2>2 DEF AnswerCall, OwedIsUnanswered
<1>4. CASE AppendNote \/ SayGivenUp
  <2>1. \A k \in {"note", "incident"} : Event(k) \in Events /\ Event(k).ev = k
    BY EventTypes DEF Kinds, Event
  <2>2. \A k \in {"note", "incident"} : Unanswered(Append(log, Event(k))) = Unanswered(log)
    BY <1>0, <2>1, UnansweredAppend
  <2> QED BY <1>4, <2>2 DEF AppendNote, SayGivenUp, OwedIsUnanswered
<1>5. CASE Decide
  <2>1. scan = "decide" /\ log' = log /\ owed' = owed
    BY <1>1, <1>5 DEF Decide, ScanOver
  <2> QED BY <2>1 DEF OwedIsUnanswered
<1>6. CASE UNCHANGED <<log, scan, owed, snap>> /\ scan # "idle"
  BY <1>6 DEF OwedIsUnanswered
<1> QED BY <1>1, <1>2, <1>3, <1>4, <1>5, <1>6, ScanSteps

\* Only replies and results count as work.
LEMMA WroteAppend ==
    ASSUME NEW l \in Seq(Events), NEW e \in Events, NEW n, e.ev \notin Work
    PROVE  Wrote(Append(l, e), n) <=> Wrote(l, n)
<1> DEFINE a == Append(l, e)
<1>1. /\ DOMAIN a = 1..(Len(l) + 1) /\ DOMAIN l = 1..Len(l) /\ Len(l) \in Nat
      /\ a[Len(l) + 1] = e /\ \A i \in 1..Len(l) : a[i] = l[i]
  OBVIOUS
<1> HIDE DEF a
<1>2. Wrote(a, n) <=> Wrote(l, n)
  BY <1>1 DEF Wrote
<1> QED BY <1>2 DEF a

\* What leaves the counts alone and writes no work.
LEMMA TriedFrame ==
    ASSUME TypeOK, Tried,
           \/ log' = log
           \/ \E e \in Events : /\ log' = Append(log, e)
                                /\ e.ev \in {"user", "started", "note", "incident"},
           UNCHANGED <<mark, fruitless, attempts>>,
           scan' = "idle" \/ (scan # "idle" /\ snap' = snap),
           worker' = worker \/ worker' \notin {"settle", "halt"}
    PROVE  Tried'
<1>0. log \in Seq(Events)
  BY TypeParts
<1>1. /\ Unanswered(log') = Unanswered(log)
      /\ Wrote(log', mark) <=> Wrote(log, mark)
      /\ Wrote(log', snap) <=> Wrote(log, snap)
  <2>1. CASE log' = log
    BY <2>1
  <2>2. ASSUME NEW e \in Events, log' = Append(log, e), e.ev \in {"user", "started", "note", "incident"}
        PROVE  /\ Unanswered(log') = Unanswered(log)
               /\ Wrote(log', mark) <=> Wrote(log, mark)
               /\ Wrote(log', snap) <=> Wrote(log, snap)
    <3>1. e.ev \notin Work /\ e.ev # "said" /\ e.ev # "result"
      BY <2>2 DEF Work
    <3>2. Unanswered(Append(log, e)) = Unanswered(log)
      BY <1>0, <3>1, UnansweredAppend
    <3>3. \A n : Wrote(Append(log, e), n) <=> Wrote(log, n)
      BY <1>0, <3>1, WroteAppend
    <3> QED BY <2>2, <3>2, <3>3
  <2> QED BY <2>1, <2>2
<1>2. (fruitless > 0 => mark # 0 /\ Unanswered(log) = {})'
  BY <1>1 DEF Tried
<1>3. (scan # "idle" => snap # 0)'
  BY DEF Tried
<1>4. (scan # "idle" /\ Wrote(log, snap) => fruitless = 0)'
  BY <1>1 DEF Tried
<1>5. (Wrote(log, mark) => fruitless <= 1)'
  BY <1>1 DEF Tried
<1>6. (fruitless <= attempts + 1)' /\ (worker \in {"settle", "halt"} => fruitless = 0)'
  BY DEF Tried
<1> QED BY <1>2, <1>3, <1>4, <1>5, <1>6 DEF Tried

\* A turn or a repair that got somewhere starts over.
LEMMA TriedReset ==
    ASSUME TypeOK', Tried, fruitless' = 0, scan' = "idle" \/ (scan # "idle" /\ snap' = snap)
    PROVE  Tried'
<1>1. attempts' \in Nat
  BY ConstantsAssumption DEF TypeOK
<1>2. (scan # "idle" => snap # 0)'
  BY DEF Tried
<1>3. ~(fruitless' > 0) /\ fruitless' <= 1 /\ fruitless' <= attempts' + 1
  <2>1. \A n \in Nat : ~(0 > 0) /\ 0 <= 1 /\ 0 <= n + 1
    OBVIOUS
  <2> QED BY <1>1, <2>1
<1> QED BY <1>2, <1>3 DEF Tried

\* Every step keeps the count of fruitless resumes within the attempts on record.
LEMMA TriedStep ==
    ASSUME TypeOK, TypeOK', ScanAlone, OwedIsUnanswered, Tried, [Next]_vars
    PROVE  Tried'
<1>0. log \in Seq(Events) /\ PlacesOK /\ NumbersOK /\ FlagsOK
  BY TypeParts
<1>1. CASE (\E cs \in SUBSET Calls : Say(cs)) \/ (\E c \in Calls : Answer(c)) \/ Finish \/ CloseTurn
  <2>1. fruitless' = 0 /\ (scan' = "idle" \/ (scan # "idle" /\ snap' = snap))
    BY <1>1 DEF Say, Answer, Finish, FinishOk, FinishStopped, FinishFailed, CloseTurn, ScanOver, gateway
  <2> QED BY <2>1, TriedReset
<1>2. CASE \E c \in Calls : AnswerCall(c)
  <2>1. fruitless' = fruitless /\ scan # "idle" /\ owed # {} /\ snap' = snap
    BY <1>2 DEF AnswerCall, ghosts
  <2>2. Unanswered(log) # {}
    BY <2>1 DEF OwedIsUnanswered
  <2>3. fruitless = 0
    BY <1>0, <2>2 DEF Tried, NumbersOK
  <2> QED BY <2>1, <2>3, TriedReset
<1>3. CASE Settle
  <2>1. fruitless = 0
    BY <1>3 DEF Settle, Tried
  <2>2. fruitless' = fruitless /\ (scan' = "idle" \/ (scan # "idle" /\ snap' = snap))
    BY <1>3 DEF Settle, gateway, ghosts
  <2> QED BY <2>1, <2>2, TriedReset
<1>4. CASE Submit \/ StartTurn \/ Notice \/ Fail \/ BuildEnds \/ AppendNote \/ SayGivenUp \/ Restart \/ Crash
  <2>1. \A k \in {"user", "started", "note", "incident"} : Event(k) \in Events /\ Event(k).ev = k
    BY EventTypes DEF Kinds, Event
  <2>2. \/ log' = log
        \/ \E k \in {"user", "started", "note", "incident"} : log' = Append(log, Event(k))
    BY <1>4 DEF Submit, StartTurn, Notice, Fail, BuildEnds, AppendNote, SayGivenUp, Restart, Crash
  <2>3. UNCHANGED <<mark, fruitless, attempts>>
    BY <1>4 DEF Submit, StartTurn, Notice, Fail, BuildEnds, AppendNote, SayGivenUp, Restart, Crash,
                Dead, ghosts
  <2>4. scan' = "idle" \/ (scan # "idle" /\ snap' = snap)
    BY <1>4 DEF Submit, StartTurn, Notice, Fail, BuildEnds, AppendNote, SayGivenUp, Restart, Crash,
                Dead, gateway
  <2>5. worker' = worker \/ worker' \notin {"settle", "halt"}
    BY <1>4 DEF Submit, StartTurn, Notice, Fail, BuildEnds, AppendNote, SayGivenUp, Restart, Crash,
                Dead, process
  <2> QED BY <2>1, <2>2, <2>3, <2>4, <2>5, TriedFrame
<1>5. CASE \/ WorkerUp \/ WorkerRefused \/ Resume \/ ResumeLost \/ ReadAnchor \/ SweepSkips \/ ScanFails
           \/ Reap \/ GatewayCrash
           \/ (\E carry \in BOOLEAN : RequestRestart(carry)) \/ UNCHANGED vars
  <2>1. log' = log /\ UNCHANGED <<mark, fruitless, attempts>>
    BY <1>5 DEF WorkerUp, WorkerRefused, Resume, ResumeLost, ReadAnchor, SweepSkips, ScanFails, Reap,
                GatewayCrash,
                RequestRestart, Dead, vars, store, ghosts
  <2>2. scan' = "idle" \/ (scan # "idle" /\ snap' = snap)
    BY <1>5 DEF WorkerUp, WorkerRefused, Resume, ResumeLost, ReadAnchor, SweepSkips, ScanFails, Reap,
                GatewayCrash,
                RequestRestart, Dead, ScanOver, vars, gateway
  <2>3. worker' = worker \/ worker' \notin {"settle", "halt"}
    BY <1>5 DEF WorkerUp, WorkerRefused, Resume, ResumeLost, ReadAnchor, SweepSkips, ScanFails, Reap,
                GatewayCrash,
                RequestRestart, Dead, vars, process
  <2> QED BY <2>1, <2>2, <2>3, TriedFrame
<1>6. CASE SweepReads
  <2>1. log' = log /\ UNCHANGED <<mark, fruitless, attempts, worker>>
    BY <1>6 DEF SweepReads, ghosts, process
  <2>2. CASE ~Interrupted(log, expected)
    <3>1. scan' = "idle"
      BY <1>6, <2>2 DEF SweepReads
    <3> QED BY <2>1, <3>1, TriedFrame
  <2>3. CASE Interrupted(log, expected)
    <3>1. snap' = Len(log)
      BY <1>6, <2>3 DEF SweepReads
    <3>2. Len(log) # 0
      BY <1>0, <2>3, InterruptedOpen DEF FlagsOK
    <3>3. ~Wrote(log', snap')
      BY <1>0, <2>1, <3>1 DEF Wrote
    <3>4. (fruitless > 0 => mark # 0 /\ Unanswered(log) = {})' /\ (Wrote(log, mark) => fruitless <= 1)'
      BY <2>1 DEF Tried
    <3>5. (fruitless <= attempts + 1)' /\ (worker \in {"settle", "halt"} => fruitless = 0)'
      BY <2>1 DEF Tried
    <3> QED BY <3>1, <3>2, <3>3, <3>4, <3>5 DEF Tried
  <2> QED BY <2>2, <2>3
<1>7. CASE Decide
  <2> DEFINE done == Progressed(SubSeq(log, 1, snap))
             kept == IF done THEN 0 ELSE attempts
  <2>1. /\ scan = "decide" /\ log' = log /\ mark' = snap /\ worker' = worker
        /\ scan' = "idle" \/ (snap' = snap /\ fruitless' = fruitless)
    BY <1>7 DEF Decide, ScanOver, process
  <2>2. \/ fruitless' = fruitless /\ attempts' = kept
        \/ fruitless' = fruitless + 1 /\ attempts' = kept + 1
    BY <1>7 DEF Decide
  <2>3. done => Wrote(log, mark)
    <3>1. DOMAIN SubSeq(log, 1, snap) = 1..snap /\ DOMAIN log = 1..Len(log) /\ Len(log) \in Nat
          /\ snap \in 0..Len(log)
      BY <1>0 DEF PlacesOK
    <3>2. \A i \in 1..snap : SubSeq(log, 1, snap)[i] = log[i] /\ i \in 1..Len(log)
      BY <1>0, <3>1
    <3> QED BY <3>1, <3>2 DEF Progressed, Wrote, Work
  <2> HIDE DEF done
  <2>4. attempts \in Nat /\ fruitless \in Nat
    BY <1>0, ConstantsAssumption DEF NumbersOK
  <2>5. kept \in Nat /\ fruitless <= kept + 1
    <3>1. CASE done
      BY <2>3, <2>4, <3>1 DEF Tried
    <3>2. CASE ~done
      BY <2>4, <3>2 DEF Tried
    <3> QED BY <3>1, <3>2
  <2> HIDE DEF kept
  <2>6. (fruitless <= attempts + 1)'
    BY <2>2, <2>4, <2>5
  <2>7. snap # 0 /\ Unanswered(log) = {} /\ worker = "down"
    BY <2>1 DEF Tried, OwedIsUnanswered, ScanAlone
  <2>8. Wrote(log, snap) => fruitless = 0
    BY <2>1 DEF Tried
  <2>9. (Wrote(log, mark) => fruitless <= 1)'
    BY <2>1, <2>2, <2>4, <2>8
  <2>10. (scan # "idle" => snap # 0)' /\ (scan # "idle" /\ Wrote(log, snap) => fruitless = 0)'
    BY <2>1, <2>7, <2>8
  <2>11. (fruitless > 0 => mark # 0 /\ Unanswered(log) = {})'
    BY <2>1, <2>7
  <2>12. (worker \in {"settle", "halt"})' = FALSE
    BY <2>1, <2>7
  <2> QED BY <2>6, <2>9, <2>10, <2>11, <2>12 DEF Tried
<1> QED BY <1>1, <1>2, <1>3, <1>4, <1>5, <1>6, <1>7 DEF Next, Turn, Sweep, Deaths, Finish

-----------------------------------------------------------------------------
(* The theorems *)

\* The invariant holds at the start.
LEMMA RecoveryInit == Init => RecoveryInv
<1> SUFFICES ASSUME Init PROVE RecoveryInv
  OBVIOUS
<1>1. TypeOK
  BY TypeInit
<1>2. log \in Seq(Events) /\ log = <<>> /\ Len(log) = 0 /\ DOMAIN log = {}
  BY <1>1, TypeParts DEF Init
<1>3. ScanAlone /\ TurnOpen /\ AnchorSettled /\ OwedIsUnanswered
  BY DEF Init, ScanAlone, TurnOpen, AnchorSettled, OwedIsUnanswered
<1>4. OneTerminator
  BY <1>2 DEF OneTerminator
<1>5. LedgerExact
  <2>1. AddsUp(Totals(log), log, Len(log)) /\ Billed(log) = Totals(log)[Len(log)]
    BY <1>2, TotalsAddUp
  <2>2. Billed(log) = 0
    BY <1>2, <2>1 DEF AddsUp
  <2>3. LastOf(log, {"finished"}) = 0
    <3>1. LastOf(log, {"finished"}) \in 0..Len(log)
      BY <1>2, LastOfIs
    <3> QED BY <1>2, <3>1
  <2>4. Owing(log) = 0 /\ Spend(log, 0) = 0
    BY <1>2, <2>3, SpendAtEnd DEF Owing
  <2> QED BY <2>2, <2>4 DEF LedgerExact, Init
<1>6. Tried
  BY <1>2 DEF Tried, Init, Wrote
<1> QED BY <1>1, <1>3, <1>4, <1>5, <1>6 DEF RecoveryInv

\* And is kept by every step.
LEMMA RecoveryStep == ~SlowScan /\ RecoveryInv /\ [Next]_vars => RecoveryInv'
<1> SUFFICES ASSUME ~SlowScan, RecoveryInv, [Next]_vars PROVE RecoveryInv'
  OBVIOUS
<1> USE DEF RecoveryInv
<1>1. TypeOK'
  BY TypeStep
<1>2. ScanAlone'
  BY ScanAloneStep
<1>3. TurnOpen'
  BY <1>2, TurnOpenStep
<1>4. AnchorSettled'
  BY AnchorStep
<1>5. OneTerminator'
  BY OneTerminatorStep
<1>6. LedgerExact'
  BY LedgerStep
<1>7. OwedIsUnanswered'
  BY OwedStep
<1>8. Tried'
  BY <1>1, TriedStep
<1> QED BY <1>1, <1>2, <1>3, <1>4, <1>5, <1>6, <1>7, <1>8

\* So it always holds.
LEMMA RecoveryAlways == ASSUME ~SlowScan PROVE Spec => []RecoveryInv
<1>1. RecoveryInv /\ [Next]_vars => RecoveryInv'
  BY RecoveryStep
<1> QED BY <1>1, RecoveryInit, PTL DEF Spec

\* However turns end and die, and whatever repairs them, no turn is terminated twice.
THEOREM NoTurnEndsTwice == ASSUME ~SlowScan PROVE Spec => []OneTerminator
<1>1. RecoveryInv => OneTerminator
  BY DEF RecoveryInv
<1> QED BY <1>1, RecoveryAlways, PTL

\* Every assistant message is billed once, is still to be billed, or was written off
\* by the reconciliation that closed its turn.
THEOREM LedgerBalances == ASSUME ~SlowScan PROVE Spec => []LedgerExact
<1>1. RecoveryInv => LedgerExact
  BY DEF RecoveryInv
<1> QED BY <1>1, RecoveryAlways, PTL

\* A turn that keeps dying without getting anywhere is given up after
\* MAX_RESUME_ATTEMPTS resumes, or one more.
THEOREM FruitlessResumesEnd == ASSUME ~SlowScan PROVE Spec => []FruitlessBounded
<1>1. RecoveryInv => FruitlessBounded
  <2> SUFFICES ASSUME RecoveryInv PROVE fruitless <= MaxResumeAttempts + 1
    BY DEF FruitlessBounded
  <2>1. fruitless \in Nat /\ attempts \in 0..MaxResumeAttempts /\ MaxResumeAttempts \in Nat
    BY ConstantsAssumption DEF RecoveryInv, TypeOK
  <2>2. fruitless <= attempts + 1
    BY DEF RecoveryInv, Tried
  <2> QED BY <2>1, <2>2
<1> QED BY <1>1, RecoveryAlways, PTL

\* A resume is asked for only when every tool call in the log has its answer.
THEOREM ResumesAreRepaired == ASSUME ~SlowScan PROVE Spec => RepairedBeforeResume
<1>1. RecoveryInv /\ [Next]_vars => [wake' > wake => Unanswered(log') = {}]_vars
  <2> SUFFICES ASSUME RecoveryInv, [Next]_vars, wake' > wake PROVE Unanswered(log') = {}
    OBVIOUS
  <2>0. log \in Seq(Events) /\ wake \in Nat
    BY TypeParts DEF RecoveryInv, NumbersOK
  <2>1. Decide \/ CloseTurn
    <3>1. CASE ~(Decide \/ CloseTurn)
      <4>1. wake' \in {wake, 0, wake - 1}
        BY <3>1 DEF Next, Turn, Sweep, Deaths, ScanFails, WorkerUp, WorkerRefused, Submit, Resume,
           ResumeLost, ReadAnchor,
               StartTurn, Say, Answer, Notice, FinishOk, FinishStopped, Settle, Fail, FinishFailed,
               RequestRestart, BuildEnds, Dead, Reap, Restart, Crash, GatewayCrash, SweepSkips,
               SweepReads, AnswerCall, AppendNote, SayGivenUp, vars, gateway
      <4> QED BY <2>0, <4>1
    <3> QED BY <3>1
  <2>2. CASE Decide
    BY <2>2 DEF Decide, RecoveryInv, OwedIsUnanswered
  <2>3. CASE CloseTurn
    <3>1. Unanswered(log) = {}
      BY <2>3 DEF CloseTurn, RecoveryInv, OwedIsUnanswered
    <3>2. Closing \in Events /\ Closing.ev = "finished" /\ log' = Append(log, Closing)
      BY <2>3, Written DEF RecoveryInv
    <3> QED BY <2>0, <3>1, <3>2, UnansweredAppend
  <2> QED BY <2>1, <2>2, <2>3
<1> QED BY <1>1, RecoveryAlways, PTL DEF Spec, RepairedBeforeResume
=============================================================================
