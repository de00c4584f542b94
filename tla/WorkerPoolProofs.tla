--------------------------- MODULE WorkerPoolProofs ---------------------------
(***************************************************************************)
(* Proofs about the worker pool, for every number of tasks and workers,    *)
(* every number of crashes and at any point of a shutdown.                 *)
(***************************************************************************)
EXTENDS WorkerPool, FiniteSetTheorems, SequenceTheorems, TLAPS

-----------------------------------------------------------------------------
(* Counting idle workers.                                                  *)

\* The place of w among the workers of I, and the first n of them.
RankIn(I, w) == Cardinality({v \in I : v <= w})
FirstOf(I, n) == {w \in I : RankIn(I, w) <= n}

LEMMA WorkersAreFinite == ASSUME NEW I \in SUBSET Worker PROVE IsFiniteSet(I)
<1>1. IsFiniteSet(Worker)
  BY PoolSizeAssumption, FS_Interval DEF Worker
<1> QED
  BY <1>1, FS_Subset

\* Ranks tell workers apart and grow with them.
LEMMA RanksGrow ==
  ASSUME NEW I \in SUBSET Worker, NEW v \in I, NEW w \in I, v < w
  PROVE  RankIn(I, v) < RankIn(I, w)
<1> DEFINE A == {u \in I : u <= v}
           B == {u \in I : u <= w}
<1>0. I \subseteq Int
  BY PoolSizeAssumption DEF Worker
<1>1. IsFiniteSet(B) /\ A \in SUBSET B
  <2>1. B \in SUBSET Worker
    OBVIOUS
  <2>2. ASSUME NEW u \in A PROVE u \in B
    <3>1. u \in Int /\ v \in Int /\ w \in Int /\ u <= v
      BY <1>0
    <3> QED
      BY <3>1
  <2>3. IsFiniteSet(B)
    BY <2>1, WorkersAreFinite
  <2> QED
    BY <2>2, <2>3
<1>2. w \in B /\ w \notin A
  BY <1>0
<1>3. Cardinality(A) <= Cardinality(B) /\ (Cardinality(A) = Cardinality(B) => A = B)
  BY <1>1, FS_Subset
<1>4. Cardinality(A) \in Nat /\ Cardinality(B) \in Nat
  BY <1>1, FS_Subset, FS_CardinalityType
<1>5. Cardinality(A) < Cardinality(B)
  <2>1. A # B
    BY <1>2
  <2> HIDE DEF A, B
  <2> QED
    BY <1>3, <1>4, <2>1
<1> QED
  BY <1>5 DEF RankIn

\* The first n of I have the ranks 1, 2, ... up to their number, each once.
LEMMA FirstAreRanked ==
  ASSUME NEW I \in SUBSET Worker, NEW n \in Nat
  PROVE  LET k == Cardinality(FirstOf(I, n))
         IN  /\ k \in 0..n
             /\ \A w \in FirstOf(I, n) : RankIn(I, w) \in 1..k
             /\ \A v, w \in FirstOf(I, n) : RankIn(I, v) = RankIn(I, w) => v = w
             /\ \A i \in 1..k : \E w \in FirstOf(I, n) : RankIn(I, w) = i
<1> DEFINE F == FirstOf(I, n)
           k == Cardinality(F)
<1>0. I \subseteq Int
  BY PoolSizeAssumption DEF Worker
<1>1. F \in SUBSET I /\ IsFiniteSet(F) /\ k \in Nat
  <2>1. F \in SUBSET I /\ F \in SUBSET Worker
    BY DEF FirstOf
  <2> QED
    BY <2>1, WorkersAreFinite, FS_CardinalityType
<1>2. ASSUME NEW w \in I PROVE RankIn(I, w) \in Nat /\ RankIn(I, w) >= 1
  <2> DEFINE B == {u \in I : u <= w}
  <2>1. B \in SUBSET Worker /\ w \in B
    <3>1. w \in Int /\ w \in I
      BY <1>0
    <3>2. w <= w
      BY <3>1
    <3> QED
      BY <3>1, <3>2
  <2>2. IsFiniteSet(B) /\ B # {}
    BY <2>1, WorkersAreFinite
  <2>3. Cardinality(B) \in Nat /\ Cardinality(B) # 0
    BY <2>2, FS_CardinalityType, FS_EmptySet
  <2> HIDE DEF B
  <2>4. Cardinality(B) >= 1
    BY <2>3
  <2> QED
    BY <2>3, <2>4 DEF RankIn, B
<1>3. ASSUME NEW w \in F PROVE RankIn(I, w) \in 1..k
  <2> DEFINE B == {u \in I : u <= w}
  <2>1. w \in I /\ RankIn(I, w) <= n
    BY DEF FirstOf
  <2>2. ASSUME NEW u \in B PROVE u \in F
    <3>1. RankIn(I, u) <= RankIn(I, w)
      <4>1. u \in Int /\ w \in Int /\ u <= w
        BY <1>0, <2>1
      <4>2. CASE u = w
        BY <1>2, <2>1, <4>2
      <4>3. CASE u < w
        BY <1>2, <2>1, <4>3, RanksGrow
      <4> QED
        BY <4>1, <4>2, <4>3
    <3>2. RankIn(I, u) \in Nat /\ RankIn(I, w) \in Nat
      BY <1>2, <2>1
    <3> QED
      BY <2>1, <3>1, <3>2 DEF FirstOf
  <2>3. Cardinality(B) <= k
    BY <1>1, <2>2, FS_Subset
  <2>4. RankIn(I, w) <= k
    BY <2>3 DEF RankIn
  <2> QED
    BY <1>1, <1>2, <2>1, <2>4
<1>4. ASSUME NEW v \in F, NEW w \in F, RankIn(I, v) = RankIn(I, w) PROVE v = w
  <2>1. v \in I /\ w \in I /\ v \in Int /\ w \in Int
    BY <1>0, <1>1
  <2>2. ~(v < w) /\ ~(w < v)
    BY <1>2, <1>4, <2>1, RanksGrow
  <2> QED
    BY <2>1, <2>2
<1>5. ASSUME NEW i \in 1..k PROVE \E w \in F : RankIn(I, w) = i
  <2> DEFINE f == [w \in F |-> RankIn(I, w)]
  <2>1. f \in [F -> 1..k] /\ \A v, w \in F : f[v] = f[w] => v = w
    BY <1>3, <1>4
  <2>2. f \in Injection(F, 1..k)
    BY <2>1 DEF Injection, IsInjective
  <2>3. IsFiniteSet(1..k) /\ Cardinality(1..k) = k
    BY <1>1, FS_Interval
  <2>4. f \in Surjection(F, 1..k)
    BY <2>2, <2>3, FS_Injection
  <2> QED
    BY <2>1, <2>4 DEF Surjection
<1>6. k <= n
  <2>1. CASE k = 0
    BY <2>1
  <2>2. CASE k # 0
    <3>1. PICK w \in F : RankIn(I, w) = k
      BY <1>1, <1>5, <2>2
    <3> QED
      BY <3>1 DEF FirstOf
  <2> QED
    BY <2>1, <2>2
<1> HIDE DEF F
<1> QED
  BY <1>1, <1>3, <1>4, <1>5, <1>6 DEF F

-----------------------------------------------------------------------------
(* The inductive invariant.                                                *)

TaskStates == {"new", "waiting", "assigned"} \cup Settled
Answers == {"ok", "failed"}

\* The slots sl, the promises tk and the registered listeners q agree.
PlacesOf(sl, tk, q) ==
  /\ \A v, w \in Worker : sl[v] = sl[w] /\ sl[v] # NoTask => v = w
  /\ \A w \in Worker : sl[w] # NoTask => tk[sl[w]] = "assigned"
  /\ \A t \in Task : tk[t] = "assigned" => \E w \in Worker : sl[w] = t
  /\ \A i, j \in DOMAIN q : q[i] = q[j] => i = j
  /\ \A i \in DOMAIN q : tk[q[i]] = "waiting"
  /\ \A t \in Task : tk[t] = "waiting" => \E i \in DOMAIN q : q[i] = t

\* At most one message is between a worker and the main thread, it is about the
\* task in the worker's slot, and it is the first of what is to be handled. A
\* thread that is up has no crash behind it that was not handled.
LineOf(s, th, in, ev) ==
  /\ in # <<>> => in = <<s>> /\ th = "up" /\ ev = <<>>
  /\ \A i \in DOMAIN ev : ev[i].kind \in Answers => i = 1 /\ ev[i].id = s
  /\ \A i \in DOMAIN ev : ev[i].kind = "exit" => i = Len(ev)
  /\ th = "up" => \A i \in DOMAIN ev : ev[i].kind \in Answers
Line(w) == LineOf(slot[w], thread[w], inbox[w], events[w])

Places == PlacesOf(slot, task, waiters)
OwnResults == \A t \in Task : result[t] # NoTask => result[t] = t

PoolInv == TypeOK /\ Places /\ (\A w \in Worker : Line(w)) /\ OwnResults

\* Everything is empty at first.
LEMMA InitPoolInv == Init => PoolInv
<1> SUFFICES ASSUME Init PROVE PoolInv
  OBVIOUS
<1>1. TypeOK
  BY MaxCrashesAssumption DEF Init, TypeOK, Settled
<1>2. Places /\ OwnResults
  BY NoTaskAssumption DEF Init, Places, PlacesOf, OwnResults
<1>3. \A w \in Worker : Line(w)
  BY DEF Init, Line, LineOf
<1> QED
  BY <1>1, <1>2, <1>3 DEF PoolInv

-----------------------------------------------------------------------------
(* Handing tasks to workers.                                               *)

\* ExecuteAll, with the workers it takes and their ranks named.
Taken(q, sl) == FirstOf(Idle(sl), Len(q))
Given(q, sl, w) == q[RankIn(Idle(sl), w)]

Rest(q, sl) == SubSeq(q, Cardinality(Taken(q, sl)) + 1, Len(q))

LEMMA ExecuteAllIs ==
  ASSUME NEW q, NEW sl, NEW tk, ExecuteAll(q, sl, tk)
  PROVE  /\ slot' = [w \in Worker |-> IF w \in Taken(q, sl) THEN Given(q, sl, w) ELSE sl[w]]
         /\ inbox' = [w \in Worker |->
              IF w \in Taken(q, sl) /\ thread[w] = "up" THEN Append(inbox[w], Given(q, sl, w)) ELSE inbox[w]]
         /\ waiters' = Rest(q, sl)
         /\ task' = [t \in Task |->
              IF t \in {Given(q, sl, w) : w \in Taken(q, sl)} THEN "assigned"
              ELSE IF \E i \in DOMAIN Rest(q, sl) : Rest(q, sl)[i] = t THEN "waiting" ELSE tk[t]]
BY DEF ExecuteAll, Taken, Given, FirstOf, RankIn, Rest

\* The tasks given out are the first k of the queue, each to one worker.
LEMMA GivenOut ==
  ASSUME NEW q \in Seq(Task), NEW sl, NEW k, k = Cardinality(Taken(q, sl))
  PROVE  /\ k \in 0..Len(q)
         /\ Taken(q, sl) \subseteq Worker /\ \A w \in Taken(q, sl) : sl[w] = NoTask
         /\ \A w \in Taken(q, sl) : RankIn(Idle(sl), w) \in 1..k
         /\ \A v, w \in Taken(q, sl) : RankIn(Idle(sl), v) = RankIn(Idle(sl), w) => v = w
         /\ \A i \in 1..k : \E w \in Taken(q, sl) : Given(q, sl, w) = q[i]
<1> DEFINE I == Idle(sl)
           F == FirstOf(I, Len(q))
<1>1. I \in SUBSET Worker /\ Len(q) \in Nat
  BY DEF Idle
<1>2. F \subseteq I /\ \A w \in I : sl[w] = NoTask
  BY DEF FirstOf, Idle
<1>3. k = Cardinality(F) /\ Taken(q, sl) = F
  BY DEF Taken
<1>4. \A w \in F : Given(q, sl, w) = q[RankIn(I, w)]
  BY DEF Given
<1> HIDE DEF I
<1>5. /\ Cardinality(F) \in 0..Len(q)
      /\ \A w \in F : RankIn(I, w) \in 1..Cardinality(F)
      /\ \A v, w \in F : RankIn(I, v) = RankIn(I, w) => v = w
      /\ \A i \in 1..Cardinality(F) : \E w \in F : RankIn(I, w) = i
  BY <1>1, FirstAreRanked
<1> HIDE DEF F
<1>6. \A i \in 1..k : \E w \in F : Given(q, sl, w) = q[i]
  BY <1>3, <1>4, <1>5
<1> QED
  BY <1>1, <1>2, <1>3, <1>5, <1>6 DEF I

\* It keeps slots, promises and listeners in agreement.
LEMMA ExecuteAllKeepsPlaces ==
  ASSUME NEW q \in Seq(Task), NEW sl \in [Worker -> Task \cup {NoTask}], NEW tk \in [Task -> TaskStates],
         PlacesOf(sl, tk, q), ExecuteAll(q, sl, tk)
  PROVE  /\ slot' \in [Worker -> Task \cup {NoTask}] /\ task' \in [Task -> TaskStates] /\ waiters' \in Seq(Task)
         /\ Places'
         /\ \A w \in Worker :
              \/ slot'[w] = sl[w] /\ inbox'[w] = inbox[w]
              \/ /\ sl[w] = NoTask /\ slot'[w] \in Task
                 /\ inbox'[w] = IF thread[w] = "up" THEN Append(inbox[w], slot'[w]) ELSE inbox[w]
<1> DEFINE T == Taken(q, sl)
           k == Cardinality(T)
           rest == Rest(q, sl)
           g(w) == Given(q, sl, w)
           rank(w) == RankIn(Idle(sl), w)
\* What agrees before.
<1>a. /\ \A v, w \in Worker : sl[v] = sl[w] /\ sl[v] # NoTask => v = w
      /\ \A w \in Worker : sl[w] # NoTask => tk[sl[w]] = "assigned"
      /\ \A t \in Task : tk[t] = "assigned" => \E w \in Worker : sl[w] = t
  BY DEF PlacesOf
<1>b. /\ \A i, j \in DOMAIN q : q[i] = q[j] => i = j
      /\ \A i \in DOMAIN q : tk[q[i]] = "waiting"
      /\ \A t \in Task : tk[t] = "waiting" => \E i \in DOMAIN q : q[i] = t
  BY DEF PlacesOf
<1>1. /\ slot' = [w \in Worker |-> IF w \in T THEN g(w) ELSE sl[w]]
      /\ inbox' = [w \in Worker |-> IF w \in T /\ thread[w] = "up" THEN Append(inbox[w], g(w)) ELSE inbox[w]]
      /\ waiters' = rest
      /\ task' = [t \in Task |-> IF t \in {g(w) : w \in T} THEN "assigned"
                                 ELSE IF \E i \in DOMAIN rest : rest[i] = t THEN "waiting" ELSE tk[t]]
  BY ExecuteAllIs
<1>c. /\ k \in 0..Len(q) /\ T \subseteq Worker /\ \A w \in T : sl[w] = NoTask
      /\ \A w \in T : rank(w) \in 1..k
      /\ \A v, w \in T : rank(v) = rank(w) => v = w
      /\ \A i \in 1..k : \E w \in T : g(w) = q[i]
  BY GivenOut
<1>d. \A w \in T : g(w) = q[rank(w)]
  BY DEF Given
<1>e. rest = SubSeq(q, k + 1, Len(q))
  BY DEF Rest
<1>f. DOMAIN q = 1..Len(q) /\ Len(q) \in Nat
  OBVIOUS
<1> HIDE DEF T, k, rest, g, rank
<1>2. /\ k \in 0..Len(q) /\ T \subseteq Worker /\ \A w \in T : sl[w] = NoTask
      /\ \A w \in T : \E i \in 1..k : g(w) = q[i]
      /\ \A i \in 1..k : \E w \in T : g(w) = q[i]
  BY <1>c, <1>d
<1>3. \A v, w \in T : g(v) = g(w) => v = w
  <2> SUFFICES ASSUME NEW v \in T, NEW w \in T, g(v) = g(w) PROVE v = w
    OBVIOUS
  <2>1. rank(v) \in DOMAIN q /\ rank(w) \in DOMAIN q /\ q[rank(v)] = q[rank(w)]
    BY <1>c, <1>d, <1>f
  <2>2. rank(v) = rank(w)
    BY <1>b, <2>1
  <2> QED
    BY <1>c, <2>2
<1>4. rest \in Seq(Task) /\ Len(rest) = Len(q) - k /\ \A i \in 1..(Len(q) - k) : rest[i] = q[k + i]
  BY <1>2, <1>e
<1>5. DOMAIN q = 1..Len(q) /\ Len(q) \in Nat /\ DOMAIN rest = 1..(Len(q) - k) /\ k \in Nat
  BY <1>2, <1>4
\* A task given out had been waiting.
<1>6. \A w \in T : g(w) \in Task /\ tk[g(w)] = "waiting"
  BY <1>2, <1>5, <1>b
<1>7. slot' \in [Worker -> Task \cup {NoTask}] /\ task' \in [Task -> TaskStates]
  BY <1>1, <1>6 DEF TaskStates
<1>8. \A v, w \in Worker : slot'[v] = slot'[w] /\ slot'[v] # NoTask => v = w
  <2> SUFFICES ASSUME NEW v \in Worker, NEW w \in Worker, slot'[v] = slot'[w], slot'[v] # NoTask PROVE v = w
    OBVIOUS
  <2>1. slot'[v] = (IF v \in T THEN g(v) ELSE sl[v]) /\ slot'[w] = (IF w \in T THEN g(w) ELSE sl[w])
    BY <1>1
  <2>2. CASE v \in T /\ w \in T
    BY <1>3, <2>1, <2>2
  <2>3. CASE v \notin T /\ w \notin T
    <3>1. slot'[v] = sl[v] /\ slot'[w] = sl[w]
      BY <2>1, <2>3
    <3>2. sl[v] = sl[w] /\ sl[v] # NoTask
      BY <3>1
    <3> QED
      BY <3>2, <1>a
  <2>4. ASSUME NEW x \in T, NEW y \in Worker \ T, g(x) = sl[y] PROVE FALSE
    <3>1. sl[y] # NoTask
      BY <1>6, <2>4, NoTaskAssumption
    <3>2. tk[sl[y]] = "assigned"
      BY <3>1, <1>a, <1>b
    <3> QED
      BY <1>6, <2>4, <3>2
  <2> QED
    BY <2>1, <2>2, <2>3, <2>4
<1>9. \A w \in Worker : slot'[w] # NoTask => task'[slot'[w]] = "assigned"
  <2> SUFFICES ASSUME NEW w \in Worker, slot'[w] # NoTask PROVE task'[slot'[w]] = "assigned"
    OBVIOUS
  <2>1. CASE w \in T
    BY <1>1, <1>6, <2>1
  <2>2. CASE w \notin T
    <3>1. slot'[w] = sl[w] /\ sl[w] \in Task /\ tk[sl[w]] = "assigned"
      BY <1>1, <2>2, <1>a, <1>b
    <3>2. \A i \in DOMAIN rest : rest[i] # sl[w]
      <4> SUFFICES ASSUME NEW i \in DOMAIN rest, rest[i] = sl[w] PROVE FALSE
        OBVIOUS
      <4>1. k + i \in DOMAIN q /\ rest[i] = q[k + i]
        BY <1>2, <1>4, <1>5
      <4> QED
        BY <3>1, <4>1, <1>a, <1>b
    <3> QED
      BY <1>1, <3>1, <3>2
  <2> QED
    BY <2>1, <2>2
<1>10. \A t \in Task : task'[t] = "assigned" => \E w \in Worker : slot'[w] = t
  <2> SUFFICES ASSUME NEW t \in Task, task'[t] = "assigned" PROVE \E w \in Worker : slot'[w] = t
    OBVIOUS
  <2>1. CASE t \in {g(w) : w \in T}
    BY <1>1, <1>2, <2>1
  <2>2. CASE t \notin {g(w) : w \in T}
    <3>1. tk[t] = "assigned"
      BY <1>1, <2>2
    <3>2. PICK w \in Worker : sl[w] = t
      BY <3>1, <1>a, <1>b
    <3>3. w \notin T
      BY <1>2, <3>2, NoTaskAssumption
    <3> QED
      BY <1>1, <3>2, <3>3
  <2> QED
    BY <2>1, <2>2
<1>11. \A i, j \in DOMAIN rest : rest[i] = rest[j] => i = j
  <2> SUFFICES ASSUME NEW i \in DOMAIN rest, NEW j \in DOMAIN rest, rest[i] = rest[j] PROVE i = j
    OBVIOUS
  <2>1. k + i \in DOMAIN q /\ k + j \in DOMAIN q /\ q[k + i] = q[k + j] /\ i \in Nat /\ j \in Nat
    BY <1>2, <1>4, <1>5
  <2>2. k + i = k + j
    BY <2>1, <1>a, <1>b
  <2> QED
    BY <1>5, <2>1, <2>2
<1>12. \A i \in DOMAIN rest : rest[i] \in Task /\ rest[i] \notin {g(w) : w \in T} /\ task'[rest[i]] = "waiting"
  <2> SUFFICES ASSUME NEW i \in DOMAIN rest
               PROVE  rest[i] \in Task /\ rest[i] \notin {g(w) : w \in T} /\ task'[rest[i]] = "waiting"
    OBVIOUS
  <2>1. k + i \in DOMAIN q /\ rest[i] = q[k + i] /\ i \in Nat /\ i > 0
    BY <1>2, <1>4, <1>5
  <2>2. rest[i] \notin {g(w) : w \in T}
    <3> SUFFICES ASSUME NEW w \in T, rest[i] = g(w) PROVE FALSE
      OBVIOUS
    <3>1. PICK j \in 1..k : g(w) = q[j]
      BY <1>2
    <3>2. j \in DOMAIN q /\ j \in Nat /\ j <= k
      BY <1>2, <1>5
    <3>3. k + i = j
      BY <2>1, <3>1, <3>2, <1>a, <1>b
    <3> QED
      BY <1>5, <2>1, <3>2, <3>3
  <2>3. rest[i] \in Task
    BY <2>1, <1>5
  <2> QED
    BY <1>1, <2>2, <2>3
<1>13. \A t \in Task : task'[t] = "waiting" => \E i \in DOMAIN rest : rest[i] = t
  <2> SUFFICES ASSUME NEW t \in Task, task'[t] = "waiting" PROVE \E i \in DOMAIN rest : rest[i] = t
    OBVIOUS
  <2>1. CASE \E i \in DOMAIN rest : rest[i] = t
    BY <2>1
  <2>2. CASE ~\E i \in DOMAIN rest : rest[i] = t
    <3>1. t \notin {g(w) : w \in T} /\ tk[t] = "waiting"
      BY <1>1, <2>2
    <3>2. PICK i \in DOMAIN q : q[i] = t
      BY <3>1, <1>a, <1>b
    <3>3. ~(i <= k)
      BY <1>2, <1>5, <3>1, <3>2
    <3>4. i - k \in DOMAIN rest /\ rest[i - k] = t
      <4>1. i - k \in 1..(Len(q) - k) /\ k + (i - k) = i
        BY <1>5, <3>3
      <4> QED
        BY <1>4, <1>5, <3>2, <4>1
    <3> QED
      BY <3>4
  <2> QED
    BY <2>1, <2>2
<1>14. Places'
  <2>1. \A i \in DOMAIN rest : task'[rest[i]] = "waiting"
    BY <1>12
  <2>2. PlacesOf(slot', task', rest)
    BY <1>8, <1>9, <1>10, <1>11, <1>13, <2>1, Zenon DEF PlacesOf
  <2>3. waiters' = rest
    BY <1>1
  <2> QED
    BY <2>2, <2>3 DEF Places
<1>15. ASSUME NEW w \in Worker
       PROVE  \/ slot'[w] = sl[w] /\ inbox'[w] = inbox[w]
              \/ /\ sl[w] = NoTask /\ slot'[w] \in Task
                 /\ inbox'[w] = IF thread[w] = "up" THEN Append(inbox[w], slot'[w]) ELSE inbox[w]
  BY <1>1, <1>2, <1>6
<1> QED
  BY <1>1, <1>4, <1>7, <1>14, <1>15

-----------------------------------------------------------------------------
(* What happens to the line between a worker and the main thread.          *)

LEMMA AnswersNameTasks ==
  ASSUME NEW e \in Event, e.kind \in Answers
  PROVE  e.id \in Task
BY DEF Event, Message, Answers

\* A free worker has nothing under way; the task it is given is all there is.
LEMMA AssignedLine ==
  ASSUME NEW th \in {"up", "dead"}, NEW in \in Seq(Task), NEW ev \in Seq(Event), LineOf(NoTask, th, in, ev),
         NEW u \in Task
  PROVE  /\ in = <<>>
         /\ LineOf(u, th, IF th = "up" THEN Append(in, u) ELSE in, ev)
<1>1. in = <<>>
  <2> SUFFICES ASSUME in # <<>> PROVE FALSE
    OBVIOUS
  <2>1. in[1] \in Task /\ in = <<NoTask>>
    BY DEF LineOf
  <2> QED
    BY <2>1, NoTaskAssumption
<1>2. \A i \in DOMAIN ev : ev[i].kind \notin Answers
  <2> SUFFICES ASSUME NEW i \in DOMAIN ev, ev[i].kind \in Answers PROVE FALSE
    OBVIOUS
  <2>1. ev[i] \in Event /\ ev[i].id = NoTask
    BY DEF LineOf
  <2> QED
    BY <2>1, AnswersNameTasks, NoTaskAssumption
<1>3. CASE th = "up"
  <2>1. ev = <<>>
    BY <1>2, <1>3 DEF LineOf
  <2>2. Append(in, u) = <<u>>
    BY <1>1
  <2> QED
    BY <1>1, <1>3, <2>1, <2>2 DEF LineOf
<1>4. CASE th # "up"
  BY <1>1, <1>2, <1>4 DEF LineOf
<1> QED
  BY <1>1, <1>3, <1>4

\* The result of the task in the slot replaces the task.
LEMMA RunLine ==
  ASSUME NEW s, NEW in \in Seq(Task), NEW ev \in Seq(Event), LineOf(s, "up", in, ev), in # <<>>,
         NEW kind \in Answers
  PROVE  /\ [kind |-> kind, id |-> Head(in)] \in Event
         /\ LineOf(s, "up", Tail(in), Append(ev, [kind |-> kind, id |-> Head(in)]))
<1>1. in = <<s>> /\ ev = <<>>
  BY DEF LineOf
<1>2. Head(in) = s /\ s \in Task /\ Tail(in) = <<>>
  <2>1. Head(in) \in Task
    OBVIOUS
  <2> QED
    BY <1>1, <2>1
<1> DEFINE m == [kind |-> kind, id |-> s]
<1>3. Append(ev, m) = <<m>>
  BY <1>1
<1>4. m.kind = kind /\ m.id = s /\ kind # "exit"
  BY DEF Answers
<1>5. m \in Event
  BY <1>2 DEF Event, Message, Answers
<1> HIDE DEF m
<1>6. LineOf(s, "up", <<>>, <<m>>)
  BY <1>4 DEF LineOf
<1> QED
  BY <1>2, <1>3, <1>5, <1>6 DEF m

\* A thread that is up has at most a message outstanding.
LEMMA UpLine ==
  ASSUME NEW s, NEW in, NEW ev \in Seq(Event), LineOf(s, "up", in, ev)
  PROVE  Len(ev) <= 1 /\ \A i \in DOMAIN ev : i = 1 /\ ev[i].kind \in Answers /\ ev[i].id = s
<1>1. \A i \in DOMAIN ev : i = 1 /\ ev[i].kind \in Answers /\ ev[i].id = s
  BY DEF LineOf
<1>2. DOMAIN ev = 1..Len(ev) /\ Len(ev) \in Nat
  OBVIOUS
<1>3. ~(Len(ev) > 1)
  <2> SUFFICES ASSUME Len(ev) > 1 PROVE FALSE
    OBVIOUS
  <2>1. 2 \in DOMAIN ev
    BY <1>2
  <2> QED
    BY <1>1, <2>1
<1> QED
  BY <1>1, <1>2, <1>3

ErrorEvent == [kind |-> "error"]
ExitEvent == [kind |-> "exit"]

\* A crash puts 'error' and 'exit' behind it.
LEMMA CrashLine ==
  ASSUME NEW s, NEW in, NEW ev \in Seq(Event), LineOf(s, "up", in, ev)
  PROVE  /\ ev \o <<ErrorEvent, ExitEvent>> \in Seq(Event)
         /\ LineOf(s, "dead", <<>>, ev \o <<ErrorEvent, ExitEvent>>)
<1> DEFINE two == <<ErrorEvent, ExitEvent>>
           new == ev \o two
<1>1. ErrorEvent \in Event /\ ExitEvent \in Event /\ ErrorEvent.kind = "error" /\ ExitEvent.kind = "exit"
  BY DEF ErrorEvent, ExitEvent, Event
<1>2. two \in Seq(Event) /\ Len(two) = 2 /\ two[1] = ErrorEvent /\ two[2] = ExitEvent
  BY <1>1
<1>3. Len(ev) \in Nat /\ Len(ev) <= 1 /\ \A i \in DOMAIN ev : i = 1 /\ ev[i].kind \in Answers /\ ev[i].id = s
  BY UpLine
<1> HIDE DEF two
<1>4. /\ new \in Seq(Event) /\ Len(new) = Len(ev) + 2
      /\ \A i \in 1..Len(ev) : new[i] = ev[i]
      /\ new[Len(ev) + 1] = ErrorEvent /\ new[Len(ev) + 2] = ExitEvent
  <2>1. new \in Seq(Event) /\ Len(new) = Len(ev) + Len(two)
    BY <1>2, ConcatProperties
  <2>3. \A i \in 1..(Len(ev) + Len(two)) : new[i] = IF i <= Len(ev) THEN ev[i] ELSE two[i - Len(ev)]
    BY <1>2, ConcatProperties
  <2> HIDE DEF new
  <2>4. \A i \in 1..Len(ev) : new[i] = ev[i]
    BY <1>2, <1>3, <2>3
  <2>5. new[Len(ev) + 1] = two[1]
    BY <1>2, <1>3, <2>3
  <2>6. new[Len(ev) + 2] = two[2]
    BY <1>2, <1>3, <2>3
  <2> QED
    BY <1>2, <2>1, <2>4, <2>5, <2>6
<1> HIDE DEF new
<1>5. ASSUME NEW i \in DOMAIN new
      PROVE  /\ new[i].kind \in Answers => i = 1 /\ new[i].id = s
             /\ new[i].kind = "exit" => i = Len(new)
  <2>1. i \in 1..Len(ev) \/ i = Len(ev) + 1 \/ i = Len(ev) + 2
    BY <1>3, <1>4
  <2>2. CASE i \in 1..Len(ev)
    <3>1. new[i] = ev[i] /\ i \in DOMAIN ev
      BY <1>4, <2>2
    <3> QED
      BY <1>3, <3>1 DEF Answers
  <2>3. CASE i = Len(ev) + 1
    BY <1>1, <1>4, <2>3 DEF Answers
  <2>4. CASE i = Len(ev) + 2
    BY <1>1, <1>4, <2>4 DEF Answers
  <2> QED
    BY <2>1, <2>2, <2>3, <2>4
<1>6. LineOf(s, "dead", <<>>, new)
  BY <1>5 DEF LineOf
<1> QED
  BY <1>4, <1>6 DEF new, two

\* terminate() puts 'exit' behind it, unless it is dead already.
LEMMA TerminateLine ==
  ASSUME NEW s, NEW th \in {"up", "dead"}, NEW in, NEW ev \in Seq(Event), LineOf(s, th, in, ev)
  PROVE  LET new == IF th = "up" THEN Append(ev, ExitEvent) ELSE ev
         IN  new \in Seq(Event) /\ LineOf(s, "dead", <<>>, new)
<1>1. CASE th = "up"
  <2> DEFINE new == Append(ev, ExitEvent)
  <2>1. ExitEvent \in Event /\ ExitEvent.kind = "exit"
    BY DEF ExitEvent, Event
  <2>2. Len(ev) \in Nat /\ \A i \in DOMAIN ev : i = 1 /\ ev[i].kind \in Answers /\ ev[i].id = s
    BY <1>1, UpLine
  <2>3. /\ new \in Seq(Event) /\ Len(new) = Len(ev) + 1
        /\ (\A i \in 1..Len(ev) : new[i] = ev[i]) /\ new[Len(ev) + 1] = ExitEvent
    BY <2>1
  <2> HIDE DEF new
  <2>4. ASSUME NEW i \in DOMAIN new
        PROVE  /\ new[i].kind \in Answers => i = 1 /\ new[i].id = s
               /\ new[i].kind = "exit" => i = Len(new)
    <3>1. CASE i \in 1..Len(ev)
      <4>1. new[i] = ev[i] /\ i \in DOMAIN ev
        BY <2>3, <3>1
      <4> QED
        BY <2>2, <4>1 DEF Answers
    <3>2. CASE i \notin 1..Len(ev)
      <4>1. i = Len(ev) + 1
        BY <2>2, <2>3, <3>2
      <4> QED
        BY <2>1, <2>3, <4>1 DEF Answers
    <3> QED
      BY <3>1, <3>2
  <2>5. LineOf(s, "dead", <<>>, new)
    BY <2>4 DEF LineOf
  <2> QED
    BY <1>1, <2>3, <2>5 DEF new
<1>2. CASE th = "dead"
  <2>1. LineOf(s, "dead", <<>>, ev)
    BY <1>2 DEF LineOf
  <2> QED
    BY <1>2, <2>1
<1> QED
  BY <1>1, <1>2

\* The first event is taken off. A message is about the task in the slot, and
\* the slot is free then; 'error' frees it too; 'exit' was the last event.
LEMMA HandledLine ==
  ASSUME NEW s, NEW th \in {"up", "dead"}, NEW in, NEW ev \in Seq(Event), LineOf(s, th, in, ev), ev # <<>>
  PROVE  /\ Tail(ev) \in Seq(Event) /\ in = <<>>
         /\ Head(ev).kind \in Answers =>
              Head(ev).id = s /\ s \in Task /\ LineOf(NoTask, th, in, Tail(ev))
         /\ Head(ev).kind = "error" => LineOf(NoTask, th, in, Tail(ev)) /\ LineOf(s, th, in, Tail(ev))
         /\ Head(ev).kind = "exit" => LineOf(s, "up", <<>>, Tail(ev))
<1> DEFINE rest == Tail(ev)
<1>1. /\ Head(ev) = ev[1] /\ 1 \in DOMAIN ev /\ ev[1] \in Event
      /\ rest \in Seq(Event) /\ Len(rest) = Len(ev) - 1 /\ Len(ev) \in Nat
      /\ \A i \in DOMAIN rest : rest[i] = ev[i + 1] /\ i + 1 \in DOMAIN ev /\ i + 1 # 1
  <2>1. Len(ev) > 0 /\ Len(ev) \in Nat
    OBVIOUS
  <2>2. rest \in Seq(Event) /\ Len(rest) = Len(ev) - 1 /\ \A i \in 1..(Len(ev) - 1) : rest[i] = ev[i + 1]
    BY <2>1
  <2> HIDE DEF rest
  <2>3. DOMAIN rest = 1..(Len(ev) - 1)
    BY <2>1, <2>2
  <2> QED
    BY <2>1, <2>2, <2>3
<1>2. in = <<>>
  BY DEF LineOf
<1> HIDE DEF rest
<1>3. \A i \in DOMAIN rest : rest[i].kind \notin Answers /\ (rest[i].kind = "exit" => i = Len(rest))
  <2> SUFFICES ASSUME NEW i \in DOMAIN rest
               PROVE  rest[i].kind \notin Answers /\ (rest[i].kind = "exit" => i = Len(rest))
    OBVIOUS
  <2>1. /\ ev[i + 1].kind \in Answers => i + 1 = 1
        /\ ev[i + 1].kind = "exit" => i + 1 = Len(ev)
    BY <1>1 DEF LineOf
  <2>2. i \in Nat
    BY <1>1
  <2> QED
    BY <1>1, <2>1, <2>2
<1>4. CASE Head(ev).kind \in Answers
  <2>1. ev[1].id = s /\ s \in Task
    BY <1>1, <1>4, AnswersNameTasks DEF LineOf
  <2>2. th = "up" => \A i \in DOMAIN rest : rest[i].kind \in Answers
    BY <1>1 DEF LineOf
  <2>3. LineOf(NoTask, th, in, rest)
    BY <1>2, <1>3, <2>2 DEF LineOf
  <2> QED
    BY <1>1, <1>2, <1>4, <2>1, <2>3 DEF rest, Answers
<1>5. CASE Head(ev).kind = "error"
  <2>1. th # "up"
    BY <1>1, <1>5 DEF LineOf, Answers
  <2>2. LineOf(NoTask, th, in, rest) /\ LineOf(s, th, in, rest)
    BY <1>2, <1>3, <2>1 DEF LineOf
  <2> QED
    BY <1>1, <1>2, <1>5, <2>2 DEF rest, Answers
<1>6. CASE Head(ev).kind = "exit"
  <2>1. Len(ev) = 1
    BY <1>1, <1>6 DEF LineOf
  <2>2. rest = <<>>
    BY <1>1, <2>1
  <2>3. LineOf(s, "up", <<>>, <<>>)
    BY DEF LineOf
  <2> QED
    BY <1>1, <1>2, <1>6, <2>2, <2>3 DEF rest, Answers
<1>7. CASE Head(ev).kind \notin Answers \cup {"error", "exit"}
  BY <1>1, <1>2, <1>7 DEF rest
<1> QED
  BY <1>4, <1>5, <1>6, <1>7

-----------------------------------------------------------------------------
(* Every action keeps the invariant.                                       *)

\* What a line says after a step, from what it is made of then.
LEMMA LineAfter ==
  ASSUME NEW w \in Worker, LineOf(slot'[w], thread'[w], inbox'[w], events'[w])
  PROVE  Line(w)'
BY DEF Line, LineOf

LEMMA SameLine ==
  ASSUME NEW w \in Worker, Line(w), slot'[w] = slot[w], thread'[w] = thread[w], inbox'[w] = inbox[w],
         events'[w] = events[w]
  PROVE  Line(w)'
BY DEF Line, LineOf

\* The same of a worker's line.
LEMMA WorkerHandled ==
  ASSUME PoolInv, NEW w \in Worker, events[w] # <<>>
  PROVE  /\ Tail(events[w]) \in Seq(Event) /\ inbox[w] = <<>>
         /\ Head(events[w]).kind \in Answers =>
              Head(events[w]).id = slot[w] /\ slot[w] \in Task /\ LineOf(NoTask, thread[w], inbox[w], Tail(events[w]))
         /\ Head(events[w]).kind = "error" =>
              /\ LineOf(NoTask, thread[w], inbox[w], Tail(events[w]))
              /\ LineOf(slot[w], thread[w], inbox[w], Tail(events[w]))
         /\ Head(events[w]).kind = "exit" => LineOf(slot[w], "up", <<>>, Tail(events[w]))
<1> DEFINE s == slot[w]
           th == thread[w]
           in == inbox[w]
           ev == events[w]
<1>1. th \in {"up", "dead"} /\ ev \in Seq(Event) /\ LineOf(s, th, in, ev) /\ ev # <<>>
  BY DEF PoolInv, Line, TypeOK
<1> HIDE DEF s, th, in, ev
<1>2. /\ Tail(ev) \in Seq(Event) /\ in = <<>>
      /\ Head(ev).kind \in Answers =>
           Head(ev).id = s /\ s \in Task /\ LineOf(NoTask, th, in, Tail(ev))
      /\ Head(ev).kind = "error" => LineOf(NoTask, th, in, Tail(ev)) /\ LineOf(s, th, in, Tail(ev))
      /\ Head(ev).kind = "exit" => LineOf(s, "up", <<>>, Tail(ev))
  BY <1>1, HandledLine, Zenon
<1> QED
  BY <1>2, Zenon DEF s, th, in, ev

\* The task of a worker is settled and its slot freed.
LEMMA FreedPlaces ==
  ASSUME TypeOK, Places, NEW w \in Worker, slot[w] # NoTask, NEW st \in Settled
  PROVE  LET freed == [slot EXCEPT ![w] = NoTask]
             settled == [task EXCEPT ![slot[w]] = st]
         IN  /\ freed \in [Worker -> Task \cup {NoTask}] /\ settled \in [Task -> TaskStates]
             /\ PlacesOf(freed, settled, waiters)
<1> DEFINE freed == [slot EXCEPT ![w] = NoTask]
           settled == [task EXCEPT ![slot[w]] = st]
<1>1. slot[w] \in Task /\ task[slot[w]] = "assigned" /\ st # "assigned" /\ st # "waiting"
  BY DEF TypeOK, Places, PlacesOf, Settled
<1>2. /\ freed \in [Worker -> Task \cup {NoTask}] /\ settled \in [Task -> TaskStates]
      /\ \A v \in Worker : freed[v] = IF v = w THEN NoTask ELSE slot[v]
      /\ \A t \in Task : settled[t] = IF t = slot[w] THEN st ELSE task[t]
  BY <1>1 DEF TypeOK, TaskStates
<1>a. /\ \A v, x \in Worker : slot[v] = slot[x] /\ slot[v] # NoTask => v = x
      /\ \A v \in Worker : slot[v] # NoTask => task[slot[v]] = "assigned"
      /\ \A t \in Task : task[t] = "assigned" => \E v \in Worker : slot[v] = t
      /\ \A v \in Worker : slot[v] \in Task \cup {NoTask}
  BY DEF Places, PlacesOf, TypeOK
<1>b. /\ \A i, j \in DOMAIN waiters : waiters[i] = waiters[j] => i = j
      /\ \A i \in DOMAIN waiters : task[waiters[i]] = "waiting" /\ waiters[i] \in Task
      /\ \A t \in Task : task[t] = "waiting" => \E i \in DOMAIN waiters : waiters[i] = t
  BY DEF Places, PlacesOf, TypeOK
<1> HIDE DEF freed, settled
<1>3. \A v, x \in Worker : freed[v] = freed[x] /\ freed[v] # NoTask => v = x
  BY <1>2, <1>a
<1>4. \A v \in Worker : freed[v] # NoTask => settled[freed[v]] = "assigned"
  BY <1>1, <1>2, <1>a
<1>5. \A t \in Task : settled[t] = "assigned" => \E v \in Worker : freed[v] = t
  BY <1>1, <1>2, <1>a
<1>6. \A i \in DOMAIN waiters : settled[waiters[i]] = "waiting"
  BY <1>1, <1>2, <1>b
<1>7. \A t \in Task : settled[t] = "waiting" => \E i \in DOMAIN waiters : waiters[i] = t
  BY <1>1, <1>2, <1>b
<1> QED
  BY <1>2, <1>3, <1>4, <1>5, <1>6, <1>7, <1>b DEF PlacesOf, freed, settled

\* executeTask gives an idle worker the task, or registers its listener.
LEMMA ExecuteKeeps ==
  ASSUME PoolInv, NEW t \in Task, ExecuteTask(t)
  PROVE  PoolInv'
<1> USE DEF PoolInv
<1>u. UNCHANGED <<result, thread, events, phase, awaited, crashes>> /\ task[t] = "new"
  BY DEF ExecuteTask
<1>a. /\ \A v, x \in Worker : slot[v] = slot[x] /\ slot[v] # NoTask => v = x
      /\ \A v \in Worker : slot[v] # NoTask => task[slot[v]] = "assigned"
      /\ \A r \in Task : task[r] = "assigned" => \E v \in Worker : slot[v] = r
      /\ \A v \in Worker : slot[v] \in Task \cup {NoTask}
  BY DEF Places, PlacesOf, TypeOK
<1>b. /\ \A i, j \in DOMAIN waiters : waiters[i] = waiters[j] => i = j
      /\ \A i \in DOMAIN waiters : task[waiters[i]] = "waiting" /\ waiters[i] \in Task
      /\ \A r \in Task : task[r] = "waiting" => \E i \in DOMAIN waiters : waiters[i] = r
  BY DEF Places, PlacesOf, TypeOK
<1>1. CASE Idle(slot) # {}
  <2>1. PICK w \in Idle(slot) : /\ slot' = [slot EXCEPT ![w] = t]
                                /\ inbox' = IF thread[w] = "up" THEN [inbox EXCEPT ![w] = Append(@, t)] ELSE inbox
                                /\ task' = [task EXCEPT ![t] = "assigned"]
                                /\ waiters' = waiters
    BY <1>1 DEF ExecuteTask
  <2>2. w \in Worker /\ slot[w] = NoTask
    BY DEF Idle
  <2>3. /\ \A v \in Worker : slot'[v] = IF v = w THEN t ELSE slot[v]
        /\ \A r \in Task : task'[r] = IF r = t THEN "assigned" ELSE task[r]
        /\ \A v \in Worker : inbox'[v] = IF v = w /\ thread[w] = "up" THEN Append(inbox[v], t) ELSE inbox[v]
    BY <2>1, <2>2 DEF TypeOK
  <2>4. TypeOK'
    BY <1>u, <2>1, <2>2 DEF TypeOK
  <2>5. \A v, x \in Worker : slot'[v] = slot'[x] /\ slot'[v] # NoTask => v = x
    BY <1>a, <1>u, <2>3
  <2>6. \A v \in Worker : slot'[v] # NoTask => task'[slot'[v]] = "assigned"
    BY <1>a, <2>3
  <2>7. \A r \in Task : task'[r] = "assigned" => \E v \in Worker : slot'[v] = r
    BY <1>a, <2>2, <2>3, NoTaskAssumption
  <2>8. /\ \A i \in DOMAIN waiters : task'[waiters[i]] = "waiting"
        /\ \A r \in Task : task'[r] = "waiting" => \E i \in DOMAIN waiters : waiters[i] = r
    BY <1>b, <1>u, <2>3
  <2>9. Places'
    <3>1. PlacesOf(slot', task', waiters)
      BY <1>b, <2>5, <2>6, <2>7, <2>8 DEF PlacesOf
    <3> QED
      BY <2>1, <3>1 DEF Places
  <2>10. ASSUME NEW v \in Worker PROVE Line(v)'
    <3>1. CASE v = w
      <4>1. LineOf(NoTask, thread[v], inbox[v], events[v])
        BY <2>2, <3>1 DEF Line
      <4>2. LineOf(t, thread[v], IF thread[v] = "up" THEN Append(inbox[v], t) ELSE inbox[v], events[v])
        BY <4>1, AssignedLine DEF TypeOK
      <4>3. /\ slot'[v] = t /\ thread'[v] = thread[v] /\ events'[v] = events[v]
            /\ inbox'[v] = IF thread[v] = "up" THEN Append(inbox[v], t) ELSE inbox[v]
        BY <1>u, <2>3, <3>1
      <4> QED
        BY <4>2, <4>3, LineAfter
    <3>2. CASE v # w
      BY <1>u, <2>3, <3>2, SameLine
    <3> QED
      BY <3>1, <3>2
  <2> QED
    BY <1>u, <2>4, <2>9, <2>10 DEF OwnResults
<1>2. CASE Idle(slot) = {}
  <2>1. waiters' = Append(waiters, t) /\ task' = [task EXCEPT ![t] = "waiting"] /\ UNCHANGED <<slot, inbox>>
    BY <1>2 DEF ExecuteTask
  <2>2. \A r \in Task : task'[r] = IF r = t THEN "waiting" ELSE task[r]
    BY <2>1 DEF TypeOK
  <2>3. /\ waiters' \in Seq(Task) /\ Len(waiters') = Len(waiters) + 1 /\ Len(waiters) \in Nat
        /\ DOMAIN waiters = 1..Len(waiters) /\ DOMAIN waiters' = 1..(Len(waiters) + 1)
        /\ \A i \in 1..Len(waiters) : waiters'[i] = waiters[i]
        /\ waiters'[Len(waiters) + 1] = t
    BY <2>1 DEF TypeOK
  <2>4. TypeOK'
    BY <1>u, <2>1, <2>3 DEF TypeOK
  <2>5. \A i \in DOMAIN waiters : waiters[i] # t
    BY <1>b, <1>u
  <2>6. \A i, j \in DOMAIN waiters' : waiters'[i] = waiters'[j] => i = j
    <3> SUFFICES ASSUME NEW i \in DOMAIN waiters', NEW j \in DOMAIN waiters', waiters'[i] = waiters'[j] PROVE i = j
      OBVIOUS
    <3>1. i \in 1..Len(waiters) \/ i = Len(waiters) + 1
      BY <2>3
    <3>2. j \in 1..Len(waiters) \/ j = Len(waiters) + 1
      BY <2>3
    <3>3. CASE i \in 1..Len(waiters) /\ j \in 1..Len(waiters)
      BY <1>b, <2>3, <3>3
    <3> QED
      BY <2>3, <2>5, <3>1, <3>2, <3>3
  <2>7. \A i \in DOMAIN waiters' : task'[waiters'[i]] = "waiting"
    <3> SUFFICES ASSUME NEW i \in DOMAIN waiters' PROVE task'[waiters'[i]] = "waiting"
      OBVIOUS
    <3>1. i \in DOMAIN waiters \/ i = Len(waiters) + 1
      BY <2>3
    <3> QED
      BY <1>b, <2>2, <2>3, <3>1
  <2>8. \A r \in Task : task'[r] = "waiting" => \E i \in DOMAIN waiters' : waiters'[i] = r
    <3> SUFFICES ASSUME NEW r \in Task, task'[r] = "waiting" PROVE \E i \in DOMAIN waiters' : waiters'[i] = r
      OBVIOUS
    <3>1. CASE r = t
      BY <2>3, <3>1
    <3>2. CASE r # t
      <4>1. PICK i \in DOMAIN waiters : waiters[i] = r
        BY <1>b, <2>2, <3>2
      <4> QED
        BY <2>3, <4>1
    <3> QED
      BY <3>1, <3>2
  <2>9. /\ \A v \in Worker : slot[v] # NoTask => task'[slot[v]] = "assigned"
        /\ \A r \in Task : task'[r] = "assigned" => \E v \in Worker : slot[v] = r
    BY <1>a, <1>u, <2>2
  <2>10. Places'
    <3>1. PlacesOf(slot, task', waiters')
      BY <1>a, <2>6, <2>7, <2>8, <2>9 DEF PlacesOf
    <3> QED
      BY <2>1, <3>1 DEF Places
  <2>11. \A v \in Worker : Line(v)'
    BY <1>u, <2>1, SameLine
  <2> QED
    BY <1>u, <2>4, <2>10, <2>11 DEF OwnResults
<1> QED
  BY <1>1, <1>2

\* A thread answers for the task it was sent.
LEMMA RunKeeps ==
  ASSUME PoolInv, NEW w \in Worker, RunTask(w)
  PROVE  PoolInv'
<1> USE DEF PoolInv
<1>1. /\ thread[w] = "up" /\ inbox[w] # <<>> /\ inbox' = [inbox EXCEPT ![w] = Tail(@)]
      /\ UNCHANGED <<task, result, slot, waiters, thread, phase, awaited, crashes>>
  BY DEF RunTask
<1>2. PICK kind \in Answers : events' = [events EXCEPT ![w] = Append(@, [kind |-> kind, id |-> Head(inbox[w])])]
  BY DEF RunTask, Answers
<1>3. inbox[w] \in Seq(Task) /\ events[w] \in Seq(Event)
  BY DEF TypeOK
<1> DEFINE m == [kind |-> kind, id |-> Head(inbox[w])]
<1>4. m \in Event /\ LineOf(slot[w], "up", Tail(inbox[w]), Append(events[w], m))
  <2>1. LineOf(slot[w], "up", inbox[w], events[w])
    BY <1>1 DEF Line
  <2> QED
    BY <1>1, <1>3, <2>1, RunLine
<1>5. TypeOK'
  <2>1. Append(events[w], m) \in Seq(Event) /\ Tail(inbox[w]) \in Seq(Task)
    BY <1>1, <1>3, <1>4
  <2> HIDE DEF m
  <2>2. events' \in [Worker -> Seq(Event)] /\ inbox' \in [Worker -> Seq(Task)]
    BY <1>1, <1>2, <2>1 DEF TypeOK, m
  <2> QED
    BY <1>1, <2>2 DEF TypeOK
<1>6. ASSUME NEW v \in Worker PROVE Line(v)'
  <2>1. CASE v = w
    <3>1. /\ slot'[v] = slot[w] /\ thread'[v] = "up" /\ inbox'[v] = Tail(inbox[w])
          /\ events'[v] = Append(events[w], m)
      BY <1>1, <1>2, <2>1 DEF TypeOK
    <3> QED
      BY <1>4, <3>1, LineAfter
  <2>2. CASE v # w
    <3>1. events'[v] = events[v] /\ inbox'[v] = inbox[v]
      BY <1>1, <1>2, <2>2 DEF TypeOK
    <3> QED
      BY <1>1, <3>1, SameLine
  <2> QED
    BY <2>1, <2>2
<1> QED
  BY <1>1, <1>5, <1>6 DEF Places, PlacesOf, OwnResults

LEMMA CrashKeeps ==
  ASSUME PoolInv, NEW w \in Worker, Crash(w)
  PROVE  PoolInv'
<1> USE DEF PoolInv
<1>1. /\ crashes < MaxCrashes /\ thread[w] = "up" /\ crashes' = crashes + 1
      /\ thread' = [thread EXCEPT ![w] = "dead"] /\ inbox' = [inbox EXCEPT ![w] = <<>>]
      /\ events' = [events EXCEPT ![w] = @ \o <<ErrorEvent, ExitEvent>>]
      /\ UNCHANGED <<task, result, slot, waiters, phase, awaited>>
  BY DEF Crash, ErrorEvent, ExitEvent
<1> DEFINE new == events[w] \o <<ErrorEvent, ExitEvent>>
<1>2. new \in Seq(Event) /\ LineOf(slot[w], "dead", <<>>, new)
  <2>1. LineOf(slot[w], "up", inbox[w], events[w]) /\ events[w] \in Seq(Event)
    BY <1>1 DEF Line, TypeOK
  <2> QED
    BY <2>1, CrashLine
<1>a. events' = [events EXCEPT ![w] = new]
  BY <1>1
<1> HIDE DEF new
<1>3. TypeOK'
  <2>1. events' \in [Worker -> Seq(Event)]
    BY <1>a, <1>2 DEF TypeOK
  <2>2. crashes' \in 0..MaxCrashes
    BY <1>1, MaxCrashesAssumption DEF TypeOK
  <2> QED
    BY <1>1, <2>1, <2>2 DEF TypeOK
<1>4. ASSUME NEW v \in Worker PROVE Line(v)'
  <2>1. CASE v = w
    <3>1. slot'[v] = slot[w] /\ thread'[v] = "dead" /\ inbox'[v] = <<>> /\ events'[v] = new
      BY <1>1, <1>a, <2>1 DEF TypeOK
    <3> QED
      BY <1>2, <3>1, LineAfter
  <2>2. CASE v # w
    <3>1. events'[v] = events[v] /\ inbox'[v] = inbox[v] /\ thread'[v] = thread[v]
      BY <1>1, <2>2 DEF TypeOK
    <3> QED
      BY <1>1, <3>1, SameLine
  <2> QED
    BY <2>1, <2>2
<1> QED
  BY <1>1, <1>3, <1>4 DEF Places, PlacesOf, OwnResults

\* An answer settles the task it names, and the freed worker takes the next.
LEMMA MessageKeeps ==
  ASSUME PoolInv, NEW w \in Worker, HandleWorkerMessage(w)
  PROVE  PoolInv'
<1> USE DEF PoolInv
<1> DEFINE t == slot[w]
           msg == Head(events[w])
           st == IF msg.kind = "ok" THEN "resolved" ELSE "rejected"
           freed == [slot EXCEPT ![w] = NoTask]
           settled == [task EXCEPT ![slot[w]] = st]
<1>1. /\ events[w] # <<>> /\ msg.kind \in Answers
      /\ events' = [events EXCEPT ![w] = Tail(@)]
      /\ UNCHANGED <<thread, phase, crashes>>
  BY DEF HandleWorkerMessage, NextEvent, Consume, Answers
<1>2. /\ Tail(events[w]) \in Seq(Event) /\ msg.id = t /\ t \in Task
      /\ LineOf(NoTask, thread[w], inbox[w], Tail(events[w]))
  BY <1>1, WorkerHandled, Zenon
<1>3. t # NoTask /\ st \in Settled
  BY <1>2, NoTaskAssumption DEF Settled
<1>4. /\ result' = IF msg.kind = "ok" THEN [result EXCEPT ![t] = msg.id] ELSE result
      /\ awaited' = IF msg.kind = "ok" THEN awaited \ {t} ELSE awaited
      /\ ExecuteAll(waiters, freed, settled)
  BY <1>3 DEF HandleWorkerMessage
<1>5. /\ freed \in [Worker -> Task \cup {NoTask}] /\ settled \in [Task -> TaskStates]
      /\ PlacesOf(freed, settled, waiters)
  BY <1>3, FreedPlaces
<1>6. \A v \in Worker : freed[v] = IF v = w THEN NoTask ELSE slot[v]
  BY DEF TypeOK
<1> HIDE DEF freed, settled, st
<1>7. /\ slot' \in [Worker -> Task \cup {NoTask}] /\ task' \in [Task -> TaskStates] /\ waiters' \in Seq(Task)
      /\ Places'
      /\ \A v \in Worker :
           \/ slot'[v] = freed[v] /\ inbox'[v] = inbox[v]
           \/ /\ freed[v] = NoTask /\ slot'[v] \in Task
              /\ inbox'[v] = IF thread[v] = "up" THEN Append(inbox[v], slot'[v]) ELSE inbox[v]
  <2>1. waiters \in Seq(Task)
    BY DEF TypeOK
  <2> QED
    BY <1>4, <1>5, <2>1, ExecuteAllKeepsPlaces
<1>8. \A v \in Worker : events'[v] = IF v = w THEN Tail(events[w]) ELSE events[v]
  BY <1>1 DEF TypeOK
<1>9. events' \in [Worker -> Seq(Event)] /\ inbox' \in [Worker -> Seq(Task)]
  <2>1. events' \in [Worker -> Seq(Event)]
    BY <1>1, <1>2 DEF TypeOK
  <2>2. inbox' = [v \in Worker |-> inbox'[v]]
    BY <1>4, ExecuteAllIs
  <2>3. ASSUME NEW v \in Worker PROVE inbox'[v] \in Seq(Task)
    <3>1. inbox[v] \in Seq(Task)
      BY DEF TypeOK
    <3>2. ASSUME slot'[v] \in Task PROVE Append(inbox[v], slot'[v]) \in Seq(Task)
      BY <3>1, <3>2
    <3> QED
      BY <1>7, <3>1, <3>2
  <2> QED
    BY <2>1, <2>2, <2>3
<1>10. TypeOK'
  <2>1. result' \in [Task -> Task \cup {NoTask}] /\ awaited' \subseteq Task
    BY <1>2, <1>4 DEF TypeOK
  <2> QED
    BY <1>1, <1>7, <1>9, <2>1 DEF TypeOK, TaskStates
<1>11. ASSUME NEW v \in Worker PROVE Line(v)'
  <2>1. LineOf(freed[v], thread[v], inbox[v], events'[v])
    <3>1. CASE v = w
      BY <1>2, <1>6, <1>8, <3>1
    <3>2. CASE v # w
      BY <1>6, <1>8, <3>2 DEF Line
    <3> QED
      BY <3>1, <3>2
  <2>2. CASE slot'[v] = freed[v] /\ inbox'[v] = inbox[v]
    BY <1>1, <2>1, <2>2, LineAfter
  <2>3. CASE /\ freed[v] = NoTask /\ slot'[v] \in Task
             /\ inbox'[v] = IF thread[v] = "up" THEN Append(inbox[v], slot'[v]) ELSE inbox[v]
    <3>1. thread[v] \in {"up", "dead"} /\ inbox[v] \in Seq(Task) /\ events'[v] \in Seq(Event)
      BY <1>9 DEF TypeOK
    <3>2. LineOf(slot'[v], thread[v], inbox'[v], events'[v])
      BY <2>1, <2>3, <3>1, AssignedLine
    <3> QED
      BY <1>1, <3>2, LineAfter
  <2> QED
    BY <1>7, <2>2, <2>3
<1>12. OwnResults'
  BY <1>2, <1>4 DEF OwnResults, TypeOK
<1> QED
  BY <1>7, <1>10, <1>11, <1>12

\* 'error' rejects the task of the slot and frees it.
LEMMA ErrorKeeps ==
  ASSUME PoolInv, NEW w \in Worker, HandleWorkerError(w)
  PROVE  PoolInv'
<1> USE DEF PoolInv
<1>1. /\ events[w] # <<>> /\ Head(events[w]).kind = "error"
      /\ events' = [events EXCEPT ![w] = Tail(@)]
      /\ UNCHANGED <<result, waiters, thread, inbox, phase, awaited, crashes>>
  BY DEF HandleWorkerError, NextEvent, Consume
<1>2. /\ Tail(events[w]) \in Seq(Event)
      /\ LineOf(NoTask, thread[w], inbox[w], Tail(events[w]))
      /\ LineOf(slot[w], thread[w], inbox[w], Tail(events[w]))
  BY <1>1, WorkerHandled, Zenon
<1>3. events' \in [Worker -> Seq(Event)] /\ \A v \in Worker : events'[v] = IF v = w THEN Tail(events[w]) ELSE events[v]
  BY <1>1, <1>2 DEF TypeOK
<1>4. /\ slot' \in [Worker -> Task \cup {NoTask}] /\ task' \in [Task -> TaskStates] /\ Places'
      /\ \A v \in Worker : slot'[v] = slot[v] \/ (v = w /\ slot'[v] = NoTask)
  <2>1. CASE slot[w] = NoTask
    <3>1. UNCHANGED <<task, slot, waiters>>
      BY <1>1, <2>1 DEF HandleWorkerError
    <3> QED
      BY <3>1 DEF Places, PlacesOf, TypeOK, TaskStates
  <2>2. CASE slot[w] # NoTask
    <3>1. slot' = [slot EXCEPT ![w] = NoTask] /\ task' = [task EXCEPT ![slot[w]] = "rejected"] /\ waiters' = waiters
      BY <1>1, <2>2 DEF HandleWorkerError
    <3>2. "rejected" \in Settled
      BY DEF Settled
    <3>3. /\ slot' \in [Worker -> Task \cup {NoTask}] /\ task' \in [Task -> TaskStates]
          /\ PlacesOf(slot', task', waiters)
      BY <2>2, <3>1, <3>2, FreedPlaces
    <3>4. \A v \in Worker : slot'[v] = slot[v] \/ (v = w /\ slot'[v] = NoTask)
      BY <3>1 DEF TypeOK
    <3> QED
      BY <3>1, <3>3, <3>4 DEF Places
  <2> QED
    BY <2>1, <2>2
<1>5. TypeOK'
  BY <1>1, <1>3, <1>4 DEF TypeOK, TaskStates
<1>6. ASSUME NEW v \in Worker PROVE Line(v)'
  <2>1. CASE v = w
    <3>1. LineOf(slot'[v], thread[v], inbox[v], events'[v])
      BY <1>2, <1>3, <1>4, <2>1
    <3> QED
      BY <1>1, <3>1, LineAfter
  <2>2. CASE v # w
    BY <1>1, <1>3, <1>4, <2>2, SameLine
  <2> QED
    BY <2>1, <2>2
<1> QED
  BY <1>1, <1>4, <1>5, <1>6 DEF OwnResults

\* 'exit' puts a fresh thread in the place of the dead one.
LEMMA ExitKeeps ==
  ASSUME PoolInv, NEW w \in Worker, HandleExit(w)
  PROVE  PoolInv'
<1> USE DEF PoolInv
<1>1. /\ events[w] # <<>> /\ Head(events[w]).kind = "exit"
      /\ events' = [events EXCEPT ![w] = Tail(@)]
      /\ thread' = [thread EXCEPT ![w] = "up"] /\ inbox' = [inbox EXCEPT ![w] = <<>>]
      /\ UNCHANGED <<task, result, slot, waiters, phase, awaited, crashes>>
  BY DEF HandleExit, NextEvent, Consume
<1>2. Tail(events[w]) \in Seq(Event) /\ LineOf(slot[w], "up", <<>>, Tail(events[w]))
  BY <1>1, WorkerHandled, Zenon
<1>3. TypeOK'
  BY <1>1, <1>2 DEF TypeOK
<1>4. ASSUME NEW v \in Worker PROVE Line(v)'
  <2>1. CASE v = w
    <3>1. slot'[v] = slot[w] /\ thread'[v] = "up" /\ inbox'[v] = <<>> /\ events'[v] = Tail(events[w])
      BY <1>1, <2>1 DEF TypeOK
    <3> QED
      BY <1>2, <3>1, LineAfter
  <2>2. CASE v # w
    <3>1. events'[v] = events[v] /\ inbox'[v] = inbox[v] /\ thread'[v] = thread[v]
      BY <1>1, <2>2 DEF TypeOK
    <3> QED
      BY <1>1, <3>1, SameLine
  <2> QED
    BY <2>1, <2>2
<1> QED
  BY <1>1, <1>3, <1>4 DEF Places, PlacesOf, OwnResults

\* shutdown(): waiting, terminating, closed.
LEMMA TerminateKeeps ==
  ASSUME PoolInv, Terminate
  PROVE  PoolInv'
<1> USE DEF PoolInv
<1> DEFINE new(w) == IF thread[w] = "up" THEN Append(events[w], ExitEvent) ELSE events[w]
<1>1. /\ phase' = "terminating"
      /\ thread' = [w \in Worker |-> "dead"] /\ inbox' = [w \in Worker |-> <<>>]
      /\ events' = [w \in Worker |-> new(w)]
      /\ UNCHANGED <<task, result, slot, waiters, awaited, crashes>>
  BY DEF Terminate, ExitEvent
<1>2. ASSUME NEW w \in Worker PROVE new(w) \in Seq(Event) /\ LineOf(slot[w], "dead", <<>>, new(w))
  <2>1. LineOf(slot[w], thread[w], inbox[w], events[w]) /\ thread[w] \in {"up", "dead"} /\ events[w] \in Seq(Event)
    BY DEF Line, TypeOK
  <2> QED
    BY <2>1, TerminateLine
<1> HIDE DEF new
<1>3. TypeOK'
  BY <1>1, <1>2 DEF TypeOK
<1>4. ASSUME NEW w \in Worker PROVE Line(w)'
  <2>1. slot'[w] = slot[w] /\ thread'[w] = "dead" /\ inbox'[w] = <<>> /\ events'[w] = new(w)
    BY <1>1
  <2> QED
    BY <1>2, <2>1, LineAfter
<1> QED
  BY <1>1, <1>3, <1>4 DEF Places, PlacesOf, OwnResults

LEMMA RestKeeps ==
  ASSUME PoolInv, Shutdown \/ Closed \/ UNCHANGED vars
  PROVE  PoolInv'
<1> USE DEF PoolInv
<1>1. UNCHANGED <<task, result, slot, waiters, thread, inbox, events, crashes>>
  BY DEF Shutdown, Closed, vars
<1>2. TypeOK'
  <2>1. awaited' \subseteq Task /\ phase' \in {"open", "draining", "terminating", "closed"}
    BY DEF Shutdown, Closed, vars, TypeOK
  <2> QED
    BY <1>1, <2>1 DEF TypeOK
<1>3. \A w \in Worker : Line(w)'
  BY <1>1, SameLine
<1> QED
  BY <1>1, <1>2, <1>3 DEF Places, PlacesOf, OwnResults

LEMMA NextKeeps == PoolInv /\ [Next]_vars => PoolInv'
<1> SUFFICES ASSUME PoolInv, [Next]_vars PROVE PoolInv'
  OBVIOUS
<1>1. ASSUME NEW t \in Task, ExecuteTask(t) PROVE PoolInv'
  BY <1>1, ExecuteKeeps
<1>2. ASSUME NEW w \in Worker, WorkerStep(w) PROVE PoolInv'
  BY <1>2, RunKeeps, MessageKeeps, ErrorKeeps, ExitKeeps DEF WorkerStep
<1>3. ASSUME NEW w \in Worker, Crash(w) PROVE PoolInv'
  BY <1>3, CrashKeeps
<1>4. CASE Shutdown \/ Closed \/ UNCHANGED vars
  BY <1>4, RestKeeps
<1>5. CASE Terminate
  BY <1>5, TerminateKeeps
<1> QED
  BY <1>1, <1>2, <1>3, <1>4, <1>5 DEF Next

-----------------------------------------------------------------------------
(* What it says.                                                           *)

\* Agreement of the places, counted.
LEMMA PlacesCount == PoolInv => OnePlacePerTask
<1> SUFFICES ASSUME PoolInv, NEW t \in Task
             PROVE  /\ Cardinality({w \in Worker : slot[w] = t}) = (IF task[t] = "assigned" THEN 1 ELSE 0)
                    /\ Cardinality({i \in DOMAIN waiters : waiters[i] = t})
                         = (IF task[t] = "waiting" THEN 1 ELSE 0)
                    /\ result[t] # NoTask => result[t] = t
  BY DEF OnePlacePerTask
<1> USE DEF PoolInv
<1>a. /\ \A v, x \in Worker : slot[v] = slot[x] /\ slot[v] # NoTask => v = x
      /\ \A v \in Worker : slot[v] # NoTask => task[slot[v]] = "assigned"
      /\ task[t] = "assigned" => \E v \in Worker : slot[v] = t
  BY DEF Places, PlacesOf
<1>b. /\ \A i, j \in DOMAIN waiters : waiters[i] = waiters[j] => i = j
      /\ \A i \in DOMAIN waiters : task[waiters[i]] = "waiting"
      /\ task[t] = "waiting" => \E i \in DOMAIN waiters : waiters[i] = t
  BY DEF Places, PlacesOf
<1> DEFINE S == {w \in Worker : slot[w] = t}
           D == {i \in DOMAIN waiters : waiters[i] = t}
<1>1. Cardinality(S) = IF task[t] = "assigned" THEN 1 ELSE 0
  <2>1. CASE task[t] = "assigned"
    <3>1. PICK w \in Worker : slot[w] = t
      BY <1>a, <2>1
    <3>2. S = {w}
      BY <1>a, <3>1, NoTaskAssumption
    <3> QED
      BY <2>1, <3>2, FS_Singleton
  <2>2. CASE task[t] # "assigned"
    <3>1. S = {}
      BY <1>a, <2>2, NoTaskAssumption
    <3> QED
      BY <2>2, <3>1, FS_EmptySet
  <2> QED
    BY <2>1, <2>2
<1>2. Cardinality(D) = IF task[t] = "waiting" THEN 1 ELSE 0
  <2>1. CASE task[t] = "waiting"
    <3>1. PICK i \in DOMAIN waiters : waiters[i] = t
      BY <1>b, <2>1
    <3>2. D = {i}
      BY <1>b, <3>1
    <3> QED
      BY <2>1, <3>2, FS_Singleton
  <2>2. CASE task[t] # "waiting"
    <3>1. D = {}
      BY <1>b, <2>2
    <3> QED
      BY <2>2, <3>1, FS_EmptySet
  <2> QED
    BY <2>1, <2>2
<1> QED
  BY <1>1, <1>2 DEF OwnResults

\* The type of the pool: in particular only tasks are ever queued, and the
\* messages between the threads are about tasks.
THEOREM PoolTypeCorrect == Spec => []TypeOK
<1>1. PoolInv => TypeOK
  BY DEF PoolInv
<1> QED
  BY <1>1, InitPoolInv, NextKeeps, PTL DEF Spec

\* workerTasks, the listeners and the promises always agree, through crashes,
\* restarts and shutdown: a task is in one slot while it is assigned, waits in
\* one listener while it waits, is nowhere once it is settled, and is settled
\* with its own result.
THEOREM OneTaskOnePlace == Spec => []OnePlacePerTask
<1> QED
  BY InitPoolInv, NextKeeps, PlacesCount, PTL DEF Spec
===============================================================================
