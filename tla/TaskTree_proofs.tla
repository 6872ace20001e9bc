--------------------------- MODULE TaskTree_proofs ---------------------------
(***************************************************************************)
(* The tree of instructions is a forest, for any set of instructions.      *)
(***************************************************************************)
EXTENDS TaskTree, FiniteSetTheorems, TLAPS

\* The four invariants are inductive together.
IInv == TypeOK /\ Forest /\ ParentsAreLive /\ RollbackIsSound

\* p is the first of its chain, and the chain goes on with the parents.
LEMMA ChainFacts ==
    ASSUME TypeOK, NEW p \in tasks
    PROVE  /\ p \in Chain(p)
           /\ Chain(p) \subseteq tasks
           /\ \A s \in Chain(p) : parent[s] \in tasks => parent[s] \in Chain(p)
<1>1. p \in Chain(p) /\ Chain(p) \subseteq tasks
  BY DEF Chain
<1>2. ASSUME NEW s \in Chain(p), parent[s] \in tasks PROVE parent[s] \in Chain(p)
  <2>1. parent[s] # None
    BY <1>2, TasksAssumption DEF TypeOK
  <2>2. ASSUME NEW S \in SUBSET tasks, p \in S, Upward(S) PROVE parent[s] \in S
    BY <2>1, <2>2 DEF Chain, Upward
  <2> QED
    BY <1>2, <2>2 DEF Chain
<1> QED
  BY <1>1, <1>2

\* A chain is the smallest set that holds p and goes upward.
LEMMA ChainLeast ==
    ASSUME NEW p, NEW S \in SUBSET tasks, p \in S, Upward(S)
    PROVE  Chain(p) \subseteq S
BY DEF Chain

\* Losing instructions and parents closes no circle.
LEMMA Pruned ==
    ASSUME TypeOK, Forest, tasks' \subseteq tasks,
           \A s \in tasks' : parent'[s] = parent[s] \/ parent'[s] = None
    PROVE  Forest'
<1> SUFFICES ASSUME NEW C \in SUBSET tasks', C # {}, \A s \in C : parent'[s] \in C
             PROVE  FALSE
  BY DEF Forest, Cyclic
<1>1. \A s \in C : parent'[s] # None
  BY TasksAssumption DEF TypeOK
<1> QED
  BY <1>1 DEF Forest, Cyclic

\* Nor does hanging t under a legal p: a circle through t would hold a part of the
\* chain of p that was a circle before.
LEMMA Hung ==
    ASSUME TypeOK, Forest, NEW t \in tasks, NEW p, Legal(t, p), UNCHANGED tasks,
           parent' = [parent EXCEPT ![t] = p]
    PROVE  Forest'
<1> SUFFICES ASSUME NEW C \in SUBSET tasks, C # {}, \A s \in C : parent'[s] \in C
             PROVE  FALSE
  BY DEF Forest, Cyclic
<1>1. \A s \in C : s # t => parent[s] \in C
  BY DEF TypeOK
<1>2. CASE t \notin C
  BY <1>1, <1>2 DEF Forest, Cyclic
<1>3. CASE t \in C
  <2> DEFINE D == C \cap Chain(p)
  <2>1. p \in tasks /\ t \notin Chain(p)
    BY DEF Legal
  <2>2. p \in C
    BY <1>3 DEF TypeOK
  <2>3. p \in D
    BY <2>1, <2>2, ChainFacts
  <2>4. ASSUME NEW s \in D PROVE parent[s] \in D
    <3>1. parent[s] \in C
      BY <1>1, <2>1
    <3>2. parent[s] \in Chain(p)
      BY <2>1, <3>1, ChainFacts
    <3> QED
      BY <3>1, <3>2
  <2> QED
    BY <2>3, <2>4 DEF Forest, Cyclic
<1> QED
  BY <1>2, <1>3

\* A new instruction has no children yet, so it is on no circle.
LEMMA Planted ==
    ASSUME TypeOK, Forest, ParentsAreLive, NEW t \in Tasks \ tasks,
           NEW p \in tasks \cup {None}, tasks' = tasks \cup {t},
           parent' = [parent EXCEPT ![t] = p]
    PROVE  Forest'
<1> SUFFICES ASSUME NEW C \in SUBSET (tasks \cup {t}), C # {}, \A s \in C : parent'[s] \in C
             PROVE  FALSE
  BY DEF Forest, Cyclic
<1> DEFINE D == C \ {t}
<1>1. \A s \in D : parent[s] \in C
  BY DEF TypeOK
<1>2. \A s \in D : parent[s] \in D
  <2>1. \A s \in D : parent[s] # None
    BY <1>1, TasksAssumption DEF TypeOK
  <2>2. \A s \in D : parent[s] \in tasks
    BY <2>1 DEF ParentsAreLive, TypeOK
  <2> QED
    BY <1>1, <2>2
<1>3. D # {}
  <2>1. t \in C => p \in C
    BY DEF TypeOK
  <2> QED
    BY <2>1, TasksAssumption DEF TypeOK
<1> QED
  BY <1>2, <1>3 DEF Forest, Cyclic

\* A blank tree has the type of a tree.
LEMMA BlankTyped == Blank \in [split : SUBSET Tasks, parent : [Tasks -> Tasks \cup {None}]]
BY DEF Blank

\* The initial tree is empty.
LEMMA InitInv == Init => IInv
BY TasksAssumption
   DEF Init, IInv, TypeOK, Forest, Cyclic, ParentsAreLive, RollbackIsSound, Sound, Blank

\* Every step keeps the invariant.
LEMMA NextInv == IInv /\ [Next]_vars => IInv'
<1> SUFFICES ASSUME IInv, [Next]_vars PROVE IInv'
  OBVIOUS
<1> USE DEF IInv
<1>1. ASSUME NEW S \in SUBSET tasks, BeginSave(S) PROVE IInv'
  <2>1. TypeOK'
    BY <1>1 DEF BeginSave, TypeOK, doc
  <2>2. Forest' /\ ParentsAreLive'
    BY <1>1 DEF BeginSave, Forest, Cyclic, ParentsAreLive, doc
  <2>3. RollbackIsSound'
    <3>1. Sound(parent, split)
      BY DEF Sound, Forest, Cyclic, ParentsAreLive
    <3>2. before'.parent = parent /\ before'.split = split
      BY <1>1 DEF BeginSave
    <3> QED
      BY <1>1, <3>1, <3>2 DEF BeginSave, RollbackIsSound, Sound, doc
  <2> QED
    BY <2>1, <2>2, <2>3
<1>2. ASSUME NEW t \in todo, NEW isSplit \in BOOLEAN, NEW p \in Tasks \cup {None},
             TakeRow(t, isSplit, p)
      PROVE  IInv'
  <2>1. t \in tasks
    BY DEF RollbackIsSound
  <2>2. TypeOK'
    BY <1>2, BlankTyped DEF TakeRow, TypeOK
  <2>3. Forest'
    <3>1. CASE isSplit /\ p # None
      BY <1>2, <2>1, <3>1, Hung DEF TakeRow
    <3>2. CASE ~ isSplit \/ p = None
      <4>1. parent' = [parent EXCEPT ![t] = None]
        BY <1>2, <3>2 DEF TakeRow
      <4> QED
        BY <1>2, <4>1, Pruned DEF TakeRow, TypeOK
    <3> QED
      BY <3>1, <3>2
  <2>4. ParentsAreLive'
    BY <1>2, <2>1 DEF TakeRow, ParentsAreLive, TypeOK, Legal
  <2>5. RollbackIsSound'
    BY <1>2 DEF TakeRow, RollbackIsSound, Sound
  <2> QED
    BY <2>2, <2>3, <2>4, <2>5
<1>3. ASSUME NEW t \in todo, NEW p \in Tasks, RefuseRow(t, p) PROVE IInv'
  <2>1. Sound(before.parent, before.split)
    BY DEF RollbackIsSound
  <2>2. TypeOK'
    BY <1>3, BlankTyped DEF RefuseRow, TypeOK
  <2>3. Forest' /\ ParentsAreLive'
    BY <1>3, <2>1 DEF RefuseRow, Sound, Forest, Cyclic, ParentsAreLive
  <2>4. RollbackIsSound'
    BY <1>3 DEF RefuseRow, RollbackIsSound
  <2> QED
    BY <2>2, <2>3, <2>4
<1>4. ASSUME NEW t \in Tasks, NEW isSplit \in BOOLEAN, NEW p \in Tasks \cup {None},
             CreateTask(t, isSplit, p)
      PROVE  IInv'
  <2> DEFINE q == IF isSplit THEN p ELSE None
  <2>1. /\ t \notin tasks /\ q \in tasks \cup {None}
        /\ tasks' = tasks \cup {t}
        /\ parent' = [parent EXCEPT ![t] = q]
        /\ split' = IF isSplit THEN split \cup {t} ELSE split
        /\ q # None => isSplit
        /\ todo = {}
        /\ UNCHANGED <<todo, before>>
    BY <1>4 DEF CreateTask, save, NoSave
  <2> HIDE DEF q
  <2>2. TypeOK'
    BY <2>1 DEF TypeOK
  <2>3. Forest'
    BY <2>1, Planted
  <2>4. ParentsAreLive'
    BY <2>1 DEF ParentsAreLive, TypeOK
  <2>5. RollbackIsSound'
    BY <2>1 DEF RollbackIsSound
  <2> QED
    BY <2>2, <2>3, <2>4, <2>5
<1>5. ASSUME NEW t \in Tasks, NEW source \in Tasks, DuplicateTask(t, source) PROVE IInv'
  <2>1. CreateTask(t, source \in split, parent[source])
    BY <1>5 DEF DuplicateTask
  <2>2. (source \in split) \in BOOLEAN /\ parent[source] \in Tasks \cup {None}
    BY DEF TypeOK
  <2> QED
    BY <1>4, <2>1, <2>2
<1>6. ASSUME NEW t \in Tasks, DeleteTask(t) PROVE IInv'
  <2>1. TypeOK'
    BY <1>6 DEF DeleteTask, save, TypeOK
  <2>2. Forest'
    BY <1>6, Pruned DEF DeleteTask, TypeOK
  <2>3. ParentsAreLive'
    BY <1>6 DEF DeleteTask, ParentsAreLive, TypeOK
  <2>4. RollbackIsSound'
    BY <1>6 DEF DeleteTask, RollbackIsSound, save, NoSave
  <2> QED
    BY <2>1, <2>2, <2>3, <2>4
<1>7. ASSUME NEW S \in SUBSET tasks, NEW isSplit \in BOOLEAN, SetMode(S, isSplit) PROVE IInv'
  <2>1. TypeOK'
    BY <1>7 DEF SetMode, save, TypeOK
  <2>2. Forest'
    BY <1>7, Pruned DEF SetMode, TypeOK
  <2>3. ParentsAreLive'
    BY <1>7 DEF SetMode, ParentsAreLive, TypeOK
  <2>4. RollbackIsSound'
    BY <1>7 DEF SetMode, RollbackIsSound, save, NoSave
  <2> QED
    BY <2>1, <2>2, <2>3, <2>4
<1>8. CASE UNCHANGED vars
  BY <1>8
     DEF vars, doc, save, TypeOK, Forest, Cyclic, ParentsAreLive, RollbackIsSound, Sound
<1> QED
  BY <1>1, <1>2, <1>3, <1>4, <1>5, <1>6, <1>7, <1>8 DEF Next, SaveStep, OtherStep

LEMMA Invariance == Spec => []IInv
BY InitInv, NextInv, PTL DEF Spec

\* Every variable keeps its type.
THEOREM TreeTyped == Spec => []TypeOK
BY Invariance, PTL DEF IInv

\* No sequence of saves, deletions and copies closes a circle of parents.
THEOREM TreeIsForest == Spec => []Forest
BY Invariance, PTL DEF IInv

\* Only subtasks have a parent, and it is an instruction of the protocol.
THEOREM TreeIsLive == Spec => []ParentsAreLive
BY Invariance, PTL DEF IInv

\* What a refused row restores is sound.
THEOREM TreeRollback == Spec => []RollbackIsSound
BY Invariance, PTL DEF IInv

\* In a forest nothing is above itself: what lies between p and its parent would be
\* a circle.
LEMMA NotAboveItself ==
    ASSUME TypeOK, Forest, ParentsAreLive, NEW p \in tasks, parent[p] # None
    PROVE  p \notin Chain(parent[p])
<1> SUFFICES ASSUME p \in Chain(parent[p]) PROVE FALSE
  OBVIOUS
<1> DEFINE q == parent[p]
           C == {s \in Chain(q) : p \in Chain(s)}
<1>1. q \in tasks /\ p \in Tasks
  BY DEF ParentsAreLive, TypeOK
<1>2. q \in C /\ C \subseteq tasks
  BY <1>1, ChainFacts
<1>3. ASSUME NEW s \in C PROVE parent[s] \in C
  <2>1. CASE s = p
    BY <1>2, <2>1
  <2>2. CASE s # p
    <3>1. s \in tasks /\ s \in Tasks /\ p \in Chain(s)
      BY <1>2 DEF TypeOK
    <3>2. parent[s] # None
      <4>1. SUFFICES ASSUME parent[s] = None PROVE FALSE
        OBVIOUS
      <4>2. Upward({s}) /\ {s} \in SUBSET tasks
        BY <3>1, <4>1 DEF Upward
      <4> QED
        BY <2>2, <3>1, <4>2, ChainLeast
    <3>3. parent[s] \in tasks
      BY <3>1, <3>2 DEF ParentsAreLive
    <3>4. parent[s] \in Chain(q)
      BY <1>1, <3>3, ChainFacts
    <3>5. ASSUME NEW S \in SUBSET tasks, parent[s] \in S, Upward(S) PROVE p \in S
      <4>1. S \cup {s} \in SUBSET tasks /\ Upward(S \cup {s})
        BY <3>1, <3>5 DEF Upward
      <4>2. Chain(s) \subseteq S \cup {s}
        BY <4>1, ChainLeast
      <4> QED
        BY <2>2, <3>1, <4>2
    <3>6. p \in Chain(parent[s])
      BY <3>5 DEF Chain
    <3> QED
      BY <3>4, <3>6
  <2> QED
    BY <2>1, <2>2
<1> QED
  BY <1>2, <1>3 DEF Forest, Cyclic

\* The publication, sorted by depth, creates every parent before its children.
THEOREM TreeParentsFirst == Spec => []ParentsFirst
<1>1. IInv => ParentsFirst
  <2> SUFFICES ASSUME IInv, NEW t \in tasks, parent[t] # None
               PROVE  Depth(parent[t]) < Depth(t)
    BY DEF ParentsFirst
  <2> USE DEF IInv
  <2> DEFINE p == parent[t]
             q == parent[p]
  <2>1. p \in tasks /\ p \in Tasks
    BY DEF ParentsAreLive, TypeOK
  <2>2. p \in Chain(p) /\ Chain(p) \subseteq tasks
    BY <2>1, ChainFacts
  <2>3. IsFiniteSet(Chain(p)) /\ Cardinality(Chain(p)) \in Nat
    BY <2>2, TasksAssumption, FS_Subset, FS_CardinalityType DEF TypeOK
  <2>4. Depth(t) = Cardinality(Chain(p))
    BY DEF Depth
  <2>5. CASE q = None
    <3>1. Depth(p) = 0
      BY <2>5 DEF Depth
    <3>2. Cardinality(Chain(p)) # 0
      BY <2>2, <2>3, FS_EmptySet
    <3> QED
      BY <2>3, <2>4, <3>1, <3>2
  <2>6. CASE q # None
    <3>1. q \in tasks /\ q \in Chain(p)
      BY <2>1, <2>2, <2>6, ChainFacts DEF ParentsAreLive
    <3>2. Upward(Chain(p))
      BY <2>1, <2>2, ChainFacts DEF Upward, ParentsAreLive, TypeOK
    <3>3. Chain(q) \subseteq Chain(p)
      BY <2>2, <3>1, <3>2, ChainLeast
    <3>4. p \notin Chain(q)
      BY <2>1, <2>6, NotAboveItself
    <3>5. /\ IsFiniteSet(Chain(q))
          /\ Cardinality(Chain(q)) <= Cardinality(Chain(p))
          /\ Cardinality(Chain(q)) # Cardinality(Chain(p))
      BY <2>2, <2>3, <3>3, <3>4, FS_Subset
    <3>6. Depth(p) = Cardinality(Chain(q)) /\ Cardinality(Chain(q)) \in Nat
      BY <2>6, <3>5, FS_CardinalityType DEF Depth
    <3> QED
      BY <2>3, <2>4, <3>5, <3>6
  <2> QED
    BY <2>5, <2>6
<1> QED
  BY <1>1, Invariance, PTL
=============================================================================
