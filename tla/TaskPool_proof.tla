--------------------------- MODULE TaskPool_proof ---------------------------
(***************************************************************************)
(* What the task pool promises, for every value of its constants.  In this *)
(* order: type correctness and the parts of tasks; no task starts before   *)
(* its inputs are met, and no iteration is lost or run twice; no waiting   *)
(* task is forgotten and the counts agree; the pool implements TaskGraph;  *)
(* with one client no wake-up is lost.                                     *)
(***************************************************************************)
EXTENDS TaskPool, FiniteSetTheorems, SequenceTheorems, WellFoundedInduction, TLAPS

(* A worker that is past the fetching of its loop has a part in hand. *)
WorkerHasPart ==
    \A w \in Worker : pc[w] \in {"function", "returning", "completion"} => part[w] \in Part

TypeInv == TypeOK /\ WorkerHasPart

LEMMA FreeTaskType == FreeTask \in TaskRec
BY DEF FreeTask, TaskRec, NoDep

LEMMA NewGroupType == NewGroup \in GroupRec
BY BoundsAssumption DEF NewGroup, GroupRec

(* A task with at least one iteration is cut into parts of that task. *)
LEMMA PartsType ==
    ASSUME NEW t \in Task, NEW total \in Nat
    PROVE  PartsOf(t, total) \subseteq Part /\ IsFiniteSet(PartsOf(t, total))
<1> DEFINE perPart == (total + Cardinality(Worker) - 1) \div Cardinality(Worker)
           start == {i \in 0 .. total - 1 : i % perPart = 0}
           cut(k) == [task |-> t, start |-> k,
                      count |-> IF total - k < perPart THEN total - k ELSE perPart]
<1>1. Cardinality(Worker) \in Nat /\ Cardinality(Worker) # 0
  BY SetsAssumption, FS_CardinalityType, FS_EmptySet
<1>2. perPart \in Nat
  <2> DEFINE n == Cardinality(Worker)
  <2>1. n \in Nat \ {0} BY <1>1
  <2>2. ASSUME NEW a \in Nat, NEW b \in Nat \ {0} PROVE a \div b \in Nat
    BY <2>2
  <2>3. total + n - 1 \in Nat BY <2>1
  <2> QED BY <2>1, <2>2, <2>3
<1>3. \A k \in start : cut(k) \in Part
  BY <1>2 DEF Part
<1>4. IsFiniteSet(start)
  <2>1. IsFiniteSet(0 .. total - 1)
    BY FS_Interval
  <2>2. start \subseteq 0 .. total - 1
    OBVIOUS
  <2> QED BY <2>1, <2>2, FS_Subset
<1>5. PartsOf(t, total) = {cut(k) : k \in start}
  BY DEF PartsOf
<1>6. IsFiniteSet({cut(k) : k \in start})
  <2> DEFINE T == {cut(k) : k \in start}
             f == [k \in start |-> cut(k)]
  <2>1. f \in Surjection(start, T)
    BY DEF Surjection
  <2> QED BY <1>4, <2>1, FS_Surjection
<1> QED BY <1>3, <1>5, <1>6

(* readyTasks() appends a sequence of parts of the tasks that are ready. *)
LEMMA ReadyTasksType ==
    ASSUME NEW rel \in SUBSET Task, NEW total \in [Task -> Nat],
           ready \in Seq(Part), asleepReady \subseteq Worker,
           readyTasks(rel, total)
    PROVE  ready' \in Seq(Part) /\ asleepReady' \subseteq Worker
<1> DEFINE sets == {PartsOf(t, total[t]) : t \in rel}
           new == UNION sets
<1>1. IsFiniteSet(sets)
  <2> DEFINE f == [t \in rel |-> PartsOf(t, total[t])]
  <2>1. IsFiniteSet(rel)
    BY SetsAssumption, FS_Subset
  <2>2. f \in Surjection(rel, sets)
    BY DEF Surjection
  <2> QED BY <2>1, <2>2, FS_Surjection
<1>2. IsFiniteSet(new)
  <2>1. \A T \in sets : IsFiniteSet(T)
    BY PartsType
  <2> HIDE DEF sets
  <2> QED BY <1>1, <2>1, FS_UNION
<1>3. new \subseteq Part
  BY PartsType
<1>4. Cardinality(new) \in Nat
  BY <1>2, FS_CardinalityType
<1>5. PICK s \in SetToSeqs(new) : ready' = ready \o s
  BY DEF readyTasks
<1>6. s \in [1 .. Cardinality(new) -> new]
  BY <1>5 DEF SetToSeqs
<1>7. s \in Seq(Part)
  <2> DEFINE n == Cardinality(new)
  <2>1. n \in Nat /\ s \in [1 .. n -> Part]
    BY <1>3, <1>4, <1>6
  <2> HIDE DEF n
  <2> QED BY <2>1, SeqDef
<1> QED BY <1>5, <1>7 DEF readyTasks

(* The updates that the actions make to one task block, or to one group. *)
LEMMA TaskProgress ==
    ASSUME NEW r \in TaskRec, NEW active \in Int, NEW completed \in Nat,
           NEW state \in {"Ready", "Running", "Done", "Waiting"}
    PROVE  /\ [r EXCEPT !.state = state, !.active = active] \in TaskRec
           /\ [r EXCEPT !.state = state, !.active = active, !.completed = completed] \in TaskRec
BY DEF TaskRec

LEMMA TaskDone ==
    ASSUME NEW r \in TaskRec, NEW n \in Nat
    PROVE  [r EXCEPT !.state = "Done", !.active = 0, !.completed = n] \in TaskRec
<1> DEFINE state == "Done"
           active == 0
<1>1. state \in {"Ready", "Running", "Done", "Waiting"} /\ active \in Int
  OBVIOUS
<1> HIDE DEF state, active
<1>2. [r EXCEPT !.state = state, !.active = active, !.completed = n] \in TaskRec
  BY <1>1, TaskProgress
<1> QED BY <1>2 DEF state, active

LEMMA TaskFields ==
    ASSUME NEW r \in TaskRec
    PROVE  /\ r.active \in Int /\ r.completed \in Nat /\ r.total \in Nat
           /\ r.group \in Group \cup {NoGroup} /\ r.inputs \in Seq(Dep)
           /\ r.output \in Dep \cup {NoDep}
           /\ r.state \in {"Free", "Waiting", "Ready", "Running", "Blocked", "Done"}
BY DEF TaskRec

LEMMA TaskFlags ==
    ASSUME NEW r \in TaskRec
    PROVE  /\ [r EXCEPT !.detached = TRUE] \in TaskRec
           /\ [r EXCEPT !.output = NoDep] \in TaskRec
BY DEF TaskRec

(* A worker that counts its part as completed leaves proper task blocks. *)
LEMMA PartRecordedType ==
    ASSUME task \in [Task -> TaskRec], NEW t \in Task, NEW completed \in Nat
    PROVE  PartRecorded(t, completed) \in [Task -> TaskRec]
<1> DEFINE r == task[t]
           state == IF task[t].active = 1 THEN "Ready" ELSE r.state
<1>1. r \in TaskRec
  OBVIOUS
<1>2. r.active - 1 \in Int
  BY <1>1, TaskFields
<1>3. [r EXCEPT !.active = r.active - 1, !.completed = completed, !.state = state] \in TaskRec
  BY <1>1, <1>2 DEF TaskRec
<1>4. PartRecorded(t, completed)
         = [task EXCEPT ![t] = [r EXCEPT !.active = r.active - 1, !.completed = completed,
                                         !.state = state]]
  BY DEF PartRecorded
<1> QED BY <1>3, <1>4

LEMMA CompletedByType ==
    ASSUME TypeInv, NEW w \in Worker, pc[w] \in {"function", "returning", "completion"}
    PROVE  part[w].task \in Task /\ CompletedBy(w) \in Nat
BY TaskFields DEF TypeInv, WorkerHasPart, Part, TypeOK, CompletedBy

LEMMA GroupFields ==
    ASSUME NEW r \in GroupRec
    PROVE  /\ r.tasksCount \in Int /\ r.depCount \in 0 .. MaxDeps /\ r.depReserved \in Nat
           /\ r.met \in SUBSET Dep /\ r.waiting \in [Dep -> SUBSET Task]
           /\ r.waitingCount \in Int /\ r.blockedTasks \in SUBSET Task
           /\ r.blocked \in BOOLEAN
BY DEF GroupRec

LEMMA TasksCountUpdate ==
    ASSUME NEW r \in GroupRec, NEW n \in Int
    PROVE  [r EXCEPT !.tasksCount = n] \in GroupRec
BY DEF GroupRec

LEMMA GroupWithoutType ==
    ASSUME group \in [Group -> GroupRec], task \in [Task -> TaskRec], NEW t \in Task
    PROVE  GroupWithout(t) \in [Group -> GroupRec]
<1>1. CASE task[t].group = NoGroup
  BY <1>1 DEF GroupWithout
<1>2. CASE task[t].group # NoGroup
  <2> DEFINE g == task[t].group
  <2>1. g \in Group
    BY <1>2, TaskFields
  <2>2. group[g] \in GroupRec /\ group[g].tasksCount - 1 \in Int
    BY <2>1, GroupFields
  <2>3. [group[g] EXCEPT !.tasksCount = group[g].tasksCount - 1] \in GroupRec
    BY <2>2, TasksCountUpdate
  <2> QED BY <1>2, <2>1, <2>3 DEF GroupWithout
<1> QED BY <1>1, <1>2

(* dependencyMet() and addTask() keep the kinds of the variables. *)
LEMMA ReleasedType ==
    ASSUME TypeInv, NEW g \in Group, NEW d \in Dep \cup {NoDep}
    PROVE  Released(g, d) \in SUBSET Task /\ Cardinality(Released(g, d)) \in Nat
BY GroupFields, SetsAssumption, FS_Subset, FS_CardinalityType DEF TypeInv, TypeOK, Released

LEMMA SomeReadyType ==
    ASSUME TypeInv, NEW rel
    PROVE  [u \in Task |-> IF u \in rel THEN [task[u] EXCEPT !.state = "Ready"] ELSE task[u]]
              \in [Task -> TaskRec]
<1>1. ASSUME NEW u \in Task PROVE [task[u] EXCEPT !.state = "Ready"] \in TaskRec
  <2>1. task[u] \in TaskRec
    BY DEF TypeInv, TypeOK
  <2> QED BY <2>1 DEF TaskRec
<1> QED BY <1>1 DEF TypeInv, TypeOK

LEMMA GroupAfterMetType ==
    ASSUME TypeInv, NEW g \in Group, NEW d \in Dep \cup {NoDep}
    PROVE  GroupAfterMet(g, d) \in GroupRec
<1> DEFINE r == group[g]
           met2 == r.met \cup {d}
           moved == r.waiting[d] \ Released(g, d)
           listOf(u) == taskLowestUnmetDependency(task[u].inputs, met2)
           lists == [e \in Dep |-> IF e = d THEN {}
                                   ELSE r.waiting[e] \cup {u \in moved : listOf(u) = e}]
           count == r.waitingCount - Cardinality(Released(g, d))
<1>1. r \in GroupRec
  BY DEF TypeInv, TypeOK
<1>2. CASE d = NoDep \/ d \in r.met
  BY <1>1, <1>2 DEF GroupAfterMet
<1>3. CASE d # NoDep /\ d \notin r.met
  <2>1. d \in Dep
    BY <1>3
  <2>2. met2 \in SUBSET Dep /\ r.waiting \in [Dep -> SUBSET Task]
    BY <1>1, <2>1, GroupFields
  <2>3. lists \in [Dep -> SUBSET Task]
    BY <2>1, <2>2
  <2>4. count \in Int
    BY <1>1, GroupFields, ReleasedType
  <2> HIDE DEF r, met2, moved, lists, count
  <2>5. [r EXCEPT !.met = met2, !.waiting = lists, !.waitingCount = count] \in GroupRec
    BY <1>1, <2>2, <2>3, <2>4 DEF GroupRec
  <2>6. GroupAfterMet(g, d) = [r EXCEPT !.met = met2, !.waiting = lists, !.waitingCount = count]
    BY <1>3 DEF GroupAfterMet, r, met2, moved, lists, count
  <2> QED BY <2>5, <2>6
<1> QED BY <1>2, <1>3

LEMMA AddTaskType ==
    ASSUME TypeInv, NEW tk \in [Task -> TaskRec], NEW t \in Task,
           NEW g \in Group \cup {NoGroup}, NEW output \in Dep \cup {NoDep},
           NEW shape \in [inputs : Seq(Dep), total : Nat, finisher : BOOLEAN],
           NEW sliced \in BOOLEAN,
           addTask(tk, t, g, shape, output, sliced)
    PROVE  /\ task' \in [Task -> TaskRec] /\ group' \in [Group -> GroupRec]
           /\ ready' \in Seq(Part) /\ asleepReady' \subseteq Worker
           /\ pending' \in Int /\ UNCHANGED <<running, hung>>
<1> DEFINE met == IF g = NoGroup THEN {} ELSE group[g].met
           state == IF g # NoGroup /\ group[g].blocked THEN "Blocked"
                    ELSE IF taskDependenciesMet(shape.inputs, met) THEN "Ready" ELSE "Waiting"
           list == taskLowestUnmetDependency(shape.inputs, met)
<1>1. state \in {"Blocked", "Ready", "Waiting"}
  OBVIOUS
<1>2. task' \in [Task -> TaskRec]
  <2>1. NewTask(state, g, shape, output, sliced) \in TaskRec
    <3> HIDE DEF state
    <3> QED BY <1>1 DEF NewTask, TaskRec
  <2>2. task' = [tk EXCEPT ![t] = NewTask(state, g, shape, output, sliced)]
    BY DEF addTask
  <2> HIDE DEF state
  <2> QED BY <2>1, <2>2
<1>3. group' \in [Group -> GroupRec]
  <2>1. CASE g = NoGroup
    BY <2>1 DEF addTask, TypeInv, TypeOK
  <2>2. CASE g # NoGroup
    <3> DEFINE r == group[g]
               blockedTasks == IF state = "Blocked" THEN r.blockedTasks \cup {t} ELSE r.blockedTasks
               lists == IF state = "Waiting"
                        THEN [r.waiting EXCEPT ![list] = r.waiting[list] \cup {t}] ELSE r.waiting
               count == IF state = "Waiting" THEN r.waitingCount + 1 ELSE r.waitingCount
               new == [r EXCEPT !.tasksCount = r.tasksCount + 1, !.blockedTasks = blockedTasks,
                                !.waiting = lists, !.waitingCount = count]
    <3>1. g \in Group /\ r \in GroupRec
      BY <2>2 DEF TypeInv, TypeOK
    <3>2. /\ r.tasksCount + 1 \in Int /\ blockedTasks \in SUBSET Task /\ count \in Int
          /\ r.waiting \in [Dep -> SUBSET Task]
      BY <3>1, GroupFields
    <3>3. lists \in [Dep -> SUBSET Task]
      <4> HIDE DEF r, list, state
      <4> QED BY <3>2
    <3>4. group' = [group EXCEPT ![g] = new]
      BY <2>2 DEF addTask
    <3>5. new \in GroupRec
      <4> HIDE DEF r, blockedTasks, lists, count
      <4> QED BY <3>1, <3>2, <3>3 DEF GroupRec
    <3> HIDE DEF new
    <3> QED BY <3>1, <3>4, <3>5 DEF TypeInv, TypeOK
  <2> QED BY <2>1, <2>2
<1>4. ready' \in Seq(Part) /\ asleepReady' \subseteq Worker
  <2> DEFINE rel == IF state = "Ready" THEN {t} ELSE {}
             total == [Total EXCEPT ![t] = shape.total]
  <2>1. rel \in SUBSET Task /\ total \in [Task -> Nat]
    BY TaskFields DEF Total, TypeInv, TypeOK
  <2>2. readyTasks(rel, total)
    BY DEF addTask
  <2> HIDE DEF rel, total
  <2> QED BY <2>1, <2>2, ReadyTasksType DEF TypeInv, TypeOK
<1> QED BY <1>2, <1>3, <1>4 DEF addTask, TypeInv, TypeOK

(* The strengthened type invariant holds of every behaviour of the pool. *)
THEOREM TypeInvariant == Spec => []TypeInv
<1>1. Init => TypeInv
  <2> SUFFICES ASSUME Init PROVE TypeInv
    OBVIOUS
  <2> USE DEF Init
  <2>1. task \in [Task -> TaskRec] /\ group \in [Group -> GroupRec]
    BY FreeTaskType, NewGroupType
  <2>2. ready \in Seq(Part) /\ pending \in Int /\ running \in BOOLEAN /\ hung \in BOOLEAN
    <3>1. ready \in Seq(Part)
      BY EmptySeq
    <3>2. running \in BOOLEAN /\ hung \in BOOLEAN
      BY Zenon
    <3> QED BY <3>1, <3>2
  <2>3. /\ pc \in [Worker -> {"fetch", "function", "returning", "completion", "exited"}]
        /\ part \in [Worker -> Part \cup {NoPart}]
        /\ call \in [Actor -> Call]
        /\ held \in [Client -> SUBSET Task]
        /\ asleepReady \subseteq Worker /\ asleepCompleted \subseteq Client
    BY DEF Call
  <2>4. WorkerHasPart
    BY DEF WorkerHasPart
  <2> QED BY <2>1, <2>2, <2>3, <2>4 DEF TypeInv, TypeOK
<1>2. TypeInv /\ [Next]_vars => TypeInv'
  <2> SUFFICES ASSUME TypeInv, [Next]_vars PROVE TypeInv'
    OBVIOUS
  <2>1. ASSUME NEW w \in Worker, WorkerExit(w)
        PROVE  TypeInv'
    BY <2>1
       DEF TypeInv, TypeOK, WorkerHasPart, poolVars, clientFrame, WorkerExit
  <2>2. ASSUME NEW w \in Worker, WorkerSleep(w)
        PROVE  TypeInv'
    BY <2>2
       DEF TypeInv, TypeOK, WorkerHasPart, poolVars, clientFrame, WorkerSleep, Awake
  <2>3. ASSUME NEW w \in Worker, WorkerRun(w)
        PROVE  TypeInv'
    <3> DEFINE t == Head(ready).task
    <3>1. Head(ready) \in Part /\ Tail(ready) \in Seq(Part)
      BY <2>3, HeadTailProperties DEF WorkerRun, TypeInv, TypeOK
    <3>2. t \in Task
      BY <3>1 DEF Part
    <3>3. [task[t] EXCEPT !.state = "Running", !.active = task[t].active + 1] \in TaskRec
      <4>1. task[t] \in TaskRec /\ task[t].active + 1 \in Int
        BY <3>2, TaskFields DEF TypeInv, TypeOK
      <4> QED BY <4>1, TaskProgress
    <3>4. task' = [task EXCEPT ![t] =
                      [task[t] EXCEPT !.state = "Running", !.active = task[t].active + 1]]
      BY <2>3 DEF WorkerRun
    <3>5. task' \in [Task -> TaskRec]
      BY <3>2, <3>3, <3>4 DEF TypeInv, TypeOK
    <3> QED BY <2>3, <3>1, <3>5 DEF WorkerRun, TypeInv, TypeOK, WorkerHasPart
  <2>4. ASSUME NEW w \in Worker, WorkerPartDone(w)
        PROVE  TypeInv'
    BY <2>4, CompletedByType, PartRecordedType DEF WorkerPartDone, Returned, TypeInv, TypeOK,
       broadcastCompleted, WorkerHasPart
  <2>5. ASSUME NEW w \in Worker, WorkerCompletion(w)
        PROVE  TypeInv'
    BY <2>5, CompletedByType, PartRecordedType DEF WorkerCompletion, Returned, TypeInv, TypeOK,
       broadcastCompleted, WorkerHasPart
  <2>6. ASSUME NEW a \in Actor, NoWait(a)
        PROVE  TypeInv'
    <3>1. call[a].task \in Task
      BY <2>6 DEF NoWait, Call, Waits, Idle, TypeInv, TypeOK
    <3> DEFINE t == call[a].task
    <3>2. task' \in [Task -> TaskRec]
      <4>1. [task[t] EXCEPT !.detached = TRUE] \in TaskRec
        BY <3>1, TaskFlags DEF TypeInv, TypeOK
      <4>2. CASE task[t].state = "Done"
        BY <2>6, <3>1, <4>2, FreeTaskType DEF NoWait, removeTask, TypeInv, TypeOK
      <4>3. CASE task[t].state # "Done"
        BY <2>6, <3>1, <4>1, <4>3 DEF NoWait, TypeInv, TypeOK
      <4> QED BY <4>2, <4>3
    <3>3. group' \in [Group -> GroupRec]
      BY <2>6, <3>1, GroupWithoutType DEF NoWait, removeTask, TypeInv, TypeOK
    <3> QED BY <2>6, <3>2, <3>3 DEF NoWait, Call, TypeInv, TypeOK, WorkerHasPart
  <2>7. ASSUME NEW c \in Client, NEW g \in Group, GroupInitialize(c, g)
        PROVE  TypeInv'
    BY <2>7, NewGroupType
       DEF TypeInv, TypeOK, WorkerHasPart, poolVars, clientFrame, GroupInitialize
  <2>8. ASSUME NEW c \in Client, NEW g \in Group, GroupDestroy(c, g)
        PROVE  TypeInv'
    BY <2>8, NewGroupType
       DEF TypeInv, TypeOK, WorkerHasPart, poolVars, clientFrame, GroupDestroy, GroupRec
  <2>9. ASSUME NEW c \in Client, NEW g \in Group, DependencyAdd(c, g)
        PROVE  TypeInv'
    <3> DEFINE r == group[g]
               reserved == IF r.depCount >= r.depReserved THEN 2 * r.depReserved ELSE r.depReserved
    <3>1. r \in GroupRec /\ r.depCount + 1 \in 0 .. MaxDeps /\ reserved \in Nat
      BY <2>9, GroupFields, BoundsAssumption DEF DependencyAdd, TypeInv, TypeOK
    <3>2. [r EXCEPT !.depCount = r.depCount + 1, !.depReserved = reserved] \in GroupRec
      BY <3>1 DEF GroupRec
    <3>3. group' = [group EXCEPT ![g] =
                       [r EXCEPT !.depCount = r.depCount + 1, !.depReserved = reserved]]
      BY <2>9 DEF DependencyAdd
    <3>4. group' \in [Group -> GroupRec]
      BY <3>2, <3>3 DEF TypeInv, TypeOK
    <3> QED BY <2>9, <3>4 DEF DependencyAdd, clientFrame, TypeInv, TypeOK, WorkerHasPart
  <2>10. ASSUME NEW c \in Client, NEW g \in Group, DependencyAddMet(c, g)
        PROVE  TypeInv'
    <3> DEFINE r == group[g]
               room == r.depCount < r.depReserved
               count == IF room THEN r.depCount + 1 ELSE r.depCount
               reserved == IF room THEN r.depReserved ELSE 2 * r.depReserved
               met == r.met \cup {r.depCount}
    <3>1. r \in GroupRec /\ count \in 0 .. MaxDeps /\ reserved \in Nat /\ met \in SUBSET Dep
      BY <2>10, GroupFields, BoundsAssumption, SMTT(30) DEF DependencyAddMet, Dep, TypeInv, TypeOK
    <3>2. [r EXCEPT !.met = met, !.depCount = count, !.depReserved = reserved] \in GroupRec
      BY <3>1 DEF GroupRec
    <3>3. group' = [group EXCEPT ![g] =
                       [r EXCEPT !.met = met, !.depCount = count, !.depReserved = reserved]]
      BY <2>10 DEF DependencyAddMet
    <3>4. group' \in [Group -> GroupRec]
      BY <3>2, <3>3 DEF TypeInv, TypeOK
    <3> QED BY <2>10, <3>4 DEF DependencyAddMet, clientFrame, TypeInv, TypeOK, WorkerHasPart
  <2>11. ASSUME NEW c \in Client, NEW g \in Group, GroupBlock(c, g)
        PROVE  TypeInv'
    <3>1. [group[g] EXCEPT !.blocked = TRUE] \in GroupRec
      <4>1. group[g] \in GroupRec
        BY DEF TypeInv, TypeOK
      <4> QED BY <4>1 DEF GroupRec
    <3>2. group' = [group EXCEPT ![g] = [group[g] EXCEPT !.blocked = TRUE]]
      BY <2>11 DEF GroupBlock
    <3>3. group' \in [Group -> GroupRec]
      BY <3>1, <3>2 DEF TypeInv, TypeOK
    <3> QED BY <2>11, <3>3 DEF GroupBlock, clientFrame, TypeInv, TypeOK, WorkerHasPart
  <2>12. ASSUME NEW c \in Client, NEW t \in Task, PoolNoWait(c, t)
        PROVE  TypeInv'
    BY <2>12
       DEF TypeInv, TypeOK, WorkerHasPart, poolVars, clientFrame, PoolNoWait, Call, Actor
  <2>13. ASSUME NEW c \in Client, NEW wait \in Waits, WaitStart(c, wait)
        PROVE  TypeInv'
    BY <2>13
       DEF TypeInv, TypeOK, WorkerHasPart, poolVars, clientFrame, WaitStart, Call, Actor
  <2>14. ASSUME NEW c \in Client, WaitSleep(c)
        PROVE  TypeInv'
    BY <2>14
       DEF TypeInv, TypeOK, WorkerHasPart, poolVars, clientFrame, WaitSleep
  <2>15. ASSUME NEW c \in Client, WaitReturn(c)
        PROVE  TypeInv'
    <3>1. task' \in [Task -> TaskRec] /\ group' \in [Group -> GroupRec] /\ held' \in [Client -> SUBSET Task]
      <4>1. CASE call[c].op = "taskWait"
        <5>1. call[c].task \in Task
          BY <4>1, <2>15 DEF WaitReturn, Waiting, Waits
        <5> QED BY ZenonT(60), <4>1, <5>1, <2>15, FreeTaskType, GroupWithoutType
                DEF WaitReturn, removeTask, TypeInv, TypeOK
      <4>2. CASE call[c].op # "taskWait"
        BY <4>2, <2>15 DEF WaitReturn, TypeInv, TypeOK
      <4> QED BY <4>1, <4>2
    <3> QED BY <2>15, <3>1 DEF WaitReturn, clientFrame, Call, Actor, TypeInv, TypeOK, WorkerHasPart
  <2>16. ASSUME NEW c \in Client, PoolDestroy(c)
        PROVE  TypeInv'
    BY <2>16
       DEF TypeInv, TypeOK, WorkerHasPart, poolVars, clientFrame, PoolDestroy, Call, Actor
  <2>17. ASSUME NEW c \in Client, PoolJoin(c)
        PROVE  TypeInv'
    BY <2>17, FreeTaskType
       DEF TypeInv, TypeOK, WorkerHasPart, poolVars, clientFrame, PoolJoin, Call, Actor
  <2>18. ASSUME Destroyed \/ UNCHANGED vars
        PROVE  TypeInv'
    BY <2>18
       DEF TypeInv, TypeOK, WorkerHasPart, poolVars, clientFrame, Destroyed, vars
  <2>19. ASSUME NEW w \in Worker, WorkerFinish(w)
         PROVE  TypeInv'
    <3> DEFINE t == part[w].task
               g == task[t].group
               o == task[t].output
               rel == IF g = NoGroup THEN {} ELSE Released(g, o)
    <3>1. t \in Task /\ g \in Group \cup {NoGroup} /\ o \in Dep \cup {NoDep}
      BY <2>19, CompletedByType, TaskFields DEF WorkerFinish, Returned, TypeInv, TypeOK
    <3>2. finishTask(w, task[t].total)
      BY <2>19 DEF WorkerFinish
    <3>3. CASE g # NoGroup /\ NeverEnds(g, o)
      BY <3>2, <3>3 DEF finishTask, Hang, TypeInv, TypeOK, WorkerHasPart
    <3>4. CASE ~(g # NoGroup /\ NeverEnds(g, o))
      <4>1. /\ task[t] \in TaskRec /\ task[t].total \in Nat
            /\ rel \in SUBSET Task /\ Total \in [Task -> Nat]
        BY <3>1, ReleasedType, TaskFields DEF Total, TypeInv, TypeOK
      <4>2. readyTasks(rel, Total)
        BY <3>2, <3>4 DEF finishTask
      <4>3. ready' \in Seq(Part) /\ asleepReady' \subseteq Worker
        BY <4>1, <4>2, ReadyTasksType DEF TypeInv, TypeOK
      <4>4. group' \in [Group -> GroupRec]
        <5>1. CASE g = NoGroup
          BY <3>2, <3>4, <5>1 DEF finishTask, TypeInv, TypeOK
        <5>2. CASE g # NoGroup
          <6> DEFINE r == GroupAfterMet(g, o)
                     n == IF task[t].detached THEN r.tasksCount - 1 ELSE r.tasksCount
          <6>1. g \in Group /\ r \in GroupRec
            BY <3>1, <5>2, GroupAfterMetType
          <6>2. n \in Int
            BY <6>1, GroupFields
          <6>3. [r EXCEPT !.tasksCount = n] \in GroupRec
            BY <6>1, <6>2, TasksCountUpdate
          <6>4. group' = [group EXCEPT ![g] = [r EXCEPT !.tasksCount = n]]
            BY <3>2, <3>4, <5>2 DEF finishTask
          <6> QED BY <6>1, <6>3, <6>4 DEF TypeInv, TypeOK
        <5> QED BY <5>1, <5>2
      <4>5. task' \in [Task -> TaskRec]
        <5> DEFINE done == [task[t] EXCEPT !.state = "Done", !.active = 0,
                                           !.completed = task[t].total]
        <5>1. done \in TaskRec
          BY <4>1, TaskDone
        <5>2. task' = [u \in Task |->
                 IF u = t THEN IF task[t].detached THEN FreeTask ELSE done
                 ELSE IF u \in rel THEN [task[u] EXCEPT !.state = "Ready"] ELSE task[u]]
          BY <3>2, <3>4 DEF finishTask
        <5>3. ASSUME NEW u \in Task PROVE [task[u] EXCEPT !.state = "Ready"] \in TaskRec
          <6>1. task[u] \in TaskRec
            BY DEF TypeInv, TypeOK
          <6> QED BY <6>1 DEF TaskRec
        <5> HIDE DEF done, rel
        <5> QED BY <5>1, <5>2, <5>3, FreeTaskType DEF TypeInv, TypeOK
      <4>6. /\ pending' \in Int /\ asleepCompleted' = {} /\ UNCHANGED <<running, call, held, hung>>
            /\ pc' = [pc EXCEPT ![w] = "fetch"] /\ part' = [part EXCEPT ![w] = NoPart]
        BY <3>2, <3>4 DEF finishTask, broadcastCompleted, TypeInv, TypeOK
      <4> QED BY <4>3, <4>4, <4>5, <4>6 DEF TypeInv, TypeOK, WorkerHasPart
    <3> QED BY <3>3, <3>4
  <2>20. ASSUME NEW a \in Actor, NEW g \in Group, NEW d \in Dep, DependencyMet(a, g, d)
         PROVE  TypeInv'
    <3>1. CASE Hang
      BY <3>1 DEF Hang, TypeInv, TypeOK, WorkerHasPart
    <3>2. CASE ~NeverEnds(g, d)
      <4> DEFINE rel == Released(g, d)
      <4>1. rel \in SUBSET Task /\ Total \in [Task -> Nat]
        BY ReleasedType, TaskFields DEF Total, TypeInv, TypeOK
      <4>2. readyTasks(rel, Total) /\ group' = [group EXCEPT ![g] = GroupAfterMet(g, d)]
        BY <2>20, <3>2 DEF DependencyMet
      <4>3. ready' \in Seq(Part) /\ asleepReady' \subseteq Worker
        BY <4>1, <4>2, ReadyTasksType DEF TypeInv, TypeOK
      <4>4. group' \in [Group -> GroupRec]
        BY <4>2, GroupAfterMetType DEF TypeInv, TypeOK
      <4>5. task' \in [Task -> TaskRec]
        BY <2>20, <3>2, SomeReadyType DEF DependencyMet, TypeInv, TypeOK
      <4> QED BY <2>20, <3>2, <4>3, <4>4, <4>5 DEF DependencyMet, TypeInv, TypeOK, WorkerHasPart
    <3> QED BY <2>20, <3>1, <3>2 DEF DependencyMet
  <2>21. ASSUME NEW w \in Worker, NEW t \in Task, NEW shape \in Shapes,
                AddSlicedDeferred(w, t, shape)
         PROVE  TypeInv'
    <3> DEFINE p == part[w].task
               tk == [task EXCEPT ![p] = [task[p] EXCEPT !.output = NoDep]]
               sh == [shape EXCEPT !.inputs = task[p].inputs]
    <3>1. p \in Task
      BY <2>21 DEF AddSlicedDeferred, MayCall, TypeInv, WorkerHasPart, Part
    <3>2. /\ task[p].group \in Group \cup {NoGroup} /\ task[p].output \in Dep \cup {NoDep}
          /\ task[p].inputs \in Seq(Dep) /\ task[p] \in TaskRec
      BY <3>1, TaskFields DEF TypeInv, TypeOK
    <3>3. tk \in [Task -> TaskRec]
      BY <3>1, <3>2, TaskFlags DEF TypeInv, TypeOK
    <3>4. sh \in [inputs : Seq(Dep), total : Nat, finisher : BOOLEAN]
      BY <3>2, BoundsAssumption
    <3>5. addTask(tk, t, task[p].group, sh, task[p].output, TRUE)
      BY <2>21 DEF AddSlicedDeferred
    <3> HIDE DEF tk, sh
    <3>6. /\ task' \in [Task -> TaskRec] /\ group' \in [Group -> GroupRec]
          /\ ready' \in Seq(Part) /\ asleepReady' \subseteq Worker
          /\ pending' \in Int /\ UNCHANGED <<running, hung>>
      BY <3>2, <3>3, <3>4, <3>5, AddTaskType
    <3>7. call' \in [Actor -> Call]
      BY <2>21 DEF AddSlicedDeferred, Call, TypeInv, TypeOK
    <3> QED BY <2>21, <3>6, <3>7 DEF AddSlicedDeferred, MayCall, TypeInv, TypeOK, WorkerHasPart
  <2>22. ASSUME NEW c \in Client, NEW g \in Group, NEW t \in Task, NEW shape \in Shapes,
                GroupAdd(c, g, t, shape)
         PROVE  TypeInv'
    BY <2>22, BoundsAssumption, AddTaskType DEF GroupAdd, TypeInv, TypeOK, Call, clientFrame, WorkerHasPart
  <2>23. ASSUME NEW c \in Client, NEW t \in Task, NEW shape \in Shapes, PoolAdd(c, t, shape)
         PROVE  TypeInv'
    BY <2>23, BoundsAssumption, AddTaskType DEF PoolAdd, TypeInv, TypeOK, clientFrame, WorkerHasPart
  <2>24. ASSUME NEW c \in Client, NEW g \in Group, GroupUnblock(c, g)
         PROVE  TypeInv'
    <3> DEFINE r == group[g]
               list == r.blockedTasks
               rel == {t \in list : taskDependenciesMet(task[t].inputs, r.met)}
               listOf(t) == taskLowestUnmetDependency(task[t].inputs, r.met)
               lists == [d \in Dep |-> r.waiting[d] \cup {t \in list \ rel : listOf(t) = d}]
               count == r.waitingCount + Cardinality(list \ rel)
               new == [r EXCEPT !.blocked = FALSE, !.waiting = lists, !.waitingCount = count]
    <3>1. r \in GroupRec
      BY DEF TypeInv, TypeOK
    <3>2. list \in SUBSET Task /\ r.waiting \in [Dep -> SUBSET Task] /\ r.waitingCount \in Int
      BY <3>1, GroupFields
    <3>3. list \ rel \in SUBSET Task /\ rel \in SUBSET Task
      BY <3>2
    <3>4. Cardinality(list \ rel) \in Nat
      BY <3>3, SetsAssumption, FS_Subset, FS_CardinalityType
    <3>5. lists \in [Dep -> SUBSET Task] /\ count \in Int
      BY <3>2, <3>3, <3>4
    <3>6. new \in GroupRec
      <4> HIDE DEF r, lists, count
      <4> QED BY <3>1, <3>5 DEF GroupRec
    <3>7. group' = [group EXCEPT ![g] = new]
      BY <2>24 DEF GroupUnblock
    <3>8. group' \in [Group -> GroupRec]
      <4> HIDE DEF new
      <4> QED BY <3>6, <3>7 DEF TypeInv, TypeOK
    <3>9. task' \in [Task -> TaskRec]
      <4> DEFINE state(t) == IF t \in rel THEN "Ready" ELSE "Waiting"
      <4>1. task' = [t \in Task |-> IF t \in list THEN [task[t] EXCEPT !.state = state(t)]
                                    ELSE task[t]]
        BY <2>24 DEF GroupUnblock
      <4>2. ASSUME NEW t \in Task PROVE [task[t] EXCEPT !.state = state(t)] \in TaskRec
        <5>1. task[t] \in TaskRec /\ state(t) \in {"Ready", "Waiting"}
          BY DEF TypeInv, TypeOK
        <5> HIDE DEF state
        <5> QED BY <5>1 DEF TaskRec
      <4> HIDE DEF state, list
      <4> QED BY <4>1, <4>2 DEF TypeInv, TypeOK
    <3>10. readyTasks(rel, Total) /\ Total \in [Task -> Nat]
      BY <2>24, TaskFields DEF GroupUnblock, Total, TypeInv, TypeOK
    <3>11. ready' \in Seq(Part) /\ asleepReady' \subseteq Worker
      <4> HIDE DEF rel
      <4> QED BY <3>3, <3>10, ReadyTasksType DEF TypeInv, TypeOK
    <3> QED BY <2>24, <3>8, <3>9, <3>11
            DEF GroupUnblock, clientFrame, TypeInv, TypeOK, WorkerHasPart
  <2> QED
    BY <2>1, <2>2, <2>3, <2>4, <2>5, <2>6, <2>7, <2>8, <2>9, <2>10, <2>11, <2>12, <2>13, <2>14,
       <2>15, <2>16, <2>17, <2>18, <2>19, <2>20, <2>21, <2>22, <2>23, <2>24
       DEF Next, WorkerStep, CallStep
<1> QED BY <1>1, <1>2, PTL DEF Spec

(* The variables of the pool keep the kinds the code gives them. *)
THEOREM TypeCorrect == Spec => []TypeOK
<1>1. TypeInv => TypeOK
  BY DEF TypeInv
<1> QED BY <1>1, TypeInvariant, PTL

-----------------------------------------------------------------------------
(***************************************************************************)
(* How the iterations of a task are cut into parts, queued, taken by       *)
(* workers and counted: the lemmas by which the last part of a task to end *)
(* is known to be the last.  The definitions take the state they speak of  *)
(* as parameters, because the end of a task is treated as two steps: the   *)
(* task leaves, and its output starts others.                              *)
(***************************************************************************)
Begun == {"Ready", "Running"}
Working == {"function", "returning"}
Span(p) == p.start .. p.start + p.count - 1

(* A queued part, or one in the hands of a worker, is a piece of a task    *)
(* that has begun.                                                         *)
PieceOK(tk, p) == /\ tk[p.task].state \in Begun
                  /\ p.count >= 1 /\ p.start + p.count <= tk[p.task].total
Apart(p, q) == p.task = q.task => Span(p) \cap Span(q) = {}

QueueOK(tk, rd) ==
    /\ \A i \in DOMAIN rd : PieceOK(tk, rd[i])
    /\ \A i, j \in DOMAIN rd : i # j => Apart(rd[i], rd[j])

HandsOK(tk, rd, p, pt) ==
    /\ \A w \in Worker : p[w] \in Working => PieceOK(tk, pt[w])
    /\ \A w, v \in Worker : p[w] \in Working /\ p[v] \in Working /\ w # v => Apart(pt[w], pt[v])
    /\ \A w \in Worker, i \in DOMAIN rd : p[w] \in Working => Apart(pt[w], rd[i])

(* A worker in a completion function is the last of its task. *)
LastOK(tk, p, pt) ==
    \A w \in Worker : p[w] = "completion" =>
        /\ tk[pt[w].task].state \in Begun
        /\ tk[pt[w].task].completed = tk[pt[w].task].total
        /\ \A v \in Worker : p[v] = "completion" /\ v # w => pt[v].task # pt[w].task

(* The iterations of a task that are queued or being run. *)
Left(tk, rd, p, pt, t) ==
    {k \in 0 .. tk[t].total - 1 :
        \/ \E i \in DOMAIN rd : rd[i].task = t /\ k \in Span(rd[i])
        \/ \E w \in Worker : p[w] \in Working /\ pt[w].task = t /\ k \in Span(pt[w])}

LeftOK(tk, rd, p, pt) ==
    \A t \in Task : tk[t].state \in Begun =>
        tk[t].completed + Cardinality(Left(tk, rd, p, pt, t)) = tk[t].total

FreshOK(tk) == \A t \in Task : tk[t].state \in {"Waiting", "Blocked"} => tk[t].completed = 0

(* What the lemmas assume of the kinds of the state they speak of. *)
KindsOK(tk, rd, p, pt) ==
    /\ tk \in [Task -> TaskRec] /\ rd \in Seq(Part)
    /\ \A w \in Worker : p[w] \in Working \cup {"completion"} => pt[w] \in Part

PartsOK(tk, rd, p, pt) ==
    /\ QueueOK(tk, rd) /\ HandsOK(tk, rd, p, pt) /\ LastOK(tk, p, pt)
    /\ LeftOK(tk, rd, p, pt) /\ FreshOK(tk)

(* Arithmetic of the cut: parts start at multiples of their length. *)
LEMMA DivPositive ==
    ASSUME NEW a \in Nat, NEW b \in Nat \ {0}, a >= b
    PROVE  a \div b \in Nat /\ a \div b >= 1
OBVIOUS

LEMMA ModMultiple ==
    ASSUME NEW i \in Nat, NEW p \in Nat \ {0}
    PROVE  /\ i % p \in 0 .. p - 1 /\ i \div p \in Nat
           /\ i = p * (i \div p) + (i % p)
OBVIOUS

(* Two multiples of p are at least p apart. *)
LEMMA Gap ==
    ASSUME NEW i \in Nat, NEW j \in Nat, NEW p \in Nat \ {0}, i % p = 0, j % p = 0, i < j
    PROVE  i + p <= j
<1> DEFINE a == i \div p
           b == j \div p
<1>1. a \in Nat /\ b \in Nat /\ i = p * a /\ j = p * b
  BY ModMultiple
<1> HIDE DEF a, b
<1>2. a < b
  <2>1. CASE b <= a
    <3>1. PICK c \in Nat : a = b + c
      <4>1. a - b \in Nat /\ a = b + (a - b) BY <1>1, <2>1
      <4> QED BY <4>1
    <3>2. p * a = p * b + p * c
      BY <1>1, <3>1
    <3>3. p * c \in Nat
      BY <3>1
    <3> QED BY <1>1, <3>2, <3>3
  <2> QED BY <1>1, <2>1
<1>3. PICK c \in Nat : b = a + 1 + c
  <2>1. b - a - 1 \in Nat /\ b = a + 1 + (b - a - 1) BY <1>1, <1>2
  <2> QED BY <2>1
<1>4. p * b = p * a + p + p * c /\ p * c \in Nat
  BY <1>1, <1>3
<1> QED BY <1>1, <1>4

(* Every number lies in the stretch that starts at a multiple of p. *)
LEMMA Cover ==
    ASSUME NEW k \in Nat, NEW p \in Nat \ {0}
    PROVE  k - (k % p) \in Nat /\ (k - (k % p)) % p = 0
<1> DEFINE a == k \div p
<1>1. a \in Nat /\ k = p * a + (k % p) /\ k % p \in 0 .. p - 1
  BY ModMultiple
<1> HIDE DEF a
<1>2. k - (k % p) = p * a /\ p * a \in Nat
  BY <1>1
<1>3. (p * a) % p = 0
  BY <1>1
<1> QED BY <1>2, <1>3

LEMMA PartsCut ==
    ASSUME NEW t \in Task, NEW n \in Nat
    PROVE  /\ \A p \in PartsOf(t, n) : /\ p \in Part /\ p.task = t
                                       /\ p.count >= 1 /\ p.start + p.count <= n
           /\ \A p, q \in PartsOf(t, n) : p # q => Span(p) \cap Span(q) = {}
           /\ \A k \in 0 .. n - 1 : \E p \in PartsOf(t, n) : k \in Span(p)
<1> DEFINE perPart == (n + Cardinality(Worker) - 1) \div Cardinality(Worker)
           count(k) == IF n - k < perPart THEN n - k ELSE perPart
           cut(k) == [task |-> t, start |-> k, count |-> count(k)]
           starts == {i \in 0 .. n - 1 : i % perPart = 0}
<1>1. PartsOf(t, n) = {cut(k) : k \in starts}
  BY DEF PartsOf
<1>2. CASE n = 0
  BY <1>1, <1>2
<1>3. CASE n # 0
  <2>1. Cardinality(Worker) \in Nat \ {0}
    BY SetsAssumption, FS_CardinalityType, FS_EmptySet
  <2>2. perPart \in Nat \ {0}
    <3> DEFINE c == Cardinality(Worker)
    <3>1. c \in Nat \ {0} /\ n + c - 1 \in Nat /\ n + c - 1 >= c
      BY <1>3, <2>1
    <3> QED BY <3>1, DivPositive
  <2> HIDE DEF perPart
  <2>3. \A k \in starts : k \in 0 .. n - 1 /\ count(k) \in Nat /\ count(k) >= 1 /\ k + count(k) <= n
    BY <2>2
  <2>4. \A p \in PartsOf(t, n) : /\ p \in Part /\ p.task = t
                                 /\ p.count >= 1 /\ p.start + p.count <= n
    BY <1>1, <2>3 DEF Part
  <2>5. ASSUME NEW j \in starts, NEW k \in starts, j < k
        PROVE  Span(cut(j)) \cap Span(cut(k)) = {}
    <3>1. j + perPart <= k
      <4>1. j \in Nat /\ k \in Nat /\ j % perPart = 0 /\ k % perPart = 0
        OBVIOUS
      <4> QED BY <2>2, <2>5, <4>1, Gap
    <3>2. count(j) <= perPart /\ count(j) \in Nat /\ count(k) \in Nat
      BY <2>2, <2>3
    <3> HIDE DEF count
    <3> QED BY <2>2, <3>1, <3>2 DEF Span
  <2>6. \A p, q \in PartsOf(t, n) : p # q => Span(p) \cap Span(q) = {}
    <3> SUFFICES ASSUME NEW j \in starts, NEW k \in starts, cut(j) # cut(k)
                 PROVE  Span(cut(j)) \cap Span(cut(k)) = {}
      BY <1>1
    <3>1. j < k \/ k < j
      OBVIOUS
    <3> HIDE DEF cut
    <3> QED BY <2>5, <3>1
  <2>7. ASSUME NEW k \in 0 .. n - 1
        PROVE  \E p \in PartsOf(t, n) : k \in Span(p)
    <3> DEFINE j == k - (k % perPart)
    <3>1. k % perPart \in 0 .. perPart - 1
      BY <2>2, ModMultiple
    <3>2. j \in Nat /\ j % perPart = 0
      BY <2>2, Cover
    <3>3. j <= k /\ k < j + perPart
      BY <2>2, <3>1
    <3> HIDE DEF j
    <3>4. j \in starts
      BY <3>2, <3>3
    <3>5. k \in Span(cut(j))
      BY <2>2, <3>2, <3>3 DEF Span
    <3> QED BY <1>1, <3>4, <3>5
  <2> QED BY <2>4, <2>6, <2>7
<1> QED BY <1>2, <1>3

(* The order in which parts are pushed lists each of them exactly once. *)
LEMMA Enumeration ==
    ASSUME NEW S, IsFiniteSet(S), NEW s \in SetToSeqs(S)
    PROVE  /\ s \in Seq(S)
           /\ \A i \in DOMAIN s : s[i] \in S
           /\ \A i, j \in DOMAIN s : i # j => s[i] # s[j]
           /\ \A x \in S : \E i \in DOMAIN s : s[i] = x
<1> DEFINE D == 1 .. Cardinality(S)
<1>1. Cardinality(S) \in Nat
  BY FS_CardinalityType
<1>2. s \in [D -> S] /\ \A i, j \in D : i # j => s[i] # s[j]
  BY DEF SetToSeqs
<1>3. IsFiniteSet(D) /\ Cardinality(D) = Cardinality(S)
  BY <1>1, FS_Interval
<1>4. s \in Injection(D, S)
  BY <1>2 DEF Injection, IsInjective
<1>5. s \in Surjection(D, S)
  BY <1>3, <1>4, FS_Injection
<1>6. s \in Seq(S)
  BY <1>1, <1>2, SeqDef
<1> QED BY <1>2, <1>5, <1>6 DEF Surjection

(* The parts of several tasks that start together. *)
LEMMA PartsOfMany ==
    ASSUME NEW rel \in SUBSET Task, NEW total \in [Task -> Nat]
    PROVE  LET S == UNION {PartsOf(t, total[t]) : t \in rel}
           IN  /\ IsFiniteSet(S)
               /\ \A x \in S : /\ x \in Part /\ x.task \in rel
                               /\ x.count >= 1 /\ x.start + x.count <= total[x.task]
               /\ \A x, y \in S : x # y => Apart(x, y)
               /\ \A t \in rel : \A k \in 0 .. total[t] - 1 :
                      \E x \in S : x.task = t /\ k \in Span(x)
<1> DEFINE sets == {PartsOf(t, total[t]) : t \in rel}
           S == UNION sets
<1>1. IsFiniteSet(sets)
  <2> DEFINE f == [t \in rel |-> PartsOf(t, total[t])]
  <2>1. IsFiniteSet(rel)
    BY SetsAssumption, FS_Subset
  <2>2. f \in Surjection(rel, sets)
    BY DEF Surjection
  <2> QED BY <2>1, <2>2, FS_Surjection
<1>2. IsFiniteSet(S)
  <2>1. \A T \in sets : IsFiniteSet(T)
    BY PartsType
  <2> HIDE DEF sets
  <2> QED BY <1>1, <2>1, FS_UNION
<1>3. ASSUME NEW t \in rel
      PROVE  /\ \A x \in PartsOf(t, total[t]) : /\ x \in Part /\ x.task = t
                                               /\ x.count >= 1 /\ x.start + x.count <= total[t]
             /\ \A x, y \in PartsOf(t, total[t]) : x # y => Span(x) \cap Span(y) = {}
             /\ \A k \in 0 .. total[t] - 1 : \E x \in PartsOf(t, total[t]) : k \in Span(x)
  BY PartsCut
<1>4. \A x \in S : /\ x \in Part /\ x.task \in rel /\ x \in PartsOf(x.task, total[x.task])
                  /\ x.count >= 1 /\ x.start + x.count <= total[x.task]
  BY <1>3
<1>5. \A x, y \in S : x # y => Apart(x, y)
  BY <1>3, <1>4 DEF Apart
<1>6. \A t \in rel : \A k \in 0 .. total[t] - 1 : \E x \in S : x.task = t /\ k \in Span(x)
  BY <1>3
<1> QED BY <1>2, <1>4, <1>5, <1>6

(* What the step does in which the tasks of rel start. *)
NewParts(rel, total) == UNION {PartsOf(t, total[t]) : t \in rel}

StartStep(tk, tk1, rel, total) ==
    /\ \A t \in rel : /\ tk[t].state \notin Begun /\ tk1[t].state = "Ready"
                     /\ tk1[t].completed = 0 /\ tk1[t].total = total[t]
    /\ \A t \in Task \ rel : tk1[t].state \in Begun <=> tk[t].state \in Begun
    /\ \A t \in Task \ rel : tk[t].state \in Begun =>
           tk1[t].completed = tk[t].completed /\ tk1[t].total = tk[t].total

SameHands(p, p1) == /\ \A w \in Worker : p1[w] \in Working <=> p[w] \in Working
                    /\ \A w \in Worker : p1[w] = "completion" <=> p[w] = "completion"

(* Tasks that start bring all of their iterations into the queue. *)
LEMMA StartParts ==
    ASSUME NEW tk, NEW tk1 \in [Task -> TaskRec], NEW rd, NEW p, NEW p1, NEW pt,
           KindsOK(tk, rd, p, pt), PartsOK(tk, rd, p, pt), FreshOK(tk1),
           NEW rel \in SUBSET Task, NEW total \in [Task -> Nat],
           NEW s \in SetToSeqs(NewParts(rel, total)),
           StartStep(tk, tk1, rel, total), SameHands(p, p1)
    PROVE  PartsOK(tk1, rd \o s, p1, pt)
<1> DEFINE S == NewParts(rel, total)
           q == rd \o s
<1> USE DEF StartStep, SameHands
<1>1. /\ IsFiniteSet(S)
      /\ \A x \in S : /\ x \in Part /\ x.task \in rel
                      /\ x.count >= 1 /\ x.start + x.count <= total[x.task]
      /\ \A x, y \in S : x # y => Apart(x, y)
      /\ \A t \in rel : \A k \in 0 .. total[t] - 1 : \E x \in S : x.task = t /\ k \in Span(x)
  BY ZenonT(60), PartsOfMany DEF NewParts
<1> HIDE DEF S
<1>2. /\ s \in Seq(S)
      /\ \A i \in DOMAIN s : s[i] \in S
      /\ \A i, j \in DOMAIN s : i # j => s[i] # s[j]
      /\ \A x \in S : \E i \in DOMAIN s : s[i] = x
  BY <1>1, Enumeration DEF S
<1>3. rd \in Seq(Part) /\ s \in Seq(Part)
  BY <1>1, <1>2 DEF KindsOK
<1>4. /\ \A i \in DOMAIN q : \/ i \in DOMAIN rd /\ q[i] = rd[i]
                             \/ i - Len(rd) \in DOMAIN s /\ q[i] = s[i - Len(rd)]
                                 /\ i \notin DOMAIN rd
      /\ \A i \in DOMAIN rd : i \in DOMAIN q /\ q[i] = rd[i]
      /\ \A i \in DOMAIN s : Len(rd) + i \in DOMAIN q /\ q[Len(rd) + i] = s[i]
      /\ DOMAIN q \subseteq Nat /\ Len(rd) \in Nat
  BY <1>3
<1>5. \A i \in DOMAIN rd : /\ rd[i] \in Part /\ PieceOK(tk, rd[i]) /\ PieceOK(tk1, rd[i])
                           /\ rd[i].task \notin rel
  <2>1. \A i \in DOMAIN rd : rd[i] \in Part /\ PieceOK(tk, rd[i])
    BY <1>3 DEF PartsOK, QueueOK
  <2> QED BY <2>1 DEF PieceOK, Part
<1>6. \A w \in Worker : p1[w] \in Working =>
          /\ pt[w] \in Part /\ PieceOK(tk, pt[w]) /\ PieceOK(tk1, pt[w]) /\ pt[w].task \notin rel
  BY DEF PartsOK, HandsOK, KindsOK, PieceOK, Part
<1>7. \A x \in S : PieceOK(tk1, x)
  BY <1>1 DEF PieceOK, Begun
<1> HIDE DEF q
<1>8. QueueOK(tk1, q)
  <2>1. \A i \in DOMAIN q : PieceOK(tk1, q[i])
    BY <1>2, <1>4, <1>5, <1>7
  <2>2. ASSUME NEW i \in DOMAIN q, NEW j \in DOMAIN q, i # j
        PROVE  Apart(q[i], q[j])
    <3>1. CASE i \in DOMAIN rd /\ j \in DOMAIN rd
      BY <1>4, <2>2, <3>1 DEF PartsOK, QueueOK
    <3>2. CASE i \in DOMAIN rd /\ j \notin DOMAIN rd
      BY <1>1, <1>2, <1>4, <1>5, <3>2 DEF Apart
    <3>3. CASE i \notin DOMAIN rd /\ j \in DOMAIN rd
      BY <1>1, <1>2, <1>4, <1>5, <3>3 DEF Apart
    <3>4. CASE i \notin DOMAIN rd /\ j \notin DOMAIN rd
      BY <1>4, <2>2, <1>1, <1>2, <3>4
    <3> QED BY <3>1, <3>2, <3>3, <3>4
  <2> QED BY <2>1, <2>2 DEF QueueOK
<1>9. HandsOK(tk1, q, p1, pt)
  <2>1. \A w, v \in Worker : p1[w] \in Working /\ p1[v] \in Working /\ w # v => Apart(pt[w], pt[v])
    BY DEF PartsOK, HandsOK
  <2>2. ASSUME NEW w \in Worker, NEW i \in DOMAIN q, p1[w] \in Working
        PROVE  Apart(pt[w], q[i])
    <3>1. CASE i \in DOMAIN rd
      BY <1>4, <2>2, <3>1 DEF PartsOK, HandsOK
    <3>2. CASE i \notin DOMAIN rd
      BY <1>1, <1>2, <1>4, <1>6, <2>2, <3>2 DEF Apart
    <3> QED BY <3>1, <3>2
  <2> QED BY <1>6, <2>1, <2>2 DEF HandsOK
<1>10. LastOK(tk1, p1, pt)
  <2>1. ASSUME NEW w \in Worker, p1[w] = "completion"
        PROVE  /\ tk1[pt[w].task].state \in Begun
               /\ tk1[pt[w].task].completed = tk1[pt[w].task].total
    <3>1. /\ pt[w].task \in Task /\ tk[pt[w].task].state \in Begun
          /\ tk[pt[w].task].completed = tk[pt[w].task].total
      BY <2>1 DEF PartsOK, LastOK, KindsOK, Part
    <3>2. pt[w].task \in Task \ rel
      BY <3>1
    <3> QED BY <3>1, <3>2
  <2> QED BY <2>1 DEF PartsOK, LastOK
<1>11. LeftOK(tk1, q, p1, pt)
  <2>1. ASSUME NEW t \in rel
        PROVE  tk1[t].completed + Cardinality(Left(tk1, q, p1, pt, t)) = tk1[t].total
    <3>1. \A k \in 0 .. total[t] - 1 : \E i \in DOMAIN q : q[i].task = t /\ k \in Span(q[i])
      BY <1>1, <1>2, <1>4, SMTT(30)
    <3>2. Left(tk1, q, p1, pt, t) = 0 .. total[t] - 1
      BY <3>1 DEF Left
    <3>3. total[t] \in Nat
      OBVIOUS
    <3>4. Cardinality(0 .. total[t] - 1) = total[t]
      BY <3>3, FS_Interval
    <3> QED BY <3>2, <3>3, <3>4
  <2>2. ASSUME NEW t \in Task \ rel, tk1[t].state \in Begun
        PROVE  tk1[t].completed + Cardinality(Left(tk1, q, p1, pt, t)) = tk1[t].total
    <3>1. \A i \in DOMAIN q : q[i].task = t => i \in DOMAIN rd /\ q[i] = rd[i]
      BY <1>1, <1>2, <1>4
    <3>2. tk1[t].completed = tk[t].completed /\ tk1[t].total = tk[t].total /\ tk[t].state \in Begun
      BY <2>2
    <3>3. Left(tk1, q, p1, pt, t) = Left(tk, rd, p, pt, t)
      BY <1>4, <3>1, <3>2 DEF Left
    <3> QED BY <3>2, <3>3 DEF PartsOK, LeftOK
  <2> QED BY <2>1, <2>2 DEF LeftOK
<1> QED BY <1>8, <1>9, <1>10, <1>11 DEF PartsOK, q

(* A step that neither moves parts nor ends or starts a task. *)
LEMMA SameParts ==
    ASSUME NEW tk, NEW tk1, NEW rd, NEW p, NEW p1, NEW pt,
           KindsOK(tk, rd, p, pt), PartsOK(tk, rd, p, pt), FreshOK(tk1),
           \A t \in Task : tk1[t].state \in Begun <=> tk[t].state \in Begun,
           \A t \in Task : tk[t].state \in Begun =>
                tk1[t].completed = tk[t].completed /\ tk1[t].total = tk[t].total,
           \A w \in Worker : p1[w] \in Working <=> p[w] \in Working,
           \A w \in Worker : p1[w] = "completion" <=> p[w] = "completion"
    PROVE  PartsOK(tk1, rd, p1, pt)
<1>1. \A i \in DOMAIN rd : rd[i].task \in Task
  <2>1. \A i \in DOMAIN rd : rd[i] \in Part
    BY DEF KindsOK
  <2> QED BY <2>1 DEF Part
<1>2. \A w \in Worker : p[w] \in Working \cup {"completion"} => pt[w].task \in Task
  BY DEF KindsOK, Part
<1>3. QueueOK(tk1, rd)
  BY <1>1 DEF PartsOK, QueueOK, PieceOK
<1>4. HandsOK(tk1, rd, p1, pt)
  BY <1>2 DEF PartsOK, HandsOK, PieceOK
<1>5. LastOK(tk1, p1, pt)
  BY <1>2 DEF PartsOK, LastOK
<1>6. ASSUME NEW t \in Task, tk1[t].state \in Begun
      PROVE  tk1[t].completed + Cardinality(Left(tk1, rd, p1, pt, t)) = tk1[t].total
  BY <1>6 DEF Left, PartsOK, LeftOK
<1> QED BY <1>3, <1>4, <1>5, <1>6 DEF PartsOK, LeftOK

(* A worker takes the part at the head of the queue. *)
LEMMA RunParts ==
    ASSUME NEW tk, NEW tk1, NEW rd, NEW p, NEW p1, NEW pt, NEW pt1, NEW w \in Worker,
           KindsOK(tk, rd, p, pt), PartsOK(tk, rd, p, pt), FreshOK(tk1), rd # <<>>,
           \A t \in Task : tk1[t].state \in Begun <=> tk[t].state \in Begun,
           \A t \in Task : tk1[t].completed = tk[t].completed /\ tk1[t].total = tk[t].total,
           p[w] \notin Working \cup {"completion"}, p1[w] = "function", pt1[w] = Head(rd),
           \A v \in Worker \ {w} : p1[v] = p[v] /\ pt1[v] = pt[v]
    PROVE  PartsOK(tk1, Tail(rd), p1, pt1)
<1> DEFINE q == Tail(rd)
<1>1. /\ rd \in Seq(Part) /\ 1 \in DOMAIN rd /\ Head(rd) = rd[1] /\ Len(rd) \in Nat
      /\ DOMAIN rd = 1 .. Len(rd) /\ DOMAIN q = 1 .. Len(rd) - 1
      /\ \A i \in DOMAIN q : q[i] = rd[i + 1] /\ i + 1 \in DOMAIN rd /\ i + 1 # 1
      /\ \A i \in DOMAIN rd : i # 1 => i - 1 \in DOMAIN q /\ q[i - 1] = rd[i]
  BY DEF KindsOK
<1> HIDE DEF q
<1>2. \A i \in DOMAIN rd : rd[i] \in Part /\ PieceOK(tk1, rd[i])
  <2>1. \A i \in DOMAIN rd : rd[i] \in Part /\ PieceOK(tk, rd[i])
    BY <1>1 DEF PartsOK, QueueOK
  <2> QED BY <2>1 DEF PieceOK, Part
<1>3. \A v \in Worker : p[v] \in Working => PieceOK(tk1, pt[v])
  BY DEF PartsOK, HandsOK, KindsOK, PieceOK, Part
<1>4. p1[w] \in Working
  BY DEF Working
<1>5. QueueOK(tk1, q)
  BY <1>1, <1>2 DEF PartsOK, QueueOK
<1>6. HandsOK(tk1, q, p1, pt1)
  <2>1. \A v \in Worker : p1[v] \in Working => PieceOK(tk1, pt1[v])
    BY <1>1, <1>2, <1>3
  <2>2. ASSUME NEW v \in Worker, NEW u \in Worker, p1[v] \in Working, p1[u] \in Working, v # u
        PROVE  Apart(pt1[v], pt1[u])
    <3>1. CASE v # w /\ u # w
      BY <2>2, <3>1 DEF PartsOK, HandsOK
    <3>2. CASE v = w
      <4>1. Apart(pt[u], rd[1])
        BY <1>1, <2>2, <3>2 DEF PartsOK, HandsOK
      <4>2. pt1[v] = rd[1] /\ pt1[u] = pt[u]
        BY <1>1, <2>2, <3>2
      <4> QED BY <4>1, <4>2 DEF Apart
    <3>3. CASE u = w
      <4>1. Apart(pt[v], rd[1])
        BY <1>1, <2>2, <3>3 DEF PartsOK, HandsOK
      <4>2. pt1[u] = rd[1] /\ pt1[v] = pt[v]
        BY <1>1, <2>2, <3>3
      <4> QED BY <4>1, <4>2 DEF Apart
    <3> QED BY <3>1, <3>2, <3>3
  <2>3. ASSUME NEW v \in Worker, NEW i \in DOMAIN q, p1[v] \in Working
        PROVE  Apart(pt1[v], q[i])
    <3>1. CASE v = w
      BY <1>1, <3>1 DEF PartsOK, QueueOK
    <3>2. CASE v # w
      BY <1>1, <2>3, <3>2 DEF PartsOK, HandsOK
    <3> QED BY <3>1, <3>2
  <2> QED BY <2>1, <2>2, <2>3 DEF HandsOK
<1>7. LastOK(tk1, p1, pt1)
  <2>1. \A v \in Worker : p1[v] = "completion" => v # w /\ p[v] = "completion" /\ pt1[v] = pt[v]
                                                /\ pt[v].task \in Task
    BY DEF KindsOK, Part
  <2> QED BY <2>1 DEF PartsOK, LastOK
<1>8. ASSUME NEW t \in Task, tk1[t].state \in Begun
      PROVE  tk1[t].completed + Cardinality(Left(tk1, q, p1, pt1, t)) = tk1[t].total
  <2> DEFINE before(k) == \/ \E i \in DOMAIN rd : rd[i].task = t /\ k \in Span(rd[i])
                          \/ \E v \in Worker : p[v] \in Working /\ pt[v].task = t /\ k \in Span(pt[v])
             after(k) == \/ \E i \in DOMAIN q : q[i].task = t /\ k \in Span(q[i])
                         \/ \E v \in Worker : p1[v] \in Working /\ pt1[v].task = t /\ k \in Span(pt1[v])
  <2>1. ASSUME NEW k, before(k) PROVE after(k)
    <3>1. CASE \E i \in DOMAIN rd : rd[i].task = t /\ k \in Span(rd[i])
      BY <3>1, <1>1, <1>4
    <3>2. CASE \E v \in Worker : p[v] \in Working /\ pt[v].task = t /\ k \in Span(pt[v])
      BY <3>2
    <3> QED BY <2>1, <3>1, <3>2
  <2>2. ASSUME NEW k, after(k) PROVE before(k)
    <3>1. CASE \E i \in DOMAIN q : q[i].task = t /\ k \in Span(q[i])
      BY <1>1, <3>1
    <3>2. CASE \E v \in Worker : p1[v] \in Working /\ pt1[v].task = t /\ k \in Span(pt1[v])
      BY <3>2, <1>1
    <3> QED BY <2>2, <3>1, <3>2
  <2>3. Left(tk1, q, p1, pt1, t) = {k \in 0 .. tk[t].total - 1 : after(k)}
    BY DEF Left
  <2>4. Left(tk, rd, p, pt, t) = {k \in 0 .. tk[t].total - 1 : before(k)}
    BY DEF Left
  <2> HIDE DEF before, after
  <2>5. Left(tk1, q, p1, pt1, t) = Left(tk, rd, p, pt, t)
    BY <2>1, <2>2, <2>3, <2>4
  <2> QED BY <1>8, <2>5 DEF PartsOK, LeftOK
<1> QED BY <1>5, <1>6, <1>7, <1>8 DEF PartsOK, LeftOK, q

(* A task with no iteration left has no part anywhere. *)
LEMMA NothingLeft ==
    ASSUME NEW tk, NEW rd, NEW p, NEW pt, NEW t \in Task,
           KindsOK(tk, rd, p, pt), QueueOK(tk, rd),
           \A w \in Worker : p[w] \in Working => PieceOK(tk, pt[w]),
           Left(tk, rd, p, pt, t) = {}
    PROVE  /\ \A i \in DOMAIN rd : rd[i].task # t
           /\ \A w \in Worker : p[w] \in Working => pt[w].task # t
<1>1. ASSUME NEW x \in Part, PieceOK(tk, x), x.task = t
      PROVE  x.start \in Span(x) /\ x.start \in 0 .. tk[t].total - 1
  BY TaskFields, <1>1 DEF KindsOK, Part, PieceOK, Span
<1>2. ASSUME NEW i \in DOMAIN rd, rd[i].task = t PROVE FALSE
  BY <1>1, <1>2 DEF KindsOK, QueueOK, Left
<1>3. ASSUME NEW w \in Worker, p[w] \in Working, pt[w].task = t PROVE FALSE
  BY <1>3, <1>1 DEF KindsOK, Left
<1> QED BY <1>2, <1>3

(* When a worker has run its part, the iterations of the part, and no       *)
(* others, are no longer left; and no other worker was past the last part. *)
LEMMA PieceLeaves ==
    ASSUME NEW tk, NEW rd, NEW p, NEW p1, NEW pt, NEW w \in Worker,
           KindsOK(tk, rd, p, pt), PartsOK(tk, rd, p, pt),
           p[w] \in Working, p1[w] \notin Working,
           \A v \in Worker \ {w} : p1[v] = p[v]
    PROVE  /\ pt[w].task \in Task /\ tk[pt[w].task].state \in Begun
           /\ IsFiniteSet(Left(tk, rd, p1, pt, pt[w].task))
           /\ tk[pt[w].task].completed + pt[w].count
                 + Cardinality(Left(tk, rd, p1, pt, pt[w].task)) = tk[pt[w].task].total
           /\ \A u \in Task \ {pt[w].task} : Left(tk, rd, p1, pt, u) = Left(tk, rd, p, pt, u)
           /\ \A v \in Worker : p[v] = "completion" => pt[v].task # pt[w].task
<1> DEFINE t == pt[w].task
           left == Left(tk, rd, p1, pt, t)
           before == Left(tk, rd, p, pt, t)
<1>1. pt[w] \in Part /\ PieceOK(tk, pt[w])
  BY DEF KindsOK, PartsOK, HandsOK
<1>2. t \in Task /\ tk[t].state \in Begun /\ pt[w].start \in Nat /\ pt[w].count \in Nat
      /\ pt[w].count >= 1 /\ pt[w].start + pt[w].count <= tk[t].total
  BY <1>1 DEF Part, PieceOK
<1>3. tk[t].total \in Nat /\ tk[t].completed \in Nat
  BY <1>2, TaskFields DEF KindsOK
<1>4. Span(pt[w]) \subseteq before
  BY <1>2, <1>3 DEF Left, Span
<1>5. \A i \in DOMAIN rd : rd[i].task = t => Span(pt[w]) \cap Span(rd[i]) = {}
  BY DEF PartsOK, HandsOK, Apart
<1>6. \A v \in Worker \ {w} : p1[v] \in Working /\ pt[v].task = t => Span(pt[w]) \cap Span(pt[v]) = {}
  BY DEF PartsOK, HandsOK, Apart
<1>7. left = before \ Span(pt[w])
  <2>1. \A k \in left : k \in before /\ k \notin Span(pt[w])
    BY <1>5, <1>6 DEF Left
  <2>2. \A k \in before : k \notin Span(pt[w]) => k \in left
    BY DEF Left
  <2> HIDE DEF left, before
  <2> QED BY <2>1, <2>2
<1>8. IsFiniteSet(before)
  <2>1. IsFiniteSet(0 .. tk[t].total - 1)
    <3>1. 0 \in Int /\ tk[t].total - 1 \in Int
      BY <1>3
    <3> QED BY <3>1, FS_Interval
  <2>2. before \subseteq 0 .. tk[t].total - 1
    BY DEF Left
  <2> QED BY <2>1, <2>2, FS_Subset
<1>9. Cardinality(Span(pt[w])) = pt[w].count
  <2> DEFINE a == pt[w].start
             b == pt[w].start + pt[w].count - 1
  <2>1. a \in Int /\ b \in Int /\ a <= b
    BY <1>2
  <2>2. Cardinality(a .. b) = b - a + 1
    BY <2>1, FS_Interval
  <2> QED BY <1>2, <2>2 DEF Span
<1>10. IsFiniteSet(left) /\ Cardinality(left) = Cardinality(before) - pt[w].count
  <2> DEFINE a == Span(pt[w])
  <2>1. before \cap a = a
    BY <1>4
  <2>2. Cardinality(a) = pt[w].count
    BY <1>9
  <2> HIDE DEF a, before
  <2>3. /\ IsFiniteSet(before \ a)
        /\ Cardinality(before \ a) = Cardinality(before) - Cardinality(before \cap a)
    BY <1>8, FS_Difference
  <2>4. left = before \ a
    BY <1>7 DEF a
  <2> HIDE DEF left
  <2> QED BY <2>1, <2>2, <2>3, <2>4
<1>11. tk[t].completed + Cardinality(before) = tk[t].total
  BY <1>2 DEF PartsOK, LeftOK
<1>12. Cardinality(before) \in Nat /\ Cardinality(left) \in Nat
  BY <1>8, <1>10, FS_CardinalityType
<1>13. tk[t].completed + pt[w].count + Cardinality(left) = tk[t].total
  <2> HIDE DEF before, left
  <2> QED BY <1>2, <1>3, <1>10, <1>11, <1>12
<1>14. ASSUME NEW u \in Task \ {t} PROVE Left(tk, rd, p1, pt, u) = Left(tk, rd, p, pt, u)
  BY DEF Left
<1>15. ASSUME NEW v \in Worker, p[v] = "completion" PROVE pt[v].task # t
  <2>1. SUFFICES ASSUME pt[v].task = t PROVE FALSE
    OBVIOUS
  <2>2. tk[t].completed = tk[t].total
    BY <1>15, <2>1 DEF PartsOK, LastOK
  <2> HIDE DEF left
  <2> QED BY <1>2, <1>3, <1>12, <1>13, <2>2
<1> QED BY <1>2, <1>10, <1>13, <1>14, <1>15

(* It is counted, and others go on: the task is not finished. *)
LEMMA CountParts ==
    ASSUME NEW tk, NEW tk1, NEW rd, NEW p, NEW p1, NEW pt, NEW pt1, NEW w \in Worker,
           KindsOK(tk, rd, p, pt), PartsOK(tk, rd, p, pt), FreshOK(tk1),
           p[w] \in Working, p1[w] \notin Working,
           \A v \in Worker \ {w} : p1[v] = p[v] /\ pt1[v] = pt[v],
           \A t \in Task : /\ tk1[t].state \in Begun <=> tk[t].state \in Begun
                          /\ tk1[t].total = tk[t].total,
           \A t \in Task \ {pt[w].task} : tk1[t].completed = tk[t].completed,
           tk1[pt[w].task].completed = tk[pt[w].task].completed + pt[w].count,
           p1[w] = "completion" =>
               pt1[w] = pt[w] /\ tk1[pt[w].task].completed = tk1[pt[w].task].total
    PROVE  PartsOK(tk1, rd, p1, pt1)
<1> DEFINE t == pt[w].task
<1>1. /\ t \in Task /\ tk[t].state \in Begun
      /\ tk[t].completed + pt[w].count + Cardinality(Left(tk, rd, p1, pt, t)) = tk[t].total
      /\ \A u \in Task \ {t} : Left(tk, rd, p1, pt, u) = Left(tk, rd, p, pt, u)
      /\ \A v \in Worker : p[v] = "completion" => pt[v].task # t
  BY PieceLeaves
<1>2. \A i \in DOMAIN rd : rd[i].task \in Task
  <2>1. \A i \in DOMAIN rd : rd[i] \in Part
    BY DEF KindsOK
  <2> QED BY <2>1 DEF Part
<1>3. \A v \in Worker : p[v] \in Working \cup {"completion"} => pt[v].task \in Task
  BY DEF KindsOK, Part
<1>4. QueueOK(tk1, rd)
  BY <1>2 DEF PartsOK, QueueOK, PieceOK
<1>5. HandsOK(tk1, rd, p1, pt1)
  BY <1>3 DEF PartsOK, HandsOK, PieceOK
<1>6. LastOK(tk1, p1, pt1)
  BY <1>1, <1>3 DEF PartsOK, LastOK
<1>7. ASSUME NEW u \in Task, tk1[u].state \in Begun
      PROVE  tk1[u].completed + Cardinality(Left(tk1, rd, p1, pt1, u)) = tk1[u].total
  <2>1. \A v \in Worker : p1[v] \in Working => pt1[v] = pt[v]
    OBVIOUS
  <2>2. Left(tk1, rd, p1, pt1, u) = Left(tk, rd, p1, pt, u)
    BY <2>1 DEF Left
  <2>3. CASE u = t
    BY <1>1, <2>2, <2>3
  <2>4. CASE u # t
    BY <1>1, <1>7, <2>2, <2>4 DEF PartsOK, LeftOK
  <2> QED BY <2>3, <2>4
<1> QED BY <1>4, <1>5, <1>6, <1>7 DEF PartsOK, LeftOK

(* A task that ends has no part anywhere, and leaves the others alone. *)
LEMMA EndParts ==
    ASSUME NEW tk, NEW tk1, NEW rd, NEW p, NEW p1, NEW pt, NEW pt1, NEW w \in Worker,
           KindsOK(tk, rd, p, pt), PartsOK(tk, rd, p, pt), FreshOK(tk1),
           \/ p[w] = "completion"
           \/ /\ p[w] \in Working
              /\ tk[pt[w].task].completed + pt[w].count = tk[pt[w].task].total,
           p1[w] = "fetch",
           \A v \in Worker \ {w} : p1[v] = p[v] /\ pt1[v] = pt[v],
           tk1[pt[w].task].state \notin Begun,
           \A u \in Task \ {pt[w].task} : tk1[u] = tk[u]
    PROVE  /\ PartsOK(tk1, rd, p1, pt1)
           /\ pt[w].task \in Task /\ tk[pt[w].task].state \in Begun
<1> DEFINE t == pt[w].task
<1>1. t \in Task /\ tk[t].state \in Begun
  BY DEF KindsOK, Part, PartsOK, LastOK, HandsOK, PieceOK
<1>2. tk[t].completed \in Nat /\ tk[t].total \in Nat
  BY <1>1, TaskFields DEF KindsOK
<1>3. Left(tk, rd, p1, pt, t) = {}
  <2> DEFINE left == Left(tk, rd, p1, pt, t)
  <2>1. CASE p[w] = "completion"
    <3> DEFINE before == Left(tk, rd, p, pt, t)
    <3>1. tk[t].completed = tk[t].total
      BY <2>1 DEF PartsOK, LastOK
    <3>2. tk[t].completed + Cardinality(before) = tk[t].total
      BY <1>1 DEF PartsOK, LeftOK
    <3>3. IsFiniteSet(before)
      <4>1. IsFiniteSet(0 .. tk[t].total - 1)
        <5>1. 0 \in Int /\ tk[t].total - 1 \in Int
          BY <1>2
        <5> QED BY <5>1, FS_Interval
      <4>2. before \subseteq 0 .. tk[t].total - 1
        BY DEF Left
      <4> QED BY <4>1, <4>2, FS_Subset
    <3>4. Cardinality(before) = 0
      <4>1. Cardinality(before) \in Nat
        BY <3>3, FS_CardinalityType
      <4> HIDE DEF before
      <4> QED BY <1>2, <3>1, <3>2, <4>1
    <3>5. before = {}
      BY <3>3, <3>4, FS_EmptySet
    <3>6. left \subseteq before
      BY <2>1 DEF Left, Working
    <3> QED BY <3>5, <3>6
  <2>2. CASE /\ p[w] \in Working
             /\ tk[t].completed + pt[w].count = tk[t].total
    <3>1. p1[w] \notin Working
      BY DEF Working
    <3>2. IsFiniteSet(left) /\ tk[t].completed + pt[w].count + Cardinality(left) = tk[t].total
      <4>1. \A v \in Worker \ {w} : p1[v] = p[v]
        OBVIOUS
      <4>2. p[w] \in Working
        BY <2>2
      <4>3. KindsOK(tk, rd, p, pt) /\ PartsOK(tk, rd, p, pt)
        OBVIOUS
      <4> QED BY ONLY <3>1, <4>1, <4>2, <4>3, PieceLeaves
    <3>3. Cardinality(left) = 0
      <4>1. Cardinality(left) \in Nat
        BY <3>2, FS_CardinalityType
      <4>2. pt[w].count \in Nat
        BY <2>2 DEF KindsOK, Part
      <4> HIDE DEF left
      <4> QED BY <1>2, <2>2, <3>2, <4>1, <4>2
    <3> QED BY <3>2, <3>3, FS_EmptySet
  <2> QED BY <2>1, <2>2
<1>4. \A v \in Worker : p1[v] \in Working => p[v] \in Working /\ v # w
  BY DEF Working
<1>5. /\ \A i \in DOMAIN rd : rd[i].task # t
      /\ \A v \in Worker : p1[v] \in Working => pt[v].task # t
  BY <1>4, <1>1, <1>3, NothingLeft DEF KindsOK, PartsOK, HandsOK
<1>6. \A v \in Worker : p1[v] = "completion" => /\ v # w /\ p[v] = "completion"
                                              /\ pt[v].task # t /\ pt[v].task \in Task
  <2>1. ASSUME NEW v \in Worker, v # w, p[v] = "completion" PROVE pt[v].task # t
    <3>1. CASE p[w] = "completion"
      BY <2>1, <3>1 DEF PartsOK, LastOK
    <3>2. CASE p[w] \in Working
      <4>1. tk[t].completed + pt[w].count = tk[t].total /\ pt[w].count \in Nat /\ pt[w].count >= 1
        BY <3>2 DEF Working, KindsOK, Part, PartsOK, HandsOK, PieceOK
      <4>2. pt[v].task = t => tk[t].completed = tk[t].total
        BY <2>1 DEF PartsOK, LastOK
      <4> QED BY <1>2, <4>1, <4>2
    <3> QED BY <3>1, <3>2
  <2>2. ASSUME NEW v \in Worker, p1[v] = "completion" PROVE v # w /\ p[v] = "completion"
    BY <2>2
  <2> QED BY <2>1, <2>2 DEF KindsOK, Part
<1>7. \A i \in DOMAIN rd : rd[i].task \in Task \ {t}
  <2>1. \A i \in DOMAIN rd : rd[i] \in Part
    BY DEF KindsOK
  <2> QED BY <1>5, <2>1 DEF Part
<1>8. \A v \in Worker : p1[v] \in Working => pt1[v] = pt[v] /\ pt[v].task \in Task \ {t}
  BY <1>4, <1>5 DEF KindsOK, Part
<1>9. QueueOK(tk1, rd)
  BY <1>7 DEF PartsOK, QueueOK, PieceOK
<1>10. HandsOK(tk1, rd, p1, pt1)
  BY <1>4, <1>8 DEF PartsOK, HandsOK, PieceOK
<1>11. LastOK(tk1, p1, pt1)
  BY <1>6 DEF PartsOK, LastOK
<1>12. ASSUME NEW u \in Task, tk1[u].state \in Begun
       PROVE  tk1[u].completed + Cardinality(Left(tk1, rd, p1, pt1, u)) = tk1[u].total
  BY <1>12, <1>4, <1>8 DEF Left, PartsOK, LeftOK
<1> QED BY <1>1, <1>9, <1>10, <1>11, <1>12 DEF PartsOK, LeftOK

-----------------------------------------------------------------------------
(***************************************************************************)
(* No task of the pool is queued, run or done before its inputs are met,   *)
(* for every value of the constants: THEOREM StartsAreMet.                 *)
(*                                                                         *)
(* The danger is a stale reference: a part of a task that was finished and *)
(* whose block was reused, or a task on a list it has left, would start a  *)
(* task that still waits.  So the invariant says where a reference to a    *)
(* task may be, and that the last part of a task to end leaves none.  The  *)
(* definitions take the state they speak of as parameters, because the end *)
(* of a task is treated as two steps: it leaves, and it starts others.     *)
(*                                                                         *)
(* The same invariant, and the count of the workers at a task, account for *)
(* every iteration: THEOREM IterationsNeverLost.                           *)
(***************************************************************************)

(* The lists of a group hold tasks of the group, in the state that says so. *)
ListsOK(tk, gr) ==
    \A g \in Group, d \in Dep : \A t \in gr[g].waiting[d] :
        /\ tk[t].group = g /\ tk[t].state = "Waiting"
        /\ \A e \in Dep : t \in gr[g].waiting[e] => e = d

BlockedOK(tk, gr) ==
    \A g \in Group : gr[g].blocked =>
        \A t \in gr[g].blockedTasks : tk[t].group = g /\ tk[t].state = "Blocked"

InputsOK(tk, gr) ==
    \A t \in Task : tk[t].state \in {"Ready", "Running", "Done"} /\ tk[t].group # NoGroup
                        => ToSet(tk[t].inputs) \subseteq gr[tk[t].group].met

(* A group that is closed, or counts no task, has none. *)
MembersOf(tk, g) == {t \in Task : tk[t].state # "Free" /\ tk[t].group = g}
GroupsOK(tk, gr) ==
    /\ \A g \in Group : gr[g].tasksCount = Cardinality(MembersOf(tk, g))
    /\ \A t \in Task : tk[t].state # "Free" /\ tk[t].group # NoGroup => gr[tk[t].group].open

PoolOK(tk, gr) == ListsOK(tk, gr) /\ BlockedOK(tk, gr) /\ InputsOK(tk, gr) /\ GroupsOK(tk, gr)

(* One client frees the pool, when no other is inside a call. *)
EndingOK == \A c, o \in Client : call[c].op = "join" /\ o # c => call[o].op = "destroyed"

Freed == /\ \A t \in Task : task[t].state = "Free"
         /\ \A w \in Worker : pc[w] = "exited"
         /\ \A c \in Client : call[c].op = "destroyed"

Core == PartsOK(task, ready, pc, part) /\ PoolOK(task, group)

StartInv == Freed \/ (Core /\ EndingOK)

LEMMA Kinds == ASSUME TypeInv PROVE KindsOK(task, ready, pc, part)
BY DEF TypeInv, TypeOK, WorkerHasPart, KindsOK, Working

(* The members of a group are finitely many. *)
LEMMA MembersFinite ==
    ASSUME NEW tk, NEW g
    PROVE  IsFiniteSet(MembersOf(tk, g))
BY SetsAssumption, FS_Subset DEF MembersOf

(* A step that leaves tasks in their lists and their groups: a group may    *)
(* have more dependencies met, and be blocked while it has no task.        *)
LEMMA SamePool ==
    ASSUME NEW tk \in [Task -> TaskRec], NEW tk1, NEW gr, NEW gr1, PoolOK(tk, gr),
           \A t \in Task : tk1[t].group = tk[t].group /\ tk1[t].inputs = tk[t].inputs,
           \A t \in Task : tk1[t].state = tk[t].state
                          \/ (tk1[t].state \in Begun /\ tk[t].state \in Begun),
           \A g \in Group : gr1[g].waiting = gr[g].waiting /\ gr[g].met \subseteq gr1[g].met,
           \A g \in Group : gr1[g].tasksCount = gr[g].tasksCount /\ gr1[g].open = gr[g].open,
           \A g \in Group : gr1[g].blockedTasks = gr[g].blockedTasks,
           \A g \in Group : gr1[g].blocked = gr[g].blocked \/ gr[g].blockedTasks = {},
           \A g \in Group : \A d \in Dep : gr[g].waiting[d] \subseteq Task,
           \A g \in Group : gr[g].blockedTasks \subseteq Task
    PROVE  PoolOK(tk1, gr1)
<1>1. ListsOK(tk1, gr1)
  BY DEF PoolOK, ListsOK, Begun
<1>2. BlockedOK(tk1, gr1)
  BY DEF PoolOK, BlockedOK, Begun
<1>3. \A t \in Task : tk[t].group \in Group \cup {NoGroup}
  BY TaskFields
<1>4. InputsOK(tk1, gr1)
  BY <1>3 DEF PoolOK, InputsOK, Begun
<1>5. \A g \in Group : MembersOf(tk1, g) = MembersOf(tk, g)
  BY DEF MembersOf, Begun
<1>6. GroupsOK(tk1, gr1)
  BY <1>3, <1>5 DEF PoolOK, GroupsOK, Begun
<1> QED BY <1>1, <1>2, <1>4, <1>6 DEF PoolOK

(* A task that is done or has run its last part, and leaves. *)
LEMMA LeavePool ==
    ASSUME NEW tk \in [Task -> TaskRec], NEW tk1, NEW gr, NEW gr1, PoolOK(tk, gr),
           NEW t \in Task, tk[t].state \in Begun \cup {"Done"}, tk1[t] = FreeTask,
           \A u \in Task \ {t} : tk1[u] = tk[u],
           \A g \in Group : /\ gr1[g].waiting = gr[g].waiting /\ gr1[g].met = gr[g].met
                           /\ gr1[g].open = gr[g].open
                           /\ gr1[g].blockedTasks = gr[g].blockedTasks
                           /\ gr1[g].blocked = gr[g].blocked
                           /\ gr1[g].tasksCount = IF g = tk[t].group THEN gr[g].tasksCount - 1
                                                  ELSE gr[g].tasksCount,
           \A g \in Group : \A d \in Dep : gr[g].waiting[d] \subseteq Task,
           \A g \in Group : gr[g].blockedTasks \subseteq Task
    PROVE  PoolOK(tk1, gr1)
<1>1. ListsOK(tk1, gr1)
  BY DEF PoolOK, ListsOK, Begun
<1>2. BlockedOK(tk1, gr1)
  BY DEF PoolOK, BlockedOK, Begun
<1>3. tk1[t].state = "Free" /\ \A u \in Task : tk[u].group \in Group \cup {NoGroup}
  BY TaskFields DEF FreeTask
<1>4. InputsOK(tk1, gr1)
  BY <1>3 DEF PoolOK, InputsOK
<1>5. ASSUME NEW g \in Group PROVE gr1[g].tasksCount = Cardinality(MembersOf(tk1, g))
  <2>1. gr[g].tasksCount = Cardinality(MembersOf(tk, g)) /\ IsFiniteSet(MembersOf(tk, g))
    BY MembersFinite DEF PoolOK, GroupsOK
  <2>2. CASE g = tk[t].group
    <3>1. t \in MembersOf(tk, g) /\ MembersOf(tk1, g) = MembersOf(tk, g) \ {t}
      BY <1>3, <2>2 DEF MembersOf, Begun
    <3>2. Cardinality(MembersOf(tk, g) \ {t}) = Cardinality(MembersOf(tk, g)) - 1
      BY <2>1, <3>1, FS_RemoveElement
    <3> QED BY <2>1, <2>2, <3>1, <3>2
  <2>3. CASE g # tk[t].group
    <3>1. MembersOf(tk1, g) = MembersOf(tk, g)
      BY <1>3, <2>3 DEF MembersOf
    <3> QED BY <2>1, <2>3, <3>1
  <2> QED BY <2>2, <2>3
<1>6. GroupsOK(tk1, gr1)
  BY <1>3, <1>5 DEF PoolOK, GroupsOK
<1> QED BY <1>1, <1>2, <1>4, <1>6 DEF PoolOK

(* A task that has run its last part, and is kept until it is waited for. *)
LEMMA DonePool ==
    ASSUME NEW tk \in [Task -> TaskRec], NEW tk1, NEW gr, PoolOK(tk, gr),
           NEW t \in Task, tk[t].state \in Begun,
           tk1[t].state = "Done", tk1[t].group = tk[t].group, tk1[t].inputs = tk[t].inputs,
           \A u \in Task \ {t} : tk1[u] = tk[u],
           \A g \in Group : \A d \in Dep : gr[g].waiting[d] \subseteq Task,
           \A g \in Group : gr[g].blockedTasks \subseteq Task
    PROVE  PoolOK(tk1, gr)
<1>1. ListsOK(tk1, gr)
  BY DEF PoolOK, ListsOK, Begun
<1>2. BlockedOK(tk1, gr)
  BY DEF PoolOK, BlockedOK, Begun
<1>3. InputsOK(tk1, gr)
  BY DEF PoolOK, InputsOK, Begun
<1>4. \A g \in Group : MembersOf(tk1, g) = MembersOf(tk, g)
  BY DEF MembersOf, Begun
<1>5. GroupsOK(tk1, gr)
  BY <1>4 DEF PoolOK, GroupsOK, Begun
<1> QED BY <1>1, <1>2, <1>3, <1>5 DEF PoolOK

LEMMA ReadyRecord ==
    ASSUME NEW r \in TaskRec, NEW r1, r1 = [r EXCEPT !.state = "Ready"]
    PROVE  /\ r1.state = "Ready" /\ r1.group = r.group /\ r1.inputs = r.inputs
           /\ r1.completed = r.completed /\ r1.total = r.total
BY DEF TaskRec

(* dependencyMet(): the tasks on the list of the dependency become ready or *)
(* move to the list of another.                                            *)
MetStep(tk, tk1, gr, gr1, g, d, rel) ==
    /\ rel \subseteq gr[g].waiting[d]
    /\ \A u \in rel : ToSet(tk[u].inputs) \subseteq gr[g].met \cup {d}
    /\ \A u \in Task \ rel : tk1[u] = tk[u]
    /\ \A u \in rel : tk1[u] = [tk[u] EXCEPT !.state = "Ready"]
    /\ \A h \in Group \ {g} : gr1[h] = gr[h]
    /\ gr1[g].met = gr[g].met \cup {d}
    /\ gr1[g].waiting[d] = {}
    /\ \A e \in Dep : gr1[g].waiting[e] \subseteq gr[g].waiting[e] \cup (gr[g].waiting[d] \ rel)
    /\ \A u \in gr[g].waiting[d] : \A e, f \in Dep :
           u \in gr1[g].waiting[e] /\ u \in gr1[g].waiting[f] => e = f
    /\ gr1[g].tasksCount = gr[g].tasksCount /\ gr1[g].open = gr[g].open
    /\ gr1[g].blockedTasks = gr[g].blockedTasks /\ gr1[g].blocked = gr[g].blocked

LEMMA MetPool ==
    ASSUME NEW tk \in [Task -> TaskRec], NEW tk1, NEW gr, NEW gr1, PoolOK(tk, gr),
           NEW g \in Group, NEW d \in Dep, NEW rel, MetStep(tk, tk1, gr, gr1, g, d, rel),
           \A h \in Group : \A e \in Dep : gr[h].waiting[e] \subseteq Task,
           \A h \in Group : gr[h].blockedTasks \subseteq Task
    PROVE  PoolOK(tk1, gr1)
<1> USE DEF MetStep
<1>1. \A u \in rel : u \in Task /\ tk[u].state = "Waiting" /\ tk[u].group = g
                   /\ tk1[u].state = "Ready" /\ tk1[u].group = tk[u].group
                   /\ tk1[u].inputs = tk[u].inputs
  <2>1. \A u \in rel : u \in Task /\ tk[u].state = "Waiting" /\ tk[u].group = g
    BY DEF PoolOK, ListsOK
  <2>2. \A u \in rel : tk[u] \in TaskRec /\ tk1[u] = [tk[u] EXCEPT !.state = "Ready"]
    BY <2>1
  <2>3. ASSUME NEW u \in rel
        PROVE  tk1[u].state = "Ready" /\ tk1[u].group = tk[u].group /\ tk1[u].inputs = tk[u].inputs
    <3>1. tk[u] \in TaskRec /\ tk1[u] = [tk[u] EXCEPT !.state = "Ready"]
      BY <2>2
    <3> QED BY ONLY <3>1, ReadyRecord
  <2> QED BY <2>1, <2>3
<1>2. ListsOK(tk1, gr1)
  BY <1>1 DEF ListsOK, PoolOK
<1>3. BlockedOK(tk1, gr1)
  BY <1>1 DEF PoolOK, BlockedOK
<1>4. \A t \in Task : tk[t].group \in Group \cup {NoGroup}
  BY TaskFields
<1>5. InputsOK(tk1, gr1)
  BY <1>1, <1>4 DEF InputsOK, PoolOK
<1>6. \A h \in Group : MembersOf(tk1, h) = MembersOf(tk, h)
  BY <1>1 DEF MembersOf
<1>7. GroupsOK(tk1, gr1)
  BY <1>1, <1>4, <1>6 DEF PoolOK, GroupsOK
<1> QED BY <1>2, <1>3, <1>5, <1>7 DEF PoolOK

(* A new task, on the list that its state says, of an open group. *)
AddStep(tk, tk1, gr, gr1, t, g, list) ==
    /\ tk[t].state = "Free" /\ gr[g].open
    /\ tk1[t].group = g /\ tk1[t].state \in {"Blocked", "Ready", "Waiting"}
    /\ tk1[t].state = "Ready" => ToSet(tk1[t].inputs) \subseteq gr[g].met
    /\ \A u \in Task \ {t} : tk1[u] = tk[u]
    /\ \A h \in Group \ {g} : gr1[h] = gr[h]
    /\ gr1[g].met = gr[g].met /\ gr1[g].open = gr[g].open
    /\ gr1[g].blocked = gr[g].blocked /\ gr1[g].tasksCount = gr[g].tasksCount + 1
    /\ \A e \in Dep : gr1[g].waiting[e] \subseteq gr[g].waiting[e] \cup {t}
    /\ \A e \in Dep : t \in gr1[g].waiting[e] => tk1[t].state = "Waiting" /\ e = list
    /\ gr1[g].blockedTasks = IF tk1[t].state = "Blocked" THEN gr[g].blockedTasks \cup {t}
                             ELSE gr[g].blockedTasks

LEMMA AddPool ==
    ASSUME NEW tk \in [Task -> TaskRec], NEW tk1, NEW gr, NEW gr1, PoolOK(tk, gr),
           NEW t \in Task, NEW g \in Group, NEW list, AddStep(tk, tk1, gr, gr1, t, g, list),
           \A h \in Group : \A e \in Dep : gr[h].waiting[e] \subseteq Task,
           \A h \in Group : gr[h].blockedTasks \subseteq Task
    PROVE  PoolOK(tk1, gr1)
<1> USE DEF AddStep
<1>1. \A h \in Group, e \in Dep : t \notin gr[h].waiting[e]
  BY DEF PoolOK, ListsOK
<1>2. ListsOK(tk1, gr1)
  BY <1>1 DEF ListsOK, PoolOK
<1>3. BlockedOK(tk1, gr1)
  BY DEF BlockedOK, PoolOK
<1>4. \A u \in Task : tk[u].group \in Group \cup {NoGroup}
  BY TaskFields
<1>5. InputsOK(tk1, gr1)
  BY <1>4 DEF PoolOK, InputsOK
<1>6. ASSUME NEW h \in Group PROVE gr1[h].tasksCount = Cardinality(MembersOf(tk1, h))
  <2>1. gr[h].tasksCount = Cardinality(MembersOf(tk, h)) /\ IsFiniteSet(MembersOf(tk, h))
    BY MembersFinite DEF PoolOK, GroupsOK
  <2>2. CASE h = g
    <3>1. t \notin MembersOf(tk, g) /\ MembersOf(tk1, g) = MembersOf(tk, g) \cup {t}
      BY DEF MembersOf
    <3>2. Cardinality(MembersOf(tk, g) \cup {t}) = Cardinality(MembersOf(tk, g)) + 1
      BY <2>1, <2>2, <3>1, FS_AddElement
    <3> QED BY <2>1, <2>2, <3>1, <3>2
  <2>3. CASE h # g
    <3>1. MembersOf(tk1, h) = MembersOf(tk, h)
      BY <2>3 DEF MembersOf
    <3> QED BY <2>1, <2>3, <3>1
  <2> QED BY <2>2, <2>3
<1>7. GroupsOK(tk1, gr1)
  <2>1. \A h \in Group : gr1[h].open = gr[h].open
    OBVIOUS
  <2> QED BY <1>4, <1>6, <2>1 DEF PoolOK, GroupsOK
<1> QED BY <1>2, <1>3, <1>5, <1>7 DEF PoolOK

(* A task of no group, as ldcTaskPoolAdd() makes it. *)
LEMMA AddAlone ==
    ASSUME NEW tk \in [Task -> TaskRec], NEW tk1, NEW gr, PoolOK(tk, gr),
           NEW t \in Task, tk[t].state = "Free", tk1[t].group = NoGroup,
           \A u \in Task \ {t} : tk1[u] = tk[u],
           \A h \in Group : \A e \in Dep : gr[h].waiting[e] \subseteq Task,
           \A h \in Group : gr[h].blockedTasks \subseteq Task
    PROVE  PoolOK(tk1, gr)
<1>1. ListsOK(tk1, gr)
  BY DEF PoolOK, ListsOK
<1>2. BlockedOK(tk1, gr)
  BY DEF PoolOK, BlockedOK
<1>3. InputsOK(tk1, gr)
  BY DEF PoolOK, InputsOK
<1>4. \A h \in Group : MembersOf(tk1, h) = MembersOf(tk, h)
  BY SetsAssumption DEF MembersOf
<1>5. GroupsOK(tk1, gr)
  BY <1>4 DEF PoolOK, GroupsOK
<1> QED BY <1>1, <1>2, <1>3, <1>5 DEF PoolOK

(* ldcTaskGroupUnblock() moves the blocked tasks to the queue or to lists. *)
UnblockStep(tk, tk1, gr, gr1, g, rel) ==
    /\ gr[g].blocked /\ rel \subseteq gr[g].blockedTasks
    /\ \A u \in Task : tk1[u].group = tk[u].group /\ tk1[u].inputs = tk[u].inputs
    /\ \A u \in Task : tk1[u].state =
           IF u \in rel THEN "Ready"
           ELSE IF u \in gr[g].blockedTasks THEN "Waiting" ELSE tk[u].state
    /\ \A u \in rel : ToSet(tk[u].inputs) \subseteq gr[g].met
    /\ \A h \in Group \ {g} : gr1[h] = gr[h]
    /\ gr1[g].met = gr[g].met /\ gr1[g].open = gr[g].open /\ ~gr1[g].blocked
    /\ gr1[g].tasksCount = gr[g].tasksCount
    /\ \A e \in Dep : gr1[g].waiting[e] \subseteq gr[g].waiting[e] \cup (gr[g].blockedTasks \ rel)
    /\ \A u \in gr[g].blockedTasks : \A e, f \in Dep :
           u \notin gr[g].waiting[e] /\ u \notin gr[g].waiting[f]
           /\ u \in gr1[g].waiting[e] /\ u \in gr1[g].waiting[f] => e = f

LEMMA UnblockPool ==
    ASSUME NEW tk \in [Task -> TaskRec], NEW tk1, NEW gr, NEW gr1, PoolOK(tk, gr),
           NEW g \in Group, NEW rel, UnblockStep(tk, tk1, gr, gr1, g, rel),
           \A h \in Group : \A e \in Dep : gr[h].waiting[e] \subseteq Task,
           \A h \in Group : gr[h].blockedTasks \subseteq Task
    PROVE  PoolOK(tk1, gr1)
<1> USE DEF UnblockStep
<1>1. \A u \in gr[g].blockedTasks : u \in Task /\ tk[u].state = "Blocked" /\ tk[u].group = g
  BY DEF PoolOK, BlockedOK
<1>2. \A h \in Group, e \in Dep : \A u \in gr[h].waiting[e] : u \notin gr[g].blockedTasks
  BY <1>1 DEF PoolOK, ListsOK
<1>3. ListsOK(tk1, gr1)
  BY <1>1, <1>2 DEF ListsOK, PoolOK
<1>4. BlockedOK(tk1, gr1)
  BY <1>1 DEF BlockedOK, PoolOK
<1>5. \A u \in Task : tk[u].group \in Group \cup {NoGroup}
  BY TaskFields
<1>6. InputsOK(tk1, gr1)
  <2> SUFFICES ASSUME NEW t \in Task, tk1[t].state \in {"Ready", "Running", "Done"},
                      tk1[t].group # NoGroup
               PROVE  ToSet(tk1[t].inputs) \subseteq gr1[tk1[t].group].met
    BY DEF InputsOK
  <2>1. CASE t \in rel
    BY <1>1, <2>1
  <2>2. CASE t \notin rel
    <3>1. /\ tk1[t].state = tk[t].state /\ tk[t].group \in Group
          /\ ToSet(tk[t].inputs) \subseteq gr[tk[t].group].met
      BY <1>5, <2>2 DEF PoolOK, InputsOK
    <3> QED BY <3>1
  <2> QED BY <2>1, <2>2
<1>7. \A h \in Group : MembersOf(tk1, h) = MembersOf(tk, h)
  BY <1>1 DEF MembersOf
<1>8. GroupsOK(tk1, gr1)
  BY <1>1, <1>5, <1>7 DEF PoolOK, GroupsOK
<1> QED BY <1>3, <1>4, <1>6, <1>8 DEF PoolOK

(* A group without tasks is made anew, or closed. *)
LEMMA EmptyGroup ==
    ASSUME NEW tk \in [Task -> TaskRec], NEW gr, NEW gr1, PoolOK(tk, gr),
           NEW g \in Group, MembersOf(tk, g) = {},
           \A h \in Group \ {g} : gr1[h] = gr[h],
           \A e \in Dep : gr1[g].waiting[e] = {},
           ~gr1[g].blocked, gr1[g].tasksCount = 0
    PROVE  PoolOK(tk, gr1)
<1>1. ListsOK(tk, gr1)
  BY DEF PoolOK, ListsOK
<1>2. BlockedOK(tk, gr1)
  BY DEF PoolOK, BlockedOK
<1>3. \A t \in Task : tk[t].state # "Free" => tk[t].group \in (Group \ {g}) \cup {NoGroup}
  BY TaskFields DEF MembersOf
<1>4. InputsOK(tk, gr1)
  BY <1>3 DEF PoolOK, InputsOK
<1>5. GroupsOK(tk, gr1)
  BY FS_EmptySet, <1>3 DEF PoolOK, GroupsOK
<1> QED BY <1>1, <1>2, <1>4, <1>5 DEF PoolOK

-----------------------------------------------------------------------------
(* The actions. *)

LEMMA StateKinds ==
    ASSUME TypeInv
    PROVE  /\ task \in [Task -> TaskRec] /\ group \in [Group -> GroupRec]
           /\ \A g \in Group : \A d \in Dep : group[g].waiting[d] \subseteq Task
           /\ \A g \in Group : group[g].blockedTasks \subseteq Task
BY GroupFields DEF TypeInv, TypeOK

(* Steps that touch neither tasks nor groups nor parts. *)
LEMMA NothingMoves ==
    ASSUME TypeInv, Core, UNCHANGED <<task, group, ready, part>>,
           \A w \in Worker : pc'[w] \in Working <=> pc[w] \in Working,
           \A w \in Worker : pc'[w] = "completion" <=> pc[w] = "completion"
    PROVE  Core'
BY Kinds, SameParts DEF Core, PartsOK

(* Steps on a group that leave its lists alone. *)
LEMMA GroupOnly ==
    ASSUME TypeInv, Core, UNCHANGED <<task, ready, pc, part>>,
           NEW c \in Client, NEW g \in Group,
           DependencyAdd(c, g) \/ DependencyAddMet(c, g) \/ GroupBlock(c, g)
    PROVE  Core'
<1>1. PartsOK(task, ready, pc, part) /\ PoolOK(task, group)
  BY DEF Core
<1>2. group[g] \in GroupRec /\ group \in [Group -> GroupRec]
  BY DEF TypeInv, TypeOK
<1>3. \A h \in Group \ {g} : group'[h] = group[h]
  BY <1>2 DEF DependencyAdd, DependencyAddMet, GroupBlock
<1>4. /\ group'[g].waiting = group[g].waiting /\ group[g].met \subseteq group'[g].met
      /\ group'[g].tasksCount = group[g].tasksCount /\ group'[g].open = group[g].open
      /\ group'[g].blockedTasks = group[g].blockedTasks
      /\ group'[g].blocked = group[g].blocked \/ group[g].blockedTasks = {}
  <2>1. CASE DependencyAdd(c, g)
    BY <1>2, <2>1 DEF DependencyAdd, GroupRec
  <2>2. CASE DependencyAddMet(c, g)
    BY <1>2, <2>2 DEF DependencyAddMet, GroupRec
  <2>3. CASE GroupBlock(c, g)
    BY <1>2, <2>3 DEF GroupBlock, GroupRec
  <2> QED BY <2>1, <2>2, <2>3
<1>5. PoolOK(task, group')
  <2>1. /\ \A h \in Group : group'[h].waiting = group[h].waiting /\ group[h].met \subseteq group'[h].met
        /\ \A h \in Group : group'[h].tasksCount = group[h].tasksCount /\ group'[h].open = group[h].open
        /\ \A h \in Group : group'[h].blockedTasks = group[h].blockedTasks
        /\ \A h \in Group : group'[h].blocked = group[h].blocked \/ group[h].blockedTasks = {}
    BY <1>3, <1>4
  <2> QED BY <1>1, <2>1, StateKinds, SamePool
<1> QED BY <1>1, <1>5 DEF Core

(* A group is made, or closed, when it has no task. *)
LEMMA GroupRenewed ==
    ASSUME TypeInv, Core, NEW c \in Client, NEW g \in Group,
           GroupInitialize(c, g) \/ GroupDestroy(c, g)
    PROVE  Core'
<1>1. PartsOK(task, ready, pc, part) /\ PoolOK(task, group)
  BY DEF Core
<1>2. group[g] \in GroupRec /\ group \in [Group -> GroupRec] /\ task \in [Task -> TaskRec]
  BY DEF TypeInv, TypeOK
<1>3. /\ \A h \in Group \ {g} : group'[h] = group[h]
      /\ \A e \in Dep : group'[g].waiting[e] = {}
      /\ ~group'[g].blocked /\ group'[g].tasksCount = 0
  <2>1. CASE GroupInitialize(c, g)
    BY <1>2, <2>1 DEF GroupInitialize, NewGroup
  <2>2. CASE GroupDestroy(c, g)
    BY <1>2, <2>2 DEF GroupDestroy, NewGroup
  <2> QED BY <2>1, <2>2
<1>4. MembersOf(task, g) = {}
  <2>1. CASE ~group[g].open
    BY <1>1, <2>1, SetsAssumption DEF PoolOK, GroupsOK, MembersOf
  <2>2. CASE group[g].tasksCount = 0
    BY <1>1, <2>2, MembersFinite, FS_EmptySet DEF PoolOK, GroupsOK
  <2> QED BY <2>1, <2>2 DEF GroupInitialize, GroupDestroy
<1>5. PoolOK(task, group')
  BY <1>1, <1>2, <1>3, <1>4, EmptyGroup
<1>6. UNCHANGED <<task, ready, pc, part>>
  BY DEF GroupInitialize, GroupDestroy, clientFrame
<1> QED BY <1>1, <1>5, <1>6 DEF Core

(* A worker takes a part, or counts one while others of its task go on. *)
LEMMA RunKeeps ==
    ASSUME TypeInv, Core, NEW w \in Worker, WorkerRun(w)
    PROVE  Core'
<1> DEFINE t == Head(ready).task
<1>1. KindsOK(task, ready, pc, part) /\ PartsOK(task, ready, pc, part) /\ PoolOK(task, group)
  BY Kinds DEF Core
<1>2. ready \in Seq(Part) /\ ready # <<>> /\ 1 \in DOMAIN ready /\ Head(ready) = ready[1]
  BY DEF WorkerRun, TypeInv, TypeOK
<1>3. t \in Task /\ task[t].state \in Begun
  <2>1. ready[1] \in Part /\ PieceOK(task, ready[1])
    BY <1>1, <1>2 DEF PartsOK, QueueOK
  <2> QED BY <1>2, <2>1 DEF Part, PieceOK
<1>4. task \in [Task -> TaskRec] /\ task[t] \in TaskRec
  BY <1>3 DEF TypeInv, TypeOK
<1>5. /\ task'[t].state = "Running" /\ task'[t].completed = task[t].completed
      /\ task'[t].total = task[t].total /\ task'[t].group = task[t].group
      /\ task'[t].inputs = task[t].inputs
      /\ \A u \in Task \ {t} : task'[u] = task[u]
  <2>1. task' = [task EXCEPT ![t] = [task[t] EXCEPT !.state = "Running", !.active = task[t].active + 1]]
    BY <1>3, <1>4 DEF WorkerRun
  <2> HIDE DEF t
  <2> QED BY <1>3, <1>4, <2>1 DEF TaskRec
<1> HIDE DEF t
<1>6. /\ \A u \in Task : task'[u].state \in Begun <=> task[u].state \in Begun
      /\ \A u \in Task : task'[u].completed = task[u].completed /\ task'[u].total = task[u].total
      /\ \A u \in Task : task'[u].group = task[u].group /\ task'[u].inputs = task[u].inputs
      /\ \A u \in Task : task'[u].state = task[u].state
                          \/ (task'[u].state \in Begun /\ task[u].state \in Begun)
  BY <1>3, <1>5 DEF Begun
<1>7. FreshOK(task')
  BY <1>1, <1>3, <1>5 DEF PartsOK, FreshOK
<1>8. /\ pc[w] = "fetch" /\ pc'[w] = "function" /\ part'[w] = Head(ready)
      /\ \A v \in Worker \ {w} : pc'[v] = pc[v] /\ part'[v] = part[v]
      /\ ready' = Tail(ready) /\ group' = group
  BY DEF WorkerRun, TypeInv, TypeOK
<1>9. PartsOK(task', ready', pc', part')
  BY <1>8, <1>1, <1>2, <1>6, <1>7, RunParts DEF Working
<1>10. PoolOK(task', group)
  BY <1>1, <1>6, StateKinds, SamePool
<1> QED BY <1>8, <1>9, <1>10 DEF Core

LEMMA CountKeeps ==
    ASSUME TypeInv, Core, NEW w \in Worker, WorkerPartDone(w) \/ WorkerCompletion(w)
    PROVE  Core'
<1> DEFINE t == part[w].task
           n == CompletedBy(w)
<1>1. KindsOK(task, ready, pc, part) /\ PartsOK(task, ready, pc, part) /\ PoolOK(task, group)
  BY Kinds DEF Core
<1>2. pc[w] \in Working
  BY DEF WorkerPartDone, WorkerCompletion, Returned, Working
<1>3. part[w] \in Part /\ t \in Task /\ task[t].state \in Begun
  BY <1>1, <1>2 DEF KindsOK, PartsOK, HandsOK, Part, PieceOK
<1>4. task \in [Task -> TaskRec] /\ task[t] \in TaskRec
  BY <1>3 DEF TypeInv, TypeOK
<1>5. n = task[t].completed + part[w].count
  BY DEF CompletedBy
<1>6. /\ task'[t].state \in Begun /\ task'[t].completed = n
      /\ task'[t].total = task[t].total /\ task'[t].group = task[t].group
      /\ task'[t].inputs = task[t].inputs
      /\ \A u \in Task \ {t} : task'[u] = task[u]
  <2> DEFINE state == IF task[t].active = 1 THEN "Ready" ELSE task[t].state
  <2>1. task' = [task EXCEPT ![t] = [task[t] EXCEPT !.active = task[t].active - 1,
                                        !.completed = n, !.state = state]]
    BY DEF WorkerPartDone, WorkerCompletion, PartRecorded
  <2>2. state \in Begun
    BY <1>3 DEF Begun
  <2> HIDE DEF t, n, state
  <2> QED BY <1>3, <1>4, <2>1, <2>2 DEF TaskRec
<1>7. AllDone(w) => n = task[t].total
  BY DEF AllDone
<1> HIDE DEF t, n
<1>8. /\ \A u \in Task : /\ task'[u].state \in Begun <=> task[u].state \in Begun
                         /\ task'[u].total = task[u].total
      /\ \A u \in Task \ {t} : task'[u].completed = task[u].completed
      /\ \A u \in Task : task'[u].group = task[u].group /\ task'[u].inputs = task[u].inputs
      /\ \A u \in Task : task'[u].state = task[u].state
                          \/ (task'[u].state \in Begun /\ task[u].state \in Begun)
  BY <1>3, <1>6
<1>9. FreshOK(task')
  BY <1>1, <1>3, <1>6 DEF PartsOK, FreshOK, Begun
<1>10. /\ \A v \in Worker \ {w} : pc'[v] = pc[v] /\ part'[v] = part[v]
       /\ pc'[w] \notin Working /\ ready' = ready /\ group' = group
       /\ pc'[w] = "completion" => part'[w] = part[w] /\ task'[t].completed = task'[t].total
  BY <1>6, <1>7 DEF WorkerPartDone, TypeInv, TypeOK, Working, WorkerCompletion
<1>11. PartsOK(task', ready, pc', part')
  BY <1>1, <1>2, <1>5, <1>6, <1>8, <1>9, <1>10, CountParts DEF t
<1>12. PoolOK(task', group)
  BY <1>1, <1>8, StateKinds, SamePool
<1> QED BY <1>10, <1>11, <1>12 DEF Core

LEMMA TasksCountFields ==
    ASSUME NEW r \in GroupRec, NEW n, NEW r1, r1 = [r EXCEPT !.tasksCount = n]
    PROVE  /\ r1.waiting = r.waiting /\ r1.met = r.met /\ r1.open = r.open
           /\ r1.blockedTasks = r.blockedTasks /\ r1.blocked = r.blocked /\ r1.tasksCount = n
BY DEF GroupRec

LEMMA GroupWithoutFields ==
    ASSUME TypeInv, NEW t \in Task, NEW gr, gr = GroupWithout(t)
    PROVE  \A g \in Group : /\ gr[g].waiting = group[g].waiting /\ gr[g].met = group[g].met
                           /\ gr[g].open = group[g].open
                           /\ gr[g].blockedTasks = group[g].blockedTasks
                           /\ gr[g].blocked = group[g].blocked
                           /\ gr[g].tasksCount = IF g = task[t].group THEN group[g].tasksCount - 1
                                                 ELSE group[g].tasksCount
<1> DEFINE h == task[t].group
<1>1. task \in [Task -> TaskRec] /\ group \in [Group -> GroupRec]
  BY DEF TypeInv, TypeOK
<1>2. h = NoGroup => gr = group
  BY DEF GroupWithout
<1>3. h # NoGroup => h \in Group /\ gr = [group EXCEPT ![h] = [group[h] EXCEPT !.tasksCount = group[h].tasksCount - 1]]
  BY <1>1, TaskFields DEF GroupWithout
<1>4. h = NoGroup => h \notin Group
  BY SetsAssumption
<1> HIDE DEF h
<1>5. CASE h = NoGroup
  BY <1>2, <1>4, <1>5 DEF h
<1>6. CASE h # NoGroup
  <2>1. group[h] \in GroupRec /\ gr[h] = [group[h] EXCEPT !.tasksCount = group[h].tasksCount - 1]
    BY <1>1, <1>3, <1>6
  <2>2. /\ gr[h].waiting = group[h].waiting /\ gr[h].met = group[h].met
        /\ gr[h].open = group[h].open /\ gr[h].blockedTasks = group[h].blockedTasks
        /\ gr[h].blocked = group[h].blocked /\ gr[h].tasksCount = group[h].tasksCount - 1
    BY ONLY <2>1, TasksCountFields
  <2>3. \A g \in Group \ {h} : gr[g] = group[g]
    BY <1>1, <1>3, <1>6
  <2> QED BY <2>2, <2>3 DEF h
<1> QED BY <1>5, <1>6

(* A task that is done leaves the pool, and its group. *)
LEMMA RemoveKeeps ==
    ASSUME TypeInv, Core, NEW t \in Task, task[t].state = "Done", removeTask(t),
           UNCHANGED <<ready, pc, part>>
    PROVE  Core'
<1>1. KindsOK(task, ready, pc, part) /\ PartsOK(task, ready, pc, part) /\ PoolOK(task, group)
  BY Kinds DEF Core
<1>2. task \in [Task -> TaskRec] /\ group \in [Group -> GroupRec] /\ task[t] \in TaskRec
  BY DEF TypeInv, TypeOK
<1>3. task'[t] = FreeTask /\ \A u \in Task \ {t} : task'[u] = task[u]
  BY <1>2 DEF removeTask
<1>4. /\ \A u \in Task : task'[u].state \in Begun <=> task[u].state \in Begun
      /\ \A u \in Task : task[u].state \in Begun =>
              task'[u].completed = task[u].completed /\ task'[u].total = task[u].total
  BY <1>3 DEF Begun, FreeTask
<1>5. FreshOK(task')
  BY <1>1, <1>3 DEF PartsOK, FreshOK, FreeTask
<1>6. PartsOK(task', ready, pc, part)
  BY <1>1, <1>4, <1>5, SameParts
<1>7. \A g \in Group : /\ group'[g].waiting = group[g].waiting /\ group'[g].met = group[g].met
                      /\ group'[g].open = group[g].open
                      /\ group'[g].blockedTasks = group[g].blockedTasks
                      /\ group'[g].blocked = group[g].blocked
                      /\ group'[g].tasksCount = IF g = task[t].group THEN group[g].tasksCount - 1
                                                ELSE group[g].tasksCount
  BY GroupWithoutFields DEF removeTask
<1>8. PoolOK(task', group')
  BY <1>1, <1>2, <1>3, <1>7, StateKinds, LeavePool
<1> QED BY <1>6, <1>8 DEF Core

(* Blocks that differ in nothing the invariant speaks of. *)
SameBlocks(tk) ==
    \A u \in Task : /\ tk[u].state = task[u].state /\ tk[u].group = task[u].group
                   /\ tk[u].inputs = task[u].inputs
                   /\ tk[u].completed = task[u].completed /\ tk[u].total = task[u].total

LEMMA SameBlocksKeep ==
    ASSUME TypeInv, Core, NEW tk \in [Task -> TaskRec], SameBlocks(tk)
    PROVE  KindsOK(tk, ready, pc, part) /\ PartsOK(tk, ready, pc, part) /\ PoolOK(tk, group)
<1>1. KindsOK(task, ready, pc, part) /\ PartsOK(task, ready, pc, part) /\ PoolOK(task, group)
  BY Kinds DEF Core
<1>2. \A u \in Task : /\ tk[u].state = task[u].state /\ tk[u].group = task[u].group
                     /\ tk[u].inputs = task[u].inputs
                     /\ tk[u].completed = task[u].completed /\ tk[u].total = task[u].total
  BY DEF SameBlocks
<1>3. FreshOK(tk)
  BY <1>1, <1>2 DEF PartsOK, FreshOK
<1>4. PartsOK(tk, ready, pc, part)
  BY <1>1, <1>2, <1>3, SameParts
<1>5. PoolOK(tk, group)
  BY <1>1, <1>2, StateKinds, SamePool
<1>6. KindsOK(tk, ready, pc, part)
  BY <1>1 DEF KindsOK
<1> QED BY <1>4, <1>5, <1>6

LEMMA NoWaitKeeps ==
    ASSUME TypeInv, Core, NEW a \in Actor, NoWait(a)
    PROVE  Core'
<1> DEFINE t == call[a].task
<1>1. t \in Task
  BY DEF NoWait, TypeInv, TypeOK, Call, Waits, Idle
<1>2. CASE task[t].state = "Done"
  BY <1>1, <1>2, RemoveKeeps DEF NoWait
<1>3. CASE task[t].state # "Done"
  <2>2. task \in [Task -> TaskRec] /\ task[t] \in TaskRec
    BY <1>1 DEF TypeInv, TypeOK
  <2>3. task' = [task EXCEPT ![t] = [task[t] EXCEPT !.detached = TRUE]] /\ UNCHANGED <<ready, pc, part, group>>
    BY <1>3 DEF NoWait
  <2> HIDE DEF t
  <2>4. SameBlocks(task')
    BY <1>1, <2>2, <2>3 DEF TaskRec, SameBlocks
  <2>5. task' \in [Task -> TaskRec]
    BY <2>2, TaskFlags, <1>1, <2>3
  <2>6. PartsOK(task', ready, pc, part) /\ PoolOK(task', group)
    BY <2>4, <2>5, SameBlocksKeep
  <2> QED BY <2>3, <2>6 DEF Core
<1> QED BY <1>2, <1>3

(* The group after dependencyMet(), and what it releases. *)
LEMMA AfterMet ==
    ASSUME TypeInv, NEW g \in Group, NEW d \in Dep, d \notin group[g].met
    PROVE  LET r == GroupAfterMet(g, d)
               stays == group[g].waiting[d] \ Released(g, d)
           IN  /\ r.met = group[g].met \cup {d} /\ r.waiting[d] = {}
               /\ r.open = group[g].open /\ r.tasksCount = group[g].tasksCount
               /\ r.blocked = group[g].blocked /\ r.blockedTasks = group[g].blockedTasks
               /\ \A e \in Dep : r.waiting[e] \subseteq group[g].waiting[e] \cup stays
               /\ \A u \in Task, e, f \in Dep :
                      /\ u \notin group[g].waiting[e] /\ u \notin group[g].waiting[f]
                      /\ u \in r.waiting[e] /\ u \in r.waiting[f]
                      => e = f
<1> DEFINE met2 == group[g].met \cup {d}
           stays == group[g].waiting[d] \ Released(g, d)
           listOf(u) == taskLowestUnmetDependency(task[u].inputs, met2)
           lists == [e \in Dep |-> IF e = d THEN {}
                                   ELSE group[g].waiting[e] \cup {u \in stays : listOf(u) = e}]
           count == group[g].waitingCount - Cardinality(Released(g, d))
           r == GroupAfterMet(g, d)
<1>1. r = [group[g] EXCEPT !.met = met2, !.waiting = lists, !.waitingCount = count]
  BY DEF GroupAfterMet, NoDep, Dep
<1>2. group[g] \in GroupRec
  BY DEF TypeInv, TypeOK
<1>3. /\ r.met = met2 /\ r.waiting = lists /\ r.open = group[g].open
      /\ r.tasksCount = group[g].tasksCount
      /\ r.blocked = group[g].blocked /\ r.blockedTasks = group[g].blockedTasks
  <2> HIDE DEF r, met2, lists, count
  <2> QED BY <1>1, <1>2 DEF GroupRec
<1> HIDE DEF r
<1>4. r.waiting[d] = {} /\ \A e \in Dep : r.waiting[e] \subseteq group[g].waiting[e] \cup stays
  <2> HIDE DEF stays, listOf
  <2> QED BY <1>3
<1>5. ASSUME NEW u \in Task, NEW e \in Dep, NEW f \in Dep,
             u \notin group[g].waiting[e], u \notin group[g].waiting[f],
             u \in r.waiting[e], u \in r.waiting[f]
      PROVE  e = f
  <2> HIDE DEF stays, listOf
  <2>1. listOf(u) = e /\ listOf(u) = f
    BY <1>3, <1>5
  <2> QED BY <2>1
<1> QED BY <1>3, <1>4, <1>5 DEF r

(* dependencyMet() on the blocks tk and the groups gr, which may differ from *)
(* the state in a task that has just left.                                 *)
MetHere(tk, gr, g, d) ==
    /\ \A h \in Group : /\ gr[h].met = group[h].met /\ gr[h].waiting = group[h].waiting
                       /\ gr[h].open = group[h].open
                       /\ gr[h].blocked = group[h].blocked
                       /\ gr[h].blockedTasks = group[h].blockedTasks
    /\ \A u \in group[g].waiting[d] : tk[u] = task[u]
    /\ \A u \in Task : task'[u] = IF u \in Released(g, d) THEN [tk[u] EXCEPT !.state = "Ready"]
                                  ELSE tk[u]
    /\ \A h \in Group \ {g} : group'[h] = gr[h]
    /\ group'[g].tasksCount = gr[g].tasksCount
    /\ group'[g].met = GroupAfterMet(g, d).met
    /\ group'[g].waiting = GroupAfterMet(g, d).waiting
    /\ group'[g].open = group[g].open /\ group'[g].blocked = group[g].blocked
    /\ group'[g].blockedTasks = group[g].blockedTasks
    /\ readyTasks(Released(g, d), Total)

LEMMA MetKeeps ==
    ASSUME TypeInv, TypeInv', NEW tk \in [Task -> TaskRec], NEW gr \in [Group -> GroupRec],
           PoolOK(tk, gr), KindsOK(tk, ready, pc', part'), PartsOK(tk, ready, pc', part'),
           NEW g \in Group, NEW d \in Dep, d \notin group[g].met, MetHere(tk, gr, g, d)
    PROVE  Core'
<1> USE DEF MetHere
<1> DEFINE rel == Released(g, d)
<1>1. /\ rel \subseteq group[g].waiting[d]
      /\ \A u \in rel : ToSet(task[u].inputs) \subseteq group[g].met \cup {d}
  BY DEF Released, taskDependenciesMet
<1>2. PoolOK(task', group')
  <2> DEFINE r == GroupAfterMet(g, d)
  <2>1. /\ r.met = group[g].met \cup {d} /\ r.waiting[d] = {}
        /\ r.open = group[g].open
        /\ r.blocked = group[g].blocked /\ r.blockedTasks = group[g].blockedTasks
        /\ \A e \in Dep : r.waiting[e] \subseteq group[g].waiting[e] \cup (group[g].waiting[d] \ rel)
        /\ \A u \in Task, e, f \in Dep :
                      /\ u \notin group[g].waiting[e] /\ u \notin group[g].waiting[f]
                      /\ u \in r.waiting[e] /\ u \in r.waiting[f]
                      => e = f
    BY AfterMet
  <2> HIDE DEF r, rel
  <2>2. group'[g].met = r.met /\ group'[g].waiting = r.waiting
    BY DEF r
  <2>3. /\ group'[g].met = gr[g].met \cup {d} /\ group'[g].waiting[d] = {}
        /\ group'[g].open = gr[g].open /\ group'[g].blocked = gr[g].blocked
        /\ group'[g].blockedTasks = gr[g].blockedTasks
        /\ \A e \in Dep : group'[g].waiting[e] \subseteq gr[g].waiting[e] \cup (gr[g].waiting[d] \ rel)
    BY <2>1, <2>2
  <2>4. ASSUME NEW u \in gr[g].waiting[d], NEW e \in Dep, NEW f \in Dep,
               u \in group'[g].waiting[e], u \in group'[g].waiting[f]
        PROVE  e = f
    BY <2>3, <2>4, StateKinds, <2>1, <2>2 DEF PoolOK, ListsOK
  <2>5. /\ \A h \in Group : \A e \in Dep : gr[h].waiting[e] \subseteq Task
        /\ \A h \in Group : gr[h].blockedTasks \subseteq Task
    BY StateKinds
  <2>6. /\ rel \in SUBSET gr[g].waiting[d]
        /\ \A u \in rel : ToSet(tk[u].inputs) \subseteq gr[g].met \cup {d}
    BY <1>1
  <2>7. /\ \A u \in Task \ rel : task'[u] = tk[u]
        /\ \A u \in rel : task'[u] = [tk[u] EXCEPT !.state = "Ready"]
    BY <2>5, <2>6 DEF rel
  <2>8. /\ \A h \in Group \ {g} : group'[h] = gr[h]
        /\ group'[g].tasksCount = gr[g].tasksCount
    OBVIOUS
  <2>9. MetStep(tk, task', gr, group', g, d, rel)
    BY <2>3, <2>4, <2>6, <2>7, <2>8 DEF MetStep
  <2> QED BY <2>5, <2>9, MetPool
<1>3. PartsOK(task', ready', pc', part')
  <2>1. PICK s \in SetToSeqs(NewParts(rel, Total)) : ready' = ready \o s
    BY DEF readyTasks, NewParts
  <2>2. rel \in SUBSET Task
    BY <1>1, StateKinds
  <2>3. \A u \in rel : /\ tk[u] \in TaskRec /\ tk[u] = task[u] /\ tk[u].state = "Waiting"
                       /\ task'[u] = [tk[u] EXCEPT !.state = "Ready"]
    <3>1. \A u \in rel : tk[u] \in TaskRec /\ tk[u] = task[u] /\ tk[u].state = "Waiting"
      BY <1>1, <2>2 DEF PoolOK, ListsOK
    <3> QED BY <2>2, <3>1
  <2>4. Total \in [Task -> Nat] /\ \A u \in Task : Total[u] = task[u].total
    BY StateKinds, TaskFields DEF Total
  <2>5. \A u \in rel : /\ tk[u].state \notin Begun /\ task'[u].state = "Ready"
                       /\ task'[u].completed = 0 /\ task'[u].total = Total[u]
    <3> SUFFICES ASSUME NEW u \in rel
                 PROVE  /\ tk[u].state \notin Begun /\ task'[u].state = "Ready"
                        /\ task'[u].completed = 0 /\ task'[u].total = Total[u]
      OBVIOUS
    <3>1. tk[u] \in TaskRec /\ task'[u] = [tk[u] EXCEPT !.state = "Ready"]
      BY <2>3
    <3>2. /\ task'[u].state = "Ready" /\ task'[u].completed = tk[u].completed
          /\ task'[u].total = tk[u].total
      BY ONLY <3>1, ReadyRecord
    <3>3. tk[u].completed = 0 /\ tk[u].state \notin Begun
      BY <2>2, <2>3 DEF PartsOK, FreshOK, Begun
    <3> QED BY <2>2, <2>3, <2>4, <3>2, <3>3
  <2> HIDE DEF rel
  <2>6. \A u \in Task \ rel : task'[u] = tk[u]
    BY DEF rel
  <2>7. FreshOK(task')
    BY <2>6, <2>5 DEF PartsOK, FreshOK
  <2>8. task' \in [Task -> TaskRec]
    BY DEF TypeInv, TypeOK
  <2>9. StartStep(tk, task', rel, Total) /\ SameHands(pc', pc')
    BY <2>5, <2>6 DEF StartStep, SameHands
  <2>10. PartsOK(task', ready \o s, pc', part')
    BY <2>2, <2>4, <2>7, <2>8, <2>9, StartParts
  <2> QED BY <2>1, <2>10
<1> QED BY <1>2, <1>3 DEF Core

LEMMA DependencyMetKeeps ==
    ASSUME TypeInv, TypeInv', Core, NEW a \in Actor, NEW g \in Group, NEW d \in Dep,
           DependencyMet(a, g, d), ~NeverEnds(g, d)
    PROVE  Core'
<1> DEFINE r == GroupAfterMet(g, d)
<1>1. KindsOK(task, ready, pc, part) /\ PartsOK(task, ready, pc, part) /\ PoolOK(task, group)
  BY Kinds DEF Core
<1>2. d \notin group[g].met /\ UNCHANGED <<pc, part>> /\ readyTasks(Released(g, d), Total)
  BY DEF DependencyMet
<1>3. \A u \in Task : task'[u] = IF u \in Released(g, d) THEN [task[u] EXCEPT !.state = "Ready"]
                                 ELSE task[u]
  BY DEF DependencyMet
<1>4. group' = [group EXCEPT ![g] = r]
  BY DEF DependencyMet
<1>5. task \in [Task -> TaskRec] /\ group \in [Group -> GroupRec]
  BY DEF TypeInv, TypeOK
<1>6. /\ \A h \in Group \ {g} : group'[h] = group[h]
      /\ group'[g] = r
  <2> HIDE DEF r
  <2> QED BY <1>4, <1>5
<1>7. r.tasksCount = group[g].tasksCount /\ r.open = group[g].open /\ r.blocked = group[g].blocked
      /\ r.blockedTasks = group[g].blockedTasks
  BY <1>2, <1>5, AfterMet
<1> HIDE DEF r
<1>8. /\ group'[g].tasksCount = group[g].tasksCount
      /\ group'[g].met = r.met /\ group'[g].waiting = r.waiting
      /\ group'[g].open = group[g].open /\ group'[g].blocked = group[g].blocked
      /\ group'[g].blockedTasks = group[g].blockedTasks
  BY <1>6, <1>7
<1>9. KindsOK(task, ready, pc', part') /\ PartsOK(task, ready, pc', part')
  BY <1>1, <1>2
<1>10. MetHere(task, group, g, d)
  BY <1>2, <1>3, <1>6, <1>8 DEF MetHere, r
<1> QED BY <1>1, <1>2, <1>5, <1>9, <1>10, MetKeeps

(* The last part of a task ends: the task leaves, and then its output is met. *)
LEMMA FinishKeeps ==
    ASSUME TypeInv, TypeInv', Core, NEW w \in Worker, WorkerFinish(w),
           ~(task[part[w].task].group # NoGroup
             /\ NeverEnds(task[part[w].task].group, task[part[w].task].output))
    PROVE  Core'
<1> DEFINE t == part[w].task
           g == task[t].group
           o == task[t].output
           rel == IF g = NoGroup THEN {} ELSE Released(g, o)
           ended == IF task[t].detached THEN FreeTask
                    ELSE [task[t] EXCEPT !.state = "Done", !.active = 0, !.completed = task[t].total]
           tk == [task EXCEPT ![t] = ended]
           r == GroupAfterMet(g, o)
           n == IF task[t].detached THEN r.tasksCount - 1 ELSE r.tasksCount
           gr == IF task[t].detached THEN GroupWithout(t) ELSE group
<1>1. KindsOK(task, ready, pc, part) /\ PartsOK(task, ready, pc, part) /\ PoolOK(task, group)
  BY Kinds DEF Core
<1>2. \/ pc[w] = "completion"
      \/ /\ pc[w] \in Working
         /\ task[t].completed + part[w].count = task[t].total
  BY DEF WorkerFinish, Returned, AllDone, CompletedBy, Working
<1>3. t \in Task /\ task[t].state \in Begun
  BY <1>1, <1>2 DEF KindsOK, PartsOK, LastOK, Part, HandsOK, PieceOK
<1>4. /\ task \in [Task -> TaskRec] /\ group \in [Group -> GroupRec] /\ task[t] \in TaskRec
      /\ \A v \in Worker \ {w} : pc'[v] = pc[v] /\ part'[v] = part[v]
      /\ pc'[w] = "fetch"
  BY <1>3 DEF TypeInv, TypeOK, WorkerFinish, finishTask
<1>5. /\ finishTask(w, task[t].total)
      /\ task' = [u \in Task |-> IF u = t THEN ended
                                ELSE IF u \in rel THEN [task[u] EXCEPT !.state = "Ready"]
                                ELSE task[u]]
      /\ group' = IF g = NoGroup THEN group
                  ELSE [group EXCEPT ![g] = [r EXCEPT !.tasksCount = n]]
      /\ readyTasks(rel, Total)
  BY DEF WorkerFinish, finishTask
<1>6. ended \in TaskRec /\ ended.state \in {"Free", "Done"}
      /\ (~task[t].detached => ended.state = "Done" /\ ended.group = task[t].group
                               /\ ended.inputs = task[t].inputs)
  <2>1. task[t].total \in Nat
    BY <1>4, TaskFields
  <2>2. [task[t] EXCEPT !.state = "Done", !.active = 0, !.completed = task[t].total] \in TaskRec
    BY <1>4, <2>1, TaskDone
  <2>3. FreeTask.state = "Free"
    BY DEF FreeTask
  <2> HIDE DEF t
  <2>4. LET e == [task[t] EXCEPT !.state = "Done", !.active = 0, !.completed = task[t].total]
        IN  e.state = "Done" /\ e.group = task[t].group /\ e.inputs = task[t].inputs
    BY <1>4 DEF TaskRec
  <2> QED BY <2>2, <2>3, <2>4, FreeTaskType
<1>7. tk \in [Task -> TaskRec] /\ tk[t] = ended /\ \A u \in Task \ {t} : tk[u] = task[u]
  <2> HIDE DEF ended, t
  <2> QED BY <1>3, <1>4, <1>6
<1>8. PoolOK(tk, gr)
  <2>1. CASE task[t].detached
    <3>1. gr = GroupWithout(t) /\ tk[t] = FreeTask
      BY <1>7, <2>1
    <3> HIDE DEF tk, gr, t
    <3>2. \A h \in Group : /\ gr[h].waiting = group[h].waiting /\ gr[h].met = group[h].met
                          /\ gr[h].open = group[h].open
                          /\ gr[h].blockedTasks = group[h].blockedTasks
                          /\ gr[h].blocked = group[h].blocked
                          /\ gr[h].tasksCount = IF h = task[t].group THEN group[h].tasksCount - 1
                                                ELSE group[h].tasksCount
      BY <1>3, <3>1, GroupWithoutFields
    <3> QED BY <1>1, <1>3, <1>4, <1>7, <3>1, <3>2, StateKinds, LeavePool
  <2>2. CASE ~task[t].detached
    <3>1. gr = group /\ tk[t].state = "Done" /\ tk[t].group = task[t].group /\ tk[t].inputs = task[t].inputs
      BY <1>6, <1>7, <2>2
    <3> HIDE DEF tk, gr, t, ended
    <3>2. PoolOK(tk, group)
      BY <1>1, <1>3, <1>4, <1>7, <3>1, StateKinds, DonePool
    <3> QED BY <3>1, <3>2
  <2> QED BY <2>1, <2>2
<1>9. gr \in [Group -> GroupRec]
  BY <1>3, <1>4, GroupWithoutType
<1>10. KindsOK(tk, ready, pc', part') /\ PartsOK(tk, ready, pc', part')
  <2> HIDE DEF tk, ended
  <2>1. FreshOK(tk)
    BY <1>1, <1>6, <1>7 DEF PartsOK, FreshOK
  <2>2. tk[t].state \notin Begun
    BY <1>6, <1>7 DEF Begun
  <2>3. PartsOK(tk, ready, pc', part')
    BY <1>1, <1>2, <1>4, <1>7, <2>1, <2>2, EndParts
  <2>4. KindsOK(tk, ready, pc', part')
    BY <1>1, <1>4, <1>7 DEF KindsOK, Working
  <2> QED BY <2>3, <2>4
<1>11. \A h \in Group : /\ gr[h].waiting = group[h].waiting /\ gr[h].met = group[h].met
                       /\ gr[h].open = group[h].open
                       /\ gr[h].blockedTasks = group[h].blockedTasks
                       /\ gr[h].blocked = group[h].blocked
                       /\ gr[h].tasksCount = IF h = g /\ task[t].detached THEN group[h].tasksCount - 1
                                             ELSE group[h].tasksCount
  <2>1. CASE task[t].detached
    <3>1. gr = GroupWithout(t)
      BY <2>1
    <3> HIDE DEF gr
    <3> QED BY <1>3, <2>1, <3>1, GroupWithoutFields
  <2>2. CASE ~task[t].detached
    BY <2>2
  <2> QED BY <2>1, <2>2
<1>12. g # NoGroup => g \in Group
  BY <1>4, TaskFields
<1>13. \A h \in Group \ {g} : group'[h] = gr[h]
  <2>1. \A h \in Group \ {g} : gr[h] = group[h]
    BY <1>4 DEF GroupWithout
  <2> HIDE DEF gr
  <2>2. \A h \in Group \ {g} : group'[h] = group[h]
    BY <1>4, <1>5
  <2> QED BY <2>1, <2>2
<1>14. CASE g # NoGroup /\ o # NoDep /\ o \notin group[g].met
  <2>1. g \in Group /\ o \in Dep /\ o \notin group[g].met /\ ~NeverEnds(g, o) /\ rel = Released(g, o)
    BY <1>4, <1>12, <1>14, TaskFields
  <2>2. \A u \in group[g].waiting[o] : u \in Task /\ u # t
    BY <1>1, <1>3, <2>1, StateKinds DEF PoolOK, ListsOK, Begun
  <2>3. Released(g, o) \subseteq group[g].waiting[o]
    BY DEF Released
  <2>4. group'[g] = [r EXCEPT !.tasksCount = n]
    <3> HIDE DEF r, n, g, o, ended, rel
    <3> QED BY <1>4, <1>5, <1>14, <2>1
  <2>5. r \in GroupRec
    BY <2>1, GroupAfterMetType
  <2>6. r.tasksCount = group[g].tasksCount /\ r.open = group[g].open /\ r.blocked = group[g].blocked
        /\ r.blockedTasks = group[g].blockedTasks
    BY <2>1, AfterMet
  <2>7. /\ group'[g].met = r.met /\ group'[g].waiting = r.waiting /\ group'[g].open = r.open
        /\ group'[g].blocked = r.blocked /\ group'[g].blockedTasks = r.blockedTasks
        /\ group'[g].tasksCount = n
    BY ONLY <2>4, <2>5, TasksCountFields
  <2>8. n = gr[g].tasksCount
    BY <1>11, <2>1, <2>6
  <2> HIDE DEF tk, gr, ended, n, rel, r
  <2>9. \A u \in Task : task'[u] = IF u \in Released(g, o) THEN [tk[u] EXCEPT !.state = "Ready"]
                                   ELSE tk[u]
    BY <1>5, <1>7, <2>1, <2>2, <2>3
  <2>10. \A u \in group[g].waiting[o] : tk[u] = task[u]
    BY <1>7, <2>2
  <2>11. /\ group'[g].tasksCount = gr[g].tasksCount
         /\ group'[g].met = GroupAfterMet(g, o).met
         /\ group'[g].waiting = GroupAfterMet(g, o).waiting
         /\ group'[g].open = group[g].open /\ group'[g].blocked = group[g].blocked
         /\ group'[g].blockedTasks = group[g].blockedTasks
    BY <2>6, <2>7, <2>8 DEF r
  <2>12. readyTasks(Released(g, o), Total)
    BY <1>5, <2>1
  <2> HIDE DEF g, o
  <2>13. MetHere(tk, gr, g, o)
    BY <1>11, <1>13, <2>9, <2>10, <2>11, <2>12 DEF MetHere
  <2> QED BY <1>7, <1>8, <1>9, <1>10, <2>1, <2>13, MetKeeps
<1>15. CASE g = NoGroup \/ o = NoDep \/ o \in group[g].met
  <2>1. rel = {}
    BY <1>15 DEF Released
  <2>2. task' = tk
    <3> HIDE DEF rel, ended
    <3> QED BY <1>4, <1>5, <2>1
  <2>3. group' = gr
    <3>1. CASE g = NoGroup
      BY <1>5, <3>1 DEF GroupWithout
    <3>2. CASE g # NoGroup
      <4>1. GroupAfterMet(g, o) = group[g] /\ g \in Group /\ group[g] \in GroupRec
        BY <1>4, <1>12, <1>15, <3>2 DEF GroupAfterMet
      <4>2. CASE task[t].detached
        BY <1>5, <3>2, <4>1, <4>2 DEF GroupWithout
      <4>3. CASE ~task[t].detached
        <5>1. group' = [group EXCEPT ![g] = [group[g] EXCEPT !.tasksCount = group[g].tasksCount]]
          BY <1>5, <3>2, <4>1, <4>3
        <5>2. [group[g] EXCEPT !.tasksCount = group[g].tasksCount] = group[g]
          BY <4>1 DEF GroupRec
        <5> HIDE DEF g
        <5>3. group' = group
          BY <1>4, <4>1, <5>1, <5>2
        <5> QED BY <4>3, <5>3
      <4> QED BY <4>2, <4>3
    <3> QED BY <3>1, <3>2
  <2>4. PICK s \in SetToSeqs(NewParts({}, Total)) : ready' = ready \o s
    BY <1>5, <2>1 DEF readyTasks, NewParts
  <2> HIDE DEF tk, gr, ended
  <2>5. StartStep(tk, tk, {}, Total) /\ SameHands(pc', pc') /\ FreshOK(tk) /\ Total \in [Task -> Nat]
    BY <1>10, StateKinds, TaskFields DEF StartStep, SameHands, PartsOK, Total
  <2>6. {} \in SUBSET Task
    OBVIOUS
  <2>7. PartsOK(tk, ready \o s, pc', part')
    BY <1>7, <1>10, <2>5, <2>6, StartParts
  <2> QED BY <1>8, <2>2, <2>3, <2>4, <2>7 DEF Core
<1> QED BY <1>14, <1>15

(* addTask() on the blocks tk, in which a parent may have lost its output. *)
LEMMA AddKeeps ==
    ASSUME TypeInv, TypeInv', Core, NEW tk \in [Task -> TaskRec], SameBlocks(tk),
           NEW t \in Task, NEW g \in Group \cup {NoGroup}, g # NoGroup => group[g].open,
           NEW output, NEW sliced, NEW shape \in [inputs : Seq(Dep), total : Nat, finisher : BOOLEAN],
           addTask(tk, t, g, shape, output, sliced),
           SameHands(pc, pc'), part' = part
    PROVE  Core'
<1> DEFINE met == IF g = NoGroup THEN {} ELSE group[g].met
           state == IF g # NoGroup /\ group[g].blocked THEN "Blocked"
                    ELSE IF taskDependenciesMet(shape.inputs, met) THEN "Ready" ELSE "Waiting"
           list == taskLowestUnmetDependency(shape.inputs, met)
           new == NewTask(state, g, shape, output, sliced)
           rel == IF state = "Ready" THEN {t} ELSE {}
           total == [Total EXCEPT ![t] = shape.total]
<1>2. KindsOK(tk, ready, pc, part) /\ PartsOK(tk, ready, pc, part) /\ PoolOK(tk, group)
  BY SameBlocksKeep
<1>3. /\ tk[t].state = "Free"
      /\ task' = [tk EXCEPT ![t] = new]
      /\ readyTasks(rel, total)
  BY DEF addTask
<1>4. /\ new.state = state /\ new.group = g /\ new.inputs = shape.inputs
      /\ new.completed = 0 /\ new.total = shape.total
  <2> HIDE DEF state
  <2> QED BY DEF NewTask
<1>5. state \in {"Blocked", "Ready", "Waiting"}
  OBVIOUS
<1>6. state = "Ready" => ToSet(shape.inputs) \subseteq met
  BY DEF taskDependenciesMet
<1> HIDE DEF new
<1>7. task'[t] = new /\ \A u \in Task \ {t} : task'[u] = tk[u]
  BY <1>3
<1>8. PartsOK(task', ready', pc', part')
  <2> HIDE DEF state, met
  <2>1. PICK s \in SetToSeqs(NewParts(rel, total)) : ready' = ready \o s
    BY <1>3 DEF readyTasks, NewParts
  <2>2. total \in [Task -> Nat] /\ total[t] = shape.total /\ rel \in SUBSET Task
    BY StateKinds, TaskFields DEF Total
  <2>3. FreshOK(task')
    BY <1>2, <1>4, <1>7 DEF PartsOK, FreshOK
  <2>4. StartStep(tk, task', rel, total)
    <3> HIDE DEF total
    <3> QED BY <1>3, <1>4, <1>5, <1>7, <2>2 DEF StartStep, Begun
  <2>5. task' \in [Task -> TaskRec]
    BY DEF TypeInv, TypeOK
  <2> HIDE DEF rel, total
  <2>6. PartsOK(task', ready \o s, pc', part)
    BY <1>2, <2>2, <2>3, <2>4, <2>5, StartParts
  <2> QED BY <2>1, <2>6
<1>9. PoolOK(task', group')
  <2>1. CASE g = NoGroup
    <3>1. group' = group
      BY <2>1 DEF addTask
    <3>2. task'[t].group = NoGroup /\ \A u \in Task \ {t} : task'[u] = tk[u]
      BY <1>4, <1>7, <2>1
    <3> HIDE DEF state, met, list, total
    <3>3. PoolOK(task', group)
      <4>1. PoolOK(tk, group) /\ tk[t].state = "Free"
        BY <1>2, <1>3
      <4>2. /\ \A h \in Group : \A e \in Dep : group[h].waiting[e] \subseteq Task
            /\ \A h \in Group : group[h].blockedTasks \subseteq Task
        BY StateKinds
      <4> QED BY ONLY <3>2, <4>1, <4>2, AddAlone
    <3> QED BY <3>1, <3>3
  <2>2. CASE g # NoGroup
    <3> DEFINE r == group[g]
               listed == [r.waiting EXCEPT ![list] = r.waiting[list] \cup {t}]
               blockedTasks == IF state = "Blocked" THEN r.blockedTasks \cup {t} ELSE r.blockedTasks
               waiting == IF state = "Waiting" THEN listed ELSE r.waiting
               count == IF state = "Waiting" THEN r.waitingCount + 1 ELSE r.waitingCount
               r1 == [r EXCEPT !.tasksCount = r.tasksCount + 1, !.blockedTasks = blockedTasks,
                               !.waiting = waiting, !.waitingCount = count]
    <3>1. g \in Group /\ r \in GroupRec /\ group \in [Group -> GroupRec]
      BY <2>2 DEF TypeInv, TypeOK
    <3>2. group' = [group EXCEPT ![g] = r1]
      BY <2>2 DEF addTask
    <3>3. /\ r1.met = r.met /\ r1.open = r.open /\ r1.blocked = r.blocked
          /\ r1.tasksCount = r.tasksCount + 1 /\ r1.waiting = waiting
          /\ r1.blockedTasks = blockedTasks
      <4> HIDE DEF r, blockedTasks, waiting, count
      <4> QED BY <3>1 DEF GroupRec
    <3> HIDE DEF r1
    <3>4. group'[g] = r1 /\ \A h \in Group \ {g} : group'[h] = group[h]
      BY <3>1, <3>2
    <3>5. r.waiting \in [Dep -> SUBSET Task]
      BY <3>1, GroupFields
    <3>6. \A e \in Dep : t \notin r.waiting[e]
      BY <1>2, <1>3, <3>1 DEF PoolOK, ListsOK
    <3>7. /\ \A e \in Dep : waiting[e] \subseteq r.waiting[e] \cup {t}
          /\ \A e \in Dep : t \in waiting[e] => state = "Waiting" /\ e = list
      <4> HIDE DEF r, state, list
      <4> QED BY <3>5, <3>6
    <3>8. AddStep(tk, task', group, group', t, g, list)
      <4> HIDE DEF state, list, waiting
      <4> QED BY <1>3, <1>4, <1>5, <1>6, <1>7, <2>2, <3>1, <3>3, <3>4, <3>7 DEF AddStep
    <3> HIDE DEF list
    <3> QED BY <1>2, <3>1, <3>8, StateKinds, AddPool
  <2> QED BY <2>1, <2>2
<1> QED BY <1>8, <1>9 DEF Core

LEMMA UnblockKeeps ==
    ASSUME TypeInv, TypeInv', Core, NEW c \in Client, NEW g \in Group, GroupUnblock(c, g)
    PROVE  Core'
<1> DEFINE r == group[g]
           blockedTasks == r.blockedTasks
           rel == {t \in blockedTasks : taskDependenciesMet(task[t].inputs, r.met)}
           listOf(t) == taskLowestUnmetDependency(task[t].inputs, r.met)
           waiting == [d \in Dep |-> r.waiting[d] \cup {t \in blockedTasks \ rel : listOf(t) = d}]
           count == r.waitingCount + Cardinality(blockedTasks \ rel)
           r1 == [r EXCEPT !.blocked = FALSE, !.waiting = waiting, !.waitingCount = count]
<1>1. KindsOK(task, ready, pc, part) /\ PartsOK(task, ready, pc, part) /\ PoolOK(task, group)
  BY Kinds DEF Core
<1>2. /\ r.blocked /\ UNCHANGED <<pc, part>> /\ readyTasks(rel, Total)
      /\ \A t \in blockedTasks : task[t].state = "Blocked"
      /\ task' = [t \in Task |-> IF t \in blockedTasks
                     THEN [task[t] EXCEPT !.state = IF t \in rel THEN "Ready" ELSE "Waiting"]
                     ELSE task[t]]
      /\ group' = [group EXCEPT ![g] = r1]
  BY DEF GroupUnblock, clientFrame
<1>3. /\ task \in [Task -> TaskRec] /\ group \in [Group -> GroupRec] /\ r \in GroupRec
      /\ task' \in [Task -> TaskRec] /\ blockedTasks \subseteq Task
      /\ rel \subseteq blockedTasks
  BY StateKinds DEF TypeInv, TypeOK
<1>4. \A t \in rel : ToSet(task[t].inputs) \subseteq r.met
  BY DEF taskDependenciesMet
<1>5. /\ r1.met = r.met /\ r1.open = r.open /\ ~r1.blocked /\ r1.waiting = waiting
      /\ r1.tasksCount = r.tasksCount
  <2> HIDE DEF r, waiting, count
  <2> QED BY <1>3 DEF GroupRec
<1>6. group'[g] = r1 /\ \A h \in Group \ {g} : group'[h] = group[h]
  <2> HIDE DEF r1
  <2> QED BY <1>2, <1>3
<1>7. /\ \A d \in Dep : waiting[d] \subseteq r.waiting[d] \cup (blockedTasks \ rel)
      /\ \A u \in blockedTasks : \A e, f \in Dep :
            u \notin r.waiting[e] /\ u \notin r.waiting[f]
            /\ u \in waiting[e] /\ u \in waiting[f] => e = f
  <2> HIDE DEF r, blockedTasks, rel, listOf
  <2> QED OBVIOUS
<1> HIDE DEF r1, waiting, rel, blockedTasks
<1>8. \A u \in Task : /\ task'[u].group = task[u].group /\ task'[u].inputs = task[u].inputs
                     /\ task'[u].completed = task[u].completed /\ task'[u].total = task[u].total
                     /\ task'[u].state = IF u \in rel THEN "Ready"
                                        ELSE IF u \in blockedTasks THEN "Waiting" ELSE task[u].state
  <2> SUFFICES ASSUME NEW u \in Task
               PROVE  /\ task'[u].group = task[u].group /\ task'[u].inputs = task[u].inputs
                      /\ task'[u].completed = task[u].completed /\ task'[u].total = task[u].total
                      /\ task'[u].state = IF u \in rel THEN "Ready"
                                         ELSE IF u \in blockedTasks THEN "Waiting" ELSE task[u].state
    OBVIOUS
  <2>1. CASE u \notin blockedTasks
    BY <1>2, <1>3, <2>1
  <2>2. CASE u \in blockedTasks
    <3> DEFINE new == IF u \in rel THEN "Ready" ELSE "Waiting"
    <3>1. task[u] \in TaskRec /\ task'[u] = [task[u] EXCEPT !.state = new]
      BY <1>2, <1>3, <2>2
    <3> HIDE DEF new
    <3>2. /\ task'[u].state = new /\ task'[u].group = task[u].group
          /\ task'[u].inputs = task[u].inputs
          /\ task'[u].completed = task[u].completed /\ task'[u].total = task[u].total
      BY <3>1 DEF TaskRec
    <3> QED BY <2>2, <3>2 DEF new
  <2> QED BY <2>1, <2>2
<1>9. PoolOK(task', group')
  <2>1. UnblockStep(task, task', group, group', g, rel)
    BY <1>2, <1>3, <1>4, <1>5, <1>6, <1>7, <1>8 DEF UnblockStep, blockedTasks
  <2> QED BY <1>1, <2>1, StateKinds, UnblockPool
<1>10. PartsOK(task', ready', pc', part')
  <2>1. PICK s \in SetToSeqs(NewParts(rel, Total)) : ready' = ready \o s
    BY <1>2 DEF readyTasks, NewParts
  <2>2. Total \in [Task -> Nat] /\ (\A u \in Task : Total[u] = task[u].total) /\ rel \in SUBSET Task
    BY <1>3, StateKinds, TaskFields DEF Total
  <2>3. FreshOK(task')
    BY <1>1, <1>2, <1>3, <1>8 DEF PartsOK, FreshOK
  <2>4. \A u \in rel : task[u].state = "Blocked" /\ task[u].completed = 0
    BY <1>1, <1>2, <1>3 DEF PartsOK, FreshOK
  <2>5. \A u \in blockedTasks : task[u].state \notin Begun /\ (u \notin rel => task'[u].state \notin Begun)
    BY <1>2, <1>3, <1>8 DEF Begun
  <2>6. StartStep(task, task', rel, Total) /\ SameHands(pc, pc')
    BY ZenonT(60), <1>2, <1>3, <1>8, <2>2, <2>4, <2>5 DEF StartStep, SameHands
  <2>7. PartsOK(task', ready \o s, pc', part)
    BY <1>1, <1>3, <2>2, <2>3, <2>6, StartParts
  <2> QED BY <1>2, <2>1, <2>7
<1> QED BY <1>9, <1>10 DEF Core

(* The calls that add a task: to a group, alone, or in place of a parent. *)
LEMMA AddsKeep ==
    ASSUME TypeInv, TypeInv', Core, NEW a \in Actor, NEW g, NEW t \in Task,
           NEW shape \in Shapes,
           (g \in Group /\ GroupAdd(a, g, t, shape)) \/ PoolAdd(a, t, shape) \/ AddSlicedDeferred(a, t, shape)
    PROVE  Core'
<1>1. /\ shape \in [inputs : Seq(Dep), total : Nat, finisher : BOOLEAN]
      /\ task \in [Task -> TaskRec] /\ SameBlocks(task)
  BY BoundsAssumption DEF TypeInv, TypeOK, SameBlocks
<1>2. CASE g \in Group /\ GroupAdd(a, g, t, shape)
  BY <1>2, <1>1, AddKeeps DEF GroupAdd, clientFrame, SameHands
<1>3. CASE PoolAdd(a, t, shape)
  BY <1>3, <1>1, AddKeeps DEF PoolAdd, clientFrame, SameHands
<1>4. CASE AddSlicedDeferred(a, t, shape)
  <2> DEFINE p == part[a].task
             tk == [task EXCEPT ![p] = [task[p] EXCEPT !.output = NoDep]]
             shape2 == [shape EXCEPT !.inputs = task[p].inputs]
  <2>1. a \in Worker /\ pc[a] \in Working /\ pc' = [pc EXCEPT ![a] = "returning"] /\ part' = part
    BY <1>4 DEF AddSlicedDeferred, MayCall, Working
  <2>2. p \in Task /\ task[p].state \in Begun /\ task[p] \in TaskRec
    BY <2>1, Kinds, <1>1 DEF Core, KindsOK, PartsOK, HandsOK, Part, PieceOK
  <2>3. addTask(tk, t, task[p].group, shape2, task[p].output, TRUE) /\ task[p].group # NoGroup
    BY <1>4 DEF AddSlicedDeferred
  <2>4. SameHands(pc, pc')
    BY <2>1 DEF SameHands, Working, TypeInv, TypeOK
  <2>5. task[p].group \in Group /\ group[task[p].group].open
    BY <2>2, <2>3, TaskFields DEF Core, PoolOK, GroupsOK, Begun
  <2>6. shape2 \in [inputs : Seq(Dep), total : Nat, finisher : BOOLEAN]
    BY <1>1, <2>2, TaskFields
  <2>7. tk \in [Task -> TaskRec] /\ SameBlocks(tk)
    <3>1. [task[p] EXCEPT !.output = NoDep] \in TaskRec
      BY <2>2, TaskFlags
    <3> HIDE DEF p
    <3> QED BY <1>1, <2>2, <3>1 DEF SameBlocks, TaskRec
  <2> HIDE DEF tk, shape2, p
  <2> QED BY <2>1, <2>3, <2>4, <2>5, <2>6, <2>7, AddKeeps
<1> QED BY <1>2, <1>3, <1>4

(* What a call is about to do, or has done, with the pool itself. *)
LEMMA EndingCall ==
    ASSUME TypeInv, EndingOK, NEW a \in Actor, NEW v, v.op # "join",
           call[a].op = "destroyed" => v.op = "destroyed",
           call' = [call EXCEPT ![a] = v]
    PROVE  EndingOK'
BY DEF TypeInv, TypeOK, Actor, EndingOK

LEMMA EndingKept ==
    ASSUME TypeInv, EndingOK, [Next]_vars
    PROVE  EndingOK'
<1>1. CASE UNCHANGED call
  BY <1>1 DEF EndingOK
<1>2. ASSUME NEW a \in Actor, NEW v, call[a] = Idle, v.op # "join", call' = [call EXCEPT ![a] = v]
      PROVE  EndingOK'
  <2>1. call[a].op # "destroyed"
    BY <1>2 DEF Idle
  <2> QED BY <1>2, <2>1, EndingCall
<1>3. ASSUME NEW w \in Worker, WorkerStep(w) PROVE UNCHANGED call
  BY <1>3 DEF WorkerStep, WorkerExit, WorkerSleep, WorkerRun, WorkerPartDone, WorkerCompletion,
              WorkerFinish, finishTask, Hang
<1>4. ASSUME NEW a \in Actor, CallStep(a) PROVE EndingOK'
  <2>1. CASE NoWait(a)
    BY <2>1, EndingCall DEF NoWait, Idle
  <2>2. CASE WaitSleep(a)
    BY <1>1, <2>2 DEF WaitSleep
  <2>3. CASE WaitReturn(a)
    <3>1. call[a].op # "destroyed"
      BY <2>3 DEF WaitReturn, Waiting, Waits
    <3> QED BY <2>3, <3>1, EndingCall DEF WaitReturn, Idle
  <2>4. CASE PoolJoin(a)
    <3> DEFINE v == [op |-> "destroyed"]
    <3>1. v.op = "destroyed" /\ call' = [call EXCEPT ![a] = v]
      BY <2>4 DEF PoolJoin
    <3> HIDE DEF v
    <3> QED BY <3>1, EndingCall
  <2> QED BY <1>4, <2>1, <2>2, <2>3, <2>4 DEF CallStep
<1>5. ASSUME NEW a \in Actor, NEW g \in Group, NEW d \in Dep, DependencyMet(a, g, d)
      PROVE  UNCHANGED call
  BY <1>5 DEF DependencyMet, Hang
<1>6. ASSUME NEW a \in Actor, NEW t \in Task, NEW shape \in Shapes,
             AddSlicedDeferred(a, t, shape)
      PROVE  EndingOK'
  <2> DEFINE v == [op |-> "noWait", task |-> t]
  <2>1. v.op # "join" /\ call[a] = Idle /\ call' = [call EXCEPT ![a] = v]
    BY <1>6 DEF AddSlicedDeferred, MayCall
  <2> HIDE DEF v
  <2> QED BY <1>2, <2>1
<1>7. ASSUME NEW c \in Client, NEW g \in Group,
             \/ GroupInitialize(c, g) \/ GroupDestroy(c, g)
             \/ DependencyAdd(c, g) \/ DependencyAddMet(c, g)
             \/ GroupBlock(c, g) \/ GroupUnblock(c, g)
      PROVE  UNCHANGED call
  BY <1>7 DEF GroupInitialize, GroupDestroy, DependencyAdd, DependencyAddMet, GroupBlock, GroupUnblock
<1>8. ASSUME NEW c \in Client, NEW g \in Group, NEW t \in Task, NEW shape \in Shapes,
             GroupAdd(c, g, t, shape)
      PROVE  EndingOK'
  <2> DEFINE v == [op |-> "noWait", task |-> t]
  <2>1. c \in Actor /\ v.op # "join" /\ call[c] = Idle /\ call' = [call EXCEPT ![c] = v]
    BY <1>8 DEF GroupAdd, MayCall, Actor
  <2> HIDE DEF v
  <2> QED BY <1>2, <2>1
<1>9. ASSUME NEW c \in Client, NEW t \in Task, NEW shape \in Shapes, PoolAdd(c, t, shape)
      PROVE  UNCHANGED call
  BY <1>9 DEF PoolAdd
<1>10. ASSUME NEW c \in Client, NEW t \in Task, PoolNoWait(c, t)
       PROVE  EndingOK'
  <2> DEFINE v == [op |-> "noWait", task |-> t]
  <2>1. c \in Actor /\ v.op # "join" /\ call[c] = Idle /\ call' = [call EXCEPT ![c] = v]
    BY <1>10 DEF PoolNoWait, MayCall, Actor
  <2> HIDE DEF v
  <2> QED BY <1>2, <2>1
<1>11. ASSUME NEW c \in Client, NEW wait \in Waits, WaitStart(c, wait)
       PROVE  EndingOK'
  BY <1>11, <1>2 DEF WaitStart, MayCall, Actor, Waits
<1>12. ASSUME NEW c \in Client, PoolDestroy(c)
       PROVE  EndingOK'
  BY <1>12 DEF PoolDestroy, Actor, EndingOK
<1>13. CASE Destroyed \/ UNCHANGED vars
  BY <1>1, <1>13 DEF Destroyed, vars
<1>14. Worker \subseteq Actor
  BY DEF Actor
<1> QED BY <1>1, <1>3, <1>4, <1>5, <1>6, <1>7, <1>8, <1>9, <1>10, <1>11, <1>12, <1>13, <1>14 DEF Next

(* Once the pool is freed no thread does anything that matters. *)
LEMMA FreedKept ==
    ASSUME TypeInv, Freed, [Next]_vars
    PROVE  /\ Freed' /\ hung' = hung
           /\ \/ UNCHANGED <<task, group>>
              \/ \E a \in Actor : NoWait(a) /\ task[call[a].task].state # "Done"
<1>1. \A c \in Client : c \in Actor /\ call[c].op = "destroyed" /\ call[c] \notin Waits
  BY DEF Freed, Waits, Actor
<1>2. \A a \in Actor : ~MayCall(a)
  BY <1>1 DEF MayCall, Idle, Freed, Actor
<1>3. ASSUME NEW w \in Worker PROVE ~WorkerStep(w)
  BY DEF Freed, WorkerStep, WorkerExit, WorkerSleep, WorkerRun, WorkerPartDone, WorkerCompletion,
         WorkerFinish, Returned
<1>4. ASSUME NEW a \in Actor, NoWait(a) 
      PROVE  Freed' /\ hung' = hung /\ task[call[a].task].state # "Done"
  <2> DEFINE t == call[a].task
  <2>1. t \in Task
    BY <1>4 DEF NoWait, TypeInv, TypeOK, Call, Waits, Idle
  <2>2. task[t].state = "Free" /\ task \in [Task -> TaskRec] /\ call \in [Actor -> Call]
    BY <2>1 DEF Freed, TypeInv, TypeOK
  <2>3. task' = [task EXCEPT ![t] = [task[t] EXCEPT !.detached = TRUE]]
    BY <1>4, <2>2 DEF NoWait
  <2> HIDE DEF t
  <2>4. \A u \in Task : task'[u].state = "Free"
    BY <2>1, <2>2, <2>3 DEF Freed, TaskRec
  <2>5. a \notin Client
    BY <1>1, <1>4 DEF NoWait
  <2>6. call' = [call EXCEPT ![a] = Idle] /\ pc' = pc /\ hung' = hung
    BY <1>4 DEF NoWait
  <2>7. \A c \in Client : call'[c] = call[c]
    BY <1>1, <2>2, <2>5, <2>6
  <2> QED BY <2>2, <2>4, <2>6, <2>7 DEF Freed, t
<1>5. ASSUME NEW c \in Client PROVE ~WaitSleep(c) /\ ~WaitReturn(c) /\ ~PoolJoin(c)
  BY <1>1 DEF WaitSleep, WaitReturn, Waiting, PoolJoin
<1>6. CASE Destroyed \/ UNCHANGED vars
  BY <1>6 DEF Destroyed, vars, poolVars, Freed
<1>7. \A a \in Actor, g \in Group, d \in Dep : ~DependencyMet(a, g, d)
  BY <1>2 DEF DependencyMet
<1>8. \A w \in Worker, t \in Task, shape \in Shapes : ~AddSlicedDeferred(w, t, shape)
  BY <1>2 DEF AddSlicedDeferred, Actor
<1>9. ASSUME NEW c \in Client, NEW g \in Group
      PROVE  /\ ~GroupInitialize(c, g) /\ ~GroupDestroy(c, g) /\ ~DependencyAdd(c, g)
             /\ ~DependencyAddMet(c, g) /\ ~GroupBlock(c, g) /\ ~GroupUnblock(c, g)
             /\ \A t \in Task, shape \in Shapes : ~GroupAdd(c, g, t, shape)
  BY <1>1, <1>2 DEF GroupInitialize, GroupDestroy, DependencyAdd, DependencyAddMet, GroupBlock,
         GroupUnblock, GroupAdd
<1>10. ASSUME NEW c \in Client
       PROVE  /\ \A t \in Task : ~PoolNoWait(c, t) /\ \A shape \in Shapes : ~PoolAdd(c, t, shape)
              /\ \A wait \in Waits : ~WaitStart(c, wait)
              /\ ~PoolDestroy(c)
  BY <1>1, <1>2 DEF PoolNoWait, PoolAdd, WaitStart, PoolDestroy
<1> QED BY <1>3, <1>4, <1>5, <1>6, <1>7, <1>8, <1>9, <1>10 DEF Next, CallStep

(* The last step of ldcTaskPoolDestroy() frees every block. *)
LEMMA JoinFrees ==
    ASSUME TypeInv, EndingOK, NEW c \in Client, PoolJoin(c)
    PROVE  Freed'
BY DEF PoolJoin, TypeInv, TypeOK, EndingOK, Actor, FreeTask, clientFrame, Freed

LEMMA CoreKept ==
    ASSUME TypeInv, TypeInv', Core, [Next]_vars, \A c \in Client : ~PoolJoin(c)
    PROVE  Core'
<1>1. ASSUME UNCHANGED <<task, group, ready, part, pc>> PROVE Core'
  BY <1>1, NothingMoves
<1>2. ASSUME Hang PROVE Core'
  BY <1>1, <1>2 DEF Hang
<1>3. ASSUME NEW w \in Worker, WorkerStep(w) PROVE Core'
  <2>1. CASE WorkerExit(w)
    BY <2>1, NothingMoves DEF WorkerExit, TypeInv, TypeOK, Working, poolVars
  <2>2. CASE WorkerSleep(w)
    BY <1>1, <2>2 DEF WorkerSleep, poolVars
  <2>3. CASE WorkerRun(w)
    BY <2>3, RunKeeps
  <2>4. CASE WorkerPartDone(w) \/ WorkerCompletion(w)
    BY <2>4, CountKeeps
  <2>5. CASE WorkerFinish(w)
    <3> DEFINE g == task[part[w].task].group
               o == task[part[w].task].output
    <3>1. CASE g # NoGroup /\ NeverEnds(g, o)
      BY <2>5, <3>1, <1>2 DEF WorkerFinish, finishTask
    <3>2. CASE ~(g # NoGroup /\ NeverEnds(g, o))
      BY <2>5, <3>2, FinishKeeps
    <3> QED BY <3>1, <3>2
  <2> QED BY <1>3, <2>1, <2>2, <2>3, <2>4, <2>5 DEF WorkerStep
<1>4. ASSUME NEW a \in Actor, CallStep(a) PROVE Core'
  <2>1. CASE NoWait(a)
    BY <2>1, NoWaitKeeps
  <2>2. CASE a \in Client /\ WaitSleep(a)
    BY <1>1, <2>2 DEF WaitSleep, poolVars
  <2>3. CASE a \in Client /\ WaitReturn(a)
    <3>1. UNCHANGED <<ready, pc, part>>
      BY <2>3 DEF WaitReturn, clientFrame
    <3>2. CASE call[a].op = "taskWait"
      BY <2>3, <3>2, <3>1, RemoveKeeps DEF WaitReturn, Satisfied, Waiting, Waits
    <3>3. CASE call[a].op # "taskWait"
      BY <1>1, <2>3, <3>1, <3>3 DEF WaitReturn
    <3> QED BY <3>2, <3>3
  <2> QED BY <1>4, <2>1, <2>2, <2>3 DEF CallStep
<1>5. ASSUME NEW a \in Actor, NEW g \in Group, NEW d \in Dep, DependencyMet(a, g, d)
      PROVE  Core'
  BY <1>2, <1>5, DependencyMetKeeps DEF DependencyMet
<1>6. ASSUME NEW a \in Actor, NEW t \in Task, NEW shape \in Shapes, AddSlicedDeferred(a, t, shape)
      PROVE  Core'
  BY <1>6, Kinds, StateKinds, TaskFields, AddsKeep DEF AddSlicedDeferred, MayCall, Working, Part, KindsOK
<1>7. ASSUME NEW c \in Client, NEW g \in Group PROVE
             /\ GroupInitialize(c, g) \/ GroupDestroy(c, g) => Core'
             /\ DependencyAdd(c, g) \/ DependencyAddMet(c, g) \/ GroupBlock(c, g) => Core'
             /\ GroupUnblock(c, g) => Core'
  BY GroupRenewed, GroupOnly, UnblockKeeps DEF DependencyAdd, DependencyAddMet, GroupBlock, clientFrame
<1>8. ASSUME NEW c \in Client, NEW g \in Group, NEW t \in Task, NEW shape \in Shapes,
             GroupAdd(c, g, t, shape)
      PROVE  Core'
  BY <1>8, AddsKeep DEF Actor
<1>9. ASSUME NEW c \in Client, NEW t \in Task, NEW shape \in Shapes, PoolAdd(c, t, shape)
      PROVE  Core'
  BY <1>9, AddsKeep DEF Actor
<1>10. ASSUME NEW c \in Client, NEW t \in Task, PoolNoWait(c, t) PROVE Core'
  BY <1>1, <1>10 DEF PoolNoWait, poolVars, clientFrame
<1>11. ASSUME NEW c \in Client, NEW wait \in Waits, WaitStart(c, wait) PROVE Core'
  BY <1>1, <1>11 DEF WaitStart, poolVars, clientFrame
<1>12. ASSUME NEW c \in Client, PoolDestroy(c) PROVE Core'
  BY <1>1, <1>12 DEF PoolDestroy, clientFrame
<1>13. CASE Destroyed \/ UNCHANGED vars
  BY <1>1, <1>13 DEF Destroyed, vars, poolVars
<1>14. Worker \subseteq Actor
  BY DEF Actor
<1> QED BY <1>3, <1>4, <1>5, <1>6, <1>7, <1>8, <1>9, <1>10, <1>11, <1>12, <1>13, <1>14 DEF Next

LEMMA StartInit == Init => StartInv
<1> SUFFICES ASSUME Init PROVE StartInv
  OBVIOUS
<1>1. /\ \A t \in Task : task[t].state = "Free"
      /\ ready = <<>> /\ \A w \in Worker : pc[w] = "fetch"
  BY DEF Init, FreeTask
<1>2. PartsOK(task, ready, pc, part)
  BY <1>1 DEF PartsOK, QueueOK, HandsOK, LastOK, LeftOK, FreshOK, Working, Begun
<1>3. \A g \in Group : MembersOf(task, g) = {}
  BY <1>1 DEF MembersOf
<1>4. \A g \in Group : /\ \A d \in Dep : group[g].waiting[d] = {}
                      /\ ~group[g].blocked /\ group[g].tasksCount = 0
  BY DEF Init, NewGroup
<1>5. GroupsOK(task, group)
  BY <1>1, <1>3, <1>4, FS_EmptySet DEF GroupsOK
<1>6. PoolOK(task, group)
  BY <1>1, <1>4, <1>5 DEF PoolOK, ListsOK, BlockedOK, InputsOK
<1>7. EndingOK
  BY DEF EndingOK, Init, Idle, Actor
<1> QED BY <1>2, <1>6, <1>7 DEF StartInv, Core

LEMMA StartKept ==
    ASSUME TypeInv, TypeInv', StartInv, [Next]_vars
    PROVE  StartInv'
BY FreedKept, JoinFrees, CoreKept, EndingKept DEF StartInv

(* Every part that is queued or in a worker's hands is of a started task    *)
(* and apart from the others, and the lists and counts of the groups name  *)
(* the tasks that are in them, until the pool is freed.                    *)
THEOREM StartInvariant == Spec => []StartInv
<1>1. Init => StartInv
  BY StartInit
<1>2. TypeInv /\ TypeInv' /\ StartInv /\ [Next]_vars => StartInv'
  BY StartKept
<1> QED BY <1>1, <1>2, TypeInvariant, PTL DEF Spec

(* No task is queued, run or done before each of its inputs is met, whatever *)
(* the number of threads, tasks, groups and dependencies: the code of       *)
(* addTask(), scheduleTask(), dependencyMet() and ldcTaskGroupUnblock(), and *)
(* the counting of iterations in runTask(), let no stale reference start a  *)
(* task that still waits.                                                  *)
THEOREM StartsAreMet == Spec => []StartedInputsMet
<1>1. StartInv => StartedInputsMet
  BY DEF StartInv, Freed, Core, PoolOK, InputsOK, StartedInputsMet
<1> QED BY <1>1, StartInvariant, PTL

-----------------------------------------------------------------------------
(* The workers at a task are counted in its block. *)

AtWorkOf(p, pt, t) == {w \in Worker : p[w] \in Working /\ pt[w].task = t}
ActiveOK(tk, p, pt) ==
    \A t \in Task :
        /\ tk[t].state \in Begun => tk[t].active = Cardinality(AtWorkOf(p, pt, t))
        /\ tk[t].state \in {"Waiting", "Blocked"} => tk[t].active = 0

(* A block that is in use after a step: it was taken by the step, or it     *)
(* went on and kept its count.                                             *)
Carried(r, r1) ==
    r1.state \notin {"Free", "Done"} =>
        \/ r.state = "Free" /\ r1.active = 0
        \/ r.state \in Begun /\ r1.state \in Begun /\ r1.active = r.active
        \/ r.state \in {"Waiting", "Blocked"} /\ r1.active = r.active

LEMMA ActiveCarried ==
    ASSUME NEW tk, NEW tk1 \in [Task -> TaskRec], NEW rd, NEW p, NEW p1, NEW pt, NEW pt1,
           KindsOK(tk, rd, p, pt), HandsOK(tk, rd, p, pt), ActiveOK(tk, p, pt),
           \A t \in Task : Carried(tk[t], tk1[t]),
           \A t \in Task : tk1[t].state \notin {"Free", "Done"}
                              => AtWorkOf(p1, pt1, t) = AtWorkOf(p, pt, t)
    PROVE  ActiveOK(tk1, p1, pt1)
<1> SUFFICES ASSUME NEW t \in Task, tk1[t].state \notin {"Free", "Done"}
             PROVE  /\ tk1[t].state \in Begun => tk1[t].active = Cardinality(AtWorkOf(p, pt, t))
                    /\ tk1[t].state \in {"Waiting", "Blocked"} => tk1[t].active = 0
  BY DEF ActiveOK, Begun
<1>1. tk[t].state \notin Begun => AtWorkOf(p, pt, t) = {}
  BY DEF AtWorkOf, HandsOK, PieceOK
<1>2. CASE tk[t].state \in Begun
  BY <1>2 DEF Carried, ActiveOK, Begun
<1>3. CASE tk[t].state \notin Begun
  BY <1>1, <1>3, FS_EmptySet DEF Carried, ActiveOK
<1> QED BY <1>2, <1>3

(* A worker takes a part, or counts one and leaves. *)
LEMMA ActiveMoved ==
    ASSUME NEW tk, NEW tk1, NEW p, NEW p1, NEW pt, NEW pt1, NEW w \in Worker, NEW t \in Task,
           ActiveOK(tk, p, pt), tk[t].state \in Begun, tk1[t].state \in Begun,
           \A u \in Task \ {t} : tk1[u] = tk[u],
           \A v \in Worker \ {w} : p1[v] = p[v] /\ pt1[v] = pt[v],
           \/ p[w] \notin Working /\ p1[w] \in Working /\ pt1[w].task = t
                 /\ tk1[t].active = tk[t].active + 1
           \/ p[w] \in Working /\ pt[w].task = t /\ p1[w] \notin Working
                 /\ tk1[t].active = tk[t].active - 1
    PROVE  ActiveOK(tk1, p1, pt1)
<1>1. \A u \in Task : IsFiniteSet(AtWorkOf(p, pt, u))
  BY SetsAssumption, FS_Subset DEF AtWorkOf
<1>2. \A u \in Task \ {t} : AtWorkOf(p1, pt1, u) = AtWorkOf(p, pt, u)
  BY DEF AtWorkOf
<1>3. tk1[t].active = Cardinality(AtWorkOf(p1, pt1, t))
  <2>1. CASE p[w] \notin Working /\ p1[w] \in Working /\ pt1[w].task = t
                 /\ tk1[t].active = tk[t].active + 1
    <3>1. w \notin AtWorkOf(p, pt, t) /\ AtWorkOf(p1, pt1, t) = AtWorkOf(p, pt, t) \cup {w}
      BY <2>1 DEF AtWorkOf
    <3>2. Cardinality(AtWorkOf(p1, pt1, t)) = Cardinality(AtWorkOf(p, pt, t)) + 1
      BY <1>1, <3>1, FS_AddElement
    <3> QED BY <2>1, <3>2 DEF ActiveOK
  <2>2. CASE p[w] \in Working /\ pt[w].task = t /\ p1[w] \notin Working
                 /\ tk1[t].active = tk[t].active - 1
    <3>1. w \in AtWorkOf(p, pt, t) /\ AtWorkOf(p1, pt1, t) = AtWorkOf(p, pt, t) \ {w}
      BY <2>2 DEF AtWorkOf
    <3>2. Cardinality(AtWorkOf(p1, pt1, t)) = Cardinality(AtWorkOf(p, pt, t)) - 1
      BY <1>1, <3>1, FS_RemoveElement
    <3> QED BY <2>2, <3>2 DEF ActiveOK
  <2> QED BY <2>1, <2>2
<1>4. \A u \in Task \ {t} : /\ tk1[u].state \in Begun => tk1[u].active = Cardinality(AtWorkOf(p1, pt1, u))
                            /\ tk1[u].state \in {"Waiting", "Blocked"} => tk1[u].active = 0
  BY <1>2 DEF ActiveOK
<1>5. tk1[t].state \notin {"Waiting", "Blocked"}
  BY DEF Begun
<1> QED BY <1>3, <1>4, <1>5 DEF ActiveOK

LEMMA ActiveRun ==
    ASSUME TypeInv, Core, ActiveOK(task, pc, part), NEW w \in Worker,
           WorkerRun(w) \/ WorkerPartDone(w) \/ WorkerCompletion(w)
    PROVE  ActiveOK(task', pc', part')
<1>1. KindsOK(task, ready, pc, part) /\ PartsOK(task, ready, pc, part)
  BY Kinds DEF Core
<1>2. CASE WorkerRun(w)
  <2> DEFINE t == Head(ready).task
             n == task[t].active + 1
  <2>1. ready \in Seq(Part) /\ ready # <<>> /\ 1 \in DOMAIN ready /\ Head(ready) = ready[1]
    BY <1>2 DEF WorkerRun, TypeInv, TypeOK
  <2>2. t \in Task /\ task[t].state \in Begun
    <3>1. ready[1] \in Part /\ PieceOK(task, ready[1])
      BY <1>1, <2>1 DEF PartsOK, QueueOK
    <3> QED BY <2>1, <3>1 DEF Part, PieceOK
  <2>3. task' = [task EXCEPT ![t] = [task[t] EXCEPT !.state = "Running", !.active = n]]
    BY <1>2 DEF WorkerRun
  <2>4. task \in [Task -> TaskRec] /\ task[t] \in TaskRec
    BY <2>2 DEF TypeInv, TypeOK
  <2>5. /\ pc[w] = "fetch" /\ pc'[w] = "function" /\ part'[w].task = t
        /\ \A v \in Worker \ {w} : pc'[v] = pc[v] /\ part'[v] = part[v]
    BY <1>2 DEF WorkerRun, TypeInv, TypeOK
  <2>6. n = task[t].active + 1
    OBVIOUS
  <2> HIDE DEF t, n
  <2>7. /\ task'[t] = [task[t] EXCEPT !.state = "Running", !.active = n]
        /\ \A u \in Task \ {t} : task'[u] = task[u]
    BY <2>2, <2>3, <2>4
  <2>8. task'[t].state = "Running" /\ task'[t].active = n
    BY <2>4, <2>7 DEF TaskRec
  <2>9. task'[t].state \in Begun /\ pc[w] \notin Working /\ pc'[w] \in Working
    BY <2>5, <2>8 DEF Begun, Working
  <2>10. task'[t].active = task[t].active + 1
    BY <2>6, <2>8
  <2>11. \A u \in Task \ {t} : task'[u] = task[u]
    BY <2>7
  <2>12. \/ pc[w] \notin Working /\ pc'[w] \in Working /\ part'[w].task = t
               /\ task'[t].active = task[t].active + 1
         \/ pc[w] \in Working /\ part[w].task = t /\ pc'[w] \notin Working
               /\ task'[t].active = task[t].active - 1
    BY <2>5, <2>9, <2>10
  <2>13. ActiveOK(task, pc, part) /\ \A v \in Worker \ {w} : pc'[v] = pc[v] /\ part'[v] = part[v]
    BY <2>5
  <2> QED BY ONLY <2>2, <2>9, <2>11, <2>12, <2>13, ActiveMoved
<1>3. CASE WorkerPartDone(w) \/ WorkerCompletion(w)
  <2> DEFINE t == part[w].task
             n == CompletedBy(w)
             a == task[t].active - 1
             state == IF task[t].active = 1 THEN "Ready" ELSE task[t].state
  <2>1. pc[w] \in Working
    BY <1>3 DEF WorkerPartDone, WorkerCompletion, Returned, Working
  <2>2. t \in Task /\ task[t].state \in Begun /\ state \in Begun
    BY <1>1, <2>1 DEF KindsOK, PartsOK, HandsOK, Part, PieceOK, Begun
  <2>3. task' = [task EXCEPT ![t] = [task[t] EXCEPT !.active = a, !.completed = n, !.state = state]]
    BY <1>3 DEF WorkerPartDone, WorkerCompletion, PartRecorded
  <2>4. task \in [Task -> TaskRec] /\ task[t] \in TaskRec
    BY <2>2 DEF TypeInv, TypeOK
  <2>5. /\ pc'[w] \in {"fetch", "completion"}
        /\ \A v \in Worker \ {w} : pc'[v] = pc[v] /\ part'[v] = part[v]
    BY <1>3 DEF WorkerPartDone, WorkerCompletion, TypeInv, TypeOK
  <2>6. a = task[t].active - 1 /\ part[w].task = t
    OBVIOUS
  <2> HIDE DEF t, n, a, state
  <2>7. /\ task'[t] = [task[t] EXCEPT !.active = a, !.completed = n, !.state = state]
        /\ \A u \in Task \ {t} : task'[u] = task[u]
    BY <2>2, <2>3, <2>4
  <2>8. task'[t].state = state /\ task'[t].active = a
    BY <2>4, <2>7 DEF TaskRec
  <2>9. task'[t].state \in Begun /\ pc'[w] \notin Working
    BY <2>2, <2>5, <2>8 DEF Working
  <2>10. task'[t].active = task[t].active - 1
    BY <2>6, <2>8
  <2>11. \A u \in Task \ {t} : task'[u] = task[u]
    BY <2>7
  <2>12. \/ pc[w] \notin Working /\ pc'[w] \in Working /\ part'[w].task = t
               /\ task'[t].active = task[t].active + 1
         \/ pc[w] \in Working /\ part[w].task = t /\ pc'[w] \notin Working
               /\ task'[t].active = task[t].active - 1
    BY <2>1, <2>6, <2>9, <2>10
  <2>13. ActiveOK(task, pc, part) /\ \A v \in Worker \ {w} : pc'[v] = pc[v] /\ part'[v] = part[v]
    BY <2>5
  <2>14. /\ w \in Worker /\ t \in Task
         /\ task[t].state \in Begun /\ task'[t].state \in Begun
    BY <2>2, <2>9
  <2> QED BY ONLY <2>14, <2>11, <2>12, <2>13, ActiveMoved
<1> QED BY <1>2, <1>3

LEMMA ActiveKept ==
    ASSUME TypeInv, TypeInv', Core, ActiveOK(task, pc, part),
           \A t \in Task : Carried(task[t], task'[t]),
           \A w \in Worker : pc'[w] \in Working <=> pc[w] \in Working,
           \A w \in Worker : pc[w] \in Working => part'[w] = part[w]
    PROVE  ActiveOK(task', pc', part')
<1>1. KindsOK(task, ready, pc, part) /\ HandsOK(task, ready, pc, part) /\ task' \in [Task -> TaskRec]
  BY Kinds DEF Core, PartsOK, TypeInv, TypeOK
<1>2. \A t \in Task : AtWorkOf(pc', part', t) = AtWorkOf(pc, part, t)
  BY DEF AtWorkOf
<1> QED BY <1>1, <1>2, ActiveCarried

LEMMA SameCarried ==
    ASSUME TypeInv, NEW t \in Task, NEW r, r.state = task[t].state, r.active = task[t].active
    PROVE  Carried(task[t], r)
BY TaskFields DEF TypeInv, TypeOK, Carried, Begun

(* A waiting or blocked task becomes ready, or waits. *)
LEMMA MovedCarried ==
    ASSUME TypeInv, NEW t \in Task, task[t].state \in {"Waiting", "Blocked"}, NEW state
    PROVE  Carried(task[t], [task[t] EXCEPT !.state = state])
BY DEF TypeInv, TypeOK, TaskRec, Carried

LEMMA ActiveRemoved ==
    ASSUME TypeInv, NEW t \in Task, removeTask(t)
    PROVE  \A u \in Task : Carried(task[u], task'[u])
BY SameCarried DEF removeTask, TypeInv, TypeOK, Carried, FreeTask

LEMMA ActiveFinish ==
    ASSUME TypeInv, TypeInv', Core, ActiveOK(task, pc, part), NEW w \in Worker, WorkerFinish(w)
    PROVE  ActiveOK(task', pc', part')
<1> DEFINE t == part[w].task
           g == task[t].group
           o == task[t].output
           rel == IF g = NoGroup THEN {} ELSE Released(g, o)
           ended == IF task[t].detached THEN FreeTask
                    ELSE [task[t] EXCEPT !.state = "Done", !.active = 0, !.completed = task[t].total]
<1>1. /\ KindsOK(task, ready, pc, part) /\ HandsOK(task, ready, pc, part)
      /\ LastOK(task, pc, part) /\ ListsOK(task, group) /\ task' \in [Task -> TaskRec]
  BY Kinds DEF Core, PartsOK, PoolOK, TypeInv, TypeOK
<1>2. CASE g # NoGroup /\ NeverEnds(g, o)
  BY <1>2 DEF WorkerFinish, finishTask, Hang
<1>3. CASE ~(g # NoGroup /\ NeverEnds(g, o))
  <2>1. pc[w] = "completion" \/ pc[w] \in Working
    BY DEF WorkerFinish, Returned, Working
  <2>2. t \in Task
    BY <1>1, <2>1 DEF KindsOK, Part
  <2>3. g \in Group \cup {NoGroup} /\ o \in Dep \cup {NoDep}
    BY <2>2, StateKinds, TaskFields
  <2>4. \A u \in rel : u \in Task /\ task[u].state = "Waiting"
    <3> SUFFICES ASSUME NEW u \in rel PROVE u \in Task /\ task[u].state = "Waiting"
      OBVIOUS
    <3>1. g \in Group /\ u \in Released(g, o)
      BY <2>3
    <3> HIDE DEF g, o
    <3>2. o \in Dep /\ u \in group[g].waiting[o]
      BY <2>3, <3>1 DEF Released
    <3>3. u \in Task
      BY <3>1, <3>2, StateKinds
    <3> QED BY <1>1, <3>1, <3>2, <3>3 DEF ListsOK
  <2>5. task' = [u \in Task |-> IF u = t THEN ended
                               ELSE IF u \in rel THEN [task[u] EXCEPT !.state = "Ready"]
                               ELSE task[u]]
    BY <1>3 DEF WorkerFinish, finishTask
  <2>6. ended.state \in {"Free", "Done"}
    <3>1. task[t] \in TaskRec
      BY <2>2 DEF TypeInv, TypeOK
    <3> HIDE DEF t
    <3> QED BY <3>1 DEF FreeTask, TaskRec
  <2>7. /\ pc'[w] = "fetch" /\ \A v \in Worker \ {w} : pc'[v] = pc[v] /\ part'[v] = part[v]
    BY <1>3 DEF WorkerFinish, finishTask, TypeInv, TypeOK
  <2>8. \A u \in Task \ {t} : AtWorkOf(pc', part', u) = AtWorkOf(pc, part, u)
    BY <2>7 DEF AtWorkOf, Working
  <2> HIDE DEF rel, ended, t
  <2>9. task'[t].state \in {"Free", "Done"}
    BY <2>2, <2>5, <2>6
  <2>10. ASSUME NEW u \in Task PROVE Carried(task[u], task'[u])
    BY <2>9, <2>5, <2>4, MovedCarried, SameCarried DEF Carried
  <2> QED BY <1>1, <2>8, <2>9, <2>10, ActiveCarried
<1> QED BY <1>2, <1>3

(* What addTask() leaves of the blocks. *)
LEMMA AddCarried ==
    ASSUME TypeInv, NEW tk \in [Task -> TaskRec], NEW t \in Task, NEW g, NEW shape, NEW output,
           NEW sliced, addTask(tk, t, g, shape, output, sliced),
           \A u \in Task : tk[u].state = task[u].state /\ tk[u].active = task[u].active
    PROVE  \A u \in Task : Carried(task[u], task'[u])
BY SameCarried DEF addTask, NewTask, Carried

LEMMA ActiveStep ==
    ASSUME TypeInv, TypeInv', Core, ActiveOK(task, pc, part), [Next]_vars
    PROVE  ActiveOK(task', pc', part')
<1>1. ASSUME UNCHANGED <<task, part>>,
             \A w \in Worker : pc'[w] \in Working <=> pc[w] \in Working
      PROVE  ActiveOK(task', pc', part')
  BY <1>1, SameCarried, ActiveKept
<1>2. ASSUME UNCHANGED <<task, part, pc>> PROVE ActiveOK(task', pc', part')
  BY <1>1, <1>2
<1>3. ASSUME UNCHANGED <<part, pc>>, \A t \in Task : Carried(task[t], task'[t])
      PROVE  ActiveOK(task', pc', part')
  BY <1>3, ActiveKept
<1>4. ASSUME NEW w \in Worker, WorkerStep(w) PROVE ActiveOK(task', pc', part')
  BY <1>1, <1>2, ActiveRun, ActiveFinish, <1>4 DEF WorkerExit, TypeInv, TypeOK, poolVars, Working,
     WorkerSleep, WorkerStep
<1>5. ASSUME NEW a \in Actor, CallStep(a) PROVE ActiveOK(task', pc', part')
  <2>1. CASE NoWait(a)
    <3> DEFINE t == call[a].task
    <3>1. t \in Task /\ UNCHANGED <<pc, part>>
      BY <2>1 DEF NoWait, TypeInv, TypeOK, Call, Waits, Idle
    <3>2. CASE task[t].state = "Done"
      BY <1>3, <2>1, <3>1, <3>2, ActiveRemoved DEF NoWait
    <3>3. CASE task[t].state # "Done"
      <4>1. task' = [task EXCEPT ![t] = [task[t] EXCEPT !.detached = TRUE]]
        BY <2>1, <3>3 DEF NoWait
      <4>2. task \in [Task -> TaskRec]
        BY DEF TypeInv, TypeOK
      <4> HIDE DEF t
      <4>3. \A u \in Task : task'[u].state = task[u].state /\ task'[u].active = task[u].active
        BY <3>1, <4>1, <4>2 DEF TaskRec
      <4> QED BY <1>3, <3>1, <4>3, SameCarried
    <3> QED BY <3>2, <3>3
  <2>2. CASE a \in Client /\ WaitSleep(a)
    BY <1>2, <2>2 DEF WaitSleep, poolVars
  <2>3. CASE a \in Client /\ WaitReturn(a)
    BY <2>3, <1>3, ActiveRemoved, <1>2 DEF WaitReturn, clientFrame, Waiting, Waits
  <2>4. CASE a \in Client /\ PoolJoin(a)
    BY <2>4, <1>3 DEF PoolJoin, clientFrame, Carried, FreeTask
  <2> QED BY <1>5, <2>1, <2>2, <2>3, <2>4 DEF CallStep
<1>6. ASSUME NEW a \in Actor, NEW g \in Group, NEW d \in Dep, DependencyMet(a, g, d)
      PROVE  ActiveOK(task', pc', part')
  <2>1. CASE NeverEnds(g, d)
    BY <1>2, <1>6, <2>1 DEF DependencyMet, Hang
  <2>2. CASE ~NeverEnds(g, d)
    <3>1. UNCHANGED <<pc, part>>
          /\ task' = [u \in Task |-> IF u \in Released(g, d)
                                     THEN [task[u] EXCEPT !.state = "Ready"] ELSE task[u]]
      BY <1>6, <2>2 DEF DependencyMet
    <3>2. \A u \in Released(g, d) : task[u].state = "Waiting"
      BY DEF Released, Core, PoolOK, ListsOK
    <3>3. ASSUME NEW u \in Task PROVE Carried(task[u], task'[u])
      BY <3>1, <3>2, MovedCarried, SameCarried
    <3> QED BY <1>3, <3>1, <3>3
  <2> QED BY <2>1, <2>2
<1>7. ASSUME NEW a \in Worker, NEW t \in Task, NEW shape \in Shapes, AddSlicedDeferred(a, t, shape)
      PROVE  ActiveOK(task', pc', part')
  <2> DEFINE p == part[a].task
             tk == [task EXCEPT ![p] = [task[p] EXCEPT !.output = NoDep]]
             shape2 == [shape EXCEPT !.inputs = task[p].inputs]
  <2>1. /\ addTask(tk, t, task[p].group, shape2, task[p].output, TRUE)
        /\ pc[a] = "function" /\ pc' = [pc EXCEPT ![a] = "returning"] /\ part' = part
    BY <1>7 DEF AddSlicedDeferred, MayCall
  <2>2. p \in Task /\ task \in [Task -> TaskRec] /\ task[p] \in TaskRec
    BY <2>1, Kinds DEF KindsOK, Part, Working
  <2>3. [task[p] EXCEPT !.output = NoDep] \in TaskRec
    BY <2>2, TaskFlags
  <2>4. /\ tk \in [Task -> TaskRec]
        /\ \A u \in Task : tk[u].state = task[u].state /\ tk[u].active = task[u].active
    <3> HIDE DEF p
    <3> QED BY <2>2, <2>3 DEF TaskRec
  <2> HIDE DEF tk, shape2
  <2>5. \A u \in Task : Carried(task[u], task'[u])
    BY <2>1, <2>4, AddCarried
  <2>6. \A w \in Worker : pc'[w] \in Working <=> pc[w] \in Working
    BY <2>1 DEF Working, TypeInv, TypeOK
  <2> QED BY <2>1, <2>5, <2>6, ActiveKept
<1>8. ASSUME NEW c \in Client, NEW g \in Group, NEW t \in Task, NEW shape \in Shapes,
             GroupAdd(c, g, t, shape)
      PROVE  ActiveOK(task', pc', part')
  BY <1>8, AddCarried, <1>3 DEF GroupAdd, clientFrame, TypeInv, TypeOK
<1>9. ASSUME NEW c \in Client, NEW g \in Group, GroupUnblock(c, g) PROVE ActiveOK(task', pc', part')
  <2> DEFINE list == group[g].blockedTasks
             rel == {t \in list : taskDependenciesMet(task[t].inputs, group[g].met)}
             next(t) == IF t \in rel THEN "Ready" ELSE "Waiting"
  <2>1. /\ UNCHANGED <<pc, part>> /\ \A t \in list : task[t].state = "Blocked"
        /\ task' = [t \in Task |-> IF t \in list THEN [task[t] EXCEPT !.state = next(t)] ELSE task[t]]
    BY <1>9 DEF GroupUnblock, clientFrame
  <2> HIDE DEF list, next
  <2>2. ASSUME NEW u \in Task PROVE Carried(task[u], task'[u])
    BY <2>1, MovedCarried, SameCarried
  <2> QED BY <1>3, <2>1, <2>2
<1>10. ASSUME NEW c \in Client, NEW g \in Group,
              \/ GroupInitialize(c, g) \/ GroupDestroy(c, g) \/ DependencyAdd(c, g)
              \/ DependencyAddMet(c, g) \/ GroupBlock(c, g)
       PROVE  ActiveOK(task', pc', part')
  BY <1>2, <1>10 DEF GroupInitialize, GroupDestroy, DependencyAdd, DependencyAddMet, GroupBlock, clientFrame
<1>11. ASSUME NEW c \in Client
       PROVE  /\ \A t \in Task : PoolNoWait(c, t) => ActiveOK(task', pc', part')
              /\ \A wait \in Waits : WaitStart(c, wait) => ActiveOK(task', pc', part')
              /\ PoolDestroy(c) => ActiveOK(task', pc', part')
  BY <1>2 DEF PoolNoWait, WaitStart, PoolDestroy, poolVars, clientFrame
<1>12. CASE Destroyed \/ UNCHANGED vars
  BY <1>2, <1>12 DEF Destroyed, vars, poolVars
<1>13. ASSUME NEW c \in Client, NEW t \in Task, NEW shape \in Shapes, PoolAdd(c, t, shape)
       PROVE  ActiveOK(task', pc', part')
  BY <1>13, AddCarried, <1>3 DEF PoolAdd, clientFrame, TypeInv, TypeOK
<1> QED BY <1>4, <1>5, <1>6, <1>7, <1>8, <1>9, <1>10, <1>11, <1>12, <1>13 DEF Next

(* A block counts the workers that are inside its function. *)
ActiveInv == Freed \/ ActiveOK(task, pc, part)

(* Every task that is active has its iterations in parts of the queue, in  *)
(* the hands of workers or behind it: the invariant of IterationsNeverLost. *)
THEOREM ActiveInvariant == Spec => []ActiveInv
<1>1. Init => ActiveInv
  BY DEF ActiveInv, Init, FreeTask, ActiveOK, Begun
<1>2. TypeInv /\ TypeInv' /\ StartInv /\ ActiveInv /\ [Next]_vars => ActiveInv'
  BY FreedKept, ActiveStep DEF StartInv, ActiveInv
<1> QED BY <1>1, <1>2, TypeInvariant, StartInvariant, PTL DEF Spec

(* Every iteration of a started task is queued, run by one worker or        *)
(* counted, whatever the number of threads and iterations: the cut of       *)
(* readyTask() covers each iteration once, and runTask() counts each part  *)
(* once, so that exactly one worker finds the task complete.               *)
THEOREM IterationsNeverLost == Spec => []IterationsAccounted
<1>1. ASSUME TypeInv, StartInv, ActiveInv PROVE IterationsAccounted
  <2> SUFFICES ASSUME NEW t \in Task, task[t].state \in Begun
               PROVE  /\ task[t].active = Cardinality(AtWork(t))
                      /\ task[t].completed + Cardinality(Unrun(t)) = task[t].total
                      /\ \A i, j \in Outstanding(t) :
                            i # j => Iterations(ready[i]) \cap Iterations(ready[j]) = {}
                      /\ \A w \in AtWork(t) :
                            /\ \A v \in AtWork(t) :
                                  v # w => Iterations(part[w]) \cap Iterations(part[v]) = {}
                            /\ \A i \in Outstanding(t) :
                                  Iterations(part[w]) \cap Iterations(ready[i]) = {}
    BY DEF IterationsAccounted, Begun
  <2>1. Core /\ ActiveOK(task, pc, part)
    BY <1>1 DEF StartInv, ActiveInv, Freed, Begun
  <2>2. QueueOK(task, ready) /\ HandsOK(task, ready, pc, part) /\ LeftOK(task, ready, pc, part)
    BY <2>1 DEF Core, PartsOK
  <2>3. AtWork(t) = AtWorkOf(pc, part, t)
    BY DEF AtWork, AtWorkOf, Working
  <2>4. task[t].active = Cardinality(AtWork(t))
    BY <2>1, <2>3 DEF ActiveOK
  <2>5. Unrun(t) = Left(task, ready, pc, part, t)
    <3>1. \A i \in Outstanding(t) : ready[i] \in Part /\ PieceOK(task, ready[i]) /\ ready[i].task = t
      BY <1>1, <2>2 DEF Outstanding, QueueOK, TypeInv, TypeOK
    <3>2. \A w \in AtWork(t) : part[w] \in Part /\ PieceOK(task, part[w]) /\ part[w].task = t
      BY <1>1, <2>2, <2>3, Kinds DEF AtWorkOf, HandsOK, KindsOK
    <3>3. task[t].total \in Nat
      BY <1>1, TaskFields DEF TypeInv, TypeOK
    <3>4. \A i \in Outstanding(t) : Iterations(ready[i]) \subseteq 0 .. task[t].total - 1
      BY <3>1, <3>3 DEF Iterations, PieceOK, Part
    <3>5. \A w \in AtWork(t) : Iterations(part[w]) \subseteq 0 .. task[t].total - 1
      BY <3>2, <3>3 DEF Iterations, PieceOK, Part
    <3>6. ASSUME NEW k PROVE k \in Unrun(t) <=> \/ \E i \in Outstanding(t) : k \in Iterations(ready[i])
                                                \/ \E w \in AtWork(t) : k \in Iterations(part[w])
      BY DEF Unrun
    <3>7. \A p : Iterations(p) = Span(p)
      BY DEF Iterations, Span
    <3>8. \A k \in Unrun(t) : k \in 0 .. task[t].total - 1
      BY <3>4, <3>5, <3>6
    <3>9. \A k : k \in Left(task, ready, pc, part, t) <=>
                   /\ k \in 0 .. task[t].total - 1
                   /\ \/ \E i \in Outstanding(t) : k \in Iterations(ready[i])
                      \/ \E w \in AtWork(t) : k \in Iterations(part[w])
      BY <2>3, <3>7 DEF Left, Outstanding, AtWorkOf
    <3> QED BY <3>6, <3>8, <3>9
  <2>6. task[t].completed + Cardinality(Unrun(t)) = task[t].total
    BY <2>2, <2>5 DEF LeftOK
  <2>7. /\ \A i, j \in Outstanding(t) :
              i # j => Iterations(ready[i]) \cap Iterations(ready[j]) = {}
        /\ \A w \in AtWork(t) :
              /\ \A v \in AtWork(t) :
                    v # w => Iterations(part[w]) \cap Iterations(part[v]) = {}
              /\ \A i \in Outstanding(t) :
                    Iterations(part[w]) \cap Iterations(ready[i]) = {}
    BY <2>2, <2>3 DEF Iterations, Span, QueueOK, HandsOK, Apart, Outstanding, AtWorkOf
  <2> QED BY <2>4, <2>6, <2>7
<1> QED BY <1>1, TypeInvariant, StartInvariant, ActiveInvariant, PTL

-----------------------------------------------------------------------------
(***************************************************************************)
(* No task of the pool is forgotten, for every value of the constants: a   *)
(* task that waits is on the list of the first dependency it waits for,    *)
(* the counters that callers poll count what they say, an output is met by *)
(* the end of the task that holds it and by nothing else, and so the loop  *)
(* of dependencyMet() ends.                                                *)
(*                                                                         *)
(* As above the definitions take the state they speak of as parameters.    *)
(* An effect is what one critical section does to the task blocks and the  *)
(* groups; the end of a task has two of them.                              *)
(***************************************************************************)

(* The dependency that a task with these inputs waits for. *)
FirstUnmet(inputs, met, d) ==
    \E i \in 1 .. Len(inputs) :
        inputs[i] = d /\ d \notin met /\ \A j \in 1 .. i - 1 : inputs[j] \in met

(* A task that is not ready is where the step that makes it ready finds it. *)
FoundOK(tk, gr) ==
    \A t \in Task :
        /\ tk[t].state = "Waiting" =>
              /\ tk[t].group \in Group /\ ~gr[tk[t].group].blocked
              /\ \E d \in Dep : /\ t \in gr[tk[t].group].waiting[d]
                                /\ FirstUnmet(tk[t].inputs, gr[tk[t].group].met, d)
        /\ tk[t].state = "Blocked" =>
              /\ tk[t].group \in Group /\ gr[tk[t].group].blocked
              /\ t \in gr[tk[t].group].blockedTasks

WaitersOf(tk, g) == {t \in Task : tk[t].state = "Waiting" /\ tk[t].group = g}
WaitersOK(tk, gr) == \A g \in Group : gr[g].waitingCount = Cardinality(WaitersOf(tk, g))

(* The dependencies a task names are allocated, and an output has one task. *)
InGroup(tk, t) == tk[t].state # "Free" /\ tk[t].group # NoGroup
NamesOK(tk, gr) ==
    \A t \in Task : InGroup(tk, t) =>
        /\ \A d \in ToSet(tk[t].inputs) : d < gr[tk[t].group].depCount
        /\ tk[t].output < gr[tk[t].group].depCount
OutputsOK(tk, gr) ==
    \A t \in Task : InGroup(tk, t) =>
        /\ tk[t].state # "Done" => tk[t].output \notin gr[tk[t].group].met
        /\ \A u \in Task \ {t} : tk[u].state # "Free" /\ tk[u].group = tk[t].group
              => tk[u].output # tk[t].output \/ tk[t].output = NoDep

ListedOK(tk, gr) == FoundOK(tk, gr) /\ WaitersOK(tk, gr) /\ NamesOK(tk, gr) /\ OutputsOK(tk, gr)

Unfinished(tk) == {t \in Task : tk[t].state \notin {"Free", "Done"}}
PendingOK(tk, n) == n = Cardinality(Unfinished(tk))

-----------------------------------------------------------------------------
(* The first unmet dependency. *)

(* Among some numbers there is a least one. *)
LEMMA LeastNumber ==
    ASSUME NEW U \in SUBSET Nat, U # {}
    PROVE  \E i \in U : \A j \in U : i <= j
<1> DEFINE T == {1 .. i : i \in U}
           R == StrictSubsetOrdering(Nat)
<1>1. IsWellFoundedOn(R, FiniteSubsetsOf(Nat))
  BY FS_StrictSubsetOrderingWellFounded
<1>2. T \subseteq FiniteSubsetsOf(Nat) /\ T # {}
  <2>1. ASSUME NEW i \in U PROVE 1 .. i \in SUBSET Nat /\ IsFiniteSet(1 .. i)
    BY FS_Interval
  <2> QED BY <2>1 DEF FiniteSubsetsOf
<1>3. \E x \in T : \A y \in T : ~(<<y, x>> \in R)
  <2> HIDE DEF T, R
  <2> QED BY <1>1, <1>2, WFMin
<1>4. PICK i \in U : \A j \in U : ~(<<1 .. j, 1 .. i>> \in R)
  BY <1>3
<1>5. ASSUME NEW j \in U PROVE i <= j
  <2> SUFFICES ASSUME j < i PROVE FALSE
    OBVIOUS
  <2>1. i \in 1 .. i /\ i \notin 1 .. j /\ 1 .. j \subseteq 1 .. i
    OBVIOUS
  <2>2. <<1 .. j, 1 .. i>> \in R
    BY <2>1 DEF StrictSubsetOrdering
  <2> QED BY <1>4, <2>2
<1> QED BY <1>5

LEMMA FirstUnmetExists ==
    ASSUME NEW s \in Seq(Dep), NEW met, ~(ToSet(s) \subseteq met)
    PROVE  \E d \in Dep : FirstUnmet(s, met, d)
<1> DEFINE U == {i \in 1 .. Len(s) : s[i] \notin met}
<1>1. U \in SUBSET Nat /\ U # {}
  BY DEF ToSet
<1>2. PICK i \in U : \A j \in U : i <= j
  <2> HIDE DEF U
  <2> QED BY <1>1, LeastNumber
<1>3. i \in 1 .. Len(s) /\ s[i] \notin met /\ s[i] \in Dep
  OBVIOUS
<1>4. ASSUME NEW j \in 1 .. i - 1 PROVE s[j] \in met
  BY <1>3, <1>2
<1> QED BY <1>3, <1>4 DEF FirstUnmet

LEMMA FirstUnmetIs ==
    ASSUME NEW s \in Seq(Dep), NEW met, NEW d, FirstUnmet(s, met, d)
    PROVE  taskLowestUnmetDependency(s, met) = d
<1> DEFINE P(i) == s[i] \notin met /\ \A j \in 1 .. i - 1 : s[j] \in met
           c == CHOOSE i \in 1 .. Len(s) : P(i)
<1>1. PICK i \in 1 .. Len(s) : s[i] = d /\ P(i)
  BY DEF FirstUnmet
<1>2. c \in 1 .. Len(s) /\ P(c)
  <2> HIDE DEF P
  <2> QED BY <1>1
<1>3. taskLowestUnmetDependency(s, met) = s[c]
  BY DEF taskLowestUnmetDependency
<1> HIDE DEF c
<1>4. ~(c < i) /\ ~(i < c)
  BY <1>2, <1>1
<1>5. c = i
  BY <1>2, <1>4
<1> QED BY <1>1, <1>3, <1>5

(* The list that a task goes to when its inputs are not all met. *)
LEMMA ListOfUnmet ==
    ASSUME NEW s \in Seq(Dep), NEW met, ~(ToSet(s) \subseteq met)
    PROVE  /\ taskLowestUnmetDependency(s, met) \in Dep
           /\ FirstUnmet(s, met, taskLowestUnmetDependency(s, met))
BY FirstUnmetExists, FirstUnmetIs

LEMMA FirstUnmetSame ==
    ASSUME NEW s \in Seq(Dep), NEW met, NEW met1, NEW d, FirstUnmet(s, met, d),
           \A e \in ToSet(s) : e \in met1 <=> e \in met
    PROVE  FirstUnmet(s, met1, d)
BY DEF ToSet, FirstUnmet

LEMMA FirstUnmetGrows ==
    ASSUME NEW s \in Seq(Dep), NEW met, NEW d, NEW e, d # e, FirstUnmet(s, met, d)
    PROVE  FirstUnmet(s, met \cup {e}, d)
BY DEF FirstUnmet

LEMMA FirstUnmetNotMet ==
    ASSUME NEW s \in Seq(Dep), NEW met, NEW d, FirstUnmet(s, met, d)
    PROVE  d \notin met /\ d \in ToSet(s)
BY DEF FirstUnmet, ToSet

-----------------------------------------------------------------------------
(* The effects: what a critical section does to the blocks and the groups. *)

SameTask(r, r1) == r1.group = r.group /\ r1.inputs = r.inputs /\ r1.output = r.output
SameLists(r, r1) ==
    /\ r1.waiting = r.waiting /\ r1.waitingCount = r.waitingCount
    /\ r1.blockedTasks = r.blockedTasks
SameGroup(r, r1) ==
    SameLists(r, r1) /\ r1.depCount = r.depCount /\ r1.met = r.met /\ r1.blocked = r.blocked

(* Tasks run, or dependencies are allocated, or an empty group is blocked. *)
KeptEffect(tk, tk1, gr, gr1) ==
    /\ \A t \in Task : /\ SameTask(tk[t], tk1[t])
                       /\ tk1[t].state = tk[t].state
                             \/ (tk1[t].state \in Begun /\ tk[t].state \in Begun)
    /\ \A g \in Group : /\ SameLists(gr[g], gr1[g]) /\ gr[g].depCount <= gr1[g].depCount
                        /\ \A d \in Dep : d < gr[g].depCount => (d \in gr1[g].met <=> d \in gr[g].met)
                        /\ gr1[g].blocked = gr[g].blocked \/ MembersOf(tk, g) = {}

LEMMA KeptListed ==
    ASSUME NEW tk \in [Task -> TaskRec], NEW tk1,
           NEW gr \in [Group -> GroupRec], NEW gr1 \in [Group -> GroupRec],
           ListedOK(tk, gr), KeptEffect(tk, tk1, gr, gr1)
    PROVE  ListedOK(tk1, gr1)
<1>1. /\ \A t \in Task : tk1[t].group = tk[t].group /\ tk1[t].inputs = tk[t].inputs
                         /\ tk1[t].output = tk[t].output
      /\ \A t \in Task : tk1[t].state = "Free" <=> tk[t].state = "Free"
      /\ \A t \in Task : tk1[t].state = "Done" <=> tk[t].state = "Done"
      /\ \A t \in Task : tk1[t].state = "Waiting" <=> tk[t].state = "Waiting"
      /\ \A t \in Task : tk1[t].state = "Blocked" <=> tk[t].state = "Blocked"
  BY DEF KeptEffect, SameTask, Begun
<1>2. /\ \A g \in Group : gr1[g].waiting = gr[g].waiting /\ gr1[g].waitingCount = gr[g].waitingCount
                          /\ gr1[g].blockedTasks = gr[g].blockedTasks
      /\ \A g \in Group : gr1[g].blocked = gr[g].blocked \/ MembersOf(tk, g) = {}
      /\ \A g \in Group : gr[g].depCount <= gr1[g].depCount
      /\ \A g \in Group : \A d \in Dep : d < gr[g].depCount => (d \in gr1[g].met <=> d \in gr[g].met)
  BY DEF KeptEffect, SameLists
<1>3. /\ \A t \in Task : tk[t].inputs \in Seq(Dep) /\ tk[t].output \in Dep \cup {NoDep}
                         /\ tk[t].group \in Group \cup {NoGroup}
      /\ \A g \in Group : /\ gr[g].depCount \in Int /\ gr1[g].depCount \in Int
                          /\ gr[g].met \subseteq Dep /\ gr1[g].met \subseteq Dep
  BY TaskFields, GroupFields
<1>4. \A t \in Task : InGroup(tk, t) =>
          /\ tk[t].group \in Group
          /\ \A d \in ToSet(tk[t].inputs) : d \in Dep /\ d < gr[tk[t].group].depCount
          /\ \A d \in ToSet(tk[t].inputs) : d \in gr1[tk[t].group].met <=> d \in gr[tk[t].group].met
          /\ tk[t].output \in gr1[tk[t].group].met => tk[t].output \in gr[tk[t].group].met
  BY <1>3, <1>2 DEF ListedOK, NamesOK, InGroup, ToSet
<1>5. FoundOK(tk1, gr1)
  <2> SUFFICES ASSUME NEW t \in Task
               PROVE  /\ tk1[t].state = "Waiting" =>
                         /\ tk1[t].group \in Group /\ ~gr1[tk1[t].group].blocked
                         /\ \E d \in Dep : /\ t \in gr1[tk1[t].group].waiting[d]
                                           /\ FirstUnmet(tk1[t].inputs, gr1[tk1[t].group].met, d)
                      /\ tk1[t].state = "Blocked" =>
                         /\ tk1[t].group \in Group /\ gr1[tk1[t].group].blocked
                         /\ t \in gr1[tk1[t].group].blockedTasks
    BY DEF FoundOK
  <2> DEFINE g == tk[t].group
  <2>1. ASSUME tk[t].state = "Waiting"
        PROVE  /\ g \in Group /\ ~gr1[g].blocked
               /\ \E d \in Dep : t \in gr1[g].waiting[d] /\ FirstUnmet(tk[t].inputs, gr1[g].met, d)
    <3>1. g \in Group /\ ~gr[g].blocked /\ t \in MembersOf(tk, g)
      BY <2>1 DEF ListedOK, FoundOK, MembersOf
    <3>2. PICK d \in Dep : t \in gr[g].waiting[d] /\ FirstUnmet(tk[t].inputs, gr[g].met, d)
      BY <2>1 DEF ListedOK, FoundOK
    <3>3. InGroup(tk, t)
      BY <2>1, <3>1, SetsAssumption DEF InGroup
    <3>4. FirstUnmet(tk[t].inputs, gr1[g].met, d)
      BY <1>3, <1>4, <3>2, <3>3, FirstUnmetSame
    <3> QED BY <1>2, <3>1, <3>2, <3>4
  <2>2. ASSUME tk[t].state = "Blocked"
        PROVE  g \in Group /\ gr1[g].blocked /\ t \in gr1[g].blockedTasks
    BY <2>2, <1>2 DEF ListedOK, FoundOK, MembersOf
  <2> QED BY <1>1, <2>1, <2>2
<1>6. WaitersOK(tk1, gr1)
  BY <1>1, <1>2 DEF WaitersOf, ListedOK, WaitersOK
<1>7. NamesOK(tk1, gr1)
  <2> SUFFICES ASSUME NEW t \in Task, InGroup(tk, t)
               PROVE  /\ \A d \in ToSet(tk[t].inputs) : d < gr1[tk[t].group].depCount
                      /\ tk[t].output < gr1[tk[t].group].depCount
    BY <1>1 DEF NamesOK, InGroup
  <2>1. \A d \in Dep \cup {NoDep} : d \in Int
    BY DEF Dep, NoDep
  <2>2. tk[t].group \in Group /\ tk[t].output < gr[tk[t].group].depCount
    BY <1>4 DEF ListedOK, NamesOK
  <2> DEFINE m == gr[tk[t].group].depCount
             n == gr1[tk[t].group].depCount
  <2>3. m \in Int /\ n \in Int /\ m <= n
    BY <1>2, <1>3, <2>2
  <2>4. \A d \in ToSet(tk[t].inputs) : d \in Dep /\ d < m
    BY <1>4
  <2>5. tk[t].output \in Dep \cup {NoDep} /\ tk[t].output < m
    BY <1>3, <2>2
  <2> HIDE DEF m, n
  <2>6. (\A d \in ToSet(tk[t].inputs) : d < n) /\ tk[t].output < n
    BY <2>1, <2>3, <2>4, <2>5
  <2> QED BY <2>6 DEF n
<1>8. OutputsOK(tk1, gr1)
  BY <1>1, <1>4 DEF OutputsOK, InGroup, ListedOK
<1> QED BY <1>5, <1>6, <1>7, <1>8 DEF ListedOK

(* A task that has begun ends, or a task that is done leaves. *)
LeaveEffect(tk, tk1, gr, gr1, t) ==
    /\ tk[t].state \in Begun \cup {"Done"}
    /\ \/ tk1[t] = FreeTask
       \/ tk1[t].state = "Done" /\ SameTask(tk[t], tk1[t])
    /\ \A u \in Task \ {t} : tk1[u] = tk[u]
    /\ \A g \in Group : SameGroup(gr[g], gr1[g])

LEMMA LeaveListed ==
    ASSUME NEW tk \in [Task -> TaskRec], NEW tk1, NEW gr, NEW gr1, NEW t \in Task, ListedOK(tk, gr),
           LeaveEffect(tk, tk1, gr, gr1, t)
    PROVE  ListedOK(tk1, gr1)
<1>1. /\ tk[t].state \notin {"Waiting", "Blocked", "Free"}
      /\ tk1[t].state \notin {"Waiting", "Blocked"}
      /\ \A u \in Task \ {t} : tk1[u] = tk[u]
      /\ tk1[t].state = "Free" \/ tk1[t].state = "Done"
      /\ tk1[t].state # "Free" => tk1[t].group = tk[t].group /\ tk1[t].inputs = tk[t].inputs
                                  /\ tk1[t].output = tk[t].output
  BY DEF LeaveEffect, SameTask, Begun, FreeTask
<1>2. \A g \in Group : /\ gr1[g].waiting = gr[g].waiting /\ gr1[g].waitingCount = gr[g].waitingCount
                       /\ gr1[g].blockedTasks = gr[g].blockedTasks /\ gr1[g].blocked = gr[g].blocked
                       /\ gr1[g].depCount = gr[g].depCount /\ gr1[g].met = gr[g].met
  BY DEF LeaveEffect, SameGroup, SameLists
<1>3. FoundOK(tk1, gr1)
  BY <1>1, <1>2 DEF FoundOK, ListedOK
<1>4. WaitersOK(tk1, gr1)
  BY <1>1, <1>2 DEF WaitersOf, ListedOK, WaitersOK
<1>5. \A u \in Task : InGroup(tk1, u) =>
          /\ InGroup(tk, u) /\ tk1[u].group = tk[u].group /\ tk1[u].inputs = tk[u].inputs
          /\ tk1[u].output = tk[u].output
          /\ tk1[u].state # "Done" => tk[u].state # "Done"
  BY <1>1 DEF InGroup
<1>6. \A u \in Task : tk1[u].state # "Free" =>
          tk[u].state # "Free" /\ tk1[u].group = tk[u].group /\ tk1[u].output = tk[u].output
  BY <1>1
<1>7. NamesOK(tk1, gr1)
  <2> SUFFICES ASSUME NEW u \in Task, InGroup(tk1, u)
               PROVE  /\ \A d \in ToSet(tk[u].inputs) : d < gr1[tk[u].group].depCount
                      /\ tk[u].output < gr1[tk[u].group].depCount
    BY <1>5 DEF NamesOK
  <2>1. InGroup(tk, u)
    BY <1>5
  <2>2. tk[u].group \in Group
    BY <2>1, TaskFields DEF InGroup
  <2> QED BY <1>2, <2>1, <2>2 DEF ListedOK, NamesOK
<1>8. OutputsOK(tk1, gr1)
  BY TaskFields, <1>2, <1>5, <1>6 DEF InGroup, ListedOK, OutputsOK
<1> QED BY <1>3, <1>4, <1>7, <1>8 DEF ListedOK

(* Some of a finite set are taken away, or others are added. *)
LEMMA CountLess ==
    ASSUME NEW S, IsFiniteSet(S), NEW R \in SUBSET S
    PROVE  Cardinality(S \ R) = Cardinality(S) - Cardinality(R)
BY FS_Difference

LEMMA CountMore ==
    ASSUME NEW S, IsFiniteSet(S), NEW R, IsFiniteSet(R), S \cap R = {}
    PROVE  Cardinality(S \cup R) = Cardinality(S) + Cardinality(R)
<1>1. Cardinality(S \cap R) = 0 /\ Cardinality(S) \in Nat /\ Cardinality(R) \in Nat
  BY FS_EmptySet, FS_CardinalityType
<1>2. Cardinality(S \cup R) = Cardinality(S) + Cardinality(R) - Cardinality(S \cap R)
  BY FS_Union
<1> QED BY <1>1, <1>2

LEMMA TasksFinite == ASSUME NEW S \in SUBSET Task
                     PROVE  IsFiniteSet(S) /\ Cardinality(S) \in Nat
BY SetsAssumption, FS_Subset, FS_CardinalityType

(* A dependency is met: of the tasks on its list some are ready, and the    *)
(* others go to the list of the next dependency they wait for.             *)
ReadySet(tk, gr, g, d) ==
    {u \in gr[g].waiting[d] : ToSet(tk[u].inputs) \subseteq gr[g].met \cup {d}}

MetEffect(tk, tk1, gr, gr1, g, d) ==
    LET rel == ReadySet(tk, gr, g, d)
    IN  /\ \A u \in Task : /\ SameTask(tk[u], tk1[u])
                           /\ tk1[u].state = IF u \in rel THEN "Ready" ELSE tk[u].state
        /\ \A h \in Group \ {g} : SameGroup(gr[h], gr1[h])
        /\ gr1[g].met = gr[g].met \cup {d} /\ gr1[g].depCount = gr[g].depCount
        /\ gr1[g].blocked = gr[g].blocked /\ gr1[g].blockedTasks = gr[g].blockedTasks
        /\ \A e \in Dep \ {d} : gr[g].waiting[e] \subseteq gr1[g].waiting[e]
        /\ \A u \in gr[g].waiting[d] \ rel, e \in Dep :
              FirstUnmet(tk[u].inputs, gr[g].met \cup {d}, e) => u \in gr1[g].waiting[e]
        /\ gr1[g].waitingCount = gr[g].waitingCount - Cardinality(rel)

LEMMA MetListed ==
    ASSUME NEW tk \in [Task -> TaskRec], NEW tk1, NEW gr \in [Group -> GroupRec], NEW gr1,
           NEW g \in Group, NEW d \in Dep, ListsOK(tk, gr), ListedOK(tk, gr),
           \A t \in Task : tk[t].state \notin {"Free", "Done"} /\ tk[t].group = g
                              => tk[t].output # d,
           MetEffect(tk, tk1, gr, gr1, g, d)
    PROVE  ListedOK(tk1, gr1)
<1> DEFINE rel == ReadySet(tk, gr, g, d)
           met1 == gr[g].met \cup {d}
<1>1. rel \subseteq Task /\ \A u \in rel : tk[u].group = g /\ tk[u].state = "Waiting"
  BY GroupFields DEF ReadySet, ListsOK
<1>2. /\ \A u \in Task : /\ tk1[u].group = tk[u].group /\ tk1[u].inputs = tk[u].inputs
                         /\ tk1[u].output = tk[u].output
                         /\ tk1[u].state = IF u \in rel THEN "Ready" ELSE tk[u].state
      /\ \A h \in Group : /\ gr1[h].depCount = gr[h].depCount
                          /\ gr1[h].blocked = gr[h].blocked
                          /\ gr1[h].blockedTasks = gr[h].blockedTasks
                          /\ h # g => /\ gr1[h].met = gr[h].met /\ gr1[h].waiting = gr[h].waiting
                                      /\ gr1[h].waitingCount = gr[h].waitingCount
  BY DEF MetEffect, SameTask, SameGroup, SameLists
<1>3. /\ gr1[g].met = met1
      /\ \A e \in Dep \ {d} : gr[g].waiting[e] \subseteq gr1[g].waiting[e]
      /\ \A u \in gr[g].waiting[d] \ rel, e \in Dep :
              FirstUnmet(tk[u].inputs, met1, e) => u \in gr1[g].waiting[e]
      /\ gr1[g].waitingCount = gr[g].waitingCount - Cardinality(rel)
  BY DEF MetEffect
<1>4. /\ \A t \in Task : tk[t].inputs \in Seq(Dep) /\ tk[t].group \in Group \cup {NoGroup}
      /\ gr[g].waitingCount \in Int
  BY TaskFields, GroupFields
<1>5. \A u \in gr[g].waiting[d] \ rel : ~(ToSet(tk[u].inputs) \subseteq met1)
  BY DEF ReadySet
<1> HIDE DEF rel, met1
<1>6. FoundOK(tk1, gr1)
  <2> SUFFICES ASSUME NEW t \in Task
               PROVE  /\ tk1[t].state = "Waiting" =>
                         /\ tk1[t].group \in Group /\ ~gr1[tk1[t].group].blocked
                         /\ \E e \in Dep : /\ t \in gr1[tk1[t].group].waiting[e]
                                           /\ FirstUnmet(tk1[t].inputs, gr1[tk1[t].group].met, e)
                      /\ tk1[t].state = "Blocked" =>
                         /\ tk1[t].group \in Group /\ gr1[tk1[t].group].blocked
                         /\ t \in gr1[tk1[t].group].blockedTasks
    BY DEF FoundOK
  <2>1. ASSUME tk1[t].state = "Waiting"
        PROVE  /\ tk[t].group \in Group /\ ~gr[tk[t].group].blocked
               /\ \E e \in Dep : /\ t \in gr1[tk[t].group].waiting[e]
                                 /\ FirstUnmet(tk[t].inputs, gr1[tk[t].group].met, e)
    <3>1. t \notin rel /\ tk[t].state = "Waiting"
      BY <1>2, <2>1
    <3>2. tk[t].group \in Group /\ ~gr[tk[t].group].blocked
      BY <3>1 DEF ListedOK, FoundOK
    <3>3. PICK e \in Dep : /\ t \in gr[tk[t].group].waiting[e]
                           /\ FirstUnmet(tk[t].inputs, gr[tk[t].group].met, e)
      BY <3>1 DEF ListedOK, FoundOK
    <3>4. CASE tk[t].group # g
      BY <1>2, <3>2, <3>3, <3>4
    <3>5. CASE tk[t].group = g /\ e # d
      <4>1. FirstUnmet(tk[t].inputs, met1, e)
        BY <1>4, <3>3, <3>5, FirstUnmetGrows DEF met1
      <4> QED BY <1>3, <3>2, <3>3, <3>5, <4>1
    <3>6. CASE tk[t].group = g /\ e = d
      BY <3>1, <3>3, <3>6, <1>4, <1>5, FirstUnmetExists, <1>3, <3>2
    <3> QED BY <3>4, <3>5, <3>6
  <2>2. ASSUME tk1[t].state = "Blocked"
        PROVE  /\ tk[t].group \in Group /\ gr[tk[t].group].blocked
               /\ t \in gr[tk[t].group].blockedTasks
    BY <1>2, <2>2 DEF ListedOK, FoundOK
  <2> QED BY <1>2, <2>1, <2>2
<1>7. WaitersOK(tk1, gr1)
  <2> SUFFICES ASSUME NEW h \in Group PROVE gr1[h].waitingCount = Cardinality(WaitersOf(tk1, h))
    BY DEF WaitersOK
  <2>1. gr[h].waitingCount = Cardinality(WaitersOf(tk, h))
    BY DEF ListedOK, WaitersOK
  <2>2. CASE h # g
    <3>1. WaitersOf(tk1, h) = WaitersOf(tk, h)
      BY <1>1, <1>2, <2>2 DEF WaitersOf
    <3> QED BY <1>2, <2>1, <2>2, <3>1
  <2>3. CASE h = g
    BY <1>1, <1>2, TasksFinite, CountLess, <1>3, <2>1, <2>3 DEF WaitersOf
  <2> QED BY <2>2, <2>3
<1>8. \A t \in Task : InGroup(tk1, t) <=> InGroup(tk, t)
  BY <1>1, <1>2 DEF InGroup
<1>9. \A t \in Task : InGroup(tk, t) => tk[t].group \in Group
  BY <1>4 DEF InGroup
<1>10. NamesOK(tk1, gr1)
  BY <1>2, <1>8, <1>9 DEF ListedOK, NamesOK
<1>11. OutputsOK(tk1, gr1)
  BY <1>2, <1>8, <1>1, <1>3, <1>9 DEF OutputsOK, ListedOK, InGroup, met1
<1> QED BY <1>6, <1>7, <1>10, <1>11 DEF ListedOK

(* A new task of a group: it is ready, on a list, or blocked. *)
AddEffect(tk, tk1, gr, gr1, t, g) ==
    LET inputs == tk1[t].inputs
        output == tk1[t].output
        state  == IF gr[g].blocked THEN "Blocked"
                  ELSE IF ToSet(inputs) \subseteq gr[g].met THEN "Ready" ELSE "Waiting"
    IN  /\ tk[t].state = "Free" /\ tk1[t].group = g /\ tk1[t].state = state
        /\ \A u \in Task \ {t} : tk1[u] = tk[u]
        /\ \A d \in ToSet(inputs) : d < gr[g].depCount
        /\ output # NoDep => /\ output < gr[g].depCount /\ output \notin gr[g].met
                             /\ \A u \in MembersOf(tk, g) : tk[u].output # output
        /\ \A h \in Group \ {g} : SameGroup(gr[h], gr1[h])
        /\ gr1[g].met = gr[g].met /\ gr1[g].depCount = gr[g].depCount
        /\ gr1[g].blocked = gr[g].blocked
        /\ \A e \in Dep : gr[g].waiting[e] \subseteq gr1[g].waiting[e]
        /\ state = "Waiting" => \A e \in Dep : FirstUnmet(inputs, gr[g].met, e)
                                                  => t \in gr1[g].waiting[e]
        /\ gr1[g].waitingCount = gr[g].waitingCount + IF state = "Waiting" THEN 1 ELSE 0
        /\ gr1[g].blockedTasks = IF state = "Blocked" THEN gr[g].blockedTasks \cup {t}
                                 ELSE gr[g].blockedTasks

LEMMA AddListed ==
    ASSUME NEW tk \in [Task -> TaskRec], NEW tk1 \in [Task -> TaskRec],
           NEW gr \in [Group -> GroupRec], NEW gr1, NEW t \in Task, NEW g \in Group,
           ListedOK(tk, gr), AddEffect(tk, tk1, gr, gr1, t, g)
    PROVE  ListedOK(tk1, gr1)
<1> DEFINE inputs == tk1[t].inputs
           output == tk1[t].output
           state  == IF gr[g].blocked THEN "Blocked"
                     ELSE IF ToSet(inputs) \subseteq gr[g].met THEN "Ready" ELSE "Waiting"
<1>1. /\ tk[t].state = "Free" /\ tk1[t].group = g /\ tk1[t].state = state
      /\ \A u \in Task \ {t} : tk1[u] = tk[u]
      /\ \A d \in ToSet(inputs) : d < gr[g].depCount
      /\ output # NoDep => /\ output < gr[g].depCount /\ output \notin gr[g].met
                           /\ \A u \in MembersOf(tk, g) : tk[u].output # output
  BY DEF AddEffect
<1>2. /\ \A e \in Dep : gr[g].waiting[e] \subseteq gr1[g].waiting[e]
      /\ state = "Waiting" => \A e \in Dep : FirstUnmet(inputs, gr[g].met, e) => t \in gr1[g].waiting[e]
      /\ gr1[g].waitingCount = gr[g].waitingCount + IF state = "Waiting" THEN 1 ELSE 0
      /\ gr1[g].blockedTasks = IF state = "Blocked" THEN gr[g].blockedTasks \cup {t}
                               ELSE gr[g].blockedTasks
  BY DEF AddEffect
<1>3. \A h \in Group : /\ gr1[h].depCount = gr[h].depCount /\ gr1[h].blocked = gr[h].blocked
                       /\ gr1[h].met = gr[h].met
                       /\ h # g => /\ gr1[h].waiting = gr[h].waiting
                                   /\ gr1[h].waitingCount = gr[h].waitingCount
                                   /\ gr1[h].blockedTasks = gr[h].blockedTasks
  BY DEF AddEffect, SameGroup, SameLists
<1>4. /\ \A u \in Task : tk1[u].inputs \in Seq(Dep) /\ tk[u].group \in Group \cup {NoGroup}
      /\ gr[g].waitingCount \in Int /\ gr[g].depCount \in Nat /\ gr[g].met \subseteq Dep
      /\ inputs \in Seq(Dep)
  BY TaskFields, GroupFields, BoundsAssumption
<1>5. /\ state = "Waiting" => ~gr[g].blocked /\ ~(ToSet(inputs) \subseteq gr[g].met)
      /\ state = "Blocked" => gr[g].blocked
      /\ state \in {"Ready", "Waiting", "Blocked"}
  OBVIOUS
<1> HIDE DEF state, inputs, output
<1>6. FoundOK(tk1, gr1)
  <2> SUFFICES ASSUME NEW u \in Task
               PROVE  /\ tk1[u].state = "Waiting" =>
                         /\ tk1[u].group \in Group /\ ~gr1[tk1[u].group].blocked
                         /\ \E e \in Dep : /\ u \in gr1[tk1[u].group].waiting[e]
                                           /\ FirstUnmet(tk1[u].inputs, gr1[tk1[u].group].met, e)
                      /\ tk1[u].state = "Blocked" =>
                         /\ tk1[u].group \in Group /\ gr1[tk1[u].group].blocked
                         /\ u \in gr1[tk1[u].group].blockedTasks
    BY DEF FoundOK
  <2>1. CASE u = t
    BY <1>4, <1>5, FirstUnmetExists, <1>2, <1>3, <1>1, <2>1 DEF inputs
  <2>2. CASE u # t
    BY <1>1, <2>2, <1>2, <1>3 DEF ListedOK, FoundOK
  <2> QED BY <2>1, <2>2
<1>7. WaitersOK(tk1, gr1)
  <2> SUFFICES ASSUME NEW h \in Group PROVE gr1[h].waitingCount = Cardinality(WaitersOf(tk1, h))
    BY DEF WaitersOK
  <2>1. gr[h].waitingCount = Cardinality(WaitersOf(tk, h)) /\ WaitersOf(tk, h) \in SUBSET Task
    BY DEF ListedOK, WaitersOK, WaitersOf
  <2>2. CASE h # g \/ state # "Waiting"
    <3>1. WaitersOf(tk1, h) = WaitersOf(tk, h)
      BY <1>1, <2>2 DEF WaitersOf
    <3> QED BY <1>2, <1>3, <1>4, <2>1, <2>2, <3>1
  <2>3. CASE h = g /\ state = "Waiting"
    <3>1. WaitersOf(tk1, g) = WaitersOf(tk, g) \cup {t} /\ t \notin WaitersOf(tk, g)
      BY <1>1, <2>3 DEF WaitersOf
    <3>2. Cardinality(WaitersOf(tk, g) \cup {t}) = Cardinality(WaitersOf(tk, g)) + 1
      BY <2>1, <2>3, <3>1, TasksFinite, FS_AddElement
    <3> QED BY <1>2, <2>1, <2>3, <3>1, <3>2
  <2> QED BY <2>2, <2>3
<1>8. NamesOK(tk1, gr1)
  BY <1>4, <1>1, <1>3 DEF NamesOK, NoDep, inputs, output, InGroup, ListedOK
<1>9. OutputsOK(tk1, gr1)
  <2> SUFFICES ASSUME NEW u \in Task, InGroup(tk1, u)
               PROVE  /\ tk1[u].state # "Done" => tk1[u].output \notin gr1[tk1[u].group].met
                      /\ \A v \in Task \ {u} : tk1[v].state # "Free" /\ tk1[v].group = tk1[u].group
                            => tk1[v].output # tk1[u].output \/ tk1[u].output = NoDep
    BY DEF OutputsOK
  <2>1. CASE u = t
    BY <1>4, <1>1, <1>3, <2>1 DEF NoDep, Dep, MembersOf, output
  <2>2. CASE u # t
    BY <1>1, <1>4, <2>2, <1>3 DEF InGroup, ListedOK, OutputsOK, MembersOf, output
  <2> QED BY <2>1, <2>2
<1> QED BY <1>6, <1>7, <1>8, <1>9 DEF ListedOK

(* A task of no group is ready at once. *)
AddAloneEffect(tk, tk1, gr, gr1, t) ==
    /\ tk[t].state = "Free" /\ tk1[t].state = "Ready" /\ tk1[t].group = NoGroup
    /\ \A u \in Task \ {t} : tk1[u] = tk[u]
    /\ gr1 = gr

LEMMA AddAloneListed ==
    ASSUME NEW tk, NEW tk1, NEW gr, NEW gr1, NEW t \in Task, ListedOK(tk, gr),
           AddAloneEffect(tk, tk1, gr, gr1, t)
    PROVE  ListedOK(tk1, gr1)
<1> USE DEF AddAloneEffect
<1>1. \A g \in Group : WaitersOf(tk1, g) = WaitersOf(tk, g)
  BY DEF WaitersOf
<1>2. FoundOK(tk1, gr1) /\ WaitersOK(tk1, gr1)
  BY <1>1 DEF ListedOK, FoundOK, WaitersOK
<1>3. \A u \in Task : InGroup(tk1, u) => u # t /\ tk1[u] = tk[u] /\ InGroup(tk, u)
  BY DEF InGroup
<1>4. NamesOK(tk1, gr1)
  BY <1>3 DEF ListedOK, NamesOK
<1>5. OutputsOK(tk1, gr1)
  BY <1>3 DEF ListedOK, OutputsOK, InGroup
<1> QED BY <1>2, <1>4, <1>5 DEF ListedOK

(* A group is unblocked: of its blocked tasks some are ready, and the      *)
(* others go to the lists of the dependencies they wait for.               *)
UnblockEffect(tk, tk1, gr, gr1, g) ==
    LET list == gr[g].blockedTasks
        rel  == {u \in list : ToSet(tk[u].inputs) \subseteq gr[g].met}
    IN  /\ gr[g].blocked
        /\ \A u \in Task : /\ SameTask(tk[u], tk1[u])
                           /\ tk1[u].state = IF u \in rel THEN "Ready"
                                            ELSE IF u \in list THEN "Waiting" ELSE tk[u].state
        /\ \A h \in Group \ {g} : SameGroup(gr[h], gr1[h])
        /\ gr1[g].met = gr[g].met /\ gr1[g].depCount = gr[g].depCount /\ ~gr1[g].blocked
        /\ \A e \in Dep : gr[g].waiting[e] \subseteq gr1[g].waiting[e]
        /\ \A u \in list \ rel, e \in Dep :
              FirstUnmet(tk[u].inputs, gr[g].met, e) => u \in gr1[g].waiting[e]
        /\ gr1[g].waitingCount = gr[g].waitingCount + Cardinality(list \ rel)

LEMMA UnblockListed ==
    ASSUME NEW tk \in [Task -> TaskRec], NEW tk1,
           NEW gr \in [Group -> GroupRec], NEW gr1, NEW g \in Group,
           BlockedOK(tk, gr), ListedOK(tk, gr), UnblockEffect(tk, tk1, gr, gr1, g)
    PROVE  ListedOK(tk1, gr1)
<1> DEFINE list == gr[g].blockedTasks
           rel  == {u \in list : ToSet(tk[u].inputs) \subseteq gr[g].met}
<1>1. /\ gr[g].blocked
      /\ \A u \in Task : /\ SameTask(tk[u], tk1[u])
                         /\ tk1[u].state = IF u \in rel THEN "Ready"
                                           ELSE IF u \in list THEN "Waiting" ELSE tk[u].state
  BY DEF UnblockEffect
<1>2. /\ \A e \in Dep : gr[g].waiting[e] \subseteq gr1[g].waiting[e]
      /\ \A u \in list \ rel, e \in Dep :
              FirstUnmet(tk[u].inputs, gr[g].met, e) => u \in gr1[g].waiting[e]
      /\ gr1[g].waitingCount = gr[g].waitingCount + Cardinality(list \ rel)
      /\ ~gr1[g].blocked
  BY DEF UnblockEffect
<1>3. \A h \in Group : /\ gr1[h].depCount = gr[h].depCount /\ gr1[h].met = gr[h].met
                       /\ h # g => /\ gr1[h].waiting = gr[h].waiting /\ gr1[h].blocked = gr[h].blocked
                                   /\ gr1[h].waitingCount = gr[h].waitingCount
                                   /\ gr1[h].blockedTasks = gr[h].blockedTasks
  BY DEF UnblockEffect, SameGroup, SameLists
<1>4. /\ list \subseteq Task /\ rel \subseteq list
      /\ \A u \in list : tk[u].group = g /\ tk[u].state = "Blocked"
  BY GroupFields, <1>1 DEF BlockedOK
<1>5. /\ \A u \in Task : tk[u].inputs \in Seq(Dep) /\ tk[u].group \in Group \cup {NoGroup}
      /\ gr[g].waitingCount \in Int
  BY TaskFields, GroupFields
<1>6. \A u \in list \ rel : ~(ToSet(tk[u].inputs) \subseteq gr[g].met)
  OBVIOUS
<1>7. \A u \in Task : /\ tk1[u].group = tk[u].group /\ tk1[u].inputs = tk[u].inputs
                      /\ tk1[u].output = tk[u].output
  BY <1>1 DEF SameTask
<1> HIDE DEF rel, list
<1>8. FoundOK(tk1, gr1)
  BY <1>7, <1>1, <1>4, <1>5, <1>6, FirstUnmetExists, <1>2, <1>3 DEF FoundOK, ListedOK, list
<1>9. WaitersOK(tk1, gr1)
  <2> SUFFICES ASSUME NEW h \in Group PROVE gr1[h].waitingCount = Cardinality(WaitersOf(tk1, h))
    BY DEF WaitersOK
  <2>1. gr[h].waitingCount = Cardinality(WaitersOf(tk, h)) /\ WaitersOf(tk, h) \in SUBSET Task
    BY DEF ListedOK, WaitersOK, WaitersOf
  <2>2. CASE h # g
    <3>1. WaitersOf(tk1, h) = WaitersOf(tk, h)
      BY <1>1, <1>4, <1>7, <2>2 DEF WaitersOf
    <3> QED BY <1>3, <2>1, <2>2, <3>1
  <2>3. CASE h = g
    <3> DEFINE more == list \ rel
    <3>1. WaitersOf(tk1, g) = WaitersOf(tk, g) \cup more
      BY <1>1, <1>4, <1>7 DEF WaitersOf
    <3>2. more \in SUBSET Task /\ WaitersOf(tk, g) \cap more = {}
      BY <1>4 DEF WaitersOf
    <3> HIDE DEF more
    <3>3. Cardinality(WaitersOf(tk, g) \cup more) = Cardinality(WaitersOf(tk, g)) + Cardinality(more)
      BY <2>1, <2>3, <3>2, TasksFinite, CountMore
    <3> QED BY <1>2, <2>1, <2>3, <3>1, <3>3 DEF more
  <2> QED BY <2>2, <2>3
<1>10. /\ \A t \in Task : (InGroup(tk1, t) <=> InGroup(tk, t)) /\ (tk1[t].state = "Done" <=> tk[t].state = "Done")
       /\ \A t \in Task : tk1[t].state # "Free" <=> tk[t].state # "Free"
  BY <1>1, <1>4, <1>7 DEF InGroup
<1>11. \A t \in Task : InGroup(tk, t) => tk[t].group \in Group
  BY <1>5 DEF InGroup
<1>12. NamesOK(tk1, gr1)
  BY <1>3, <1>7, <1>10, <1>11 DEF ListedOK, NamesOK
<1>13. OutputsOK(tk1, gr1)
  BY <1>3, <1>7, <1>10, <1>11 DEF ListedOK, OutputsOK
<1> QED BY <1>8, <1>9, <1>12, <1>13 DEF ListedOK

(* A group without tasks is made anew, or closed. *)
EmptyEffect(tk, tk1, gr, gr1, g) ==
    /\ tk1 = tk /\ MembersOf(tk, g) = {}
    /\ \A h \in Group \ {g} : gr1[h] = gr[h]
    /\ gr1[g].waitingCount = 0 /\ gr1[g].met = {} /\ ~gr1[g].blocked

LEMMA EmptyListed ==
    ASSUME NEW tk \in [Task -> TaskRec], NEW tk1, NEW gr, NEW gr1, NEW g \in Group,
           ListedOK(tk, gr), EmptyEffect(tk, tk1, gr, gr1, g)
    PROVE  ListedOK(tk1, gr1)
<1> USE DEF EmptyEffect
<1>1. \A t \in Task : tk[t].state # "Free" => tk[t].group # g
  BY DEF MembersOf
<1>2. FoundOK(tk1, gr1)
  BY <1>1 DEF ListedOK, FoundOK
<1>3. WaitersOK(tk1, gr1)
  BY <1>1, FS_EmptySet DEF WaitersOf, ListedOK, WaitersOK
<1>4. \A t \in Task : InGroup(tk, t) => tk[t].group \in Group /\ gr1[tk[t].group] = gr[tk[t].group]
  BY <1>1, TaskFields DEF InGroup
<1>5. NamesOK(tk1, gr1) /\ OutputsOK(tk1, gr1)
  BY <1>4 DEF ListedOK, NamesOK, OutputsOK
<1> QED BY <1>2, <1>3, <1>5 DEF ListedOK

(* A parent that runs gives its output away. *)
LEMMA OutputFreed ==
    ASSUME NEW tk \in [Task -> TaskRec], NEW tk1, NEW gr \in [Group -> GroupRec], NEW p \in Task,
           ListedOK(tk, gr), tk[p].state \in Begun, tk[p].group \in Group,
           tk1[p] = [tk[p] EXCEPT !.output = NoDep],
           \A u \in Task \ {p} : tk1[u] = tk[u]
    PROVE  /\ ListedOK(tk1, gr)
           /\ tk[p].output # NoDep =>
                 /\ tk[p].output < gr[tk[p].group].depCount
                 /\ tk[p].output \notin gr[tk[p].group].met
                 /\ \A u \in MembersOf(tk1, tk[p].group) : tk1[u].output # tk[p].output
           /\ \A d \in ToSet(tk[p].inputs) : d < gr[tk[p].group].depCount
<1>1. /\ tk1[p].output = NoDep /\ tk1[p].group = tk[p].group /\ tk1[p].inputs = tk[p].inputs
      /\ tk1[p].state = tk[p].state /\ tk[p].group # NoGroup
  BY SetsAssumption DEF TaskRec
<1>2. \A u \in Task : /\ tk1[u].state = tk[u].state /\ tk1[u].group = tk[u].group
                      /\ tk1[u].inputs = tk[u].inputs
                      /\ tk1[u].output = IF u = p THEN NoDep ELSE tk[u].output
  BY <1>1
<1>3. \A g \in Group : WaitersOf(tk1, g) = WaitersOf(tk, g)
  BY <1>2 DEF WaitersOf
<1>4. FoundOK(tk1, gr) /\ WaitersOK(tk1, gr)
  BY <1>2, <1>3 DEF ListedOK, FoundOK, WaitersOK
<1>5. \A u \in Task : InGroup(tk1, u) => InGroup(tk, u) /\ tk[u].group \in Group
  BY <1>2, TaskFields DEF InGroup
<1>6. \A g \in Group : NoDep < gr[g].depCount /\ NoDep \notin gr[g].met
  BY GroupFields, BoundsAssumption DEF NoDep, Dep
<1>7. NamesOK(tk1, gr)
  BY <1>2, <1>5, <1>6 DEF ListedOK, NamesOK
<1>8. OutputsOK(tk1, gr)
  BY <1>2, <1>5, <1>6 DEF OutputsOK, ListedOK
<1>9. InGroup(tk, p) /\ tk[p].state # "Done"
  BY <1>1 DEF InGroup, Begun
<1>10. /\ \A d \in ToSet(tk[p].inputs) : d < gr[tk[p].group].depCount
       /\ tk[p].output < gr[tk[p].group].depCount
       /\ tk[p].output \notin gr[tk[p].group].met
       /\ \A u \in Task \ {p} : tk[u].state # "Free" /\ tk[u].group = tk[p].group
              => tk[u].output # tk[p].output \/ tk[p].output = NoDep
  BY <1>9 DEF ListedOK, NamesOK, OutputsOK
<1>11. \A u \in MembersOf(tk1, tk[p].group) : tk[p].output # NoDep => tk1[u].output # tk[p].output
  BY <1>2, <1>10 DEF MembersOf
<1> QED BY <1>4, <1>7, <1>8, <1>10, <1>11 DEF ListedOK

-----------------------------------------------------------------------------
(* The effects of the actions. *)

LEMMA GroupsTyped ==
    ASSUME TypeInv
    PROVE  /\ task \in [Task -> TaskRec] /\ group \in [Group -> GroupRec]
           /\ \A t \in Task : task[t] \in TaskRec
           /\ \A g \in Group : group[g] \in GroupRec
BY DEF TypeInv, TypeOK

LEMMA StateRecord ==
    ASSUME NEW r \in TaskRec, NEW state, NEW r1, r1 = [r EXCEPT !.state = state]
    PROVE  r1.state = state /\ SameTask(r, r1)
BY DEF TaskRec, SameTask

(* A worker takes a part, or counts one. *)
LEMMA RunEffect ==
    ASSUME TypeInv, Core, NEW w \in Worker,
           WorkerRun(w) \/ WorkerPartDone(w) \/ WorkerCompletion(w)
    PROVE  KeptEffect(task, task', group, group')
<1>1. KindsOK(task, ready, pc, part) /\ PartsOK(task, ready, pc, part)
  BY Kinds DEF Core
<1>2. ASSUME NEW t \in Task, task[t].state \in Begun,
             task'[t].state \in Begun, SameTask(task[t], task'[t]),
             \A u \in Task \ {t} : task'[u] = task[u], group' = group
      PROVE  KeptEffect(task, task', group, group')
  BY GroupsTyped, GroupFields, <1>2 DEF SameTask, KeptEffect, SameLists
<1>3. CASE WorkerRun(w)
  <2> DEFINE t == Head(ready).task
             n == task[t].active + 1
  <2>1. ready \in Seq(Part) /\ ready # <<>> /\ 1 \in DOMAIN ready /\ Head(ready) = ready[1]
    BY <1>3 DEF WorkerRun, TypeInv, TypeOK
  <2>2. t \in Task /\ task[t].state \in Begun
    <3>1. ready[1] \in Part /\ PieceOK(task, ready[1])
      BY <1>1, <2>1 DEF PartsOK, QueueOK
    <3> QED BY <2>1, <3>1 DEF Part, PieceOK
  <2>3. task' = [task EXCEPT ![t] = [task[t] EXCEPT !.state = "Running", !.active = n]]
        /\ group' = group
    BY <1>3 DEF WorkerRun
  <2>4. task \in [Task -> TaskRec] /\ task[t] \in TaskRec
    BY <2>2, GroupsTyped
  <2> HIDE DEF t, n
  <2>5. /\ task'[t] = [task[t] EXCEPT !.state = "Running", !.active = n]
        /\ \A u \in Task \ {t} : task'[u] = task[u]
    BY <2>2, <2>3, <2>4
  <2>6. task'[t].state = "Running" /\ SameTask(task[t], task'[t])
    BY <2>4, <2>5 DEF TaskRec, SameTask
  <2> QED BY <1>2, <2>2, <2>3, <2>5, <2>6 DEF Begun
<1>4. CASE WorkerPartDone(w) \/ WorkerCompletion(w)
  <2> DEFINE t == part[w].task
             n == CompletedBy(w)
             a == task[t].active - 1
             state == IF task[t].active = 1 THEN "Ready" ELSE task[t].state
  <2>1. pc[w] \in Working
    BY <1>4 DEF WorkerPartDone, WorkerCompletion, Returned, Working
  <2>2. t \in Task /\ task[t].state \in Begun /\ state \in Begun
    BY <1>1, <2>1 DEF KindsOK, PartsOK, HandsOK, Part, PieceOK, Begun
  <2>3. task' = [task EXCEPT ![t] = [task[t] EXCEPT !.active = a, !.completed = n, !.state = state]]
        /\ group' = group
    BY <1>4 DEF WorkerPartDone, WorkerCompletion, PartRecorded
  <2>4. task \in [Task -> TaskRec] /\ task[t] \in TaskRec
    BY <2>2, GroupsTyped
  <2> HIDE DEF t, n, a, state
  <2>5. /\ task'[t] = [task[t] EXCEPT !.active = a, !.completed = n, !.state = state]
        /\ \A u \in Task \ {t} : task'[u] = task[u]
    BY <2>2, <2>3, <2>4
  <2>6. task'[t].state = state /\ SameTask(task[t], task'[t])
    BY <2>4, <2>5 DEF TaskRec, SameTask
  <2> QED BY <1>2, <2>2, <2>3, <2>5, <2>6
<1> QED BY <1>3, <1>4

(* A dependency is allocated, or a group without tasks is blocked. *)
LEMMA GroupEffect ==
    ASSUME TypeInv, Core, NEW c \in Client, NEW g \in Group,
           DependencyAdd(c, g) \/ DependencyAddMet(c, g) \/ GroupBlock(c, g)
    PROVE  KeptEffect(task, task', group, group')
<1> DEFINE r == group[g]
           r1 == group'[g]
<1>1. r \in GroupRec /\ group \in [Group -> GroupRec] /\ task' = task
  BY GroupsTyped DEF DependencyAdd, DependencyAddMet, GroupBlock
<1>2. \A h \in Group \ {g} : group'[h] = group[h]
  BY <1>1 DEF DependencyAdd, DependencyAddMet, GroupBlock
<1>3. \A h \in Group : group[h].depCount \in Int
  BY GroupsTyped, GroupFields
<1>4. /\ SameLists(r, r1) /\ r.depCount <= r1.depCount
      /\ \A d \in Dep : d < r.depCount => (d \in r1.met <=> d \in r.met)
      /\ r1.blocked = r.blocked \/ MembersOf(task, g) = {}
  <2>1. CASE DependencyAdd(c, g)
    <3> DEFINE n == r.depCount + 1
               m == IF r.depCount >= r.depReserved THEN 2 * r.depReserved ELSE r.depReserved
    <3>1. group' = [group EXCEPT ![g] = [r EXCEPT !.depCount = n, !.depReserved = m]]
      BY <2>1 DEF DependencyAdd
    <3>2. r.depCount <= n
      BY <1>3
    <3> HIDE DEF r, n, m
    <3>3. group'[g] = [r EXCEPT !.depCount = n, !.depReserved = m]
      BY <1>1, <3>1
    <3> QED BY <1>1, <3>2, <3>3 DEF GroupRec, SameLists
  <2>2. CASE DependencyAddMet(c, g)
    <3> DEFINE d == r.depCount
               n == IF d < r.depReserved THEN d + 1 ELSE d
               m == IF d < r.depReserved THEN r.depReserved ELSE 2 * r.depReserved
               met == r.met \cup {d}
    <3>1. group' = [group EXCEPT ![g] = [r EXCEPT !.met = met, !.depCount = n, !.depReserved = m]]
      BY <2>2 DEF DependencyAddMet
    <3>2. d <= n /\ \A e \in Dep : e < d => (e \in met <=> e \in r.met)
      BY <1>3 DEF Dep
    <3> HIDE DEF r, n, m, met
    <3>3. group'[g] = [r EXCEPT !.met = met, !.depCount = n, !.depReserved = m]
      BY <1>1, <3>1
    <3> QED BY <1>1, <3>2, <3>3 DEF GroupRec, SameLists
  <2>3. CASE GroupBlock(c, g)
    <3>1. group' = [group EXCEPT ![g] = [r EXCEPT !.blocked = TRUE]] /\ r.tasksCount = 0
      BY <2>3 DEF GroupBlock
    <3>2. MembersOf(task, g) = {}
      BY <3>1, MembersFinite, FS_EmptySet DEF Core, PoolOK, GroupsOK
    <3>3. r.depCount \in Int
      BY <1>3
    <3> HIDE DEF r
    <3>4. group'[g] = [r EXCEPT !.blocked = TRUE]
      BY <1>1, <3>1
    <3> QED BY <1>1, <3>2, <3>3, <3>4 DEF GroupRec, SameLists
  <2> QED BY <2>1, <2>2, <2>3
<1>5. \A u \in Task : SameTask(task[u], task'[u]) /\ task'[u].state = task[u].state
  BY <1>1 DEF SameTask
<1> QED BY <1>2, <1>3, <1>4, <1>5 DEF KeptEffect, SameLists

LEMMA RenewEffect ==
    ASSUME TypeInv, Core, NEW c \in Client, NEW g \in Group,
           GroupInitialize(c, g) \/ GroupDestroy(c, g)
    PROVE  EmptyEffect(task, task', group, group', g)
<1>1. GroupsOK(task, group) /\ group \in [Group -> GroupRec]
  BY GroupsTyped DEF Core, PoolOK
<1>2. MembersOf(task, g) = {}
  <2>1. CASE ~group[g].open
    BY <1>1, <2>1, SetsAssumption DEF GroupsOK, MembersOf
  <2>2. CASE group[g].tasksCount = 0
    BY <1>1, <2>2, MembersFinite, FS_EmptySet DEF GroupsOK
  <2> QED BY <2>1, <2>2 DEF GroupInitialize, GroupDestroy
<1>3. /\ task' = task /\ \A h \in Group \ {g} : group'[h] = group[h]
      /\ group'[g].waitingCount = 0 /\ group'[g].met = {} /\ ~group'[g].blocked
  <2>1. CASE GroupInitialize(c, g)
    BY <1>1, <2>1 DEF GroupInitialize, NewGroup
  <2>2. CASE GroupDestroy(c, g)
    BY <1>1, <2>2 DEF GroupDestroy, NewGroup
  <2> QED BY <2>1, <2>2
<1> QED BY <1>2, <1>3 DEF EmptyEffect

(* A task that is done leaves, or is left to the pool before it is done. *)
LEMMA RemoveEffect ==
    ASSUME TypeInv, NEW t \in Task, task[t].state = "Done", removeTask(t)
    PROVE  LeaveEffect(task, task', group, group', t)
<1>1. task'[t] = FreeTask /\ \A u \in Task \ {t} : task'[u] = task[u]
  BY GroupsTyped DEF removeTask
<1>2. \A g \in Group : SameGroup(group[g], group'[g])
  <2>1. CASE task[t].group = NoGroup
    BY <2>1 DEF removeTask, GroupWithout, SameGroup, SameLists
  <2>2. CASE task[t].group # NoGroup
    <3> DEFINE h == task[t].group
               n == group[h].tasksCount - 1
    <3>1. h \in Group /\ group[h] \in GroupRec /\ group \in [Group -> GroupRec]
      BY <2>2, GroupsTyped, TaskFields
    <3>2. group' = [group EXCEPT ![h] = [group[h] EXCEPT !.tasksCount = n]]
      BY <2>2 DEF removeTask, GroupWithout
    <3> HIDE DEF h, n
    <3>3. group'[h] = [group[h] EXCEPT !.tasksCount = n] /\ \A g \in Group \ {h} : group'[g] = group[g]
      BY <3>1, <3>2
    <3>4. SameGroup(group[h], group'[h])
      BY <3>1, <3>3 DEF GroupRec, SameGroup, SameLists
    <3> QED BY <3>3, <3>4 DEF SameGroup, SameLists
  <2> QED BY <2>1, <2>2
<1> QED BY <1>1, <1>2 DEF LeaveEffect

LEMMA DetachEffect ==
    ASSUME TypeInv, NEW a \in Actor, NoWait(a), task[call[a].task].state # "Done"
    PROVE  KeptEffect(task, task', group, group')
<1> DEFINE t == call[a].task
<1>1. t \in Task
  BY DEF NoWait, TypeInv, TypeOK, Call, Waits, Idle
<1>2. task \in [Task -> TaskRec] /\ task[t] \in TaskRec
  BY <1>1, GroupsTyped
<1>3. task' = [task EXCEPT ![t] = [task[t] EXCEPT !.detached = TRUE]] /\ group' = group
  BY DEF NoWait
<1> HIDE DEF t
<1>4. task'[t] = [task[t] EXCEPT !.detached = TRUE] /\ \A u \in Task \ {t} : task'[u] = task[u]
  BY <1>1, <1>2, <1>3
<1>5. task'[t].state = task[t].state /\ SameTask(task[t], task'[t])
  BY <1>2, <1>4 DEF TaskRec, SameTask
<1>6. \A u \in Task : SameTask(task[u], task'[u]) /\ task'[u].state = task[u].state
  BY <1>4, <1>5 DEF SameTask
<1>7. \A g \in Group : group[g].depCount \in Int
  BY GroupsTyped, GroupFields
<1>8. \A g \in Group : SameLists(group[g], group'[g]) /\ group[g].depCount <= group'[g].depCount
  BY <1>3, <1>7 DEF SameLists
<1> QED BY <1>3, <1>6, <1>8 DEF KeptEffect

(* What dependencyMet() leaves of the group. *)
LEMMA GroupMet ==
    ASSUME TypeInv, NEW g \in Group, NEW d \in Dep, d \notin group[g].met, ~NeverEnds(g, d)
    PROVE  LET r == GroupAfterMet(g, d)
               rel == ReadySet(task, group, g, d)
           IN  /\ Released(g, d) = rel
               /\ r.met = group[g].met \cup {d} /\ r.depCount = group[g].depCount
               /\ r.blocked = group[g].blocked /\ r.blockedTasks = group[g].blockedTasks
               /\ \A e \in Dep \ {d} : group[g].waiting[e] \subseteq r.waiting[e]
               /\ \A u \in group[g].waiting[d] \ rel, e \in Dep :
                     FirstUnmet(task[u].inputs, group[g].met \cup {d}, e) => u \in r.waiting[e]
               /\ r.waitingCount = group[g].waitingCount - Cardinality(rel)
<1> DEFINE met2 == group[g].met \cup {d}
           rel == Released(g, d)
           moved == group[g].waiting[d] \ rel
           listOf(u) == taskLowestUnmetDependency(task[u].inputs, met2)
           lists == [e \in Dep |-> IF e = d THEN {}
                                   ELSE group[g].waiting[e] \cup {u \in moved : listOf(u) = e}]
           count == group[g].waitingCount - Cardinality(rel)
           r == GroupAfterMet(g, d)
<1>1. d # NoDep
  BY DEF NoDep, Dep
<1>2. rel = ReadySet(task, group, g, d)
  BY <1>1 DEF NeverEnds, Released, ReadySet, taskDependenciesMet
<1>3. r = [group[g] EXCEPT !.met = met2, !.waiting = lists, !.waitingCount = count]
  BY <1>1 DEF GroupAfterMet
<1>4. group[g] \in GroupRec
  BY GroupsTyped
<1>5. /\ r.met = met2 /\ r.waiting = lists /\ r.waitingCount = count
      /\ r.depCount = group[g].depCount
      /\ r.blocked = group[g].blocked /\ r.blockedTasks = group[g].blockedTasks
  <2> HIDE DEF r, met2, lists, count
  <2> QED BY <1>3, <1>4 DEF GroupRec
<1>6. \A e \in Dep \ {d} : group[g].waiting[e] \subseteq r.waiting[e]
  <2> HIDE DEF moved, listOf, r
  <2> QED BY <1>5
<1>7. ASSUME NEW u \in moved, NEW e \in Dep, FirstUnmet(task[u].inputs, met2, e)
      PROVE  u \in r.waiting[e]
  <2>1. e # d
    <3>1. e \notin met2
      <4>1. u \in Task
        BY StateKinds
      <4>2. task[u].inputs \in Seq(Dep)
        BY <4>1, GroupsTyped, TaskFields
      <4> HIDE DEF met2
      <4> QED BY <1>7, <4>2, FirstUnmetNotMet
    <3> QED BY <3>1
  <2>2. listOf(u) = e
    <3>1. u \in Task
      BY StateKinds
    <3>2. task[u].inputs \in Seq(Dep)
      BY <3>1, GroupsTyped, TaskFields
    <3> HIDE DEF met2
    <3> QED BY <1>7, <3>2, FirstUnmetIs
  <2> HIDE DEF moved, listOf, r
  <2> QED BY <1>5, <2>1, <2>2
<1> HIDE DEF r
<1>8. \A u \in group[g].waiting[d] \ rel, e \in Dep : FirstUnmet(task[u].inputs, met2, e) => u \in r.waiting[e]
  BY <1>7
<1> HIDE DEF rel
<1> QED BY <1>2, <1>5, <1>6, <1>8 DEF rel, r

LEMMA MetByCall ==
    ASSUME TypeInv, NEW a \in Actor, NEW g \in Group, NEW d \in Dep,
           DependencyMet(a, g, d), ~NeverEnds(g, d)
    PROVE  MetEffect(task, task', group, group', g, d)
<1> DEFINE r == GroupAfterMet(g, d)
           rel == ReadySet(task, group, g, d)
<1>1. d \notin group[g].met /\ group' = [group EXCEPT ![g] = r]
  BY DEF DependencyMet
<1>2. \A u \in Task : task'[u] = IF u \in Released(g, d) THEN [task[u] EXCEPT !.state = "Ready"]
                                 ELSE task[u]
  BY DEF DependencyMet
<1>3. /\ Released(g, d) = rel
      /\ r.met = group[g].met \cup {d} /\ r.depCount = group[g].depCount
      /\ r.blocked = group[g].blocked /\ r.blockedTasks = group[g].blockedTasks
      /\ \A e \in Dep \ {d} : group[g].waiting[e] \subseteq r.waiting[e]
      /\ \A u \in group[g].waiting[d] \ rel, e \in Dep :
            FirstUnmet(task[u].inputs, group[g].met \cup {d}, e) => u \in r.waiting[e]
      /\ r.waitingCount = group[g].waitingCount - Cardinality(rel)
  BY <1>1, GroupMet
<1> HIDE DEF r, rel
<1>4. group'[g] = r /\ \A h \in Group \ {g} : group'[h] = group[h]
  BY <1>1, GroupsTyped
<1>5. \A u \in Task : /\ SameTask(task[u], task'[u])
                      /\ task'[u].state = IF u \in rel THEN "Ready" ELSE task[u].state
  <2> SUFFICES ASSUME NEW u \in Task
               PROVE  /\ SameTask(task[u], task'[u])
                      /\ task'[u].state = IF u \in rel THEN "Ready" ELSE task[u].state
    OBVIOUS
  <2>1. CASE u \in rel
    <3>1. task[u] \in TaskRec /\ task'[u] = [task[u] EXCEPT !.state = "Ready"]
      BY <1>2, <1>3, <2>1, GroupsTyped
    <3> QED BY <2>1, <3>1, StateRecord
  <2>2. CASE u \notin rel
    BY <1>2, <1>3, <2>2 DEF SameTask
  <2> QED BY <2>1, <2>2
<1>6. \A h \in Group \ {g} : SameGroup(group[h], group'[h])
  BY <1>4 DEF SameGroup, SameLists
<1> QED BY <1>3, <1>4, <1>5, <1>6 DEF MetEffect, rel

(* The end of a task: it leaves, and then its output is met. *)
LEMMA FinishEffects ==
    ASSUME TypeInv, Core, NEW w \in Worker, WorkerFinish(w),
           ListedOK(task, group), ~hung',
           NEW t, t = part[w].task, NEW g, g = task[t].group, NEW o, o = task[t].output
    PROVE  \E tk \in [Task -> TaskRec] :
              /\ LeaveEffect(task, tk, group, group, t)
              /\ t \in Task /\ g \in Group \cup {NoGroup} /\ task[t].state \in Begun
              /\ g # NoGroup /\ o # NoDep =>
                    o \in Dep /\ o \notin group[g].met /\ MetEffect(tk, task', group, group', g, o)
              /\ g = NoGroup \/ o = NoDep =>
                    task' = tk /\ \A h \in Group : SameGroup(group[h], group'[h])
<1> DEFINE rel == IF g = NoGroup THEN {} ELSE Released(g, o)
           ended == IF task[t].detached THEN FreeTask
                    ELSE [task[t] EXCEPT !.state = "Done", !.active = 0, !.completed = task[t].total]
           tk == [task EXCEPT ![t] = ended]
           r == GroupAfterMet(g, o)
           n == IF task[t].detached THEN r.tasksCount - 1 ELSE r.tasksCount
<1>1. KindsOK(task, ready, pc, part) /\ PartsOK(task, ready, pc, part) /\ PoolOK(task, group)
  BY Kinds DEF Core
<1>2. pc[w] = "completion" \/ pc[w] \in Working
  BY DEF WorkerFinish, Returned, Working
<1>3. t \in Task /\ task[t].state \in Begun
  BY <1>1, <1>2 DEF KindsOK, PartsOK, LastOK, Part, HandsOK, PieceOK
<1>4. /\ task[t] \in TaskRec /\ g \in Group \cup {NoGroup} /\ o \in Dep \cup {NoDep}
      /\ task \in [Task -> TaskRec] /\ group \in [Group -> GroupRec]
  BY <1>3, GroupsTyped, TaskFields
<1>5. ~(g # NoGroup /\ NeverEnds(g, o))
  BY DEF WorkerFinish, finishTask, Hang
<1>6. /\ task' = [u \in Task |-> IF u = t THEN ended
                                ELSE IF u \in rel THEN [task[u] EXCEPT !.state = "Ready"]
                                ELSE task[u]]
      /\ group' = IF g = NoGroup THEN group ELSE [group EXCEPT ![g] = [r EXCEPT !.tasksCount = n]]
  BY <1>5 DEF WorkerFinish, finishTask
<1>7. /\ ended \in TaskRec
      /\ ended = FreeTask \/ (ended.state = "Done" /\ SameTask(task[t], ended))
  <2>1. CASE task[t].detached
    BY <2>1, FreeTaskType
  <2>2. CASE ~task[t].detached
    <3> DEFINE total == task[t].total
               done == [task[t] EXCEPT !.state = "Done", !.active = 0, !.completed = total]
    <3>1. total \in Nat
      BY <1>4, TaskFields
    <3>2. ended = done
      BY <2>2
    <3> HIDE DEF total, ended
    <3>3. done \in TaskRec
      BY <1>4, <3>1, TaskDone
    <3>4. done.state = "Done" /\ SameTask(task[t], done)
      BY <1>4 DEF TaskRec, SameTask
    <3> QED BY <3>2, <3>3, <3>4
  <2> QED BY <2>1, <2>2
<1> HIDE DEF ended
<1>8. /\ tk \in [Task -> TaskRec] /\ tk[t] = ended
      /\ \A u \in Task \ {t} : tk[u] = task[u]
  BY <1>3, <1>4, <1>7
<1> HIDE DEF tk
<1>9. LeaveEffect(task, tk, group, group, t)
  BY <1>3, <1>7, <1>8 DEF LeaveEffect, SameGroup, SameLists
<1>10. ASSUME g # NoGroup, o # NoDep
       PROVE  o \in Dep /\ o \notin group[g].met /\ MetEffect(tk, task', group, group', g, o)
  <2>1. g \in Group /\ o \in Dep /\ ~NeverEnds(g, o)
    BY <1>4, <1>5, <1>10
  <2>2. o \notin group[g].met
    BY <1>3, <1>10 DEF ListedOK, OutputsOK, InGroup, Begun
  <2>3. /\ Released(g, o) = ReadySet(task, group, g, o)
        /\ r.met = group[g].met \cup {o} /\ r.depCount = group[g].depCount
        /\ r.blocked = group[g].blocked /\ r.blockedTasks = group[g].blockedTasks
        /\ \A e \in Dep \ {o} : group[g].waiting[e] \subseteq r.waiting[e]
        /\ \A u \in group[g].waiting[o] \ ReadySet(task, group, g, o), e \in Dep :
              FirstUnmet(task[u].inputs, group[g].met \cup {o}, e) => u \in r.waiting[e]
        /\ r.waitingCount = group[g].waitingCount - Cardinality(ReadySet(task, group, g, o))
    BY ONLY TypeInv, <2>1, <2>2, GroupMet
  <2>4. \A u \in group[g].waiting[o] : u \in Task /\ u # t /\ tk[u] = task[u]
    BY <1>1, <1>3, <1>8, <2>1, StateKinds DEF PoolOK, ListsOK, Begun
  <2>5. ReadySet(tk, group, g, o) = ReadySet(task, group, g, o)
    BY ZenonT(60), <2>4 DEF ReadySet
  <2>6. rel = ReadySet(task, group, g, o) /\ rel \subseteq group[g].waiting[o]
    BY <1>10, <2>3 DEF ReadySet
  <2>7. r \in GroupRec
    BY <2>1, GroupAfterMetType
  <2> HIDE DEF rel, r, n
  <2>8. /\ group'[g] = [r EXCEPT !.tasksCount = n]
        /\ \A h \in Group \ {g} : group'[h] = group[h]
    BY <1>4, <1>6, <1>10, <2>1
  <2>9. /\ group'[g].met = r.met /\ group'[g].depCount = r.depCount
        /\ group'[g].waiting = r.waiting /\ group'[g].waitingCount = r.waitingCount
        /\ group'[g].blocked = r.blocked /\ group'[g].blockedTasks = r.blockedTasks
    BY <2>7, <2>8 DEF GroupRec
  <2>10. ASSUME NEW u \in Task
         PROVE  /\ SameTask(tk[u], task'[u])
                /\ task'[u].state = IF u \in rel THEN "Ready" ELSE tk[u].state
    <3>1. CASE u \in rel
      <4>1. tk[u] \in TaskRec /\ task'[u] = [tk[u] EXCEPT !.state = "Ready"]
        BY <1>6, <1>8, <2>4, <2>6, <3>1
      <4> QED BY <3>1, <4>1, StateRecord
    <3>2. CASE u \notin rel
      BY <1>6, <1>8, <3>2 DEF SameTask
    <3> QED BY <3>1, <3>2
  <2>11. \A h \in Group \ {g} : SameGroup(group[h], group'[h])
    BY <2>8 DEF SameGroup, SameLists
  <2>12. \A u \in group[g].waiting[o] \ rel, e \in Dep :
              FirstUnmet(tk[u].inputs, group[g].met \cup {o}, e) => u \in group'[g].waiting[e]
    BY ZenonT(60), <2>3, <2>4, <2>6, <2>9
  <2>13. /\ rel = ReadySet(tk, group, g, o)
         /\ group'[g].met = group[g].met \cup {o} /\ group'[g].depCount = group[g].depCount
         /\ group'[g].blocked = group[g].blocked /\ group'[g].blockedTasks = group[g].blockedTasks
         /\ \A e \in Dep \ {o} : group[g].waiting[e] \subseteq group'[g].waiting[e]
         /\ group'[g].waitingCount = group[g].waitingCount - Cardinality(rel)
    BY <2>3, <2>5, <2>6, <2>9
  <2>14. MetEffect(tk, task', group, group', g, o)
    BY ONLY <2>10, <2>11, <2>12, <2>13 DEF MetEffect
  <2> QED BY <2>1, <2>2, <2>14
<1>11. ASSUME g = NoGroup \/ o = NoDep
       PROVE  task' = tk /\ \A h \in Group : SameGroup(group[h], group'[h])
  <2>1. rel = {}
    BY <1>11 DEF Released
  <2>2. task' = tk
    <3> HIDE DEF rel
    <3> QED BY <1>4, <1>6, <2>1 DEF tk
  <2>3. CASE g = NoGroup
    BY <1>6, <2>2, <2>3 DEF SameGroup, SameLists
  <2>4. CASE g # NoGroup
    <3>1. r = group[g] /\ g \in Group /\ group[g] \in GroupRec
      BY <1>4, <1>11, <2>4 DEF GroupAfterMet
    <3> HIDE DEF r, n
    <3>2. group'[g] = [group[g] EXCEPT !.tasksCount = n] /\ \A h \in Group \ {g} : group'[h] = group[h]
      BY <1>4, <1>6, <2>4, <3>1
    <3>3. SameGroup(group[g], group'[g])
      BY <3>1, <3>2 DEF GroupRec, SameGroup, SameLists
    <3> QED BY <2>2, <3>2, <3>3 DEF SameGroup, SameLists
  <2> QED BY <2>3, <2>4
<1> QED BY <1>3, <1>4, <1>8, <1>9, <1>10, <1>11

(* addTask(), for a group, on the blocks tk: a parent may have lost its     *)
(* output.                                                                 *)
LEMMA AddTaskEffect ==
    ASSUME TypeInv, NEW tk \in [Task -> TaskRec], NEW t \in Task, NEW g \in Group,
           NEW output, NEW sliced, NEW shape \in [inputs : Seq(Dep), total : Nat, finisher : BOOLEAN],
           addTask(tk, t, g, shape, output, sliced),
           \A d \in ToSet(shape.inputs) : d < group[g].depCount,
           output # NoDep => /\ output < group[g].depCount /\ output \notin group[g].met
                             /\ \A u \in MembersOf(tk, g) : tk[u].output # output
    PROVE  AddEffect(tk, task', group, group', t, g)
<1> DEFINE r == group[g]
           inputs == shape.inputs
           state == IF r.blocked THEN "Blocked"
                    ELSE IF taskDependenciesMet(inputs, r.met) THEN "Ready" ELSE "Waiting"
           list == taskLowestUnmetDependency(inputs, r.met)
           new == NewTask(state, g, shape, output, sliced)
           listed == [r.waiting EXCEPT ![list] = r.waiting[list] \cup {t}]
           blockedTasks == IF state = "Blocked" THEN r.blockedTasks \cup {t} ELSE r.blockedTasks
           waiting == IF state = "Waiting" THEN listed ELSE r.waiting
           count == IF state = "Waiting" THEN r.waitingCount + 1 ELSE r.waitingCount
           n == r.tasksCount + 1
           r1 == [r EXCEPT !.tasksCount = n, !.blockedTasks = blockedTasks,
                           !.waiting = waiting, !.waitingCount = count]
<1>1. g # NoGroup /\ r \in GroupRec /\ group \in [Group -> GroupRec]
  BY SetsAssumption, GroupsTyped
<1>2. /\ tk[t].state = "Free" /\ task' = [tk EXCEPT ![t] = new]
      /\ group' = [group EXCEPT ![g] = r1]
  BY <1>1 DEF addTask
<1>3. state = IF r.blocked THEN "Blocked" ELSE IF ToSet(inputs) \subseteq r.met THEN "Ready" ELSE "Waiting"
  BY DEF taskDependenciesMet
<1>4. /\ new.state = state /\ new.group = g /\ new.inputs = inputs /\ new.output = output
  <2> HIDE DEF state
  <2> QED BY DEF NewTask
<1>5. /\ r.waiting \in [Dep -> SUBSET Task] /\ r.waitingCount \in Int /\ inputs \in Seq(Dep)
  BY <1>1, GroupFields
<1>6. /\ r1.met = r.met /\ r1.depCount = r.depCount /\ r1.blocked = r.blocked
      /\ r1.waiting = waiting /\ r1.waitingCount = count /\ r1.blockedTasks = blockedTasks
  <2> HIDE DEF r, n, blockedTasks, waiting, count
  <2> QED BY <1>1 DEF GroupRec
<1> HIDE DEF new, r1
<1>7. /\ task'[t] = new /\ \A u \in Task \ {t} : task'[u] = tk[u]
      /\ group'[g] = r1 /\ \A h \in Group \ {g} : group'[h] = group[h]
  BY <1>1, <1>2
<1>8. \A e \in Dep : r.waiting[e] \subseteq waiting[e]
  <2> HIDE DEF state, list, r
  <2> QED BY <1>5
<1>9. ASSUME state = "Waiting", NEW e \in Dep, FirstUnmet(inputs, r.met, e)
      PROVE  t \in waiting[e]
  <2>1. list = e
    BY <1>5, <1>9, FirstUnmetIs
  <2> HIDE DEF state, list, r
  <2> QED BY <1>5, <1>9, <2>1
<1>10. \A h \in Group \ {g} : SameGroup(group[h], group'[h])
  BY <1>7 DEF SameGroup, SameLists
<1>11. count = r.waitingCount + IF state = "Waiting" THEN 1 ELSE 0
  <2> HIDE DEF state, r
  <2> QED BY <1>5
<1> DEFINE in1 == task'[t].inputs
           out1 == task'[t].output
           state1 == IF group[g].blocked THEN "Blocked"
                     ELSE IF ToSet(in1) \subseteq group[g].met THEN "Ready" ELSE "Waiting"
<1>12. in1 = inputs /\ out1 = output /\ state1 = state /\ task'[t].group = g /\ task'[t].state = state
  BY <1>3, <1>4, <1>7
<1> HIDE DEF state, waiting, count, r1, new, list
<1>13. /\ tk[t].state = "Free" /\ task'[t].group = g /\ task'[t].state = state1
       /\ \A u \in Task \ {t} : task'[u] = tk[u]
       /\ \A d \in ToSet(in1) : d < group[g].depCount
       /\ out1 # NoDep => /\ out1 < group[g].depCount /\ out1 \notin group[g].met
                          /\ \A u \in MembersOf(tk, g) : tk[u].output # out1
  BY <1>2, <1>7, <1>12
<1>14. /\ group'[g].met = group[g].met /\ group'[g].depCount = group[g].depCount
       /\ group'[g].blocked = group[g].blocked
       /\ \A e \in Dep : group[g].waiting[e] \subseteq group'[g].waiting[e]
       /\ state1 = "Waiting" => \A e \in Dep : FirstUnmet(in1, group[g].met, e)
                                                  => t \in group'[g].waiting[e]
       /\ group'[g].waitingCount = group[g].waitingCount + IF state1 = "Waiting" THEN 1 ELSE 0
       /\ group'[g].blockedTasks = IF state1 = "Blocked" THEN group[g].blockedTasks \cup {t}
                                   ELSE group[g].blockedTasks
  BY <1>6, <1>7, <1>8, <1>9, <1>11, <1>12
<1> HIDE DEF state1, in1, out1
<1> QED BY <1>10, <1>13, <1>14 DEF AddEffect, state1, in1, out1

LEMMA AddAloneTask ==
    ASSUME TypeInv, NEW t \in Task, NEW shape, shape.inputs = <<>>,
           addTask(task, t, NoGroup, shape, NoDep, FALSE)
    PROVE  /\ AddAloneEffect(task, task', group, group', t)
           /\ task'[t].inputs = <<>> /\ task'[t].output = NoDep
<1> DEFINE new == NewTask("Ready", NoGroup, shape, NoDep, FALSE)
<1>1. taskDependenciesMet(shape.inputs, {})
  BY DEF taskDependenciesMet, ToSet
<1>2. task[t].state = "Free" /\ task' = [task EXCEPT ![t] = new] /\ group' = group
  BY <1>1 DEF addTask
<1>3. /\ new.state = "Ready" /\ new.group = NoGroup /\ new.inputs = <<>> /\ new.output = NoDep
  BY DEF NewTask
<1> HIDE DEF new
<1>4. task'[t] = new /\ \A u \in Task \ {t} : task'[u] = task[u]
  BY <1>2, GroupsTyped
<1> QED BY <1>2, <1>3, <1>4 DEF AddAloneEffect

LEMMA UnblockedEffect ==
    ASSUME TypeInv, NEW c \in Client, NEW g \in Group, GroupUnblock(c, g)
    PROVE  UnblockEffect(task, task', group, group', g)
<1> DEFINE r == group[g]
           list == r.blockedTasks
           rel == {t \in list : taskDependenciesMet(task[t].inputs, r.met)}
           listOf(t) == taskLowestUnmetDependency(task[t].inputs, r.met)
           waiting == [d \in Dep |-> r.waiting[d] \cup {t \in list \ rel : listOf(t) = d}]
           count == r.waitingCount + Cardinality(list \ rel)
           r1 == [r EXCEPT !.blocked = FALSE, !.waiting = waiting, !.waitingCount = count]
<1>1. /\ r.blocked
      /\ task' = [t \in Task |-> IF t \in list
                     THEN [task[t] EXCEPT !.state = IF t \in rel THEN "Ready" ELSE "Waiting"]
                     ELSE task[t]]
      /\ group' = [group EXCEPT ![g] = r1]
  BY DEF GroupUnblock
<1>2. r \in GroupRec /\ group \in [Group -> GroupRec] /\ list \subseteq Task
  BY GroupsTyped, GroupFields
<1>3. rel = {u \in list : ToSet(task[u].inputs) \subseteq r.met}
  BY DEF taskDependenciesMet
<1>4. /\ r1.met = r.met /\ r1.depCount = r.depCount /\ ~r1.blocked
      /\ r1.waiting = waiting /\ r1.waitingCount = count
  <2> HIDE DEF r, waiting, count
  <2> QED BY <1>2 DEF GroupRec
<1>5. \A e \in Dep : r.waiting[e] \subseteq waiting[e]
  <2> HIDE DEF r, rel, list, listOf
  <2> QED OBVIOUS
<1>6. ASSUME NEW u \in list \ rel, NEW e \in Dep, FirstUnmet(task[u].inputs, r.met, e)
      PROVE  u \in waiting[e]
  <2>1. listOf(u) = e
    BY <1>2, GroupsTyped, TaskFields, <1>6, FirstUnmetIs
  <2> HIDE DEF r, rel, list, listOf
  <2> QED BY <1>6, <2>1
<1> HIDE DEF r1, waiting, count
<1>7. group'[g] = r1 /\ \A h \in Group \ {g} : SameGroup(group[h], group'[h])
  BY <1>1, <1>2 DEF SameGroup, SameLists
<1> HIDE DEF rel, list
<1>8. ASSUME NEW u \in Task
      PROVE  /\ SameTask(task[u], task'[u])
             /\ task'[u].state = IF u \in rel THEN "Ready"
                                 ELSE IF u \in list THEN "Waiting" ELSE task[u].state
  <2>1. CASE u \in list
    <3> DEFINE state == IF u \in rel THEN "Ready" ELSE "Waiting"
    <3>1. task[u] \in TaskRec /\ task'[u] = [task[u] EXCEPT !.state = state]
      BY <1>1, <2>1, GroupsTyped
    <3> HIDE DEF state
    <3>2. task'[u].state = state /\ SameTask(task[u], task'[u])
      BY <3>1, StateRecord
    <3> QED BY <2>1, <3>2 DEF state
  <2>2. CASE u \notin list
    BY <1>1, <2>2 DEF rel, SameTask
  <2> QED BY <2>1, <2>2
<1>9. \A u \in list \ rel, e \in Dep : FirstUnmet(task[u].inputs, r.met, e) => u \in group'[g].waiting[e]
  BY <1>4, <1>6, <1>7
<1>10. /\ group'[g].met = r.met /\ group'[g].depCount = r.depCount /\ ~group'[g].blocked
       /\ \A e \in Dep : r.waiting[e] \subseteq group'[g].waiting[e]
       /\ group'[g].waitingCount = r.waitingCount + Cardinality(list \ rel)
  BY <1>4, <1>5, <1>7 DEF count
<1> DEFINE rel1 == {u \in group[g].blockedTasks : ToSet(task[u].inputs) \subseteq group[g].met}
<1>11. rel = rel1 /\ list = group[g].blockedTasks
  BY <1>3 DEF list
<1> QED BY <1>1, <1>7, <1>8, <1>9, <1>10, <1>11 DEF UnblockEffect

-----------------------------------------------------------------------------
(* The count of the tasks that have yet to finish. *)

LEMMA UnfinishedKept ==
    ASSUME NEW tk, NEW tk1, NEW gr, NEW gr1, KeptEffect(tk, tk1, gr, gr1)
    PROVE  Unfinished(tk1) = Unfinished(tk)
BY DEF KeptEffect, Unfinished, Begun

LEMMA UnfinishedMet ==
    ASSUME NEW tk, NEW tk1, NEW gr, NEW gr1, NEW g \in Group, NEW d \in Dep,
           ListsOK(tk, gr), MetEffect(tk, tk1, gr, gr1, g, d)
    PROVE  Unfinished(tk1) = Unfinished(tk)
BY DEF ReadySet, ListsOK, MetEffect, Unfinished

LEMMA UnfinishedUnblocked ==
    ASSUME NEW tk, NEW tk1, NEW gr, NEW gr1, NEW g \in Group,
           BlockedOK(tk, gr), UnblockEffect(tk, tk1, gr, gr1, g)
    PROVE  Unfinished(tk1) = Unfinished(tk)
<1> DEFINE list == gr[g].blockedTasks
           rel  == {u \in list : ToSet(tk[u].inputs) \subseteq gr[g].met}
<1>1. \A u \in list : tk[u].state = "Blocked"
  BY DEF BlockedOK, UnblockEffect
<1>2. \A u \in Task : tk1[u].state = IF u \in rel THEN "Ready"
                                     ELSE IF u \in list THEN "Waiting" ELSE tk[u].state
  BY DEF UnblockEffect
<1>3. rel \subseteq list
  OBVIOUS
<1> HIDE DEF rel, list
<1> QED BY <1>1, <1>2, <1>3 DEF Unfinished

LEMMA UnfinishedLeft ==
    ASSUME NEW tk, NEW tk1, NEW gr, NEW gr1, NEW t \in Task, LeaveEffect(tk, tk1, gr, gr1, t)
    PROVE  /\ tk[t].state \in Begun => Cardinality(Unfinished(tk1)) = Cardinality(Unfinished(tk)) - 1
           /\ tk[t].state = "Done" => Unfinished(tk1) = Unfinished(tk)
<1>1. tk1[t].state \in {"Free", "Done"} /\ \A u \in Task \ {t} : tk1[u] = tk[u]
  BY DEF LeaveEffect, FreeTask
<1>2. ASSUME tk[t].state \in Begun
      PROVE  Cardinality(Unfinished(tk1)) = Cardinality(Unfinished(tk)) - 1
  <2>1. t \in Unfinished(tk) /\ Unfinished(tk1) = Unfinished(tk) \ {t}
    BY <1>1, <1>2 DEF Unfinished, Begun
  <2>2. Unfinished(tk) \in SUBSET Task
    BY DEF Unfinished
  <2> QED BY <2>1, <2>2, TasksFinite, FS_RemoveElement
<1>3. ASSUME tk[t].state = "Done" PROVE Unfinished(tk1) = Unfinished(tk)
  BY <1>1, <1>3 DEF Unfinished
<1> QED BY <1>2, <1>3

LEMMA UnfinishedAdded ==
    ASSUME NEW tk, NEW tk1, NEW t \in Task, tk[t].state = "Free",
           tk1[t].state \in {"Ready", "Waiting", "Blocked"}, \A u \in Task \ {t} : tk1[u] = tk[u]
    PROVE  Cardinality(Unfinished(tk1)) = Cardinality(Unfinished(tk)) + 1
<1>1. t \notin Unfinished(tk) /\ Unfinished(tk1) = Unfinished(tk) \cup {t}
  BY DEF Unfinished
<1>2. Unfinished(tk) \in SUBSET Task
  BY DEF Unfinished
<1> QED BY <1>1, <1>2, TasksFinite, FS_AddElement

-----------------------------------------------------------------------------
(* The invariant, and what keeps it. *)

Listed == ListedOK(task, group) /\ PendingOK(task, pending)
ExitedOK == \A w \in Worker : pc[w] = "exited" => ~running
ListInv == ~hung /\ ExitedOK /\ (Freed \/ Listed)

(* No list of a blocked group holds a task: the loop of dependencyMet()     *)
(* has an end.                                                             *)
LEMMA LoopEnds ==
    ASSUME TypeInv, Core, Listed, NEW g \in Group, NEW d \in Dep
    PROVE  ~NeverEnds(g, d)
BY StateKinds DEF NeverEnds, Core, PoolOK, ListsOK, Listed, ListedOK, FoundOK

(* The end of a task. *)
LEMMA FinishListed ==
    ASSUME TypeInv, Core, Listed, NEW w \in Worker, WorkerFinish(w)
    PROVE  Listed' /\ hung' = hung
<1> DEFINE t == part[w].task
           g == task[t].group
           o == task[t].output
<1>1. PoolOK(task, group) /\ ListedOK(task, group) /\ PendingOK(task, pending)
  BY DEF Core, Listed
<1>2. t \in Task
  BY Kinds DEF WorkerFinish, Returned, Working, KindsOK, Part
<1>3. g \in Group \cup {NoGroup} /\ o \in Dep \cup {NoDep}
  BY <1>2, GroupsTyped, TaskFields
<1>4. ~(g # NoGroup /\ NeverEnds(g, o))
  BY <1>3, LoopEnds DEF NeverEnds
<1>5. hung' = hung /\ pending' = pending - 1 /\ ~hung
  BY <1>4 DEF WorkerFinish, finishTask
<1>6. PICK tk \in [Task -> TaskRec] :
              /\ LeaveEffect(task, tk, group, group, t)
              /\ t \in Task /\ g \in Group \cup {NoGroup} /\ task[t].state \in Begun
              /\ g # NoGroup /\ o # NoDep =>
                    o \in Dep /\ o \notin group[g].met /\ MetEffect(tk, task', group, group', g, o)
              /\ g = NoGroup \/ o = NoDep =>
                    task' = tk /\ \A h \in Group : SameGroup(group[h], group'[h])
  BY <1>1, <1>5, FinishEffects
<1> HIDE DEF t, g, o
<1>7. ListedOK(tk, group)
  BY <1>1, <1>6, GroupsTyped, LeaveListed
<1>8. pending' = Cardinality(Unfinished(tk))
  BY <1>1, <1>5, <1>6, UnfinishedLeft DEF PendingOK
<1>9. CASE g # NoGroup /\ o # NoDep
  <2>1. g \in Group /\ o \in Dep /\ MetEffect(tk, task', group, group', g, o)
    BY <1>6, <1>9
  <2>2. \A u \in Task : tk[u].state = "Waiting" => tk[u] = task[u] /\ u # t
    BY <1>6 DEF LeaveEffect, FreeTask
  <2>3. ListsOK(tk, group)
    BY <1>6, StateKinds, <1>1 DEF LeaveEffect, Begun, PoolOK, ListsOK
  <2>4. ASSUME NEW u \in Task, tk[u].state \notin {"Free", "Done"}, tk[u].group = g
        PROVE  tk[u].output # o
    BY <1>6, <2>4, <1>9, <1>1 DEF LeaveEffect, FreeTask, InGroup, g, o, Begun, ListedOK, OutputsOK
  <2>5. ListedOK(task', group')
    BY <1>7, <2>1, <2>3, <2>4, GroupsTyped, MetListed
  <2>6. Unfinished(task') = Unfinished(tk)
    BY <2>1, <2>3, UnfinishedMet
  <2> QED BY <1>5, <1>8, <2>5, <2>6 DEF Listed, PendingOK
<1>10. CASE g = NoGroup \/ o = NoDep
  BY <1>6, <1>10, <1>1, GroupsTyped, LeaveListed, <1>5, <1>8 DEF LeaveEffect, Listed, PendingOK
<1> QED BY <1>9, <1>10

(* The calls that add a task. *)
LEMMA AddsListed ==
    ASSUME TypeInv, TypeInv', Core, Listed, NEW a \in Actor, NEW g, NEW t \in Task,
           NEW shape \in Shapes,
           (g \in Group /\ GroupAdd(a, g, t, shape)) \/ PoolAdd(a, t, shape)
              \/ AddSlicedDeferred(a, t, shape)
    PROVE  Listed'
<1>1. /\ shape \in [inputs : Seq(Dep), total : Nat, finisher : BOOLEAN]
      /\ ListedOK(task, group) /\ PendingOK(task, pending)
      /\ task \in [Task -> TaskRec] /\ group \in [Group -> GroupRec] /\ task' \in [Task -> TaskRec]
  BY BoundsAssumption, GroupsTyped DEF Listed, TypeInv, TypeOK
<1>2. ASSUME NEW tk \in [Task -> TaskRec], NEW h \in Group, ListedOK(tk, group),
             Unfinished(tk) = Unfinished(task), pending' = pending + 1,
             AddEffect(tk, task', group, group', t, h)
      PROVE  Listed'
  <2>1. ListedOK(task', group')
    BY <1>1, <1>2, AddListed
  <2>2. /\ tk[t].state = "Free" /\ task'[t].state \in {"Ready", "Waiting", "Blocked"}
        /\ \A u \in Task \ {t} : task'[u] = tk[u]
    BY <1>2 DEF AddEffect
  <2>3. Cardinality(Unfinished(task')) = Cardinality(Unfinished(tk)) + 1
    BY <2>2, UnfinishedAdded
  <2> QED BY <1>1, <1>2, <2>1, <2>3 DEF Listed, PendingOK
<1>3. CASE g \in Group /\ GroupAdd(a, g, t, shape)
  <2>1. \A d \in ToSet(shape.inputs) : d < group[g].depCount
    BY <1>3 DEF GroupAdd
  <2>2. PICK output \in Dep \cup {NoDep} :
           GoodOutput(g, shape.inputs, output) /\ addTask(task, t, g, shape, output, FALSE)
    BY <1>3 DEF GroupAdd
  <2>3. output # NoDep => /\ output < group[g].depCount /\ output \notin group[g].met
                          /\ \A u \in MembersOf(task, g) : task[u].output # output
    BY <2>2 DEF GoodOutput, External, Members, Live, MembersOf
  <2>4. AddEffect(task, task', group, group', t, g)
    BY <1>1, <1>3, <2>1, <2>2, <2>3, AddTaskEffect
  <2>5. pending' = pending + 1
    BY <2>2 DEF addTask
  <2> QED BY <1>1, <1>2, <1>3, <2>4, <2>5
<1>4. CASE PoolAdd(a, t, shape)
  <2>1. addTask(task, t, NoGroup, shape, NoDep, FALSE) /\ shape.inputs = <<>>
    BY <1>4 DEF PoolAdd
  <2>2. AddAloneEffect(task, task', group, group', t)
    BY <2>1, AddAloneTask
  <2>3. ListedOK(task', group')
    BY <1>1, <2>2, AddAloneListed
  <2>4. pending' = pending + 1
    BY <2>1 DEF addTask
  <2>5. Cardinality(Unfinished(task')) = Cardinality(Unfinished(task)) + 1
    BY <2>2, UnfinishedAdded DEF AddAloneEffect
  <2> QED BY <1>1, <2>3, <2>4, <2>5 DEF Listed, PendingOK
<1>5. CASE AddSlicedDeferred(a, t, shape)
  <2> DEFINE p == part[a].task
             h == task[p].group
             o == task[p].output
             tk == [task EXCEPT ![p] = [task[p] EXCEPT !.output = NoDep]]
             shape2 == [shape EXCEPT !.inputs = task[p].inputs]
  <2>1. a \in Worker /\ pc[a] \in Working
    BY <1>5 DEF AddSlicedDeferred, MayCall, Working
  <2>2. p \in Task /\ task[p].state \in Begun /\ task[p] \in TaskRec
    BY <2>1, Kinds, <1>1 DEF Core, KindsOK, PartsOK, HandsOK, Part, PieceOK
  <2>3. addTask(tk, t, h, shape2, o, TRUE) /\ h # NoGroup
    BY <1>5 DEF AddSlicedDeferred
  <2>4. h \in Group
    BY <2>2, <2>3, TaskFields
  <2>5. shape2 \in [inputs : Seq(Dep), total : Nat, finisher : BOOLEAN]
        /\ shape2.inputs = task[p].inputs
    BY <1>1, <2>2, TaskFields
  <2>6. [task[p] EXCEPT !.output = NoDep] \in TaskRec
    BY <2>2, TaskFlags
  <2>7. /\ tk \in [Task -> TaskRec] /\ tk[p] = [task[p] EXCEPT !.output = NoDep]
        /\ \A u \in Task \ {p} : tk[u] = task[u]
    <3> HIDE DEF p
    <3> QED BY <1>1, <2>2, <2>6
  <2> HIDE DEF tk, shape2, p
  <2>8. /\ ListedOK(tk, group)
        /\ o # NoDep => /\ o < group[h].depCount /\ o \notin group[h].met
                        /\ \A u \in MembersOf(tk, h) : tk[u].output # o
        /\ \A d \in ToSet(task[p].inputs) : d < group[h].depCount
    <3>1. /\ task \in [Task -> TaskRec] /\ group \in [Group -> GroupRec] /\ ListedOK(task, group)
          /\ task[p].state \in Begun /\ task[p].group \in Group
      BY <1>1, <2>2, <2>4
    <3>2. p \in Task
      BY <2>2
    <3>3. /\ tk[p] = [task[p] EXCEPT !.output = NoDep]
          /\ \A u \in Task \ {p} : tk[u] = task[u]
      BY <2>7
    <3> HIDE DEF h, o
    <3>4. /\ ListedOK(tk, group)
          /\ task[p].output # NoDep =>
                /\ task[p].output < group[task[p].group].depCount
                /\ task[p].output \notin group[task[p].group].met
                /\ \A u \in MembersOf(tk, task[p].group) : tk[u].output # task[p].output
          /\ \A d \in ToSet(task[p].inputs) : d < group[task[p].group].depCount
      BY ONLY <3>1, <3>2, <3>3, OutputFreed
    <3> QED BY <3>4 DEF h, o
  <2>9. Unfinished(tk) = Unfinished(task)
    BY <2>2, <2>7 DEF TaskRec, Unfinished
  <2>10. pending' = pending + 1
    BY <2>3 DEF addTask
  <2> HIDE DEF h, o
  <2>11. AddEffect(tk, task', group, group', t, h)
    BY <2>3, <2>4, <2>5, <2>7, <2>8, AddTaskEffect
  <2> QED BY <1>2, <2>4, <2>7, <2>8, <2>9, <2>10, <2>11
<1> QED BY <1>3, <1>4, <1>5

LEMMA KeptIsListed ==
    ASSUME TypeInv, TypeInv', Listed, KeptEffect(task, task', group, group'), pending' = pending
    PROVE  Listed'
BY GroupsTyped, KeptListed, UnfinishedKept DEF TypeInv, TypeOK, Listed, PendingOK

LEMMA SameIsListed ==
    ASSUME Listed, UNCHANGED <<task, group, pending>>
    PROVE  Listed'
BY DEF Listed

LEMMA ListedKept ==
    ASSUME TypeInv, TypeInv', Core, Listed, ~hung, [Next]_vars, \A c \in Client : ~PoolJoin(c)
    PROVE  Listed' /\ ~hung'
<1>1. PoolOK(task, group) /\ ListedOK(task, group) /\ PendingOK(task, pending)
  BY DEF Core, Listed
<1>2. ASSUME NEW w \in Worker, WorkerStep(w) PROVE Listed' /\ ~hung'
  BY SameIsListed, RunEffect, KeptIsListed, FinishListed, <1>2 DEF WorkerExit, WorkerSleep, poolVars,
     WorkerRun, WorkerPartDone, WorkerCompletion, WorkerStep
<1>3. ASSUME NEW t \in Task, task[t].state = "Done", removeTask(t), pending' = pending
      PROVE  Listed'
  BY <1>3, RemoveEffect, <1>1, GroupsTyped, LeaveListed, UnfinishedLeft DEF Listed, PendingOK
<1>4. ASSUME NEW a \in Actor, CallStep(a) PROVE Listed' /\ ~hung'
  <2>1. CASE NoWait(a)
    <3>1. pending' = pending /\ hung' = hung
      BY <2>1 DEF NoWait
    <3>2. CASE task[call[a].task].state = "Done"
      BY <2>1, <1>3, <3>1, <3>2 DEF NoWait, TypeInv, TypeOK, Call, Waits, Idle
    <3>3. CASE task[call[a].task].state # "Done"
      BY <2>1, <3>1, <3>3, DetachEffect, KeptIsListed
    <3> QED BY <3>2, <3>3
  <2>2. CASE a \in Client /\ WaitSleep(a)
    BY <2>2, SameIsListed DEF WaitSleep, poolVars
  <2>3. CASE a \in Client /\ WaitReturn(a)
    <3>1. pending' = pending /\ hung' = hung
      BY <2>3 DEF WaitReturn
    <3>2. CASE call[a].op = "taskWait"
      BY <2>3, <3>2, <1>3, <3>1 DEF WaitReturn, Satisfied, Waiting, Waits
    <3>3. CASE call[a].op # "taskWait"
      BY <2>3, <3>1, <3>3, SameIsListed DEF WaitReturn
    <3> QED BY <3>2, <3>3
  <2> QED BY <1>4, <2>1, <2>2, <2>3 DEF CallStep
<1>5. ASSUME NEW a \in Actor, NEW g \in Group, NEW d \in Dep, DependencyMet(a, g, d)
      PROVE  Listed' /\ ~hung'
  BY LoopEnds, <1>5, MetByCall, <1>1, GroupsTyped, MetListed, UnfinishedMet DEF DependencyMet, External,
     Members, Live, PoolOK, Listed, PendingOK
<1>6. ASSUME NEW a \in Actor, NEW t \in Task, NEW shape \in Shapes, AddSlicedDeferred(a, t, shape)
      PROVE  Listed' /\ ~hung'
  BY <1>6, AddsListed DEF AddSlicedDeferred, addTask
<1>7. ASSUME NEW c \in Client, NEW g \in Group, GroupInitialize(c, g) \/ GroupDestroy(c, g)
      PROVE  Listed' /\ ~hung'
  BY <1>7, RenewEffect, <1>1, GroupsTyped, EmptyListed DEF GroupInitialize, GroupDestroy, Listed
<1>8. ASSUME NEW c \in Client, NEW g \in Group,
             DependencyAdd(c, g) \/ DependencyAddMet(c, g) \/ GroupBlock(c, g)
      PROVE  Listed' /\ ~hung'
  <2>1. UNCHANGED <<pending, hung>>
    BY <1>8 DEF DependencyAdd, DependencyAddMet, GroupBlock
  <2> QED BY <1>8, <2>1, GroupEffect, KeptIsListed
<1>9. ASSUME NEW c \in Client, NEW g \in Group, GroupUnblock(c, g) PROVE Listed' /\ ~hung'
  BY <1>9, UnblockedEffect, <1>1, GroupsTyped, UnblockListed, UnfinishedUnblocked DEF PoolOK, GroupUnblock,
     Listed, PendingOK
<1>10. ASSUME NEW c \in Client, NEW g \in Group, NEW t \in Task, NEW shape \in Shapes,
              GroupAdd(c, g, t, shape)
       PROVE  Listed' /\ ~hung'
  <2>1. hung' = hung
    BY <1>10 DEF GroupAdd, addTask
  <2> QED BY <1>10, <2>1, AddsListed DEF Actor
<1>11. ASSUME NEW c \in Client, NEW t \in Task, NEW shape \in Shapes, PoolAdd(c, t, shape)
       PROVE  Listed' /\ ~hung'
  BY <1>11, AddsListed DEF PoolAdd, addTask, Actor
<1>12. ASSUME NEW c \in Client, NEW t \in Task, PoolNoWait(c, t) PROVE Listed' /\ ~hung'
  BY <1>12, SameIsListed DEF PoolNoWait, poolVars
<1>13. ASSUME NEW c \in Client, NEW wait \in Waits, WaitStart(c, wait) PROVE Listed' /\ ~hung'
  BY <1>13, SameIsListed DEF WaitStart, poolVars
<1>14. ASSUME NEW c \in Client, PoolDestroy(c) PROVE Listed' /\ ~hung'
  BY <1>14, SameIsListed DEF PoolDestroy
<1>15. CASE Destroyed \/ UNCHANGED vars
  BY <1>15, SameIsListed DEF Destroyed, vars, poolVars
<1>16. Worker \subseteq Actor
  BY DEF Actor
<1> QED BY <1>2, <1>4, <1>5, <1>6, <1>7, <1>8, <1>9, <1>10, <1>11, <1>12, <1>13, <1>14, <1>15,
           <1>16 DEF Next

(* A worker leaves its loop only when the pool is stopped for good. *)
LEMMA ExitedKept ==
    ASSUME TypeInv, ExitedOK, [Next]_vars
    PROVE  ExitedOK'
<1>1. ASSUME running' = running \/ ~running',
             \A v \in Worker : pc'[v] = "exited" => pc[v] = "exited" \/ ~running
      PROVE  ExitedOK'
  BY <1>1 DEF ExitedOK
<1>2. ASSUME UNCHANGED <<pc, running>> PROVE ExitedOK'
  BY <1>2 DEF ExitedOK
<1>3. ASSUME NEW w \in Worker, WorkerStep(w) PROVE ExitedOK'
  <2>1. running' = running
    BY <1>3 DEF WorkerStep, WorkerExit, WorkerSleep, WorkerRun, WorkerPartDone, WorkerCompletion,
                WorkerFinish, finishTask, Hang, poolVars
  <2>2. pc' = pc \/ ~running \/ \E x \in {"fetch", "function", "completion"} : pc' = [pc EXCEPT ![w] = x]
    BY <1>3 DEF WorkerStep, WorkerExit, WorkerSleep, WorkerRun, WorkerPartDone, WorkerCompletion,
                WorkerFinish, finishTask, Hang, poolVars
  <2>3. pc \in [Worker -> {"fetch", "function", "returning", "completion", "exited"}]
    BY DEF TypeInv, TypeOK
  <2> QED BY <1>1, <2>1, <2>2, <2>3
<1>4. ASSUME NEW a \in Actor, CallStep(a) PROVE ExitedOK'
  BY <1>2, <1>4 DEF CallStep, NoWait, WaitSleep, WaitReturn, PoolJoin, clientFrame, poolVars
<1>5. ASSUME NEW a \in Actor, NEW g \in Group, NEW d \in Dep, DependencyMet(a, g, d) PROVE ExitedOK'
  BY <1>2, <1>5 DEF DependencyMet, Hang
<1>6. ASSUME NEW w \in Worker, NEW t \in Task, NEW shape \in Shapes, AddSlicedDeferred(w, t, shape)
      PROVE  ExitedOK'
  BY <1>6, <1>1 DEF AddSlicedDeferred, addTask, TypeInv, TypeOK
<1>7. ASSUME NEW c \in Client, NEW g \in Group
      PROVE  /\ \/ GroupInitialize(c, g) \/ GroupDestroy(c, g)
                \/ DependencyAdd(c, g) \/ DependencyAddMet(c, g)
                \/ GroupBlock(c, g) \/ GroupUnblock(c, g)
                => ExitedOK'
             /\ \A t \in Task, shape \in Shapes : GroupAdd(c, g, t, shape) => ExitedOK'
  BY <1>2 DEF GroupInitialize, GroupDestroy, DependencyAdd, DependencyAddMet, GroupBlock, GroupUnblock,
              GroupAdd, addTask, clientFrame
<1>8. ASSUME NEW c \in Client
      PROVE  /\ \A t \in Task : PoolNoWait(c, t) => ExitedOK'
             /\ \A t \in Task, shape \in Shapes : PoolAdd(c, t, shape) => ExitedOK'
             /\ \A wait \in Waits : WaitStart(c, wait) => ExitedOK'
  BY <1>2 DEF PoolNoWait, PoolAdd, WaitStart, addTask, clientFrame, poolVars
<1>9. ASSUME NEW c \in Client, PoolDestroy(c) PROVE ExitedOK'
  BY <1>9 DEF PoolDestroy, ExitedOK
<1>10. CASE Destroyed \/ UNCHANGED vars
  BY <1>2, <1>10 DEF Destroyed, vars, poolVars
<1> QED BY <1>3, <1>4, <1>5, <1>6, <1>7, <1>8, <1>9, <1>10 DEF Next

LEMMA ListInit == Init => ListInv
<1> SUFFICES ASSUME Init PROVE ListInv
  OBVIOUS
<1>1. /\ \A t \in Task : task[t].state = "Free"
      /\ \A g \in Group : group[g].waitingCount = 0
      /\ pending = 0 /\ ~hung /\ \A w \in Worker : pc[w] = "fetch"
  BY DEF Init, FreeTask, NewGroup
<1>2. Unfinished(task) = {} /\ \A g \in Group : WaitersOf(task, g) = {}
  BY <1>1 DEF Unfinished, WaitersOf
<1>3. ListedOK(task, group)
  BY <1>1, <1>2, FS_EmptySet DEF ListedOK, FoundOK, WaitersOK, NamesOK, OutputsOK, InGroup
<1> QED BY <1>1, <1>2, <1>3, FS_EmptySet DEF ListInv, ExitedOK, Listed, PendingOK

LEMMA ListKept ==
    ASSUME TypeInv, TypeInv', StartInv, ListInv, [Next]_vars
    PROVE  ListInv'
<1>1. ExitedOK'
  BY ExitedKept DEF ListInv
<1>2. CASE Freed
  BY <1>1, <1>2, FreedKept DEF ListInv
<1>3. CASE ~Freed /\ \E c \in Client : PoolJoin(c)
  <2>1. Freed'
    BY <1>3, JoinFrees DEF StartInv
  <2>2. hung' = hung
    BY <1>3 DEF PoolJoin
  <2> QED BY <1>1, <2>1, <2>2 DEF ListInv
<1>4. CASE ~Freed /\ \A c \in Client : ~PoolJoin(c)
  BY <1>4, ListedKept, <1>1 DEF StartInv, ListInv
<1> QED BY <1>2, <1>3, <1>4

LEMMA FreedIsPoolFreed ==
    ASSUME Freed, ExitedOK
    PROVE  PoolFreed
BY SetsAssumption DEF Freed, ExitedOK, PoolFreed

-----------------------------------------------------------------------------
(* Until the pool is freed, the lists, the names and the counts are right,  *)
(* and no thread loops with the mutex.                                     *)
THEOREM ListInvariant == Spec => []ListInv
<1>1. TypeInv /\ TypeInv' /\ StartInv /\ ListInv /\ [Next]_vars => ListInv'
  BY ListKept
<1> QED BY <1>1, ListInit, TypeInvariant, StartInvariant, PTL DEF Spec

(* The loop of dependencyMet() comes to its end in every program that keeps *)
(* to the calls modelled: a waiting task and a blocked group never meet.   *)
THEOREM LoopsAlwaysEnd == Spec => []LoopsEnd
<1>1. ListInv => LoopsEnd
  BY DEF ListInv, LoopsEnd
<1> QED BY <1>1, ListInvariant, PTL

(* An output is met by the end of the task that holds it, not before:       *)
(* ldcTaskPoolAddSlicedDeferred() hands the output of the parent over, and *)
(* dependencyMet() then finds none to meet when the parent ends.           *)
THEOREM OutputsAwaitTheirTask == Spec => []UnmetUntilProduced
<1>1. ListInv => UnmetUntilProduced
  BY DEF ListInv, Listed, ListedOK, OutputsOK, InGroup, Freed, UnmetUntilProduced, Live
<1> QED BY <1>1, ListInvariant, PTL

(* The counters that the waits poll count the tasks that have yet to finish *)
(* and the tasks of each group.                                            *)
THEOREM CountsAlwaysAgree == Spec => []CountsAgree
<1>1. ASSUME TypeInv, StartInv, ListInv PROVE CountsAgree
  <2>1. CASE Freed
    BY <1>1, <2>1, FreedIsPoolFreed DEF ListInv, CountsAgree
  <2>2. CASE ~Freed
    <3>1. PendingOK(task, pending) /\ GroupsOK(task, group)
      BY <1>1, <2>2 DEF StartInv, Core, PoolOK, ListInv, Listed
    <3>2. Unfinished(task) = {t \in Live : task[t].state # "Done"}
      BY DEF Unfinished, Live
    <3>3. \A g \in Group : MembersOf(task, g) = Members(g)
      BY DEF MembersOf, Members, Live
    <3> QED BY <3>1, <3>2, <3>3 DEF PendingOK, GroupsOK, CountsAgree
  <2> QED BY <2>1, <2>2
<1> QED BY <1>1, TypeInvariant, StartInvariant, ListInvariant, PTL

(* A waiting task is on the list of the first input it waits for, on no     *)
(* other, and a list holds nothing else: however addTask(),                *)
(* dependencyMet() and ldcTaskGroupUnblock() move the tasks of a group, the *)
(* step that meets the last input of a task finds it.                      *)
THEOREM WaitersAlwaysListed == Spec => []WaitingIsListed
<1>1. ASSUME TypeInv, StartInv, ListInv PROVE WaitingIsListed
  <2>1. CASE Freed
    BY <1>1, <2>1, FreedIsPoolFreed DEF ListInv, WaitingIsListed
  <2>2. CASE ~Freed
    <3>1. FoundOK(task, group) /\ WaitersOK(task, group) /\ ListsOK(task, group)
      BY <1>1, <2>2 DEF StartInv, Core, PoolOK, ListInv, Listed, ListedOK
    <3>2. ASSUME NEW g \in Group, NEW d \in Dep, NEW t \in group[g].waiting[d]
          PROVE  /\ t \in Members(g) /\ task[t].state = "Waiting"
                 /\ d = taskLowestUnmetDependency(task[t].inputs, group[g].met)
                 /\ d \notin group[g].met
      BY <1>1, <3>1, <3>2, StateKinds, GroupsTyped, TaskFields, FirstUnmetIs, FirstUnmetNotMet DEF ListsOK,
         FoundOK, Members, Live
    <3>3. ASSUME NEW g \in Group, NEW t \in Members(g), task[t].state = "Waiting"
          PROVE  \E d \in Dep : t \in group[g].waiting[d]
      BY <3>1, <3>3 DEF FoundOK, Members, Live
    <3>4. \A g \in Group : WaitersOf(task, g) = {t \in Members(g) : task[t].state = "Waiting"}
      BY DEF WaitersOf, Members, Live
    <3> QED BY <3>1, <3>2, <3>3, <3>4 DEF WaitersOK, WaitingIsListed
  <2> QED BY <2>1, <2>2
<1> QED BY <1>1, TypeInvariant, StartInvariant, ListInvariant, PTL

-----------------------------------------------------------------------------
(***************************************************************************)
(* The task pool implements the graph of tasks, TaskGraph, for every value *)
(* of the constants.                                                       *)
(*                                                                         *)
(* A block stands for the abstract task NodeOf of its record.  Every step  *)
(* of the pool changes some blocks by hand, as Admit, Complete or Forget   *)
(* do, and makes those ready that were waiting for nothing any more; the   *)
(* abstract step makes runnable exactly the tasks that are due.  The two   *)
(* agree because a task that waits is found on a list of something unmet   *)
(* (FoundOK) and a task that starts has its inputs met (InputsOK, of       *)
(* StartsAreMet): no task is late, and none is early.                      *)
(***************************************************************************)

(* The abstract task that a block stands for. *)
NodeOf(r) ==
    [phase  |-> CASE r.state = "Free" -> "absent"
                  [] r.state \in {"Waiting", "Blocked"} -> "pending"
                  [] r.state \in {"Ready", "Running"} -> "runnable"
                  [] r.state = "Done" -> "done",
     group  |-> r.group,
     inputs |-> ToSet(r.inputs),
     output |-> r.output]
MetOf(gr) == [g \in Group |-> gr[g].met]
PausedOf(gr) == {g \in Group : gr[g].blocked}

(* No pending task is overdue, and none that is runnable is early. *)
Settled(tk, gr) == FoundOK(tk, gr) /\ InputsOK(tk, gr)

LEMMA NodeIs == Node = [t \in Task |-> NodeOf(task[t])]
BY DEF Node, NodeOf

LEMMA NodeStates ==
    ASSUME NEW r \in TaskRec
    PROVE  /\ NodeOf(r).phase = "pending" <=> r.state \in {"Waiting", "Blocked"}
           /\ NodeOf(r).phase = "runnable" <=> r.state \in Begun
           /\ NodeOf(r).phase = "absent" <=> r.state = "Free"
           /\ NodeOf(r).phase = "done" <=> r.state = "Done"
           /\ NodeOf(r).group = r.group /\ NodeOf(r).inputs = ToSet(r.inputs)
           /\ NodeOf(r).output = r.output
BY TaskFields DEF NodeOf, Begun

LEMMA SameNode ==
    ASSUME NEW r, NEW r1, SameTask(r, r1),
           r1.state = r.state \/ (r1.state \in Begun /\ r.state \in Begun)
           \/ (r1.state \in {"Waiting", "Blocked"} /\ r.state \in {"Waiting", "Blocked"})
    PROVE  NodeOf(r1) = NodeOf(r)
BY DEF SameTask, NodeOf, Begun

(* The abstract task n is that of the block r, or is pending and starts. *)
Starts(n, r, gr) ==
    /\ n.phase = "pending" /\ r.state \in Begun
    /\ NodeOf(r) = [n EXCEPT !.phase = "runnable"]
    /\ n.group = r.group /\ n.inputs = ToSet(r.inputs)
    /\ r.group # NoGroup => r.group \in Group /\ ~gr[r.group].blocked
Becomes(n, r, gr) == n = NodeOf(r) \/ Starts(n, r, gr)

(* What the abstract release makes of the tasks n, in the groups gr. *)
ReleaseOf(n, gr) ==
    [t \in Task |->
        IF /\ n[t].phase = "pending"
           /\ n[t].group # NoGroup =>
                 /\ n[t].group \notin PausedOf(gr)
                 /\ n[t].inputs \subseteq MetOf(gr)[n[t].group]
        THEN [n[t] EXCEPT !.phase = "runnable"]
        ELSE n[t]]

(* The abstract release does what the step did. *)
LEMMA ReleaseIs ==
    ASSUME NEW N, N = [t \in Task |-> N[t]],
           task' \in [Task -> TaskRec], Settled(task', group'),
           \A t \in Task : Becomes(N[t], task'[t], group')
    PROVE  Node' = ReleaseOf(N, group')
<1> DEFINE due(t) == /\ N[t].phase = "pending"
                     /\ N[t].group # NoGroup =>
                           /\ N[t].group \notin PausedOf(group')
                           /\ N[t].inputs \subseteq MetOf(group')[N[t].group]
<1>1. ReleaseOf(N, group') =
         [t \in Task |-> IF due(t) THEN [N[t] EXCEPT !.phase = "runnable"] ELSE N[t]]
  BY DEF ReleaseOf
<1>2. ASSUME NEW t \in Task
      PROVE  NodeOf(task'[t]) = IF due(t) THEN [N[t] EXCEPT !.phase = "runnable"] ELSE N[t]
  <2>1. task'[t] \in TaskRec
    OBVIOUS
  <2>2. CASE N[t] = NodeOf(task'[t])
    <3>1. SUFFICES ASSUME due(t) PROVE FALSE
      BY <2>2
    <3>2. task'[t].state \in {"Waiting", "Blocked"}
      BY <2>1, <2>2, <3>1, NodeStates
    <3>3. /\ task'[t].group \in Group /\ task'[t].group # NoGroup
          /\ N[t].group = task'[t].group /\ N[t].inputs = ToSet(task'[t].inputs)
      BY <2>1, <2>2, <3>2, NodeStates, SetsAssumption DEF Settled, FoundOK
    <3>4. ~group'[task'[t].group].blocked /\ ToSet(task'[t].inputs) \subseteq group'[task'[t].group].met
      BY <3>1, <3>3 DEF PausedOf, MetOf
    <3>5. task'[t].inputs \in Seq(Dep)
      BY <2>1, TaskFields
    <3>6. task'[t].state = "Waiting"
      BY <3>2, <3>4 DEF Settled, FoundOK
    <3> QED BY <3>4, <3>5, <3>6, FirstUnmetNotMet DEF Settled, FoundOK
  <2>3. CASE Starts(N[t], task'[t], group')
    BY <2>3 DEF Starts, Settled, InputsOK, Begun, PausedOf, MetOf
  <2> QED BY <2>2, <2>3 DEF Becomes
<1> HIDE DEF due
<1>3. Node' = [t \in Task |-> NodeOf(task'[t])]
  BY DEF Node, NodeOf
<1> QED BY <1>1, <1>2, <1>3

-----------------------------------------------------------------------------
(* The abstract actions, in terms of blocks and groups. *)

LEMMA NodesSame ==
    ASSUME \A t \in Task : NodeOf(task'[t]) = NodeOf(task[t])
    PROVE  Node' = Node
BY DEF Node, NodeOf

LEMMA GraphStutters ==
    ASSUME Node' = Node,
           \A g \in Group : group'[g].met = group[g].met /\ group'[g].blocked = group[g].blocked
    PROVE  UNCHANGED Graph!graphVars
BY DEF MetOf, PausedOf, Graph!graphVars

(* A group goes on as it was, or with one more dependency met. *)
LEMMA MetAlsoIs ==
    ASSUME NEW g \in Group, NEW d, d # NoDep, group'[g].met = group[g].met \cup {d},
           \A h \in Group \ {g} : group'[h].met = group[h].met
    PROVE  MetOf(group') = Graph!MetAlso(g, d)
BY SetsAssumption DEF Graph!MetAlso, MetOf

LEMMA IsSupply ==
    ASSUME NEW g \in Group, NEW d \in Dep, group'[g].met = group[g].met \cup {d},
           \A h \in Group \ {g} : group'[h].met = group[h].met,
           \A h \in Group : group'[h].blocked = group[h].blocked,
           Node' = Graph!Release(Node)
    PROVE  Graph!Supply(g, d)
BY MetAlsoIs DEF Dep, NoDep, PausedOf, Graph!Supply, MetOf

LEMMA IsPause ==
    ASSUME NEW g \in Group, group'[g].blocked, \A h \in Group : group'[h].met = group[h].met,
           \A h \in Group \ {g} : group'[h].blocked = group[h].blocked, Node' = Node
    PROVE  Graph!Pause(g)
BY DEF MetOf, PausedOf, Graph!Pause

LEMMA IsResume ==
    ASSUME NEW g \in Group, ~group'[g].blocked, \A h \in Group : group'[h].met = group[h].met,
           \A h \in Group \ {g} : group'[h].blocked = group[h].blocked, Node' = Graph!Release(Node)
    PROVE  Graph!Resume(g)
BY DEF MetOf, PausedOf, Graph!Resume

LEMMA IsReset ==
    ASSUME NEW g \in Group, ~group'[g].blocked, group'[g].met = {},
           \A h \in Group \ {g} : group'[h] = group[h],
           \A t \in Task : task[t].group # g, Node' = Node
    PROVE  Graph!Reset(g)
BY DEF MetOf, PausedOf, Node, Graph!Reset

LEMMA FreeNode == NodeOf(FreeTask) = Graph!Absent
BY DEF ToSet, NodeOf, FreeTask, Graph!Absent

LEMMA IsForget ==
    ASSUME TypeInv, NEW t \in Task, task[t].state = "Done", task'[t] = FreeTask,
           \A u \in Task \ {t} : task'[u] = task[u],
           \A g \in Group : group'[g].met = group[g].met /\ group'[g].blocked = group[g].blocked
    PROVE  Graph!Forget(t)
BY FreeNode, NodeIs DEF MetOf, PausedOf, Node, NodeOf, Graph!Forget

LEMMA IsDiscard ==
    ASSUME task' = [t \in Task |-> FreeTask], group' = group
    PROVE  Graph!Discard
BY FreeNode DEF Node, NodeOf, Graph!Discard

(* A new task of a group, or of none. *)
LEMMA IsAdmit ==
    ASSUME TypeInv, TypeInv', Settled(task', group'), NEW t \in Task, task[t].state = "Free",
           task'[t].state \in {"Ready", "Waiting", "Blocked"},
           \A u \in Task \ {t} : task'[u] = task[u],
           \A g \in Group : group'[g].met = group[g].met /\ group'[g].blocked = group[g].blocked,
           task'[t].group \in Group /\ task'[t].state = "Ready" => ~group'[task'[t].group].blocked,
           NEW g, NEW inputs, NEW output, g = task'[t].group, inputs = ToSet(task'[t].inputs),
           output = task'[t].output
    PROVE  Graph!Admit(t, g, inputs, output)
<1> DEFINE r == task'[t]
           new == [phase |-> "pending", group |-> g, inputs |-> inputs, output |-> output]
           N == [Node EXCEPT ![t] = new]
<1>1. MetOf(group') = MetOf(group) /\ PausedOf(group') = PausedOf(group)
  BY DEF MetOf, PausedOf
<1>2. Node[t].phase = "absent"
  BY DEF Node
<1>3. task' \in [Task -> TaskRec] /\ r \in TaskRec
  BY DEF TypeInv, TypeOK
<1>4. /\ N = [u \in Task |-> N[u]] /\ N[t] = new
      /\ \A u \in Task \ {t} : N[u] = NodeOf(task[u])
  <2> HIDE DEF new
  <2> QED BY NodeIs
<1>5. Node' = ReleaseOf(N, group')
  <2>1. ASSUME NEW u \in Task
        PROVE  Becomes(N[u], task'[u], group')
    BY <1>4, <1>3, TaskFields DEF Becomes, NodeOf, Starts, Begun
  <2>2. N = [u \in Task |-> N[u]] /\ Settled(task', group') /\ task' \in [Task -> TaskRec]
    BY <1>3, <1>4
  <2> HIDE DEF N
  <2> QED BY ONLY <2>1, <2>2, ReleaseIs
<1>6. Graph!Release(N) = ReleaseOf(N, group')
  BY DEF Graph!Release, ReleaseOf, MetOf, PausedOf
<1> QED BY <1>1, <1>2, <1>5, <1>6 DEF Graph!Admit, MetOf, PausedOf

LEMMA BecomesReady ==
    ASSUME NEW r \in TaskRec, NEW r1 \in TaskRec, NEW gr, SameTask(r, r1), r1.state = "Ready",
           r.state \in {"Waiting", "Blocked"}, r.group \in Group => ~gr[r.group].blocked
    PROVE  Becomes(NodeOf(r), r1, gr)
BY TaskFields, NodeStates DEF NodeOf, SameTask, Becomes, Starts, Begun

LEMMA ReleaseNode ==
    ASSUME TypeInv', Settled(task', group'),
           \A t \in Task : Becomes(NodeOf(task[t]), task'[t], group')
    PROVE  Node' = Graph!Release(Node)
<1> DEFINE N == Node
<1>1. N = [t \in Task |-> N[t]] /\ \A t \in Task : N[t] = NodeOf(task[t])
  BY NodeIs
<1>2. \A t \in Task : Becomes(N[t], task'[t], group')
  BY <1>1
<1>3. task' \in [Task -> TaskRec] /\ Settled(task', group')
  BY DEF TypeInv, TypeOK
<1>4. Graph!Release(Node) = ReleaseOf(N, group')
  BY DEF Graph!Release, ReleaseOf, MetOf, PausedOf
<1> HIDE DEF N
<1>5. Node' = ReleaseOf(N, group')
  BY ONLY <1>1, <1>2, <1>3, ReleaseIs
<1> QED BY <1>4, <1>5

(* What becomes of the tasks when a dependency is met. *)
MetBecame(tk, tk1, gr, gr1, g, d) ==
    /\ \A u \in Task : Becomes(NodeOf(tk[u]), tk1[u], gr1)
    /\ \A h \in Group : gr1[h].blocked = gr[h].blocked
    /\ gr1[g].met = gr[g].met \cup {d}
    /\ \A h \in Group \ {g} : gr1[h].met = gr[h].met

LEMMA MetBecomes ==
    ASSUME NEW tk \in [Task -> TaskRec], NEW tk1 \in [Task -> TaskRec], NEW gr, NEW gr1,
           NEW g \in Group, NEW d \in Dep, ListsOK(tk, gr), FoundOK(tk, gr),
           gr[g].waiting[d] \subseteq Task, MetEffect(tk, tk1, gr, gr1, g, d)
    PROVE  MetBecame(tk, tk1, gr, gr1, g, d)
<1> DEFINE rel == ReadySet(tk, gr, g, d)
<1>1. /\ \A u \in Task : /\ SameTask(tk[u], tk1[u])
                         /\ tk1[u].state = IF u \in rel THEN "Ready" ELSE tk[u].state
      /\ \A h \in Group : gr1[h].blocked = gr[h].blocked
      /\ gr1[g].met = gr[g].met \cup {d}
      /\ \A h \in Group \ {g} : gr1[h].met = gr[h].met
  BY DEF MetEffect, SameGroup
<1>2. \A u \in rel : u \in Task /\ tk[u].state = "Waiting" /\ tk[u].group = g
  BY DEF ReadySet, ListsOK
<1> HIDE DEF rel
<1>3. ASSUME NEW u \in Task PROVE Becomes(NodeOf(tk[u]), tk1[u], gr1)
  BY <1>1, <1>2, BecomesReady, SameNode DEF FoundOK, Becomes
<1> QED BY <1>1, <1>3 DEF MetBecame

LEMMA UnblockBecomes ==
    ASSUME NEW tk \in [Task -> TaskRec], NEW tk1 \in [Task -> TaskRec], NEW gr, NEW gr1,
           NEW g \in Group, BlockedOK(tk, gr), UnblockEffect(tk, tk1, gr, gr1, g)
    PROVE  \A u \in Task : Becomes(NodeOf(tk[u]), tk1[u], gr1)
<1> DEFINE list == gr[g].blockedTasks
           rel  == {u \in list : ToSet(tk[u].inputs) \subseteq gr[g].met}
<1>1. /\ \A u \in Task : /\ SameTask(tk[u], tk1[u])
                         /\ tk1[u].state = IF u \in rel THEN "Ready"
                                           ELSE IF u \in list THEN "Waiting" ELSE tk[u].state
      /\ ~gr1[g].blocked /\ rel \subseteq list
      /\ \A u \in list : tk[u].state = "Blocked" /\ tk[u].group = g
  BY DEF UnblockEffect, BlockedOK
<1> HIDE DEF list, rel
<1> SUFFICES ASSUME NEW u \in Task PROVE Becomes(NodeOf(tk[u]), tk1[u], gr1)
  OBVIOUS
<1>2. CASE u \in rel
  BY <1>1, <1>2, BecomesReady
<1>3. CASE u \notin rel
  BY <1>1, <1>3, SameNode DEF Becomes
<1> QED BY <1>2, <1>3

(* The end of a task. *)
LEMMA IsComplete ==
    ASSUME TypeInv, TypeInv', Core, Listed, Settled(task', group'), NEW t \in Task,
           task[t].state \in Begun, NEW g, g = task[t].group, NEW o, o = task[t].output,
           NEW tk \in [Task -> TaskRec], LeaveEffect(task, tk, group, group, t),
           g # NoGroup /\ o # NoDep =>
              g \in Group /\ o \in Dep /\ MetEffect(tk, task', group, group', g, o),
           g = NoGroup \/ o = NoDep => task' = tk /\ \A h \in Group : SameGroup(group[h], group'[h])
    PROVE  Graph!Complete(t)
<1> DEFINE N == [u \in Task |-> NodeOf(tk[u])]
<1>1. task' \in [Task -> TaskRec] /\ task[t] \in TaskRec /\ tk[t] \in TaskRec
  BY DEF TypeInv, TypeOK
<1>2. /\ Node[t].phase = "runnable" /\ Node[t].group = g /\ Node[t].output = o
  BY <1>1, NodeIs, NodeStates
<1>3. \/ N = [Node EXCEPT ![t].phase = "done"]
      \/ N = [Node EXCEPT ![t] = Graph!Absent]
  BY NodeIs, FreeNode DEF LeaveEffect, NodeOf, SameTask
<1>4. /\ \A u \in Task : Becomes(NodeOf(tk[u]), task'[u], group')
      /\ MetOf(group') = Graph!MetAlso(g, o)
      /\ PausedOf(group') = PausedOf(group)
  <2>1. CASE g # NoGroup /\ o # NoDep
    <3>1. g \in Group /\ o \in Dep /\ MetEffect(tk, task', group, group', g, o)
      BY <2>1
    <3>2. ListsOK(tk, group)
      BY StateKinds DEF LeaveEffect, Begun, Core, PoolOK, ListsOK
    <3>3. FoundOK(tk, group)
      BY GroupsTyped, LeaveListed DEF Listed, ListedOK
    <3>4. group[g].waiting[o] \subseteq Task
      BY <3>1, StateKinds
    <3>5. /\ \A u \in Task : Becomes(NodeOf(tk[u]), task'[u], group')
          /\ \A h \in Group : group'[h].blocked = group[h].blocked
          /\ group'[g].met = group[g].met \cup {o}
          /\ \A h \in Group \ {g} : group'[h].met = group[h].met
      <4>1. tk \in [Task -> TaskRec] /\ task' \in [Task -> TaskRec]
        BY <1>1
      <4>2. MetBecame(tk, task', group, group', g, o)
        BY ONLY <3>1, <3>2, <3>3, <3>4, <4>1, MetBecomes
      <4> QED BY <4>2 DEF MetBecame
    <3>6. MetOf(group') = Graph!MetAlso(g, o)
      BY <2>1, <3>1, <3>5, MetAlsoIs
    <3>7. PausedOf(group') = PausedOf(group)
      BY <3>5 DEF PausedOf
    <3> QED BY <3>5, <3>6, <3>7
  <2>2. CASE g = NoGroup \/ o = NoDep
    BY <2>2 DEF MetOf, PausedOf, SameGroup, Graph!MetAlso, Becomes
  <2> QED BY <2>1, <2>2
<1>5. N = [u \in Task |-> N[u]] /\ \A u \in Task : Becomes(N[u], task'[u], group')
  BY <1>4
<1> HIDE DEF N
<1>7. Node' = ReleaseOf(N, group')
  BY <1>1, <1>5, ReleaseIs
<1>8. Node' = Graph!Release([Node EXCEPT ![t].phase = "done"])
         \/ Node' = Graph!Release([Node EXCEPT ![t] = Graph!Absent])
  BY <1>3, <1>7 DEF Graph!Release, ReleaseOf, MetOf, PausedOf
<1> QED BY <1>2, <1>4, <1>8 DEF Graph!Complete, MetOf, PausedOf

(* A task hands its inputs and its output over to a new one. *)
LEMMA IsDelegate ==
    ASSUME TypeInv, TypeInv', Settled(task', group'), NEW t \in Task, NEW p \in Task,
           task[t].state = "Free", task[p].state \in Begun,
           task'[t].state \in {"Ready", "Waiting", "Blocked"},
           task'[t].group = task[p].group, task'[t].inputs = task[p].inputs,
           task'[t].output = task[p].output,
           task'[p] = [task[p] EXCEPT !.output = NoDep],
           \A u \in Task \ {t, p} : task'[u] = task[u],
           \A g \in Group : group'[g].met = group[g].met /\ group'[g].blocked = group[g].blocked,
           task'[t].group \in Group /\ task'[t].state = "Ready" => ~group'[task'[t].group].blocked
    PROVE  Graph!Delegate(p, t)
<1> DEFINE new == [Node[p] EXCEPT !.phase = "pending"]
           N == [Node EXCEPT ![p].output = NoDep, ![t] = new]
<1>1. MetOf(group') = MetOf(group) /\ PausedOf(group') = PausedOf(group)
  BY DEF MetOf, PausedOf
<1>2. /\ task' \in [Task -> TaskRec] /\ task'[t] \in TaskRec /\ task[p] \in TaskRec
      /\ task'[p] \in TaskRec
  BY DEF TypeInv, TypeOK
<1>3. Node[t].phase = "absent" /\ Node[p].phase = "runnable" /\ t # p
  BY DEF Node, Begun
<1>4. Node[p] = NodeOf(task[p]) /\ Node = [u \in Task |-> Node[u]]
  BY NodeIs
<1>5. /\ N[t] = new /\ N[p] = [Node[p] EXCEPT !.output = NoDep]
      /\ \A u \in Task \ {t, p} : N[u] = Node[u]
      /\ N = [u \in Task |-> N[u]]
  <2> HIDE DEF new
  <2> QED BY <1>3, <1>4
<1>6. N[p] = NodeOf(task'[p])
  <2>1. /\ task'[p].state = task[p].state /\ task'[p].group = task[p].group
        /\ task'[p].inputs = task[p].inputs /\ task'[p].output = NoDep
        /\ task[p].state \in {"Ready", "Running"}
    BY <1>2 DEF TaskRec, Begun
  <2>2. N[p] = [NodeOf(task[p]) EXCEPT !.output = NoDep]
    BY <1>4, <1>5
  <2> QED BY ONLY <2>1, <2>2 DEF NodeOf
<1>7. Becomes(N[t], task'[t], group')
  <2>1. new = [phase |-> "pending", group |-> task[p].group, inputs |-> ToSet(task[p].inputs),
               output |-> task[p].output]
    BY <1>4 DEF NodeOf
  <2>2. task'[t].group \in Group \cup {NoGroup}
    BY <1>2, TaskFields
  <2>5. /\ task'[t].group = task[p].group /\ task'[t].inputs = task[p].inputs
        /\ task'[t].output = task[p].output /\ task'[t].state \in {"Ready", "Waiting", "Blocked"}
    OBVIOUS
  <2>3. CASE task'[t].state = "Ready"
    <3>1. NodeOf(task'[t]) = [new EXCEPT !.phase = "runnable"]
      <4>1. NodeOf(task'[t]) = [phase |-> "runnable", group |-> task[p].group,
                                inputs |-> ToSet(task[p].inputs), output |-> task[p].output]
        BY ONLY <2>3, <2>5 DEF NodeOf
      <4> HIDE DEF new
      <4> QED BY ONLY <2>1, <4>1
    <3>2. new.phase = "pending" /\ new.group = task'[t].group /\ new.inputs = ToSet(task'[t].inputs)
      BY <2>1
    <3> HIDE DEF new
    <3> QED BY <1>5, <2>2, <2>3, <3>1, <3>2 DEF Becomes, Starts, Begun
  <2>4. CASE task'[t].state # "Ready"
    BY <2>1, <2>4, <2>5, <1>5 DEF NodeOf, Becomes
  <2> QED BY <2>3, <2>4
<1>8. \A u \in Task : Becomes(N[u], task'[u], group')
  <2>1. \A u \in Task \ {t, p} : N[u] = NodeOf(task'[u])
    BY <1>5, NodeIs
  <2> HIDE DEF N
  <2> QED BY <1>6, <1>7, <2>1 DEF Becomes
<1>9. Graph!Release(N) = ReleaseOf(N, group')
  BY DEF Graph!Release, ReleaseOf, MetOf, PausedOf
<1>10. Node' = ReleaseOf(N, group')
  <2>1. task' \in [Task -> TaskRec] /\ Settled(task', group') /\ N = [u \in Task |-> N[u]]
    BY <1>2, <1>5
  <2> HIDE DEF N
  <2> QED BY ONLY <1>8, <2>1, ReleaseIs
<1>11. Graph!Release(N) = Graph!Release([Node EXCEPT ![p].output = NoDep,
                                                     ![t] = [Node[p] EXCEPT !.phase = "pending"]])
  OBVIOUS
<1> HIDE DEF N
<1> QED BY <1>1, <1>3, <1>9, <1>10, <1>11 DEF Graph!Delegate, MetOf, PausedOf

-----------------------------------------------------------------------------
(* Every step of the pool is a step of the graph, or none. *)

(* What addTask() makes of a block. *)
LEMMA AddedTask ==
    ASSUME TypeInv, NEW tk \in [Task -> TaskRec], NEW t \in Task, NEW g \in Group \cup {NoGroup},
           NEW shape, NEW output, NEW sliced, addTask(tk, t, g, shape, output, sliced)
    PROVE  /\ tk[t].state = "Free" /\ \A u \in Task \ {t} : task'[u] = tk[u]
           /\ task'[t].group = g /\ task'[t].inputs = shape.inputs /\ task'[t].output = output
           /\ task'[t].state \in {"Ready", "Waiting", "Blocked"}
           /\ \A h \in Group : group'[h].met = group[h].met /\ group'[h].blocked = group[h].blocked
           /\ g \in Group /\ task'[t].state = "Ready" => ~group[g].blocked
<1> DEFINE inputs == shape.inputs
           met == IF g = NoGroup THEN {} ELSE group[g].met
           state == IF g # NoGroup /\ group[g].blocked THEN "Blocked"
                    ELSE IF taskDependenciesMet(inputs, met) THEN "Ready"
                    ELSE "Waiting"
           list == taskLowestUnmetDependency(inputs, met)
           listed == [group[g].waiting EXCEPT ![list] = @ \cup {t}]
           r == [group[g] EXCEPT !.tasksCount = @ + 1,
                            !.blockedTasks = IF state = "Blocked" THEN @ \cup {t} ELSE @,
                            !.waiting = IF state = "Waiting" THEN listed ELSE @,
                            !.waitingCount = IF state = "Waiting" THEN @ + 1 ELSE @]
<1>1. /\ tk[t].state = "Free"
      /\ task' = [tk EXCEPT ![t] = NewTask(state, g, shape, output, sliced)]
      /\ group' = IF g = NoGroup THEN group ELSE [group EXCEPT ![g] = r]
  BY DEF addTask
<1>2. state \in {"Ready", "Waiting", "Blocked"} /\ (g \in Group /\ state = "Ready" => ~group[g].blocked)
  BY SetsAssumption
<1>3. group \in [Group -> GroupRec]
  BY GroupsTyped
<1>4. g \in Group => r.met = group[g].met /\ r.blocked = group[g].blocked
  <2> SUFFICES ASSUME g \in Group PROVE r.met = group[g].met /\ r.blocked = group[g].blocked
    OBVIOUS
  <2>1. group[g] \in GroupRec
    BY <1>3
  <2> HIDE DEF state, listed
  <2> QED BY <2>1 DEF GroupRec
<1> HIDE DEF state, r
<1>5. /\ \A u \in Task \ {t} : task'[u] = tk[u]
      /\ task'[t].group = g /\ task'[t].inputs = shape.inputs /\ task'[t].output = output
      /\ task'[t].state = state
  BY <1>1 DEF NewTask
<1>6. \A h \in Group : group'[h].met = group[h].met /\ group'[h].blocked = group[h].blocked
  BY <1>1, <1>3, <1>4
<1> QED BY <1>1, <1>2, <1>5, <1>6

(* The step of an abstract action is one of the abstract graph. *)
LEMMA AdmitStep ==
    ASSUME TypeInv, TypeInv', Settled(task', group'), NEW t \in Task, task[t].state = "Free",
           task'[t].state \in {"Ready", "Waiting", "Blocked"},
           \A u \in Task \ {t} : task'[u] = task[u],
           \A g \in Group : group'[g].met = group[g].met /\ group'[g].blocked = group[g].blocked,
           task'[t].group \in Group /\ task'[t].state = "Ready" => ~group'[task'[t].group].blocked
    PROVE  Graph!GraphNext
<1>1. task'[t] \in TaskRec
  BY DEF TypeInv, TypeOK
<1>2. /\ task'[t].group \in Group \cup {NoGroup} /\ task'[t].output \in Dep \cup {NoDep}
      /\ task'[t].inputs \in Seq(Dep)
  BY <1>1, TaskFields
<1>3. ToSet(task'[t].inputs) \in SUBSET Dep
  BY <1>2 DEF ToSet
<1>4. PICK g \in Group \cup {NoGroup}, inputs \in SUBSET Dep, output \in Dep \cup {NoDep} :
         g = task'[t].group /\ inputs = ToSet(task'[t].inputs) /\ output = task'[t].output
  BY <1>2, <1>3
<1>5. Graph!Admit(t, g, inputs, output)
  BY <1>4, IsAdmit
<1> QED BY <1>5 DEF Graph!GraphNext

LEMMA DelegateStep ==
    ASSUME TypeInv, TypeInv', Core, Settled(task', group'), NEW w \in Worker, NEW t \in Task,
           NEW shape \in Shapes, AddSlicedDeferred(w, t, shape)
    PROVE  Graph!GraphNext
<1> DEFINE p == part[w].task
           g == task[p].group
           o == task[p].output
           tk == [task EXCEPT ![p] = [task[p] EXCEPT !.output = NoDep]]
           shape2 == [shape EXCEPT !.inputs = task[p].inputs]
<1>1. pc[w] \in Working
  BY DEF AddSlicedDeferred, MayCall, Working
<1>2. p \in Task /\ task[p].state \in Begun /\ task[p] \in TaskRec /\ task \in [Task -> TaskRec]
  BY <1>1, Kinds, GroupsTyped DEF Core, KindsOK, PartsOK, HandsOK, Part, PieceOK
<1>3. addTask(tk, t, g, shape2, o, TRUE)
  BY DEF AddSlicedDeferred
<1>4. g \in Group \cup {NoGroup}
  BY <1>2, TaskFields
<1>5. shape \in [inputs : Seq(Dep), total : Nat \ {0}, finisher : BOOLEAN]
  BY BoundsAssumption
<1>6. shape2.inputs = task[p].inputs
  BY <1>5
<1>7. [task[p] EXCEPT !.output = NoDep] \in TaskRec
  BY <1>2, TaskFlags
<1>8. /\ tk \in [Task -> TaskRec] /\ tk[p] = [task[p] EXCEPT !.output = NoDep]
      /\ \A u \in Task \ {p} : tk[u] = task[u]
  <2> HIDE DEF p
  <2> QED BY <1>2, <1>7
<1>9. tk[p].state = task[p].state
  BY <1>2, <1>8 DEF TaskRec
<1> HIDE DEF tk, shape2, p
<1>10. /\ tk[t].state = "Free" /\ \A u \in Task \ {t} : task'[u] = tk[u]
       /\ task'[t].group = g /\ task'[t].inputs = shape2.inputs /\ task'[t].output = o
       /\ task'[t].state \in {"Ready", "Waiting", "Blocked"}
       /\ \A h \in Group : group'[h].met = group[h].met /\ group'[h].blocked = group[h].blocked
       /\ g \in Group /\ task'[t].state = "Ready" => ~group[g].blocked
  BY <1>3, <1>4, <1>8, AddedTask
<1>11. p # t
  BY <1>2, <1>9, <1>10 DEF Begun
<1>12. /\ task'[p] = [task[p] EXCEPT !.output = NoDep] /\ task[t].state = "Free"
       /\ \A u \in Task \ {t, p} : task'[u] = task[u]
       /\ task'[t].group \in Group /\ task'[t].state = "Ready" => ~group'[task'[t].group].blocked
  BY <1>2, <1>8, <1>10, <1>11
<1>13. /\ task'[t].group = task[p].group /\ task'[t].inputs = task[p].inputs
       /\ task'[t].output = task[p].output
  BY <1>6, <1>10
<1>14. PICK q \in Task : q = p
  BY <1>2
<1>15. Graph!Delegate(q, t)
  BY <1>2, <1>10, <1>12, <1>13, <1>14, IsDelegate
<1> QED BY <1>15 DEF Graph!GraphNext

LEMMA FinishStep ==
    ASSUME TypeInv, TypeInv', Core, Listed, ~hung', Settled(task', group'), NEW w \in Worker,
           WorkerFinish(w)
    PROVE  Graph!GraphNext
<1> DEFINE t == part[w].task
           g == task[t].group
           o == task[t].output
<1>1. PICK tk \in [Task -> TaskRec] :
              /\ LeaveEffect(task, tk, group, group, t)
              /\ t \in Task /\ g \in Group \cup {NoGroup} /\ task[t].state \in Begun
              /\ g # NoGroup /\ o # NoDep =>
                    o \in Dep /\ o \notin group[g].met /\ MetEffect(tk, task', group, group', g, o)
              /\ g = NoGroup \/ o = NoDep =>
                    task' = tk /\ \A h \in Group : SameGroup(group[h], group'[h])
  BY FinishEffects DEF Listed
<1> HIDE DEF t, g, o
<1>2. g # NoGroup /\ o # NoDep => g \in Group /\ o \in Dep /\ MetEffect(tk, task', group, group', g, o)
  BY <1>1
<1>3. g = task[t].group /\ o = task[t].output
  BY DEF g, o
<1>4. PICK u \in Task, h \in {g}, e \in {o} : u = t /\ h = g /\ e = o
  BY <1>1
<1>5. Graph!Complete(u)
  BY <1>1, <1>2, <1>3, <1>4, IsComplete
<1> QED BY <1>5 DEF Graph!GraphNext

LEMMA StutterStep ==
    ASSUME \A t \in Task : SameTask(task[t], task'[t]),
           \A t \in Task : task'[t].state = task[t].state
                              \/ (task'[t].state \in Begun /\ task[t].state \in Begun),
           \A g \in Group : group'[g].met = group[g].met /\ group'[g].blocked = group[g].blocked
    PROVE  UNCHANGED Graph!graphVars
BY SameNode, NodesSame, GraphStutters

(* A free block is of no group. *)
AbsentOK == \A t \in Task : Node[t].phase = "absent" => Node[t].group = NoGroup

LEMMA GraphStep ==
    ASSUME TypeInv, TypeInv', Core, Core', Listed, Listed', ~hung', AbsentOK,
           [Next]_vars, \A c \in Client : ~PoolJoin(c)
    PROVE  Graph!GraphNext \/ UNCHANGED Graph!graphVars
<1>1. Settled(task', group')
  BY DEF Core, PoolOK, Listed, ListedOK, Settled
<1>2. ASSUME UNCHANGED <<task, group>> PROVE UNCHANGED Graph!graphVars
  BY <1>2, StutterStep DEF SameTask
<1>3. ASSUME NEW w \in Worker, WorkerStep(w) PROVE Graph!GraphNext \/ UNCHANGED Graph!graphVars
  BY <1>2, RunEffect, StutterStep, <1>1, FinishStep, <1>3 DEF WorkerExit, WorkerSleep, poolVars, WorkerRun,
     WorkerPartDone, WorkerCompletion, KeptEffect, WorkerStep
<1>4. ASSUME NEW t \in Task, task[t].state = "Done", removeTask(t) PROVE Graph!GraphNext
  BY <1>4, RemoveEffect, GroupsTyped, IsForget DEF removeTask, LeaveEffect, SameGroup, Graph!GraphNext
<1>5. ASSUME NEW a \in Actor, CallStep(a) PROVE Graph!GraphNext \/ UNCHANGED Graph!graphVars
  <2>1. CASE NoWait(a)
    <3>1. CASE task[call[a].task].state = "Done"
      BY <2>1, <1>4, <3>1 DEF NoWait, TypeInv, TypeOK, Call, Waits, Idle
    <3>2. CASE task[call[a].task].state # "Done"
      BY <2>1, <3>2, DetachEffect, StutterStep DEF NoWait, KeptEffect
    <3> QED BY <3>1, <3>2
  <2>2. CASE a \in Client /\ WaitSleep(a)
    BY <1>2, <2>2 DEF WaitSleep, poolVars
  <2>3. CASE a \in Client /\ WaitReturn(a)
    <3>1. CASE call[a].op = "taskWait"
      BY <2>3, <3>1, <1>4 DEF WaitReturn, Satisfied, Waiting, Waits
    <3>2. CASE call[a].op # "taskWait"
      BY <1>2, <2>3, <3>2 DEF WaitReturn
    <3> QED BY <3>1, <3>2
  <2> QED BY <1>5, <2>1, <2>2, <2>3 DEF CallStep
<1>6. ASSUME NEW a \in Actor, NEW g \in Group, NEW d \in Dep, DependencyMet(a, g, d)
      PROVE  Graph!GraphNext
  <2>1. ~NeverEnds(g, d)
    BY LoopEnds
  <2>2. MetEffect(task, task', group, group', g, d)
    BY <1>6, <2>1, MetByCall
  <2>3. /\ task \in [Task -> TaskRec] /\ task' \in [Task -> TaskRec]
        /\ ListsOK(task, group) /\ FoundOK(task, group) /\ group[g].waiting[d] \subseteq Task
    BY StateKinds DEF TypeInv, TypeOK, Core, PoolOK, Listed, ListedOK
  <2>4. MetBecame(task, task', group, group', g, d)
    BY ONLY <1>6, <2>2, <2>3, MetBecomes
  <2>5. Node' = Graph!Release(Node)
    BY <1>1, <2>4, ReleaseNode DEF MetBecame
  <2>6. Graph!Supply(g, d)
    BY <2>4, <2>5, IsSupply DEF MetBecame
  <2> QED BY <2>6 DEF Graph!GraphNext
<1>7. ASSUME NEW c \in Client, NEW g \in Group, GroupInitialize(c, g) \/ GroupDestroy(c, g)
      PROVE  Graph!GraphNext
  <2>1. EmptyEffect(task, task', group, group', g)
    BY <1>7, RenewEffect
  <2>2. Node' = Node
    BY <2>1, NodesSame DEF EmptyEffect
  <2>3. \A t \in Task : task[t].group # g
    BY <2>1, SetsAssumption DEF EmptyEffect, MembersOf, Node, AbsentOK
  <2>4. Graph!Reset(g)
    BY <2>1, <2>2, <2>3, IsReset DEF EmptyEffect
  <2> QED BY <2>4 DEF Graph!GraphNext
<1>8. ASSUME NEW c \in Client, NEW g \in Group
      PROVE  /\ DependencyAdd(c, g) => UNCHANGED Graph!graphVars
             /\ DependencyAddMet(c, g) \/ GroupBlock(c, g) => Graph!GraphNext
  <2>1. group \in [Group -> GroupRec] /\ group[g] \in GroupRec
    BY GroupsTyped
  <2>2. ASSUME UNCHANGED task PROVE Node' = Node
    BY <2>2, NodesSame
  <2>3. ASSUME DependencyAdd(c, g) PROVE UNCHANGED Graph!graphVars
    <3> DEFINE n == group[g].depCount + 1
               s == IF group[g].depCount >= group[g].depReserved THEN 2 * group[g].depReserved
                    ELSE group[g].depReserved
               r == [group[g] EXCEPT !.depCount = n, !.depReserved = s]
    <3>1. group' = [group EXCEPT ![g] = r] /\ task' = task
      BY <2>1, <2>3 DEF DependencyAdd
    <3> HIDE DEF n, s
    <3>2. r.met = group[g].met /\ r.blocked = group[g].blocked
      BY <2>1 DEF GroupRec
    <3> HIDE DEF r
    <3>3. \A h \in Group : group'[h].met = group[h].met /\ group'[h].blocked = group[h].blocked
      BY <2>1, <3>1, <3>2
    <3> QED BY <2>2, <3>1, <3>3, GraphStutters
  <2>4. ASSUME DependencyAddMet(c, g) PROVE Graph!GraphNext
    <3> DEFINE d == group[g].depCount
               n == IF d < group[g].depReserved THEN d + 1 ELSE d
               s == IF d < group[g].depReserved THEN group[g].depReserved ELSE 2 * group[g].depReserved
               m == group[g].met \cup {d}
               r == [group[g] EXCEPT !.met = m, !.depCount = n, !.depReserved = s]
    <3>1. group' = [group EXCEPT ![g] = r] /\ task' = task
      BY <2>1, <2>4 DEF DependencyAddMet
    <3>2. d \in Dep
      BY <2>1, <2>4, GroupFields, BoundsAssumption DEF DependencyAddMet, Dep
    <3>3. m = group[g].met \cup {d}
      OBVIOUS
    <3> HIDE DEF n, s, d, m
    <3>4. r.met = m /\ r.blocked = group[g].blocked
      BY <2>1 DEF GroupRec
    <3> HIDE DEF r
    <3>5. /\ group'[g].met = group[g].met \cup {d}
          /\ \A h \in Group : group'[h].blocked = group[h].blocked
          /\ \A h \in Group \ {g} : group'[h].met = group[h].met
      BY <2>1, <3>1, <3>3, <3>4
    <3>6. Node' = Graph!Release(Node)
      BY <3>1, <1>1, ReleaseNode DEF Becomes
    <3>7. PICK e \in Dep : e = d
      BY <3>2
    <3>8. Graph!Supply(g, e)
      BY <3>5, <3>6, <3>7, IsSupply
    <3> QED BY <3>8 DEF Graph!GraphNext
  <2>5. ASSUME GroupBlock(c, g) PROVE Graph!GraphNext
    <3> DEFINE r == [group[g] EXCEPT !.blocked = TRUE]
    <3>1. group' = [group EXCEPT ![g] = r] /\ task' = task
      BY <2>1, <2>5 DEF GroupBlock
    <3>2. r.met = group[g].met /\ r.blocked
      BY <2>1 DEF GroupRec
    <3> HIDE DEF r
    <3>3. Graph!Pause(g)
      BY <2>1, <2>2, <3>1, <3>2, IsPause
    <3> QED BY <3>3 DEF Graph!GraphNext
  <2> QED BY <2>3, <2>4, <2>5
<1>9. ASSUME NEW c \in Client, NEW g \in Group, GroupUnblock(c, g) PROVE Graph!GraphNext
  <2>1. UnblockEffect(task, task', group, group', g)
    BY <1>9, UnblockedEffect
  <2>2. task \in [Task -> TaskRec] /\ task' \in [Task -> TaskRec] /\ BlockedOK(task, group)
    BY DEF TypeInv, TypeOK, Core, PoolOK
  <2>3. \A u \in Task : Becomes(NodeOf(task[u]), task'[u], group')
    BY ONLY <1>9, <2>1, <2>2, UnblockBecomes
  <2>4. Node' = Graph!Release(Node)
    BY <1>1, <2>3, ReleaseNode
  <2>5. Graph!Resume(g)
    BY <2>1, <2>4, IsResume DEF UnblockEffect, SameGroup
  <2> QED BY <2>5 DEF Graph!GraphNext
<1>10. ASSUME NEW g \in Group \cup {NoGroup}, NEW t \in Task, NEW shape, NEW output,
              addTask(task, t, g, shape, output, FALSE)
       PROVE  Graph!GraphNext
  <2>1. /\ task[t].state = "Free" /\ \A u \in Task \ {t} : task'[u] = task[u]
        /\ task'[t].group = g /\ task'[t].state \in {"Ready", "Waiting", "Blocked"}
        /\ \A h \in Group : group'[h].met = group[h].met /\ group'[h].blocked = group[h].blocked
        /\ g \in Group /\ task'[t].state = "Ready" => ~group[g].blocked
    <3>1. PICK tk \in [Task -> TaskRec], sliced \in BOOLEAN : tk = task /\ sliced = FALSE
      BY GroupsTyped
    <3>2. addTask(tk, t, g, shape, output, sliced)
      BY <1>10, <3>1 DEF addTask
    <3>3. /\ tk[t].state = "Free" /\ \A u \in Task \ {t} : task'[u] = tk[u]
          /\ task'[t].group = g /\ task'[t].state \in {"Ready", "Waiting", "Blocked"}
          /\ \A h \in Group : group'[h].met = group[h].met /\ group'[h].blocked = group[h].blocked
          /\ g \in Group /\ task'[t].state = "Ready" => ~group[g].blocked
      BY ONLY TypeInv, <3>2, AddedTask
    <3> QED BY <3>1, <3>3
  <2>2. task'[t].group \in Group /\ task'[t].state = "Ready" => ~group'[task'[t].group].blocked
    BY <2>1
  <2> QED BY <1>1, <2>1, <2>2, AdmitStep
<1>11. ASSUME NEW c \in Client, NEW g \in Group, NEW t \in Task, NEW shape \in Shapes,
              GroupAdd(c, g, t, shape)
       PROVE  Graph!GraphNext
  BY <1>10, <1>11 DEF GroupAdd
<1>12. ASSUME NEW c \in Client, NEW t \in Task, NEW shape \in Shapes, PoolAdd(c, t, shape)
       PROVE  Graph!GraphNext
  BY <1>10, <1>12 DEF PoolAdd
<1>13. ASSUME NEW w \in Worker, NEW t \in Task, NEW shape \in Shapes, AddSlicedDeferred(w, t, shape)
       PROVE  Graph!GraphNext
  BY <1>1, <1>13, DelegateStep
<1>14. ASSUME NEW c \in Client
       PROVE  /\ \A t \in Task : PoolNoWait(c, t) => UNCHANGED Graph!graphVars
              /\ \A wait \in Waits : WaitStart(c, wait) => UNCHANGED Graph!graphVars
              /\ PoolDestroy(c) => UNCHANGED Graph!graphVars
  BY <1>2 DEF PoolNoWait, WaitStart, PoolDestroy, poolVars
<1>15. CASE Destroyed \/ UNCHANGED vars
  BY <1>2, <1>15 DEF Destroyed, vars, poolVars
<1> QED BY <1>3, <1>5, <1>6, <1>7, <1>8, <1>9, <1>11, <1>12, <1>13, <1>14, <1>15 DEF Next

(* A step of the graph leaves a task that is absent without a group. *)
LEMMA AbsentKept ==
    ASSUME AbsentOK, Graph!GraphNext \/ UNCHANGED Graph!graphVars
    PROVE  AbsentOK'
<1> DEFINE OK(N) == \A t \in Task : N[t].phase = "absent" => N[t].group = NoGroup
<1>1. ASSUME NEW N, OK(N), Node' = ReleaseOf(N, group') PROVE OK(Node')
  BY <1>1 DEF ReleaseOf
<1>3. OK(Node) /\ Node = [t \in Task |-> Node[t]]
  BY NodeIs DEF AbsentOK
<1>4. Graph!Absent.phase = "absent" /\ Graph!Absent.group = NoGroup
  BY DEF Graph!Absent
<1>5. ASSUME NEW t \in Task, Graph!Complete(t) PROVE OK(Node')
  <2> DEFINE N1 == [Node EXCEPT ![t].phase = "done"]
             N2 == [Node EXCEPT ![t] = Graph!Absent]
  <2>1. Node' = ReleaseOf(N1, group') \/ Node' = ReleaseOf(N2, group')
    BY <1>5 DEF Graph!Complete, Graph!Release, ReleaseOf, MetOf, PausedOf
  <2>2. OK(N1) /\ OK(N2)
    BY <1>3, <1>4
  <2> HIDE DEF N1, N2, OK
  <2> QED BY <1>1, <2>1, <2>2
<1>6. ASSUME NEW t \in Task, Graph!Forget(t) PROVE OK(Node')
  BY <1>3, <1>4, <1>6 DEF Graph!Forget
<1>7. ASSUME NEW t \in Task, NEW g, NEW inputs, NEW output, Graph!Admit(t, g, inputs, output)
      PROVE  OK(Node')
  <2> DEFINE N == [Node EXCEPT ![t] = [phase |-> "pending", group |-> g, inputs |-> inputs,
                                       output |-> output]]
  <2>1. Node' = ReleaseOf(N, group')
    BY <1>7 DEF Graph!Admit, Graph!Release, ReleaseOf, MetOf, PausedOf
  <2>2. OK(N)
    BY <1>3
  <2> HIDE DEF N, OK
  <2> QED BY <1>1, <2>1, <2>2
<1>8. ASSUME NEW p \in Task, NEW t \in Task, Graph!Delegate(p, t) PROVE OK(Node')
  <2> DEFINE N == [Node EXCEPT ![p].output = NoDep,
                               ![t] = [Node[p] EXCEPT !.phase = "pending"]]
  <2>1. Node' = ReleaseOf(N, group')
    BY <1>8 DEF Graph!Delegate, Graph!Release, ReleaseOf, MetOf, PausedOf
  <2>2. OK(N)
    <3>1. Node[p].phase = "runnable"
      BY <1>8 DEF Graph!Delegate
    <3>2. N[p].phase # "absent" /\ N[t].phase # "absent"
      BY <1>3, <3>1 DEF Node
    <3>3. \A u \in Task \ {p, t} : N[u] = Node[u]
      BY <1>3
    <3> HIDE DEF N
    <3> QED BY <1>3, <3>2, <3>3
  <2> HIDE DEF N, OK
  <2> QED BY <1>1, <2>1, <2>2
<1>9. ASSUME NEW g \in Group, Graph!Pause(g) \/ Graph!Resume(g) \/ Graph!Reset(g)
                              \/ \E d \in Dep : Graph!Supply(g, d)
      PROVE  OK(Node')
  <2>1. Node' = Node \/ Node' = ReleaseOf(Node, group')
    BY <1>9 DEF Graph!Pause, Graph!Resume, Graph!Reset, Graph!Supply, Graph!Release, ReleaseOf,
                MetOf, PausedOf
  <2> HIDE DEF OK
  <2> QED BY <1>1, <1>3, <2>1
<1>10. ASSUME Graph!Discard \/ UNCHANGED Graph!graphVars PROVE OK(Node')
  BY <1>3, <1>4, <1>10 DEF Graph!Discard, Graph!graphVars
<1> HIDE DEF OK
<1>11. OK(Node')
  BY <1>5, <1>6, <1>7, <1>8, <1>9, <1>10 DEF Graph!GraphNext
<1> QED BY <1>11 DEF AbsentOK, OK

LEMMA ImplementsStep ==
    ASSUME TypeInv, TypeInv', StartInv, StartInv', ListInv, ListInv', AbsentOK, [Next]_vars
    PROVE  (Graph!GraphNext \/ UNCHANGED Graph!graphVars) /\ AbsentOK'
BY StutterStep, AbsentKept, DetachEffect, FreedKept, IsDiscard, CoreKept, ListedKept, GraphStep DEF
   SameTask, NoWait, KeptEffect, PoolJoin, Graph!GraphNext, StartInv, ListInv

LEMMA ImplementsInit ==
    ASSUME Init
    PROVE  Graph!GraphInit /\ AbsentOK
BY NodeIs, FreeNode DEF Init, NewGroup, Graph!Absent, Graph!GraphInit, AbsentOK

(* Scheduling through lists of waiting tasks, queued parts and worker      *)
(* threads implements the graph of tasks: a task becomes runnable in the   *)
(* very step that meets the last of its inputs, finishes once, and         *)
(* finishing it is what meets its output.                                  *)
THEOREM PoolImplementsGraph == Spec => ImplementsTaskGraph
<1>1. Init => Graph!GraphInit /\ AbsentOK
  BY ImplementsInit
<1>2. TypeInv /\ TypeInv' /\ StartInv /\ StartInv' /\ ListInv /\ ListInv' /\ AbsentOK /\ [Next]_vars
         => [Graph!GraphNext]_Graph!graphVars /\ AbsentOK'
  BY ImplementsStep
<1> QED BY <1>1, <1>2, TypeInvariant, StartInvariant, ListInvariant, PTL
        DEF Spec, ImplementsTaskGraph, Graph!GraphSpec

-----------------------------------------------------------------------------
(***************************************************************************)
(* No wake-up is lost, with one client, as the decoder of the API has one: *)
(* ldcTaskNoWait() and ldcTaskDependencyMet() change what waits poll and   *)
(* broadcast nothing, so a client asleep must be shown to wait for         *)
(* something else than what they change.                                   *)
(*                                                                         *)
(* A thread between addTask() and ldcTaskNoWait() has its task to itself.  *)
(* A worker in that place runs the parent, which is in the same group: the *)
(* removal of the task by the worker leaves the group with another.  And a *)
(* dependency that a client waits for is met, or is the output of a task   *)
(* of the pool, so that ldcTaskDependencyMet() is not called for it.       *)
(***************************************************************************)

OneClient == \E c : Client = {c}

(* Workers do not sleep while a part is queued. *)
QueueWatched == ready # <<>> => asleepReady = {}

(* The conditions of the waits, of the state they speak of. *)
Fulfilled(tk, gr, n, wait) ==
    \/ wait.op = "taskWait" /\ tk[wait.task].state = "Done"
    \/ wait.op = "groupWait" /\ gr[wait.group].tasksCount = 0
    \/ wait.op = "dependencyWait" /\ wait.dep \in gr[wait.group].met
    \/ wait.op = "poolWait" /\ n = 0

SleepersWait == \A c \in asleepCompleted : call[c] \in Waits
SleepersHeld == \A c \in asleepCompleted : ~Fulfilled(task, group, pending, call[c])

Kept(tk, t) == tk[t].state # "Free" /\ ~tk[t].detached
OwnedOK(tk, cs, hd) ==
    /\ \A a \in Actor : cs[a].op = "noWait" =>
          /\ Kept(tk, cs[a].task)
          /\ \A b \in Actor \ {a} : cs[b].op = "noWait" => cs[b].task # cs[a].task
          /\ \A c \in Client : cs[a].task \notin hd[c]
    /\ \A c \in Client : \A t \in hd[c] : Kept(tk, t)
    /\ \A c \in Client : cs[c].op = "taskWait" => cs[c].task \in hd[c]

Deferring(tk, cs, p, pt, w) ==
    /\ cs[w].op = "noWait" /\ p[w] = "returning" /\ cs[w].task # pt[w].task
    /\ tk[cs[w].task].group # NoGroup /\ tk[cs[w].task].group = tk[pt[w].task].group
ParentOK(tk, cs, p, pt) ==
    \A w \in Worker : cs[w].op # "none" => Deferring(tk, cs, p, pt, w)

MetOK(tk, gr) ==
    \A t \in Task : tk[t].state = "Done" /\ tk[t].group # NoGroup /\ tk[t].output # NoDep
                       => tk[t].output \in gr[tk[t].group].met

Promised(tk, gr, g, d) == d \in gr[g].met \/ \E u \in MembersOf(tk, g) : tk[u].output = d
PromiseOK(tk, gr, cs) ==
    \A c \in Client : cs[c].op = "dependencyWait" => Promised(tk, gr, cs[c].group, cs[c].dep)

Waited == /\ OwnedOK(task, call, held) /\ ParentOK(task, call, pc, part)
          /\ MetOK(task, group) /\ PromiseOK(task, group, call) /\ SleepersHeld

WakeInv == QueueWatched /\ SleepersWait /\ (Freed \/ Waited)

-----------------------------------------------------------------------------
(* The queue and its sleepers, for any number of clients. *)

LEMMA ReadyWakes ==
    ASSUME TypeInv, QueueWatched, NEW rel \in SUBSET Task, NEW total, readyTasks(rel, total)
    PROVE  QueueWatched'
<1>1. CASE rel # {}
  BY <1>1 DEF readyTasks, QueueWatched
<1>2. CASE rel = {}
  <2>1. UNION {PartsOf(t, total[t]) : t \in rel} = {} /\ asleepReady' = asleepReady
    BY <1>2 DEF readyTasks
  <2>2. PICK s \in SetToSeqs({}) : ready' = ready \o s
    BY <2>1 DEF readyTasks
  <2>3. s \in Seq({}) /\ \A i \in DOMAIN s : s[i] \in {}
    BY Enumeration, FS_EmptySet
  <2>4. s = <<>>
    BY <2>3
  <2>5. ready' = ready
    BY <2>2, <2>4 DEF TypeInv, TypeOK
  <2> QED BY <2>1, <2>5 DEF QueueWatched
<1> QED BY <1>1, <1>2

LEMMA QueueKept ==
    ASSUME TypeInv, QueueWatched, [Next]_vars
    PROVE  QueueWatched'
<1>1. ASSUME UNCHANGED <<ready, asleepReady>> PROVE QueueWatched'
  BY <1>1 DEF QueueWatched
<1>2. ASSUME Hang PROVE QueueWatched'
  BY <1>1, <1>2 DEF Hang
<1>3. /\ \A t \in Task : task[t].group \in Group \cup {NoGroup} /\ task[t].output \in Dep \cup {NoDep}
      /\ \A h \in Group, d \in Dep \cup {NoDep} : Released(h, d) \in SUBSET Task
  BY ReleasedType, GroupsTyped, TaskFields
<1>4. ASSUME NEW w \in Worker, WorkerStep(w) PROVE QueueWatched'
  <2>1. CASE WorkerExit(w) \/ WorkerPartDone(w) \/ WorkerCompletion(w)
    BY <1>1, <2>1 DEF WorkerExit, WorkerPartDone, WorkerCompletion, poolVars
  <2>2. CASE WorkerSleep(w)
    BY <2>2 DEF WorkerSleep, poolVars, QueueWatched
  <2>3. CASE WorkerRun(w)
    BY <2>3 DEF WorkerRun, QueueWatched
  <2>4. CASE WorkerFinish(w)
    <3> DEFINE t == part[w].task
               rel == IF task[t].group = NoGroup THEN {} ELSE Released(task[t].group, task[t].output)
    <3>1. t \in Task
      BY <2>4, CompletedByType DEF WorkerFinish, Returned
    <3>2. rel \in SUBSET Task
      BY <1>3, <3>1
    <3>3. Hang \/ readyTasks(rel, Total)
      BY <2>4 DEF WorkerFinish, finishTask
    <3> QED BY <1>2, <3>2, <3>3, ReadyWakes
  <2> QED BY <1>4, <2>1, <2>2, <2>3, <2>4 DEF WorkerStep
<1>5. ASSUME NEW a \in Actor, CallStep(a) PROVE QueueWatched'
  BY <1>1, <1>5 DEF PoolJoin, QueueWatched, CallStep, NoWait, WaitSleep, WaitReturn, poolVars
<1>6. ASSUME NEW a \in Actor, NEW g \in Group, NEW d \in Dep, DependencyMet(a, g, d)
      PROVE  QueueWatched'
  BY <1>6, <1>2, <1>3, ReadyWakes DEF DependencyMet
<1>7. ASSUME NEW tk, NEW t \in Task, NEW g, NEW shape, NEW output, NEW sliced,
             addTask(tk, t, g, shape, output, sliced)
      PROVE  QueueWatched'
  BY <1>7, ReadyWakes DEF addTask
<1>8. ASSUME NEW w \in Worker, NEW t \in Task, NEW shape \in Shapes, AddSlicedDeferred(w, t, shape)
      PROVE  QueueWatched'
  BY <1>7, <1>8 DEF AddSlicedDeferred
<1>9. ASSUME NEW c \in Client, NEW g \in Group,
             GroupInitialize(c, g) \/ GroupDestroy(c, g) \/ DependencyAdd(c, g)
                \/ DependencyAddMet(c, g) \/ GroupBlock(c, g)
      PROVE  QueueWatched'
  BY <1>1, <1>9 DEF GroupInitialize, GroupDestroy, DependencyAdd, DependencyAddMet, GroupBlock
<1>10. ASSUME NEW c \in Client, NEW g \in Group, GroupUnblock(c, g) PROVE QueueWatched'
  <2> DEFINE rel == {t \in group[g].blockedTasks : taskDependenciesMet(task[t].inputs, group[g].met)}
  <2>1. rel \in SUBSET Task
    BY GroupsTyped, GroupFields
  <2>2. readyTasks(rel, Total)
    BY <1>10 DEF GroupUnblock
  <2> QED BY <2>1, <2>2, ReadyWakes
<1>11. ASSUME NEW c \in Client, NEW g \in Group, NEW t \in Task, NEW shape \in Shapes,
              GroupAdd(c, g, t, shape)
       PROVE  QueueWatched'
  BY <1>7, <1>11 DEF GroupAdd
<1>12. ASSUME NEW c \in Client, NEW t \in Task
       PROVE  /\ PoolNoWait(c, t) => QueueWatched'
              /\ \A shape \in Shapes : PoolAdd(c, t, shape) => QueueWatched'
  BY <1>1, <1>7 DEF PoolNoWait, PoolAdd, poolVars
<1>13. ASSUME NEW c \in Client, NEW wait \in Waits, WaitStart(c, wait) PROVE QueueWatched'
  BY <1>1, <1>13 DEF WaitStart, poolVars
<1>14. ASSUME NEW c \in Client, PoolDestroy(c) PROVE QueueWatched'
  BY <1>14 DEF PoolDestroy, QueueWatched
<1>15. CASE Destroyed \/ UNCHANGED vars
  BY <1>1, <1>15 DEF Destroyed, vars, poolVars
<1> QED BY <1>4, <1>5, <1>6, <1>8, <1>9, <1>10, <1>11, <1>12, <1>13, <1>14, <1>15 DEF Next

(* Who sleeps is inside a wait: only who is awake returns from one. *)
LEMMA SleepersKept ==
    ASSUME TypeInv, SleepersWait, [Next]_vars
    PROVE  SleepersWait'
<1>1. call \in [Actor -> Call] /\ asleepCompleted \subseteq Actor
  BY DEF TypeInv, TypeOK, Actor
<1>2. ASSUME NEW a \in Actor, NEW v, call' = [call EXCEPT ![a] = v], call[a] \notin Waits,
             asleepCompleted' = asleepCompleted
      PROVE  SleepersWait'
  BY <1>1, <1>2 DEF SleepersWait
<1>3. ASSUME UNCHANGED call, asleepCompleted' \subseteq asleepCompleted PROVE SleepersWait'
  BY <1>3 DEF SleepersWait
<1>4. Idle \notin Waits
  BY DEF Idle, Waits
<1>5. ASSUME NEW w \in Worker, WorkerStep(w) PROVE SleepersWait'
  BY <1>3, <1>5 DEF WorkerStep, WorkerExit, WorkerSleep, WorkerRun, WorkerPartDone, WorkerCompletion,
                    WorkerFinish, finishTask, Hang, broadcastCompleted
<1>6. ASSUME NEW a \in Actor, CallStep(a) PROVE SleepersWait'
  <2>1. CASE NoWait(a)
    <3>1. call[a].op = "noWait" /\ asleepCompleted' = asleepCompleted /\ call' = [call EXCEPT ![a] = Idle]
      BY <2>1 DEF NoWait
    <3>2. call[a] \notin Waits
      BY <3>1 DEF Waits
    <3> QED BY <1>2, <3>1, <3>2
  <2>2. CASE WaitSleep(a)
    BY <2>2 DEF WaitSleep, Waiting, SleepersWait
  <2>3. CASE WaitReturn(a)
    BY <2>3, <1>1 DEF WaitReturn, Waiting, clientFrame, SleepersWait
  <2>4. CASE PoolJoin(a)
    <3>1. call[a].op = "join" /\ asleepCompleted' = asleepCompleted
          /\ call' = [call EXCEPT ![a] = [op |-> "destroyed"]]
      BY <2>4 DEF PoolJoin, clientFrame
    <3>2. call[a] \notin Waits
      BY <3>1 DEF Waits
    <3> QED BY <1>2, <3>1, <3>2
  <2> QED BY <1>6, <2>1, <2>2, <2>3, <2>4 DEF CallStep
<1>7. ASSUME NEW a \in Actor, NEW g \in Group, NEW d \in Dep, DependencyMet(a, g, d)
      PROVE  SleepersWait'
  BY <1>3, <1>7 DEF DependencyMet, Hang
<1>8. ASSUME NEW w \in Worker, NEW t \in Task, NEW shape \in Shapes, AddSlicedDeferred(w, t, shape)
      PROVE  SleepersWait'
  BY <1>2, <1>4, <1>8 DEF AddSlicedDeferred, MayCall, Actor
<1>9. ASSUME NEW c \in Client, NEW g \in Group,
             GroupInitialize(c, g) \/ GroupDestroy(c, g) \/ DependencyAdd(c, g)
                \/ DependencyAddMet(c, g) \/ GroupBlock(c, g) \/ GroupUnblock(c, g)
      PROVE  SleepersWait'
  BY <1>3, <1>9 DEF GroupInitialize, GroupDestroy, DependencyAdd, DependencyAddMet, GroupBlock,
                    GroupUnblock, clientFrame
<1>10. ASSUME NEW c \in Client, NEW g \in Group, NEW t \in Task, NEW shape \in Shapes,
              GroupAdd(c, g, t, shape)
       PROVE  SleepersWait'
  BY <1>2, <1>4, <1>10 DEF GroupAdd, MayCall, Actor, clientFrame
<1>11. ASSUME NEW c \in Client, NEW t \in Task, PoolNoWait(c, t) PROVE SleepersWait'
  BY <1>2, <1>4, <1>11 DEF PoolNoWait, MayCall, Actor, clientFrame
<1>12. ASSUME NEW c \in Client, NEW t \in Task, NEW shape \in Shapes, PoolAdd(c, t, shape)
       PROVE  SleepersWait'
  BY <1>3, <1>12 DEF PoolAdd, clientFrame
<1>13. ASSUME NEW c \in Client, NEW wait \in Waits, WaitStart(c, wait) PROVE SleepersWait'
  BY <1>2, <1>4, <1>13 DEF WaitStart, MayCall, Actor, clientFrame
<1>14. ASSUME NEW c \in Client, PoolDestroy(c) PROVE SleepersWait'
  BY <1>4, <1>14 DEF PoolDestroy, SleepersWait, TypeInv, TypeOK, clientFrame
<1>15. CASE Destroyed \/ UNCHANGED vars
  BY <1>3, <1>15 DEF Destroyed, vars
<1> QED BY <1>5, <1>6, <1>7, <1>8, <1>9, <1>10, <1>11, <1>12, <1>13, <1>14, <1>15 DEF Next

-----------------------------------------------------------------------------
(* What a step leaves of the parts of the invariant. *)

LEMMA CallFields ==
    ASSUME TypeInv, NEW a \in Actor
    PROVE  /\ call[a] \in Call
           /\ call[a].op = "noWait" => call[a].task \in Task
           /\ call[a].op = "taskWait" => call[a].task \in Task
           /\ call[a].op = "groupWait" => call[a].group \in Group
           /\ call[a].op = "dependencyWait" => call[a].group \in Group /\ call[a].dep \in Dep
BY DEF TypeInv, TypeOK, Call, Waits, Idle

LEMMA SatisfiedIs ==
    ASSUME NEW wait \in Waits
    PROVE  Satisfied(wait) <=> Fulfilled(task, group, pending, wait)
<1>1. wait.op \in {"taskWait", "groupWait", "dependencyWait", "poolWait"}
  BY DEF Waits
<1> QED BY <1>1 DEF Satisfied, Fulfilled

(* A worker on its way back from its function is at work. *)
LEMMA ReturningWorks ==
    ASSUME NEW tk, NEW rd, NEW p, NEW pt, KindsOK(tk, rd, p, pt), PartsOK(tk, rd, p, pt),
           NEW w \in Worker, p[w] = "returning"
    PROVE  pt[w].task \in Task /\ tk[pt[w].task].state \in Begun
BY DEF Working, KindsOK, PartsOK, HandsOK, Part, PieceOK

(* Tasks that no step frees keep who has them, and their groups. *)
Carries(tk, tk1) ==
    \A t \in Task : /\ Kept(tk, t) => Kept(tk1, t)
                    /\ tk[t].state # "Free" /\ tk1[t].state # "Free" => tk1[t].group = tk[t].group

LEMMA OwnersStay ==
    ASSUME TypeInv, NEW tk1, OwnedOK(task, call, held), Carries(task, tk1)
    PROVE  OwnedOK(tk1, call, held)
BY CallFields DEF TypeInv, TypeOK, OwnedOK, Carries

LEMMA ParentStays ==
    ASSUME TypeInv, TypeInv', Core, Core', ParentOK(task, call, pc, part), OwnedOK(task, call, held),
           NEW w \in Worker, call'[w].op # "none",
           call'[w] = call[w], pc'[w] = pc[w], part'[w] = part[w], task'[call[w].task].state # "Free",
           \A t \in Task : task[t].state # "Free" /\ task'[t].state # "Free"
                              => task'[t].group = task[t].group
    PROVE  Deferring(task', call', pc', part', w)
<1>1. /\ KindsOK(task, ready, pc, part) /\ PartsOK(task, ready, pc, part)
      /\ KindsOK(task', ready', pc', part') /\ PartsOK(task', ready', pc', part')
  BY DEF Core, TypeInv, TypeOK, WorkerHasPart, KindsOK, Working
<1>2. /\ call[w].op = "noWait" /\ pc[w] = "returning" /\ call[w].task # part[w].task
      /\ task[call[w].task].group # NoGroup /\ task[call[w].task].group = task[part[w].task].group
  BY DEF ParentOK, Deferring
<1>3. /\ part[w].task \in Task /\ task[part[w].task].state # "Free"
      /\ task'[part[w].task].state # "Free"
  BY <1>1, <1>2, ReturningWorks DEF Begun
<1>4. call[w].task \in Task /\ task[call[w].task].state # "Free"
  BY <1>2, CallFields DEF Actor, OwnedOK, Kept
<1> QED BY <1>2, <1>3, <1>4 DEF Deferring

LEMMA ParentsStay ==
    ASSUME TypeInv, TypeInv', Core, Core', ParentOK(task, call, pc, part), OwnedOK(task, call, held),
           OwnedOK(task', call', held'),
           \A w \in Worker : call'[w].op # "none" =>
               call'[w] = call[w] /\ pc'[w] = pc[w] /\ part'[w] = part[w],
           \A t \in Task : task[t].state # "Free" /\ task'[t].state # "Free"
                              => task'[t].group = task[t].group
    PROVE  ParentOK(task', call', pc', part')
BY ParentStays DEF ParentOK, Deferring, Actor, OwnedOK, Kept

LEMMA MetStays ==
    ASSUME NEW tk, NEW tk1, NEW gr, NEW gr1, MetOK(tk, gr),
           \A t \in Task : tk1[t].state = "Done" /\ tk1[t].group # NoGroup /\ tk1[t].output # NoDep =>
               /\ tk[t].state = "Done" /\ tk1[t].group = tk[t].group /\ tk1[t].output = tk[t].output
               /\ tk[t].output \in gr[tk[t].group].met => tk[t].output \in gr1[tk[t].group].met
    PROVE  MetOK(tk1, gr1)
BY DEF MetOK

PromiseStays(tk, tk1, gr, gr1) ==
    \A g \in Group, d \in Dep : Promised(tk, gr, g, d) => Promised(tk1, gr1, g, d)

LEMMA PromisesStay ==
    ASSUME TypeInv, NEW gr1, NEW tk1, PromiseOK(task, group, call), PromiseStays(task, tk1, group, gr1)
    PROVE  PromiseOK(tk1, gr1, call)
BY CallFields DEF PromiseOK, PromiseStays, Actor

(* Nothing that a sleeper polls becomes so. *)
LEMMA SleepersStay ==
    ASSUME TypeInv, TypeInv', Core, Core', SleepersWait, SleepersHeld,
           asleepCompleted' \subseteq asleepCompleted,
           \A c \in asleepCompleted' : call'[c] = call[c],
           \A t \in Task : task'[t].state = "Done" => task[t].state = "Done",
           \A g \in Group : MembersOf(task', g) = {} => MembersOf(task, g) = {},
           \A c \in asleepCompleted' : call[c].op = "dependencyWait" =>
               (call[c].dep \in group'[call[c].group].met => call[c].dep \in group[call[c].group].met),
           pending' = 0 => pending = 0
    PROVE  SleepersHeld'
<1>1. GroupsOK(task, group) /\ GroupsOK(task', group')
  BY DEF Core, PoolOK
<1>2. ASSUME NEW g \in Group, group'[g].tasksCount = 0 PROVE group[g].tasksCount = 0
  BY <1>1, <1>2, MembersFinite, FS_EmptySet DEF GroupsOK
<1> SUFFICES ASSUME NEW c \in asleepCompleted', Fulfilled(task', group', pending', call'[c])
             PROVE  FALSE
  BY DEF SleepersHeld
<1>3. c \in asleepCompleted /\ call'[c] = call[c] /\ c \in Actor
  BY DEF TypeInv, TypeOK, Actor
<1>4. /\ call[c].op = "taskWait" => call[c].task \in Task
      /\ call[c].op = "groupWait" => call[c].group \in Group
  BY <1>3, CallFields
<1>5. Fulfilled(task, group, pending, call[c])
  BY <1>2, <1>3, <1>4 DEF Fulfilled
<1> QED BY <1>3, <1>5 DEF SleepersHeld

-----------------------------------------------------------------------------
(* Steps that end no task and meet no dependency. *)

LEMMA SameStates ==
    ASSUME NEW tk \in [Task -> TaskRec], NEW tk1, NEW gr, KeptEffect(tk, tk1, gr, gr)
    PROVE  /\ \A t \in Task : /\ tk1[t].state = "Free" <=> tk[t].state = "Free"
                              /\ tk1[t].state = "Done" <=> tk[t].state = "Done"
                              /\ tk1[t].group = tk[t].group /\ tk1[t].output = tk[t].output
           /\ \A g \in Group : MembersOf(tk1, g) = MembersOf(tk, g)
           /\ PromiseStays(tk, tk1, gr, gr)
           /\ MetOK(tk, gr) => MetOK(tk1, gr)
BY MetStays DEF KeptEffect, SameTask, Begun, MembersOf, PromiseStays, Promised

LEMMA KeptWaited ==
    ASSUME TypeInv, TypeInv', Core, Core', SleepersWait, Waited,
           KeptEffect(task, task', group, group), UNCHANGED <<group, pending, call, held>>,
           \A t \in Task : task'[t].detached = task[t].detached,
           asleepCompleted' \subseteq asleepCompleted,
           \A w \in Worker : call[w].op # "none" => pc'[w] = pc[w] /\ part'[w] = part[w]
    PROVE  Waited'
BY GroupsTyped, SameStates, OwnersStay, ParentsStay, PromisesStay, SleepersStay DEF Waited, Carries, Kept

(* A worker on its way back is not in the loop that fetches parts. *)
LEMMA RunsWaited ==
    ASSUME TypeInv, TypeInv', Core, Core', SleepersWait, Waited, NEW w \in Worker,
           WorkerExit(w) \/ WorkerSleep(w) \/ WorkerRun(w) \/ WorkerPartDone(w) \/ WorkerCompletion(w)
    PROVE  Waited'
<1>1. UNCHANGED <<group, pending, call, held>> /\ asleepCompleted' \subseteq asleepCompleted
  BY DEF WorkerExit, WorkerSleep, WorkerRun, WorkerPartDone, WorkerCompletion, poolVars,
         broadcastCompleted
<1>2. call[w].op = "none"
  <2>1. pc[w] = "fetch" \/ call[w] = Idle
    BY DEF WorkerExit, WorkerSleep, WorkerRun, WorkerPartDone, WorkerCompletion, Returned
  <2> QED BY <2>1 DEF Waited, ParentOK, Deferring, Idle
<1>3. \A v \in Worker \ {w} : pc'[v] = pc[v] /\ part'[v] = part[v]
  BY DEF WorkerExit, WorkerSleep, WorkerRun, WorkerPartDone, WorkerCompletion, poolVars, TypeInv, TypeOK
<1>4. KeptEffect(task, task', group, group)
  BY GroupsTyped, GroupFields, <1>1, RunEffect DEF WorkerExit, WorkerSleep, poolVars, KeptEffect, SameTask,
     SameLists
<1>5. \A t \in Task : task'[t].detached = task[t].detached
  <2>1. ASSUME NEW u \in Task, NEW n, NEW m, NEW state,
               task' = [task EXCEPT ![u] = [task[u] EXCEPT !.active = n, !.completed = m, !.state = state]]
        PROVE  \A t \in Task : task'[t].detached = task[t].detached
    BY <2>1, GroupsTyped DEF TaskRec
  <2>2. CASE WorkerExit(w) \/ WorkerSleep(w)
    BY <2>2 DEF WorkerExit, WorkerSleep, poolVars
  <2>3. CASE WorkerRun(w)
    <3>1. Head(ready).task \in Task
      BY <2>3 DEF WorkerRun, TypeInv, TypeOK, Part
    <3> DEFINE u == Head(ready).task
    <3>2. task' = [task EXCEPT ![u] = [task[u] EXCEPT !.state = "Running", !.active = task[u].active + 1]]
      BY <2>3 DEF WorkerRun
    <3> HIDE DEF u
    <3> QED BY <3>1, <3>2, GroupsTyped DEF TaskRec, u
  <2>4. CASE WorkerPartDone(w) \/ WorkerCompletion(w)
    <3> DEFINE u == part[w].task
    <3>1. u \in Task
      BY <2>4, CompletedByType DEF WorkerPartDone, WorkerCompletion, Returned
    <3>2. task' = PartRecorded(u, CompletedBy(w))
      BY <2>4 DEF WorkerPartDone, WorkerCompletion
    <3> QED BY <2>1, <3>1, <3>2 DEF PartRecorded
  <2> QED BY <2>2, <2>3, <2>4
<1> QED BY <1>1, <1>2, <1>3, <1>4, <1>5, KeptWaited

-----------------------------------------------------------------------------
(* The end of a task is told to all who sleep. *)
LEMMA FinishWaited ==
    ASSUME TypeInv, TypeInv', Core, Core', Listed, Waited, NEW w \in Worker, WorkerFinish(w), ~hung'
    PROVE  Waited'
<1> DEFINE t == part[w].task
           g == task[t].group
           o == task[t].output
<1>1. /\ OwnedOK(task, call, held) /\ ParentOK(task, call, pc, part) /\ MetOK(task, group)
      /\ PromiseOK(task, group, call) /\ ListedOK(task, group)
      /\ task \in [Task -> TaskRec] /\ ListsOK(task, group)
  BY GroupsTyped DEF Waited, Listed, Core, PoolOK
<1>2. /\ finishTask(w, task[t].total) /\ ~Hang
      /\ (pc[w] = "completion" \/ call[w] = Idle)
  BY DEF WorkerFinish, Returned, Hang
<1>3. /\ UNCHANGED <<call, held>> /\ asleepCompleted' = {} /\ part' = [part EXCEPT ![w] = NoPart]
      /\ pc' = [pc EXCEPT ![w] = "fetch"]
  BY <1>2 DEF finishTask, broadcastCompleted
<1>4. PICK tk \in [Task -> TaskRec] :
              /\ LeaveEffect(task, tk, group, group, t)
              /\ t \in Task /\ g \in Group \cup {NoGroup} /\ task[t].state \in Begun
              /\ g # NoGroup /\ o # NoDep =>
                    o \in Dep /\ o \notin group[g].met /\ MetEffect(tk, task', group, group', g, o)
              /\ g = NoGroup \/ o = NoDep =>
                    task' = tk /\ \A h \in Group : SameGroup(group[h], group'[h])
  BY <1>1, FinishEffects
<1>5. /\ tk[t] = FreeTask \/ (tk[t].state = "Done" /\ SameTask(task[t], tk[t]))
      /\ \A u \in Task \ {t} : tk[u] = task[u]
  BY <1>4 DEF LeaveEffect
<1>6. /\ task'[t].detached = task[t].detached \/ task'[t] = FreeTask
      /\ ~task[t].detached => task'[t].state = "Done"
      /\ \A u \in Task \ {t} : task'[u].detached = task[u].detached
  <2> DEFINE rel == IF g = NoGroup THEN {} ELSE Released(g, o)
  <2>1. task' = [u \in Task |->
                   IF u = t THEN IF task[t].detached THEN FreeTask
                                 ELSE [task[t] EXCEPT !.state = "Done", !.active = 0,
                                                      !.completed = task[t].total]
                   ELSE IF u \in rel THEN [task[u] EXCEPT !.state = "Ready"]
                   ELSE task[u]]
    BY <1>2 DEF finishTask
  <2>2. t \in Task
    BY <1>4
  <2> HIDE DEF t, rel
  <2> QED BY <1>1, <2>1, <2>2 DEF TaskRec
<1> HIDE DEF t, g, o
<1>7. g # NoGroup => g \in Group
  BY <1>4
<1>8. /\ \A u \in Task : /\ tk[u].state = "Free" <=> task'[u].state = "Free"
                         /\ task'[u].state = "Done" => tk[u].state = "Done"
                         /\ SameTask(tk[u], task'[u])
      /\ \A h \in Group : group[h].met \subseteq group'[h].met
  BY <1>4, <1>1, <1>7, StateKinds, <1>5 DEF ListsOK, Begun, ReadySet, MetEffect, SameGroup, SameTask
<1>9. g # NoGroup /\ o # NoDep => o \in group'[g].met
  BY <1>4 DEF MetEffect
<1>10. /\ \A u \in Task \ {t} : /\ task'[u].group = task[u].group /\ task'[u].output = task[u].output
                                /\ task[u].state = "Free" <=> task'[u].state = "Free"
                                /\ task'[u].state = "Done" => task[u].state = "Done"
       /\ task'[t].state # "Free" => task'[t].group = g /\ task'[t].output = o
  BY <1>5, <1>8, <1>4 DEF SameTask, FreeTask, g, o
<1>11. Carries(task, task')
  BY <1>6, <1>10, <1>4 DEF Kept, FreeTask, Carries, g
<1>12. OwnedOK(task', call', held')
  BY <1>1, <1>3, <1>11, OwnersStay
<1>13. ParentOK(task', call', pc', part')
  BY <1>1, <1>2, <1>3, <1>11, <1>12, ParentsStay DEF ParentOK, Deferring, Idle, TypeInv, TypeOK, Carries
<1>14. MetOK(task', group')
  BY <1>9, <1>10, <1>1, TaskFields, <1>8 DEF MetOK
<1>15. PromiseStays(task, task', group, group')
  BY <1>8, SetsAssumption, <1>9, <1>10 DEF PromiseStays, Promised, g, o, Dep, NoDep, MembersOf
<1>16. PromiseOK(task', group', call')
  BY <1>1, <1>3, <1>15, PromisesStay
<1> QED BY <1>3, <1>12, <1>13, <1>14, <1>16 DEF Waited, SleepersHeld

-----------------------------------------------------------------------------
(* The calls that broadcast nothing. *)

(* With one client, none sleeps while it is outside its wait. *)
LEMMA NobodyAsleep ==
    ASSUME TypeInv, OneClient, SleepersWait, NEW c \in Client, call[c] \notin Waits
    PROVE  asleepCompleted = {}
BY DEF TypeInv, TypeOK, OneClient, SleepersWait

LEMMA NoWaitWaited ==
    ASSUME TypeInv, TypeInv', Core, Core', OneClient, SleepersWait, Waited, NEW a \in Actor, NoWait(a)
    PROVE  Waited'
<1> DEFINE t == call[a].task
<1>1. /\ OwnedOK(task, call, held) /\ ParentOK(task, call, pc, part) /\ MetOK(task, group)
      /\ PromiseOK(task, group, call) /\ SleepersHeld
      /\ task \in [Task -> TaskRec] /\ call \in [Actor -> Call]
  BY GroupsTyped DEF Waited, TypeInv, TypeOK
<1>2. /\ call[a].op = "noWait" /\ call' = [call EXCEPT ![a] = Idle]
      /\ UNCHANGED <<ready, pending, pc, part, held, asleepCompleted>>
      /\ IF task[t].state = "Done" THEN removeTask(t)
         ELSE task' = [task EXCEPT ![t] = [task[t] EXCEPT !.detached = TRUE]] /\ group' = group
  BY DEF NoWait
<1>3. t \in Task /\ Kept(task, t)
  BY <1>1, <1>2, CallFields DEF OwnedOK
<1>4. /\ \A u \in Task \ {t} : task'[u] = task[u]
      /\ task'[t].group = task[t].group \/ task'[t].state = "Free"
  <2> HIDE DEF t
  <2> QED BY <1>1, <1>2, <1>3 DEF removeTask, FreeTask, TaskRec
<1>5. call'[a].op = "none" /\ \A b \in Actor \ {a} : call'[b] = call[b]
  BY <1>1, <1>2 DEF Idle
<1>6. OwnedOK(task', call', held')
  BY <1>5, CallFields, <1>1, <1>2, <1>4 DEF TypeInv, TypeOK, Actor, OwnedOK, Kept
<1>7. ParentOK(task', call', pc', part')
  BY <1>5, <1>4, <1>1, <1>2, <1>6, ParentsStay DEF Actor
<1>8. /\ \A u \in Task : task'[u].state = "Done" => task[u].state = "Done"
      /\ MetOK(task', group') /\ PromiseStays(task, task', group, group')
      /\ \A g \in Group : group'[g].met = group[g].met
  <2>1. CASE task[t].state # "Done"
    <3>1. KeptEffect(task, task', group, group) /\ group' = group
      BY <1>2, <2>1, DetachEffect
    <3> QED BY <1>1, <3>1, SameStates
  <2>2. CASE task[t].state = "Done"
    <3>1. LeaveEffect(task, task', group, group', t)
      BY <1>2, <1>3, <2>2, RemoveEffect
    <3>2. task'[t] = FreeTask /\ task'[t].state = "Free"
      BY <1>1, <1>2, <1>3, <2>2 DEF removeTask, FreeTask
    <3>3. \A g \in Group : group'[g].met = group[g].met
      BY <3>1 DEF LeaveEffect, SameGroup
    <3>4. MetOK(task', group')
      BY <1>1, <1>4, <3>2, TaskFields, <3>3 DEF MetOK
    <3>5. ASSUME NEW g \in Group, NEW d \in Dep, NEW u \in MembersOf(task, g), task[u].output = d
          PROVE  Promised(task', group', g, d)
      BY <3>5, SetsAssumption, <1>1, <1>3, <2>2, <3>3, <1>4 DEF MembersOf, Dep, NoDep, MetOK, Promised
    <3>6. PromiseStays(task, task', group, group')
      BY <3>3, <3>5 DEF PromiseStays, Promised
    <3> QED BY <1>4, <3>2, <3>3, <3>4, <3>6
  <2> QED BY <2>1, <2>2
<1>9. PromiseOK(task', group', call')
  BY <1>1, <1>8, PromisesStay, <1>5 DEF PromiseOK, Actor
<1>10. SleepersHeld'
  <2>1. call[a] \notin Waits
    BY <1>2 DEF Waits
  <2>2. CASE a \in Client
    BY <1>2, <2>1, <2>2, NobodyAsleep DEF SleepersHeld
  <2>3. CASE a \in Worker
    <3> DEFINE p == part[a].task
    <3>1. /\ KindsOK(task, ready, pc, part) /\ PartsOK(task, ready, pc, part)
          /\ KindsOK(task', ready', pc', part') /\ PartsOK(task', ready', pc', part')
      BY DEF Core, TypeInv, TypeOK, WorkerHasPart, KindsOK, Working
    <3>2. pc[a] = "returning" /\ t # p /\ task[t].group = task[p].group
      BY <1>1, <1>2, <2>3 DEF ParentOK, Deferring
    <3>3. p \in Task /\ task'[p].state \in Begun
      BY <1>2, <2>3, <3>1, <3>2, ReturningWorks
    <3>4. \A g \in Group : MembersOf(task', g) = {} => MembersOf(task, g) = {}
      BY <1>4, <3>2, <3>3 DEF MembersOf, Begun
    <3>5. \A c \in asleepCompleted' : /\ call'[c] = call[c]
                                      /\ call[c].op = "dependencyWait" => call[c].group \in Group
      BY <1>2, <2>1, <1>5, CallFields DEF SleepersWait, TypeInv, TypeOK, Actor
    <3> QED BY <1>1, <1>2, <1>8, <3>4, <3>5, SleepersStay
  <2> QED BY <2>2, <2>3 DEF Actor
<1> QED BY <1>6, <1>7, <1>8, <1>9, <1>10 DEF Waited

(* A dependency that a client sleeps on has a task that will meet it. *)
LEMMA DependencyMetWaited ==
    ASSUME TypeInv, TypeInv', Core, Core', Listed, SleepersWait, Waited,
           NEW a \in Actor, NEW g \in Group, NEW d \in Dep, DependencyMet(a, g, d)
    PROVE  Waited'
<1>1. /\ OwnedOK(task, call, held) /\ ParentOK(task, call, pc, part) /\ MetOK(task, group)
      /\ PromiseOK(task, group, call) /\ SleepersHeld
      /\ task \in [Task -> TaskRec] /\ ListsOK(task, group)
  BY GroupsTyped DEF Waited, Core, PoolOK
<1>2. ~NeverEnds(g, d)
  BY LoopEnds
<1>3. /\ External(g, d) /\ UNCHANGED <<pending, pc, part, call, held, asleepCompleted>>
      /\ task' = [u \in Task |-> IF u \in Released(g, d) THEN [task[u] EXCEPT !.state = "Ready"] ELSE task[u]]
  BY <1>2 DEF DependencyMet
<1>4. MetEffect(task, task', group, group', g, d)
  BY <1>2, MetByCall
<1>5. /\ \A u \in Task : /\ task'[u].group = task[u].group /\ task'[u].output = task[u].output
                         /\ task'[u].detached = task[u].detached
                         /\ task'[u].state = "Free" <=> task[u].state = "Free"
                         /\ task'[u].state = "Done" => task[u].state = "Done"
  <2>1. \A u \in Task : task'[u].detached = task[u].detached
    BY <1>1, <1>3 DEF TaskRec
  <2>2. \A u \in ReadySet(task, group, g, d) : task[u].state = "Waiting"
    BY <1>1 DEF ReadySet, ListsOK
  <2>3. \A u \in Task : /\ SameTask(task[u], task'[u])
                        /\ task'[u].state = IF u \in ReadySet(task, group, g, d) THEN "Ready"
                                            ELSE task[u].state
    BY <1>4 DEF MetEffect
  <2> QED BY <2>1, <2>2, <2>3 DEF SameTask
<1>6. \A h \in Group : group'[h].met = IF h = g THEN group[h].met \cup {d} ELSE group[h].met
  BY <1>4 DEF MetEffect, SameGroup
<1>7. \A h \in Group : MembersOf(task', h) = MembersOf(task, h)
  BY <1>5 DEF MembersOf
<1>8. OwnedOK(task', call', held')
  BY <1>5, <1>1, <1>3, OwnersStay DEF Carries, Kept
<1>9. ParentOK(task', call', pc', part')
  BY <1>1, <1>3, <1>5, <1>8, ParentsStay
<1>10. MetOK(task', group')
  <2>1. \A u \in Task : task[u].group # NoGroup => task[u].group \in Group
    BY <1>1, TaskFields
  <2> SUFFICES ASSUME NEW u \in Task, task'[u].state = "Done", task'[u].group # NoGroup,
                      task'[u].output # NoDep
               PROVE  task'[u].output \in group'[task'[u].group].met
    BY DEF MetOK
  <2>2. task[u].output \in group[task[u].group].met
    BY <1>1, <1>5 DEF MetOK
  <2> QED BY <1>5, <1>6, <2>1, <2>2
<1>11. PromiseOK(task', group', call')
  <2>1. PromiseStays(task, task', group, group')
    BY <1>5, <1>6, <1>7 DEF PromiseStays, Promised, MembersOf
  <2> QED BY <1>1, <1>3, <2>1, PromisesStay
<1>12. SleepersHeld'
  <2>1. ASSUME NEW c \in asleepCompleted, call[c].op = "dependencyWait",
               call[c].dep \in group'[call[c].group].met
        PROVE  call[c].dep \in group[call[c].group].met
    <3>1. c \in Client /\ call[c].group \in Group /\ call[c].dep \in Dep
      BY <2>1, CallFields DEF TypeInv, TypeOK, Actor
    <3>2. Promised(task, group, call[c].group, call[c].dep)
      BY <1>1, <2>1, <3>1 DEF PromiseOK
    <3>3. \A u \in MembersOf(task, g) : task[u].output # d
      BY <1>3 DEF External, Members, Live, MembersOf
    <3> QED BY <1>6, <2>1, <3>1, <3>2, <3>3 DEF Promised
  <2> QED BY <1>1, <1>3, <1>5, <1>7, <2>1, SleepersStay
<1> QED BY <1>8, <1>9, <1>10, <1>11, <1>12 DEF Waited

(* A new task is nobody's before it is its adder's. *)
LEMMA AddTaskIs ==
    ASSUME TypeInv, NEW tk \in [Task -> TaskRec], NEW t \in Task, NEW g \in Group \cup {NoGroup},
           NEW shape, NEW output, NEW sliced, addTask(tk, t, g, shape, output, sliced)
    PROVE  /\ tk[t].state = "Free"
           /\ Kept(task', t) /\ task'[t].state # "Done"
           /\ task'[t].group = g /\ task'[t].output = output
           /\ \A u \in Task \ {t} : task'[u] = tk[u]
           /\ \A h \in Group : group'[h].met = group[h].met
           /\ pending' = pending + 1
BY GroupsTyped DEF addTask, NewTask, Kept, GroupRec

LEMMA AddDeferredWaited ==
    ASSUME TypeInv, TypeInv', Core, Core', Listed, SleepersWait, Waited,
           NEW w \in Worker, NEW t \in Task, NEW shape \in Shapes, AddSlicedDeferred(w, t, shape)
    PROVE  Waited'
<1> DEFINE p == part[w].task
           tk == [task EXCEPT ![p] = [task[p] EXCEPT !.output = NoDep]]
<1>1. /\ OwnedOK(task, call, held) /\ ParentOK(task, call, pc, part) /\ MetOK(task, group)
      /\ PromiseOK(task, group, call) /\ SleepersHeld
      /\ task \in [Task -> TaskRec] /\ call \in [Actor -> Call]
      /\ pc \in [Worker -> {"fetch", "function", "returning", "completion", "exited"}]
  BY GroupsTyped DEF Waited, TypeInv, TypeOK
<1>2. /\ w \in Actor /\ call[w] = Idle /\ call[w].op = "none" /\ pc[w] = "function"
      /\ task[p].group # NoGroup
      /\ call' = [call EXCEPT ![w] = [op |-> "noWait", task |-> t]]
      /\ pc' = [pc EXCEPT ![w] = "returning"]
      /\ UNCHANGED <<part, held, asleepCompleted>>
      /\ addTask(tk, t, task[p].group, [shape EXCEPT !.inputs = task[p].inputs], task[p].output, TRUE)
  <2>1. addTask(tk, t, task[p].group, [shape EXCEPT !.inputs = task[p].inputs], task[p].output, TRUE)
    BY DEF AddSlicedDeferred
  <2>2. /\ MayCall(w) /\ task[p].group # NoGroup
        /\ call' = [call EXCEPT ![w] = [op |-> "noWait", task |-> t]]
        /\ pc' = [pc EXCEPT ![w] = "returning"]
        /\ UNCHANGED <<part, held, asleepCompleted>>
    BY DEF AddSlicedDeferred
  <2>3. w \in Actor /\ call[w] = Idle /\ call[w].op = "none" /\ pc[w] = "function"
    BY <2>2 DEF MayCall, Actor, Idle
  <2> QED BY <2>1, <2>2, <2>3
<1>3. p \in Task /\ task[p].state \in Begun /\ task[p].group \in Group
  BY <1>2, Kinds, <1>1, TaskFields DEF Working, Core, KindsOK, PartsOK, HandsOK, Part, PieceOK
<1>4. /\ tk \in [Task -> TaskRec] /\ \A u \in Task \ {p} : tk[u] = task[u]
      /\ tk[p].state = task[p].state /\ tk[p].group = task[p].group
      /\ tk[p].detached = task[p].detached
  <2> HIDE DEF p
  <2>1. [task[p] EXCEPT !.output = NoDep] \in TaskRec
    BY <1>1, <1>3, TaskFlags
  <2> QED BY <1>1, <1>3, <2>1 DEF TaskRec
<1> HIDE DEF tk
<1>5. /\ tk[t].state = "Free"
      /\ Kept(task', t) /\ task'[t].state # "Done"
      /\ task'[t].group = task[p].group /\ task'[t].output = task[p].output
      /\ \A u \in Task \ {t} : task'[u] = tk[u]
      /\ \A h \in Group : group'[h].met = group[h].met
      /\ pending' = pending + 1
  BY <1>2, <1>3, <1>4, AddTaskIs
<1> HIDE DEF p
<1>6. t # p /\ task[t].state = "Free"
  BY <1>3, <1>4, <1>5 DEF Begun
<1>7. \A u \in Task \ {t} : /\ task'[u].state = task[u].state /\ task'[u].group = task[u].group
                            /\ task'[u].detached = task[u].detached
                            /\ u # p => task'[u] = task[u]
  BY <1>4, <1>5
<1>8. /\ call'[w] = [op |-> "noWait", task |-> t] /\ \A b \in Actor \ {w} : call'[b] = call[b]
      /\ pc'[w] = "returning" /\ \A v \in Worker \ {w} : pc'[v] = pc[v]
  BY <1>1, <1>2
<1>9. Carries(task, task')
  BY <1>6, <1>7 DEF Carries, Kept
<1>10. OwnedOK(task', call', held')
  BY SetsAssumption, <1>1, <1>9, OwnersStay, <1>6, <1>2, <1>5, <1>8 DEF Actor, OwnedOK, Kept
<1>11. ParentOK(task', call', pc', part')
  <2> SUFFICES ASSUME NEW v \in Worker, call'[v].op # "none"
               PROVE  Deferring(task', call', pc', part', v)
    BY DEF ParentOK
  <2>1. CASE v = w
    BY <1>2, <1>3, <1>5, <1>6, <1>7, <1>8, <2>1 DEF Deferring, p
  <2>2. CASE v # w
    BY <1>2, <1>8, <2>2, <1>1, <1>10, <1>9, ParentStays DEF Actor, ParentOK, Deferring, OwnedOK, Kept,
       Carries
  <2> QED BY <2>1, <2>2
<1>12. MetOK(task', group')
  BY <1>3, <1>5, <1>7, <1>1, TaskFields DEF MetOK, Begun
<1>13. PromiseOK(task', group', call')
  <2>1. ASSUME NEW h \in Group, NEW d \in Dep, NEW u \in MembersOf(task, h), task[u].output = d
        PROVE  \E x \in MembersOf(task', h) : task'[x].output = d
    BY <1>5, <2>1, <1>6, <1>7 DEF MembersOf, Kept
  <2>2. PromiseStays(task, task', group, group')
    BY <1>5, <2>1 DEF PromiseStays, Promised
  <2>3. PromiseOK(task', group', call)
    BY <1>1, <2>2, PromisesStay
  <2>4. \A c \in Client : call'[c] = call[c]
    BY <1>8, SetsAssumption DEF Actor
  <2> QED BY <2>3, <2>4 DEF PromiseOK
<1>14. SleepersHeld'
  <2>1. \A c \in asleepCompleted' : call'[c] = call[c] /\ c \in Actor
    BY <1>2, <1>8, SetsAssumption DEF TypeInv, TypeOK, Actor
  <2>2. \A u \in Task : task'[u].state = "Done" => task[u].state = "Done"
    BY <1>5, <1>7
  <2>3. \A h \in Group : MembersOf(task', h) = {} => MembersOf(task, h) = {}
    BY <1>6, <1>7 DEF MembersOf
  <2>4. ~(pending' = 0)
    BY TasksFinite, <1>5 DEF Listed, PendingOK, Unfinished
  <2>5. \A c \in asleepCompleted' : call[c].op = "dependencyWait" => call[c].group \in Group
    BY <2>1, CallFields
  <2> QED BY <1>1, <1>2, <1>5, <2>1, <2>2, <2>3, <2>4, <2>5, SleepersStay
<1> QED BY <1>10, <1>11, <1>12, <1>13, <1>14 DEF Waited

-----------------------------------------------------------------------------
(* The steps of the client, which is awake then. *)

LEMMA ClientWaited ==
    ASSUME TypeInv, TypeInv', Core, Core', Waited, NEW c \in Client,
           asleepCompleted' = {}, UNCHANGED <<pc, part>>,
           \A a \in Actor \ Client : call'[a] = call[a],
           OwnedOK(task', call', held'), MetOK(task', group'), PromiseOK(task', group', call'),
           \A t \in Task : task[t].state # "Free" /\ task'[t].state # "Free"
                              => task'[t].group = task[t].group
    PROVE  Waited'
BY SetsAssumption, ParentsStay DEF Waited, Actor, SleepersHeld

(* Calls that change a group, and tasks it holds back. *)
LEMMA GroupCallWaited ==
    ASSUME TypeInv, TypeInv', Core, Core', Listed, OneClient, SleepersWait, Waited,
           NEW c \in Client, NEW g \in Group,
           \/ GroupInitialize(c, g) \/ GroupDestroy(c, g)
           \/ DependencyAdd(c, g) \/ DependencyAddMet(c, g)
           \/ GroupBlock(c, g) \/ GroupUnblock(c, g)
    PROVE  Waited'
<1>1. /\ OwnedOK(task, call, held) /\ MetOK(task, group) /\ ListedOK(task, group)
      /\ task \in [Task -> TaskRec] /\ BlockedOK(task, group)
  BY GroupsTyped DEF Waited, Listed, Core, PoolOK
<1>2. call[c] = Idle /\ UNCHANGED <<pc, part, call, held, asleepCompleted>>
  BY DEF GroupInitialize, GroupDestroy, DependencyAdd, DependencyAddMet, GroupBlock, GroupUnblock,
         MayCall, clientFrame
<1>3. asleepCompleted = {}
  BY <1>2, NobodyAsleep DEF Idle, Waits
<1>4. PromiseOK(task', group', call')
  BY <1>2 DEF OneClient, Idle, PromiseOK
<1>5. /\ \A u \in Task : /\ task'[u].group = task[u].group /\ task'[u].output = task[u].output
                         /\ task'[u].detached = task[u].detached
                         /\ task'[u].state = "Free" <=> task[u].state = "Free"
                         /\ task'[u].state = "Done" => task[u].state = "Done"
      /\ MetOK(task', group')
  <2>1. CASE GroupInitialize(c, g) \/ GroupDestroy(c, g)
    BY <2>1, RenewEffect, <1>1, TaskFields DEF EmptyEffect, MembersOf, MetOK
  <2>2. CASE DependencyAdd(c, g) \/ DependencyAddMet(c, g) \/ GroupBlock(c, g)
    BY <2>2, GroupEffect, <1>1, TaskFields DEF DependencyAdd, DependencyAddMet, GroupBlock, ListedOK,
       NamesOK, InGroup, KeptEffect, MetOK
  <2>3. CASE GroupUnblock(c, g)
    <3> DEFINE list == group[g].blockedTasks
    <3>1. UnblockEffect(task, task', group, group', g)
      BY <2>3, UnblockedEffect
    <3>2. list \subseteq Task /\ \A u \in list : task[u].state = "Blocked"
      BY <1>1, <3>1, GroupsTyped, GroupFields DEF UnblockEffect, BlockedOK
    <3>3. \A u \in Task : /\ SameTask(task[u], task'[u])
                          /\ u \notin list => task'[u].state = task[u].state
                          /\ u \in list => task'[u].state \in {"Ready", "Waiting"}
      BY <3>1 DEF UnblockEffect
    <3>4. \A u \in Task : task'[u].detached = task[u].detached
      <4>1. PICK f : task' = [u \in Task |-> IF u \in list THEN [task[u] EXCEPT !.state = f[u]] ELSE task[u]]
        <5> DEFINE rel == {t \in list : taskDependenciesMet(task[t].inputs, group[g].met)}
                   f == [u \in Task |-> IF u \in rel THEN "Ready" ELSE "Waiting"]
        <5>1. task' = [u \in Task |-> IF u \in list
                          THEN [task[u] EXCEPT !.state = IF u \in rel THEN "Ready" ELSE "Waiting"]
                          ELSE task[u]]
          BY <2>3 DEF GroupUnblock
        <5>2. \A u \in Task : f[u] = IF u \in rel THEN "Ready" ELSE "Waiting"
          OBVIOUS
        <5> HIDE DEF f, rel, list
        <5>3. task' = [u \in Task |-> IF u \in list THEN [task[u] EXCEPT !.state = f[u]] ELSE task[u]]
          BY <5>1, <5>2
        <5> QED BY <5>3
      <4> HIDE DEF list
      <4> QED BY <1>1, <4>1 DEF TaskRec
    <3>5. \A h \in Group : group'[h].met = group[h].met
      BY <3>1 DEF UnblockEffect, SameGroup
    <3> HIDE DEF list
    <3>6. \A u \in Task : /\ task'[u].group = task[u].group /\ task'[u].output = task[u].output
                          /\ task'[u].state = "Free" <=> task[u].state = "Free"
                          /\ task'[u].state = "Done" => task[u].state = "Done"
      BY <3>2, <3>3 DEF SameTask
    <3>7. \A u \in Task : task[u].group # NoGroup => task[u].group \in Group
      BY <1>1, TaskFields
    <3> QED BY <1>1, <3>4, <3>5, <3>6, <3>7 DEF MetOK
  <2> QED BY <2>1, <2>2, <2>3
<1>6. OwnedOK(task', call', held')
  BY <1>5, <1>1, <1>2, OwnersStay DEF Carries, Kept
<1> QED BY <1>2, <1>3, <1>4, <1>5, <1>6, ClientWaited

LEMMA ClientAddsWaited ==
    ASSUME TypeInv, TypeInv', Core, Core', OneClient, SleepersWait, Waited,
           NEW c \in Client, NEW g, NEW t \in Task, NEW shape \in Shapes,
           (g \in Group /\ GroupAdd(c, g, t, shape)) \/ PoolAdd(c, t, shape)
    PROVE  Waited'
<1>1. /\ OwnedOK(task, call, held) /\ MetOK(task, group)
      /\ task \in [Task -> TaskRec] /\ call \in [Actor -> Call] /\ held \in [Client -> SUBSET Task]
  BY GroupsTyped DEF Waited, TypeInv, TypeOK
<1>2. call[c] = Idle /\ c \in Actor /\ call[c].op = "none" /\ UNCHANGED <<pc, part, asleepCompleted>>
  <2>1. MayCall(c) /\ UNCHANGED clientFrame
    BY DEF GroupAdd, PoolAdd
  <2> QED BY <2>1 DEF MayCall, clientFrame, Actor, Idle
<1>3. asleepCompleted = {}
  BY <1>2, NobodyAsleep DEF Idle, Waits
<1>4. /\ task[t].state = "Free"
      /\ Kept(task', t) /\ task'[t].state # "Done"
      /\ \A u \in Task \ {t} : task'[u] = task[u]
      /\ \A h \in Group : group'[h].met = group[h].met
  BY <1>1, AddTaskIs DEF GroupAdd, PoolAdd
<1>5. \/ /\ call'[c] = [op |-> "noWait", task |-> t] /\ \A b \in Actor \ {c} : call'[b] = call[b]
         /\ held' = held
      \/ call' = call /\ held'[c] = held[c] \cup {t} /\ \A d \in Client \ {c} : held'[d] = held[d]
  BY <1>1, <1>2 DEF GroupAdd, PoolAdd
<1>6. OwnedOK(task', call', held')
  BY <1>1, <1>4, OwnersStay, <1>5, <1>2 DEF OwnedOK, Kept, Actor, Carries
<1>7. MetOK(task', group')
  BY <1>1, <1>4, TaskFields DEF MetOK
<1>8. PromiseOK(task', group', call')
  BY <1>2, <1>5 DEF OneClient, PromiseOK
<1>9. \A a \in Actor \ Client : call'[a] = call[a]
  BY <1>5
<1>10. \A u \in Task : task[u].state # "Free" /\ task'[u].state # "Free"
                          => task'[u].group = task[u].group
  BY <1>4
<1> QED BY <1>2, <1>3, <1>6, <1>7, <1>8, <1>9, <1>10, ClientWaited

(* A task that the client held is left to its end; a wait begins. *)
LEMMA ClientCallWaited ==
    ASSUME TypeInv, TypeInv', Core, Core', OneClient, SleepersWait, Waited, NEW c \in Client,
           (\E t \in Task : PoolNoWait(c, t)) \/ (\E wait \in Waits : WaitStart(c, wait))
    PROVE  Waited'
<1>1. /\ OwnedOK(task, call, held) /\ MetOK(task, group)
      /\ call \in [Actor -> Call] /\ held \in [Client -> SUBSET Task]
  BY DEF Waited, TypeInv, TypeOK
<1>2. /\ MayCall(c) /\ UNCHANGED <<task, group, pc, part, asleepCompleted>>
  BY DEF PoolNoWait, WaitStart, clientFrame, poolVars
<1>3. call[c] = Idle /\ c \in Actor /\ call[c].op = "none"
  BY <1>2 DEF MayCall, Actor, Idle
<1>4. asleepCompleted = {}
  BY <1>3, NobodyAsleep DEF Idle, Waits
<1>5. \A d \in Client : d = c
  BY DEF OneClient
<1>6. OwnedOK(task', call', held') /\ PromiseOK(task', group', call')
      /\ \A a \in Actor \ Client : call'[a] = call[a]
  <2>1. ASSUME NEW t \in Task, PoolNoWait(c, t)
        PROVE  OwnedOK(task', call', held') /\ PromiseOK(task', group', call')
               /\ \A a \in Actor \ Client : call'[a] = call[a]
    BY <1>1, <1>3, <2>1, <1>2, <1>5 DEF PoolNoWait, OwnedOK, PromiseOK
  <2>2. ASSUME NEW wait \in Waits, WaitStart(c, wait)
        PROVE  OwnedOK(task', call', held') /\ PromiseOK(task', group', call')
               /\ \A a \in Actor \ Client : call'[a] = call[a]
    <3>1. /\ call'[c] = wait /\ \A b \in Actor \ {c} : call'[b] = call[b]
          /\ held' = held /\ MayWait(c, wait)
      BY <1>1, <1>3, <2>2 DEF WaitStart
    <3>2. /\ wait.op # "noWait"
          /\ wait.op = "taskWait" => wait.task \in held[c]
          /\ wait.op = "dependencyWait" => Promised(task, group, wait.group, wait.dep)
      <4>1. wait.op = "taskWait" => wait.task \in held[c]
        BY <3>1 DEF MayWait
      <4>2. wait.op = "dependencyWait" => \/ wait.dep \in group[wait.group].met
                                          \/ ~External(wait.group, wait.dep)
        BY <3>1 DEF MayWait
      <4>3. wait.op # "noWait"
        BY DEF Waits
      <4> QED BY <4>1, <4>2, <4>3 DEF External, Members, Live, Promised, MembersOf
    <3>3. OwnedOK(task', call', held')
      BY <1>1, <1>2, <1>5, <3>1, <3>2 DEF OwnedOK
    <3>4. PromiseOK(task', group', call')
      BY <1>2, <1>5, <3>1, <3>2 DEF PromiseOK
    <3> QED BY <3>1, <3>3, <3>4
  <2> QED BY <2>1, <2>2
<1> QED BY <1>1, <1>2, <1>4, <1>6, ClientWaited

(* A client goes to sleep when what it polls is not so. *)
LEMMA WaitSleepWaited ==
    ASSUME TypeInv, Waited, NEW c \in Client, WaitSleep(c)
    PROVE  Waited'
BY SatisfiedIs DEF WaitSleep, Waiting, poolVars, Waited, SleepersHeld

LEMMA WaitReturnWaited ==
    ASSUME TypeInv, TypeInv', Core, Core', OneClient, SleepersWait, Waited, NEW c \in Client,
           WaitReturn(c)
    PROVE  Waited'
<1> DEFINE t == call[c].task
<1>1. /\ OwnedOK(task, call, held) /\ MetOK(task, group)
      /\ task \in [Task -> TaskRec] /\ call \in [Actor -> Call] /\ held \in [Client -> SUBSET Task]
  BY GroupsTyped DEF Waited, TypeInv, TypeOK
<1>2. /\ call[c] \in Waits /\ c \notin asleepCompleted /\ UNCHANGED <<pc, part, asleepCompleted>>
      /\ call' = [call EXCEPT ![c] = Idle] /\ c \in Actor
  BY DEF WaitReturn, Waiting, clientFrame, Actor
<1>3. asleepCompleted' = {}
  BY <1>2 DEF TypeInv, TypeOK, OneClient
<1>4. \A d \in Client : d = c
  BY DEF OneClient
<1>5. /\ call'[c].op = "none" /\ \A b \in Actor \ {c} : call'[b] = call[b]
      /\ call[c].op # "noWait"
  BY <1>1, <1>2 DEF Idle, Waits
<1>6. PromiseOK(task', group', call')
  BY <1>4, <1>5 DEF PromiseOK
<1>7. CASE call[c].op = "taskWait"
  <2>1. /\ task[t].state = "Done" /\ removeTask(t) /\ held'[c] = held[c] \ {t}
        /\ t \in Task /\ t \in held[c]
    BY <1>1, <1>2, <1>7, CallFields DEF WaitReturn, Satisfied, OwnedOK
  <2>2. /\ task'[t].state = "Free" /\ \A u \in Task \ {t} : task'[u] = task[u]
        /\ \A g \in Group : group'[g].met = group[g].met
    BY <2>1, RemoveEffect, <1>1 DEF removeTask, FreeTask, LeaveEffect, SameGroup
  <2> HIDE DEF t
  <2>3. OwnedOK(task', call', held')
    BY <1>5, CallFields, <1>1, <2>1, <1>4, <2>2 DEF OwnedOK, Kept
  <2>4. MetOK(task', group')
    BY <1>1, <2>2, TaskFields DEF MetOK
  <2> QED BY <1>2, <1>3, <1>5, <1>6, <2>2, <2>3, <2>4, ClientWaited
<1>8. CASE call[c].op # "taskWait"
  <2>1. UNCHANGED <<task, group, held>>
    BY <1>8 DEF WaitReturn
  <2>2. OwnedOK(task', call', held')
    BY <1>1, <1>4, <1>5, <2>1 DEF OwnedOK
  <2> QED BY <1>1, <1>2, <1>3, <1>5, <1>6, <2>1, <2>2, ClientWaited
<1> QED BY <1>7, <1>8

LEMMA PoolDestroyWaited ==
    ASSUME TypeInv, TypeInv', Core, Core', OneClient, SleepersWait, Waited, NEW c \in Client,
           PoolDestroy(c)
    PROVE  Waited'
<1>1. OwnedOK(task, call, held) /\ MetOK(task, group)
  BY DEF Waited
<1>2. /\ UNCHANGED <<task, group, pc, part, held, asleepCompleted>> /\ call[c] = Idle
      /\ call' = [o \in Actor |-> IF o = c THEN [op |-> "join"]
                                  ELSE IF o \in Client THEN [op |-> "destroyed"] ELSE call[o]]
  BY DEF PoolDestroy, clientFrame, MayCall
<1>3. asleepCompleted = {}
  BY <1>2, NobodyAsleep DEF Idle, Waits
<1>4. /\ call'[c].op = "join" /\ c \in Actor /\ \A d \in Client : d = c
      /\ \A b \in Actor \ {c} : call'[b] = call[b]
  BY <1>2 DEF OneClient, Actor
<1>5. OwnedOK(task', call', held')
  BY <1>1, <1>2, <1>4 DEF OwnedOK
<1>6. PromiseOK(task', group', call')
  BY <1>4 DEF PromiseOK
<1> QED BY <1>1, <1>2, <1>3, <1>4, <1>5, <1>6, ClientWaited

-----------------------------------------------------------------------------
LEMMA WaitedKept ==
    ASSUME TypeInv, TypeInv', Core, Core', Listed, OneClient, SleepersWait, Waited, ~hung, ~hung',
           [Next]_vars, \A c \in Client : ~PoolJoin(c)
    PROVE  Waited'
<1>1. ASSUME NEW w \in Worker, WorkerStep(w) PROVE Waited'
  BY <1>1, RunsWaited, FinishWaited DEF WorkerStep
<1>2. ASSUME NEW a \in Actor, CallStep(a) PROVE Waited'
  BY <1>2, NoWaitWaited, WaitSleepWaited, WaitReturnWaited DEF CallStep
<1>3. ASSUME NEW a \in Actor, NEW g \in Group, NEW d \in Dep, DependencyMet(a, g, d) PROVE Waited'
  BY <1>3, DependencyMetWaited
<1>4. ASSUME NEW w \in Worker, NEW t \in Task, NEW shape \in Shapes, AddSlicedDeferred(w, t, shape)
      PROVE  Waited'
  BY <1>4, AddDeferredWaited
<1>5. ASSUME NEW c \in Client, NEW g \in Group,
             \/ GroupInitialize(c, g) \/ GroupDestroy(c, g)
             \/ DependencyAdd(c, g) \/ DependencyAddMet(c, g)
             \/ GroupBlock(c, g) \/ GroupUnblock(c, g)
      PROVE  Waited'
  BY <1>5, GroupCallWaited
<1>6. ASSUME NEW c \in Client, NEW g \in Group, NEW t \in Task, NEW shape \in Shapes,
             GroupAdd(c, g, t, shape)
      PROVE  Waited'
  BY <1>6, ClientAddsWaited
<1>7. ASSUME NEW c \in Client, NEW t \in Task, NEW shape \in Shapes, PoolAdd(c, t, shape)
      PROVE  Waited'
  BY <1>7, ClientAddsWaited
<1>8. ASSUME NEW c \in Client, NEW t \in Task, PoolNoWait(c, t) PROVE Waited'
  BY <1>8, ClientCallWaited
<1>9. ASSUME NEW c \in Client, NEW wait \in Waits, WaitStart(c, wait) PROVE Waited'
  BY <1>9, ClientCallWaited
<1>10. ASSUME NEW c \in Client, PoolDestroy(c) PROVE Waited'
  BY <1>10, PoolDestroyWaited
<1>11. CASE Destroyed \/ UNCHANGED vars
  BY <1>11 DEF Destroyed, vars, poolVars, Waited, SleepersHeld
<1> QED BY <1>1, <1>2, <1>3, <1>4, <1>5, <1>6, <1>7, <1>8, <1>9, <1>10, <1>11 DEF Next

LEMMA WakeInit == Init => WakeInv
<1> SUFFICES ASSUME Init PROVE WakeInv
  OBVIOUS
<1>1. /\ \A t \in Task : task[t].state = "Free"
      /\ \A a \in Actor : call[a].op = "none"
      /\ \A c \in Client : held[c] = {} /\ c \in Actor
      /\ \A w \in Worker : w \in Actor
      /\ asleepCompleted = {} /\ asleepReady = {} /\ ready = <<>>
  BY DEF Init, FreeTask, Idle, Actor
<1>2. OwnedOK(task, call, held) /\ ParentOK(task, call, pc, part) /\ MetOK(task, group)
      /\ PromiseOK(task, group, call) /\ SleepersHeld
  BY <1>1 DEF OwnedOK, ParentOK, MetOK, PromiseOK, SleepersHeld
<1> QED BY <1>1, <1>2 DEF WakeInv, QueueWatched, SleepersWait, Waited

LEMMA WakeKept ==
    ASSUME OneClient, TypeInv, TypeInv', StartInv, ListInv, ListInv', WakeInv, [Next]_vars
    PROVE  WakeInv'
<1>1. QueueWatched' /\ SleepersWait'
  BY QueueKept, SleepersKept DEF WakeInv
<1>2. CASE Freed
  BY <1>1, <1>2, FreedKept DEF WakeInv
<1>3. CASE ~Freed /\ \E c \in Client : PoolJoin(c)
  <2>1. Freed'
    BY <1>3, JoinFrees DEF StartInv
  <2> QED BY <1>1, <2>1 DEF WakeInv
<1>4. CASE ~Freed /\ \A c \in Client : ~PoolJoin(c)
  BY <1>4, CoreKept, WaitedKept, <1>1 DEF StartInv, ListInv, WakeInv
<1> QED BY <1>2, <1>3, <1>4

(* With one client, no thread sleeps through its wake-up: what a sleeping  *)
(* client polls is not so yet, although ldcTaskNoWait() and                *)
(* ldcTaskDependencyMet() of the workers broadcast nothing, and no worker  *)
(* sleeps while a part is queued.                                          *)
THEOREM NoWakeupIsLost == OneClient => (Spec => []NoLostWakeup)
<1> SUFFICES ASSUME OneClient PROVE Spec => []NoLostWakeup
  OBVIOUS
<1>1. TypeInv /\ TypeInv' /\ StartInv /\ ListInv /\ ListInv' /\ WakeInv /\ [Next]_vars => WakeInv'
  BY WakeKept
<1>2. TypeInv /\ WakeInv => NoLostWakeup
  <2> SUFFICES ASSUME TypeInv, WakeInv PROVE NoLostWakeup
    OBVIOUS
  <2>1. ASSUME NEW c \in asleepCompleted PROVE ~Satisfied(call[c])
    BY SatisfiedIs DEF WakeInv, SleepersWait, TypeInv, TypeOK, Freed, Waits, Waited, SleepersHeld
  <2> QED BY <2>1 DEF NoLostWakeup, WakeInv, QueueWatched
<1> QED BY <1>1, <1>2, WakeInit, TypeInvariant, StartInvariant, ListInvariant, PTL DEF Spec

=============================================================================
