------------------------------ MODULE TaskPool ------------------------------
(***************************************************************************)
(* The task pool of src/src/common/src/task_pool.c, run with worker        *)
(* threads (threadCount > 0).                                              *)
(*                                                                         *)
(* One mutex guards the whole pool, so every critical section of the code  *)
(* is one action here.  What runs with the mutex released - a task         *)
(* function, a completion function, the gap between addTask() and          *)
(* ldcTaskNoWait() - is a state of its own in which every other thread may *)
(* take steps.  A waiter on a condition variable is a member of            *)
(* asleepReady or asleepCompleted until a broadcast empties that set.      *)
(*                                                                         *)
(* An assertion of the code is a guard: a program that fails it is         *)
(* aborted.  The properties below state that the guards hold when needed.  *)
(***************************************************************************)
EXTENDS Integers, FiniteSets, Sequences, SequencesExt

CONSTANTS Client,       \* threads that call the API
          Worker,       \* threads of the pool
          Task,         \* addresses of task blocks; a freed one may be reused
          Group,        \* task groups
          NoGroup,      \* group of a stand alone task
          MaxDeps,      \* bound: dependency indices per group
          Reserved,     \* dependency slots a group is initialised with
          Shapes        \* inputs, iteration counts and completions of added tasks

Dep == 0 .. MaxDeps - 1
NoDep == -1             \* kTaskDependencyInvalid

ASSUME SetsAssumption ==
    /\ IsFiniteSet(Worker) /\ Worker # {}
    /\ IsFiniteSet(Task)
    /\ Client \cap Worker = {}
    /\ NoGroup \notin Group
ASSUME BoundsAssumption ==
    /\ MaxDeps \in Nat
    /\ Reserved \in Nat \ {0}
    /\ Shapes \subseteq [inputs : Seq(Dep), total : Nat \ {0}, finisher : BOOLEAN]

Actor == Client \cup Worker

VARIABLES task,             \* the task blocks
          group,            \* the groups
          ready,            \* readyParts: the FIFO of parts to be run
          pending,          \* pendingTaskCount
          running,          \* the workers are to go on
          pc, part,         \* of each worker: where it is, and its task part
          call,             \* of each actor: the API call it is inside
          held,             \* of each client: stand alone tasks not waited for yet
          asleepReady,      \* workers waiting on condVarReady
          asleepCompleted,  \* clients waiting on condVarCompleted
          hung              \* a thread loops in dependencyMet() and keeps the mutex

poolVars == <<task, group, ready, pending, running, hung>>
vars == <<poolVars, pc, part, call, held, asleepReady, asleepCompleted>>

-----------------------------------------------------------------------------
(* Task blocks, parts, groups and calls. *)

TaskRec == [state : {"Free", "Waiting", "Ready", "Running", "Blocked", "Done"},
            group : Group \cup {NoGroup}, inputs : Seq(Dep), output : Dep \cup {NoDep},
            total : Nat, finisher : BOOLEAN, sliced : BOOLEAN,
            completed : Nat, active : Int, detached : BOOLEAN]

FreeTask == [state |-> "Free", group |-> NoGroup, inputs |-> <<>>, output |-> NoDep,
             total |-> 0, finisher |-> FALSE, sliced |-> FALSE,
             completed |-> 0, active |-> 0, detached |-> FALSE]

GroupRec == [open : BOOLEAN, depCount : 0 .. MaxDeps, depReserved : Nat, met : SUBSET Dep,
             waiting : [Dep -> SUBSET Task], waitingCount : Int,
             blocked : BOOLEAN, blockedTasks : SUBSET Task, tasksCount : Int]

NewGroup == [open |-> TRUE, depCount |-> 0, depReserved |-> Reserved, met |-> {},
             waiting |-> [d \in Dep |-> {}], waitingCount |-> 0,
             blocked |-> FALSE, blockedTasks |-> {}, tasksCount |-> 0]

Part == [task : Task, start : Nat, count : Nat]
NoPart == [task |-> "none"]

Idle == [op |-> "none"]
Waits == [op : {"taskWait"}, task : Task] \cup [op : {"groupWait"}, group : Group]
         \cup [op : {"dependencyWait"}, group : Group, dep : Dep]
         \cup {[op |-> "poolWait"]}
Call == {Idle} \cup Waits \cup [op : {"noWait"}, task : Task]
        \cup {[op |-> "join"], [op |-> "destroyed"]}

Live == {t \in Task : task[t].state # "Free"}
Members(g) == {t \in Live : task[t].group = g}

(* The first unmet entry of an input array: it names the list to wait on. *)
taskLowestUnmetDependency(inputs, met) ==
    inputs[CHOOSE i \in 1 .. Len(inputs) :
              inputs[i] \notin met /\ \A j \in 1 .. i - 1 : inputs[j] \in met]

(* Mutant: the loop looks at the last input only. *)
taskDependenciesMetLast(inputs, met) == inputs = <<>> \/ Last(inputs) \in met

taskDependenciesMet(inputs, met) == ToSet(inputs) \subseteq met

(* Mutant: the last part is not cut to what remains. *)
PartsOfEqual(t, total) ==
    LET perPart == (total + Cardinality(Worker) - 1) \div Cardinality(Worker)
    IN  {[task |-> t, start |-> k, count |-> perPart] :
            k \in {i \in 0 .. total - 1 : i % perPart = 0}}

(* Mutant: the loop stops one iteration early. *)
PartsOfShort(t, total) ==
    LET perPart == (total + Cardinality(Worker) - 1) \div Cardinality(Worker)
    IN  {[task |-> t, start |-> k,
          count |-> IF total - 1 - k < perPart THEN total - 1 - k ELSE perPart] :
            k \in {i \in 0 .. total - 2 : i % perPart = 0}}

(* readyTask() splits a task into equal parts, one for each worker thread. *)
PartsOf(t, total) ==
    LET perPart == (total + Cardinality(Worker) - 1) \div Cardinality(Worker)
    IN  {[task |-> t, start |-> k,
          count |-> IF total - k < perPart THEN total - k ELSE perPart] :
            k \in {i \in 0 .. total - 1 : i % perPart = 0}}

(* The parts of a task are pushed together and in order.  Which of several *)
(* tasks that become ready at once goes first is left open: in the code it *)
(* is the order of a list that is pushed at its head.                      *)
InPushOrder(s) ==
    \A i, j \in 1 .. Len(s) :
        i < j /\ s[i].task = s[j].task =>
            /\ s[i].start < s[j].start
            /\ \A k \in i .. j : s[k].task = s[i].task

(* Mutant: one worker is signalled, whatever the number of parts. *)
readyTasksSignal(rel, total) ==
    /\ \E s \in SetToSeqs(UNION {PartsOf(t, total[t]) : t \in rel}) :
          InPushOrder(s) /\ ready' = ready \o s
    /\ IF rel = {} \/ asleepReady = {} THEN UNCHANGED asleepReady
       ELSE \E w \in asleepReady : asleepReady' = asleepReady \ {w}

(* readyTask(): queue the parts of the tasks in rel and broadcast          *)
(* condVarReady.                                                           *)
readyTasks(rel, total) ==
    /\ \E s \in SetToSeqs(UNION {PartsOf(t, total[t]) : t \in rel}) :
          InPushOrder(s) /\ ready' = ready \o s
    /\ asleepReady' = IF rel = {} THEN asleepReady ELSE {}

Total == [t \in Task |-> task[t].total]

-----------------------------------------------------------------------------
(* dependencyMet(): the tasks it makes ready, the record of the group      *)
(* afterwards, and the case in which its loop never ends.                  *)

(* Mutant: the other inputs of a waiting task are not looked at. *)
ReleasedUnchecked(g, d) ==
    IF d = NoDep \/ d \in group[g].met \/ group[g].blocked THEN {}
    ELSE group[g].waiting[d]

Released(g, d) ==
    IF d = NoDep \/ d \in group[g].met \/ group[g].blocked THEN {}
    ELSE {u \in group[g].waiting[d] :
             taskDependenciesMet(task[u].inputs, group[g].met \cup {d})}

(* Mutant: a task that waits for more is taken off the list for good. *)
GroupAfterMetDrops(g, d) ==
    IF d = NoDep \/ d \in group[g].met THEN group[g]
    ELSE [group[g] EXCEPT !.met = @ \cup {d},
                          !.waiting = [e \in Dep |-> IF e = d THEN {} ELSE @[e]],
                          !.waitingCount = @ - Cardinality(group[g].waiting[d])]

GroupAfterMet(g, d) ==
    LET met2  == group[g].met \cup {d}
        moved == group[g].waiting[d] \ Released(g, d)
        listOf(u) == taskLowestUnmetDependency(task[u].inputs, met2)
    IN  IF d = NoDep \/ d \in group[g].met THEN group[g]
        ELSE [group[g] EXCEPT
                !.met = met2,
                !.waiting = [e \in Dep |-> IF e = d THEN {}
                                ELSE @[e] \cup {u \in moved : listOf(u) = e}],
                !.waitingCount = @ - Cardinality(Released(g, d))]

(* scheduleTask() puts a waiting task of a blocked group on blockedTasks   *)
(* and leaves it at the head of the list dependencyMet() walks.            *)
NeverEnds(g, d) ==
    d # NoDep /\ d \notin group[g].met /\ group[g].blocked /\ group[g].waiting[d] # {}

Hang == /\ hung' = TRUE
        /\ UNCHANGED <<task, group, ready, pending, running, pc, part, call, held,
                       asleepReady, asleepCompleted>>

-----------------------------------------------------------------------------
NewTask(state, g, shape, output, sliced) ==
    [state |-> state, group |-> g, inputs |-> shape.inputs, output |-> output,
     total |-> shape.total, finisher |-> shape.finisher, sliced |-> sliced,
     completed |-> 0, active |-> 0, detached |-> FALSE]

(* addTask() and the scheduleTask() it ends with, on the task blocks tk. *)

addTask(tk, t, g, shape, output, sliced) ==
    LET inputs == shape.inputs
        met   == IF g = NoGroup THEN {} ELSE group[g].met
        state == IF g # NoGroup /\ group[g].blocked THEN "Blocked"
                 ELSE IF taskDependenciesMet(inputs, met) THEN "Ready"
                 ELSE "Waiting"
        list  == taskLowestUnmetDependency(inputs, met)
        listed == [group[g].waiting EXCEPT ![list] = @ \cup {t}]
    IN  /\ running
        /\ tk[t].state = "Free"
        /\ task' = [tk EXCEPT ![t] = NewTask(state, g, shape, output, sliced)]
        /\ group' = IF g = NoGroup THEN group
                    ELSE [group EXCEPT ![g] = [group[g] EXCEPT
                            !.tasksCount = @ + 1,
                            !.blockedTasks = IF state = "Blocked" THEN @ \cup {t} ELSE @,
                            !.waiting = IF state = "Waiting" THEN listed ELSE @,
                            !.waitingCount = IF state = "Waiting" THEN @ + 1 ELSE @]]
        /\ pending' = pending + 1
        /\ readyTasks(IF state = "Ready" THEN {t} ELSE {}, [Total EXCEPT ![t] = shape.total])
        /\ UNCHANGED <<running, hung>>

(* removeTask(): a task that is done leaves the pool and its group. *)
(* Mutant: the group is not told. *)
GroupWithoutCount(t) == group

GroupWithout(t) ==
    IF task[t].group = NoGroup THEN group
    ELSE [group EXCEPT ![task[t].group] = [group[task[t].group] EXCEPT !.tasksCount = @ - 1]]

removeTask(t) == /\ task' = [task EXCEPT ![t] = FreeTask]
                 /\ group' = GroupWithout(t)

(* Mutant: no broadcast. *)
broadcastNone == UNCHANGED asleepCompleted

broadcastCompleted == asleepCompleted' = {}

(* The rest of runTask() once every iteration of the worker's task has     *)
(* been run: finishTask(), then the broadcast of condVarCompleted.         *)
finishTask(w, completed) ==
    LET t   == part[w].task
        g   == task[t].group
        o   == task[t].output
        rel == IF g = NoGroup THEN {} ELSE Released(g, o)
    IN  IF g # NoGroup /\ NeverEnds(g, o) THEN Hang
        ELSE /\ task' = [u \in Task |->
                   IF u = t THEN IF task[t].detached THEN FreeTask
                                 ELSE [task[t] EXCEPT !.state = "Done", !.active = 0,
                                                      !.completed = completed]
                   ELSE IF u \in rel THEN [task[u] EXCEPT !.state = "Ready"]
                   ELSE task[u]]
             /\ group' = IF g = NoGroup THEN group
                         ELSE [group EXCEPT ![g] = [GroupAfterMet(g, o) EXCEPT
                                  !.tasksCount = IF task[t].detached THEN @ - 1 ELSE @]]
             /\ pending' = pending - 1
             /\ readyTasks(rel, Total)
             /\ pc' = [pc EXCEPT ![w] = "fetch"]
             /\ part' = [part EXCEPT ![w] = NoPart]
             /\ broadcastCompleted
             /\ UNCHANGED <<running, call, held, hung>>

-----------------------------------------------------------------------------
(* The worker threads: taskThreadWorker() and runTask(). *)

Awake(w) == ~hung /\ w \notin asleepReady

WorkerExit(w) ==
    /\ Awake(w) /\ pc[w] = "fetch" /\ ~running
    /\ pc' = [pc EXCEPT ![w] = "exited"]
    /\ UNCHANGED <<poolVars, part, call, held, asleepReady, asleepCompleted>>

WorkerSleep(w) ==
    /\ Awake(w) /\ pc[w] = "fetch" /\ running /\ ready = <<>>
    /\ asleepReady' = asleepReady \cup {w}
    /\ UNCHANGED <<poolVars, pc, part, call, held, asleepCompleted>>

WorkerRun(w) ==
    /\ Awake(w) /\ pc[w] = "fetch" /\ running /\ ready # <<>>
    /\ part' = [part EXCEPT ![w] = Head(ready)]
    /\ ready' = Tail(ready)
    /\ task' = [task EXCEPT ![Head(ready).task] =
                   [task[Head(ready).task] EXCEPT !.state = "Running", !.active = @ + 1]]
    /\ pc' = [pc EXCEPT ![w] = "function"]
    /\ UNCHANGED <<group, pending, running, hung, call, held, asleepReady, asleepCompleted>>

(* The task function has returned: the worker takes the mutex again. *)
Returned(w) == ~hung /\ pc[w] \in {"function", "returning"} /\ call[w] = Idle
CompletedBy(w) == task[part[w].task].completed + part[w].count
AllDone(w) == CompletedBy(w) = task[part[w].task].total

PartRecorded(t, completed) ==
    [task EXCEPT ![t] = [task[t] EXCEPT !.active = @ - 1, !.completed = completed,
                                  !.state = IF task[t].active = 1 THEN "Ready" ELSE @]]

WorkerPartDone(w) ==
    /\ Returned(w) /\ ~AllDone(w)
    /\ task' = PartRecorded(part[w].task, CompletedBy(w))
    /\ pc' = [pc EXCEPT ![w] = "fetch"]
    /\ part' = [part EXCEPT ![w] = NoPart]
    /\ broadcastCompleted
    /\ UNCHANGED <<group, ready, pending, running, hung, call, held, asleepReady>>

WorkerCompletion(w) ==
    /\ Returned(w) /\ AllDone(w) /\ task[part[w].task].finisher
    /\ task' = PartRecorded(part[w].task, CompletedBy(w))
    /\ pc' = [pc EXCEPT ![w] = "completion"]
    /\ UNCHANGED <<group, ready, pending, running, hung, part, call, held,
                   asleepReady, asleepCompleted>>

WorkerFinish(w) ==
    /\ ~hung
    /\ \/ Returned(w) /\ AllDone(w) /\ ~task[part[w].task].finisher
       \/ pc[w] = "completion"
    /\ finishTask(w, task[part[w].task].total)

-----------------------------------------------------------------------------
(* Calls made from a task function, or by a client. *)

MayCall(a) == /\ ~hung /\ running /\ call[a] = Idle
              /\ a \in Worker => pc[a] = "function"

(* A dependency that no task of the pool will meet: the caller's business. *)
External(g, d) ==
    \A u \in Members(g) : task[u].output # d

(* ldcTaskDependencyMet(), on an unmet dependency. *)
DependencyMet(a, g, d) ==
    /\ MayCall(a)
    /\ group[g].open /\ d < group[g].depCount /\ d \notin group[g].met /\ External(g, d)
    /\ IF NeverEnds(g, d) THEN Hang
       ELSE /\ group' = [group EXCEPT ![g] = GroupAfterMet(g, d)]
            /\ task' = [u \in Task |-> IF u \in Released(g, d)
                                       THEN [task[u] EXCEPT !.state = "Ready"] ELSE task[u]]
            /\ readyTasks(Released(g, d), Total)
            /\ UNCHANGED <<pending, running, hung, pc, part, call, held, asleepCompleted>>

(* Mutant: the parent keeps its output. *)
AddSlicedDeferredShared(w, t, shape) ==
    LET p == part[w].task
    IN  /\ w \in Worker /\ MayCall(w)
        /\ task[p].group # NoGroup /\ ~task[p].sliced /\ task[p].total = 1
        /\ addTask(task, t, task[p].group, [shape EXCEPT !.inputs = task[p].inputs],
                   task[p].output, TRUE)
        /\ call' = [call EXCEPT ![w] = [op |-> "noWait", task |-> t]]
        /\ pc' = [pc EXCEPT ![w] = "returning"]
        /\ UNCHANGED <<part, held, asleepCompleted>>

(* ldcTaskPoolAddSlicedDeferred() with a parent: the new task takes the    *)
(* parent's inputs and its output.  Callers return what it returns, and    *)
(* have a single iteration.                                                *)
AddSlicedDeferred(w, t, shape) ==
    LET p == part[w].task
    IN  /\ w \in Worker /\ MayCall(w)
        /\ task[p].group # NoGroup /\ ~task[p].sliced /\ task[p].total = 1
        /\ addTask([task EXCEPT ![p] = [task[p] EXCEPT !.output = NoDep]], t, task[p].group,
                   [shape EXCEPT !.inputs = task[p].inputs], task[p].output, TRUE)
        /\ call' = [call EXCEPT ![w] = [op |-> "noWait", task |-> t]]
        /\ pc' = [pc EXCEPT ![w] = "returning"]
        /\ UNCHANGED <<part, held, asleepCompleted>>

(* ldcTaskNoWait(): nothing is broadcast. *)
NoWait(a) ==
    LET t == call[a].task
    IN  /\ ~hung /\ call[a].op = "noWait"
        /\ IF task[t].state = "Done" THEN removeTask(t)
           ELSE /\ task' = [task EXCEPT ![t] = [task[t] EXCEPT !.detached = TRUE]]
                /\ UNCHANGED group
        /\ call' = [call EXCEPT ![a] = Idle]
        /\ UNCHANGED <<ready, pending, running, hung, pc, part, held, asleepReady,
                       asleepCompleted>>
-----------------------------------------------------------------------------
(* Calls made by clients only. *)

clientFrame == <<pc, part, asleepCompleted>>

GroupInitialize(c, g) ==
    /\ MayCall(c) /\ ~group[g].open
    /\ group' = [group EXCEPT ![g] = NewGroup]
    /\ UNCHANGED <<task, ready, pending, running, hung, clientFrame, call, held, asleepReady>>

(* A frame destroys its group after ldcTaskGroupWait(). *)
GroupDestroy(c, g) ==
    /\ MayCall(c) /\ group[g].open /\ group[g].tasksCount = 0
    /\ \A o \in Actor : call[o].op \in {"groupWait", "dependencyWait"} => call[o].group # g
    /\ group' = [group EXCEPT ![g] = [NewGroup EXCEPT !.open = FALSE, !.depReserved = 0]]
    /\ UNCHANGED <<task, ready, pending, running, hung, clientFrame, call, held, asleepReady>>

DependencyAdd(c, g) ==
    /\ MayCall(c) /\ group[g].open /\ group[g].depCount < MaxDeps
    /\ group' = [group EXCEPT ![g] = [group[g] EXCEPT !.depCount = @ + 1,
                   !.depReserved = IF group[g].depCount >= @ THEN 2 * @ ELSE @]]
    /\ UNCHANGED <<task, ready, pending, running, hung, clientFrame, call, held, asleepReady>>

(* The branch that makes room for the dependency does not count it. *)
DependencyAddMet(c, g) ==
    LET d    == group[g].depCount
        room == d < group[g].depReserved
    IN  /\ MayCall(c) /\ group[g].open /\ d < MaxDeps /\ d \notin group[g].met
        /\ group' = [group EXCEPT ![g] = [group[g] EXCEPT !.met = @ \cup {d},
              !.depCount = IF room THEN @ + 1 ELSE @,
              !.depReserved = IF room THEN @ ELSE 2 * @]]
        /\ UNCHANGED <<task, ready, pending, running, hung, clientFrame, call, held,
                       asleepReady>>

(* Callers allocate the output of a task after its inputs, so the tasks of *)
(* a group form no cycle, and give a dependency to one task only.          *)
GoodOutput(g, inputs, output) ==
    output = NoDep \/ /\ output < group[g].depCount /\ output \notin group[g].met
                      /\ External(g, output)
                      /\ \A d \in ToSet(inputs) : d < output

(* ldcTaskGroupAdd(): addTask(), then ldcTaskNoWait() with the mutex free *)
(* in between.                                                             *)
GroupAdd(c, g, t, shape) ==
    /\ MayCall(c) /\ group[g].open
    /\ \A d \in ToSet(shape.inputs) : d < group[g].depCount
    /\ \E output \in Dep \cup {NoDep} :
          GoodOutput(g, shape.inputs, output) /\ addTask(task, t, g, shape, output, FALSE)
    /\ call' = [call EXCEPT ![c] = [op |-> "noWait", task |-> t]]
    /\ UNCHANGED <<clientFrame, held>>

(* ldcTaskPoolAdd(): the caller keeps the task until it waits for it. *)
PoolAdd(c, t, shape) ==
    /\ MayCall(c) /\ shape.inputs = <<>>
    /\ addTask(task, t, NoGroup, shape, NoDep, FALSE)
    /\ held' = [held EXCEPT ![c] = @ \cup {t}]
    /\ UNCHANGED <<clientFrame, call>>

PoolNoWait(c, t) ==
    /\ MayCall(c) /\ t \in held[c]
    /\ call' = [call EXCEPT ![c] = [op |-> "noWait", task |-> t]]
    /\ held' = [held EXCEPT ![c] = @ \ {t}]
    /\ UNCHANGED <<poolVars, clientFrame, asleepReady>>

(* Mutant: the group is blocked when it already has tasks. *)
GroupBlockLate(c, g) ==
    /\ MayCall(c) /\ group[g].open /\ ~group[g].blocked
    /\ group[g].blockedTasks = {}
    /\ group' = [group EXCEPT ![g] = [group[g] EXCEPT !.blocked = TRUE]]
    /\ UNCHANGED <<task, ready, pending, running, hung, clientFrame, call, held, asleepReady>>

(* ldcTaskGroupBlock() asserts that no blocked task is left over.  Frames  *)
(* block their group before they add tasks to it.                          *)
GroupBlock(c, g) ==
    /\ MayCall(c) /\ group[g].open /\ ~group[g].blocked
    /\ group[g].blockedTasks = {}
    /\ group[g].tasksCount = 0
    /\ group' = [group EXCEPT ![g] = [group[g] EXCEPT !.blocked = TRUE]]
    /\ UNCHANGED <<task, ready, pending, running, hung, clientFrame, call, held, asleepReady>>

(* ldcTaskGroupUnblock() schedules the blocked tasks and resets their      *)
(* count, but not the list.                                                *)
GroupUnblock(c, g) ==
    LET met  == group[g].met
        list == group[g].blockedTasks
        rel  == {t \in list : taskDependenciesMet(task[t].inputs, met)}
        listOf(t) == taskLowestUnmetDependency(task[t].inputs, met)
    IN  /\ MayCall(c) /\ group[g].open /\ group[g].blocked
        /\ \A t \in list : task[t].state = "Blocked"
        /\ task' = [t \in Task |->
              IF t \in list
              THEN [task[t] EXCEPT !.state = IF t \in rel THEN "Ready" ELSE "Waiting"]
              ELSE task[t]]
        /\ group' = [group EXCEPT ![g] = [group[g] EXCEPT !.blocked = FALSE,
              !.waiting = [d \in Dep |-> @[d] \cup {t \in list \ rel : listOf(t) = d}],
              !.waitingCount = @ + Cardinality(list \ rel)]]
        /\ readyTasks(rel, Total)
        /\ UNCHANGED <<pending, running, hung, clientFrame, call, held>>
-----------------------------------------------------------------------------
(* Calls that wait on condVarCompleted. *)

(* What a caller of a wait relies on: everything it waits for will be met  *)
(* by tasks that can run.  Outputs come after inputs, so the check needs   *)
(* one level only: an unmet input is the output of another task.           *)
Runnable(g) == /\ ~group[g].blocked
               /\ \A t \in Members(g), d \in Dep :
                     d \in ToSet(task[t].inputs) \ group[g].met => ~External(g, d)

MayWait(c, wait) ==
    CASE wait.op = "taskWait"       -> wait.task \in held[c]
      [] wait.op = "groupWait"      -> group[wait.group].open /\ Runnable(wait.group)
      [] wait.op = "dependencyWait" -> /\ group[wait.group].open /\ Runnable(wait.group)
                                       /\ wait.dep < group[wait.group].depCount
                                       /\ \/ wait.dep \in group[wait.group].met
                                          \/ ~External(wait.group, wait.dep)
      [] wait.op = "poolWait"       -> \A g \in Group : group[g].open => Runnable(g)

WaitStart(c, wait) ==
    /\ MayCall(c) /\ MayWait(c, wait)
    /\ call' = [call EXCEPT ![c] = wait]
    /\ UNCHANGED <<poolVars, clientFrame, held, asleepReady>>

(* The condition that ldcTaskWait(), ldcTaskGroupWait(),                   *)
(* ldcTaskDependencyWait() and ldcTaskPoolWait() loop on.                  *)
Satisfied(wait) ==
    CASE wait.op = "taskWait"       -> task[wait.task].state = "Done"
      [] wait.op = "groupWait"      -> group[wait.group].tasksCount = 0
      [] wait.op = "dependencyWait" -> wait.dep \in group[wait.group].met
      [] wait.op = "poolWait"       -> pending = 0

Waiting(c) == ~hung /\ call[c] \in Waits /\ c \notin asleepCompleted

WaitSleep(c) ==
    /\ Waiting(c) /\ ~Satisfied(call[c])
    /\ asleepCompleted' = asleepCompleted \cup {c}
    /\ UNCHANGED <<poolVars, pc, part, call, held, asleepReady>>

WaitReturn(c) ==
    /\ Waiting(c) /\ Satisfied(call[c])
    /\ IF call[c].op = "taskWait"
       THEN /\ removeTask(call[c].task)
            /\ held' = [held EXCEPT ![c] = @ \ {call[c].task}]
       ELSE UNCHANGED <<task, group, held>>
    /\ call' = [call EXCEPT ![c] = Idle]
    /\ UNCHANGED <<ready, pending, running, hung, clientFrame, asleepReady>>

(* ldcTaskPoolDestroy(): stop the workers, wait for each of them, and free *)
(* the task blocks that are left, queued parts included.                   *)
PoolDestroy(c) ==
    /\ MayCall(c)
    /\ \A o \in Client : call[o] = Idle
    /\ running' = FALSE
    /\ asleepReady' = {}
    /\ call' = [o \in Actor |-> IF o = c THEN [op |-> "join"]
                                ELSE IF o \in Client THEN [op |-> "destroyed"] ELSE call[o]]
    /\ UNCHANGED <<task, group, ready, pending, hung, clientFrame, held>>

PoolJoin(c) ==
    /\ ~hung /\ call[c].op = "join" /\ \A w \in Worker : pc[w] = "exited"
    /\ task' = [t \in Task |-> FreeTask]
    /\ ready' = <<>>
    /\ call' = [call EXCEPT ![c] = [op |-> "destroyed"]]
    /\ UNCHANGED <<group, pending, running, hung, clientFrame, held, asleepReady>>

Destroyed == /\ \A c \in Client : call[c].op = "destroyed"
             /\ UNCHANGED vars

-----------------------------------------------------------------------------
Init ==
    /\ task = [t \in Task |-> FreeTask]
    /\ group = [g \in Group |-> NewGroup]
    /\ ready = <<>>
    /\ pending = 0
    /\ running = TRUE
    /\ hung = FALSE
    /\ pc = [w \in Worker |-> "fetch"]
    /\ part = [w \in Worker |-> NoPart]
    /\ call = [a \in Actor |-> Idle]
    /\ held = [c \in Client |-> {}]
    /\ asleepReady = {}
    /\ asleepCompleted = {}

WorkerStep(w) ==
    \/ WorkerExit(w) \/ WorkerSleep(w) \/ WorkerRun(w)
    \/ WorkerPartDone(w) \/ WorkerCompletion(w) \/ WorkerFinish(w)

(* The steps that finish a call an actor is inside. *)
CallStep(a) == NoWait(a) \/ (a \in Client /\ (WaitSleep(a) \/ WaitReturn(a) \/ PoolJoin(a)))

Next ==
    \/ \E w \in Worker : WorkerStep(w)
    \/ \E a \in Actor : CallStep(a)
    \/ \E a \in Actor, g \in Group, d \in Dep : DependencyMet(a, g, d)
    \/ \E w \in Worker, t \in Task, shape \in Shapes : AddSlicedDeferred(w, t, shape)
    \/ \E c \in Client, g \in Group :
          \/ GroupInitialize(c, g) \/ GroupDestroy(c, g)
          \/ DependencyAdd(c, g) \/ DependencyAddMet(c, g)
          \/ GroupBlock(c, g) \/ GroupUnblock(c, g)
          \/ \E t \in Task, shape \in Shapes : GroupAdd(c, g, t, shape)
    \/ \E c \in Client, t \in Task :
          PoolNoWait(c, t) \/ \E shape \in Shapes : PoolAdd(c, t, shape)
    \/ \E c \in Client, wait \in Waits : WaitStart(c, wait)
    \/ \E c \in Client : PoolDestroy(c)
    \/ Destroyed

Spec == Init /\ [][Next]_vars
-----------------------------------------------------------------------------
(* Properties. *)

(* The variables hold values of the kinds the code gives them. *)
TypeOK ==
    /\ task \in [Task -> TaskRec]
    /\ group \in [Group -> GroupRec]
    /\ ready \in Seq(Part)
    /\ pending \in Int
    /\ running \in BOOLEAN /\ hung \in BOOLEAN
    /\ pc \in [Worker -> {"fetch", "function", "returning", "completion", "exited"}]
    /\ part \in [Worker -> Part \cup {NoPart}]
    /\ call \in [Actor -> Call]
    /\ held \in [Client -> SUBSET Task]
    /\ asleepReady \subseteq Worker
    /\ asleepCompleted \subseteq Client

(* No task is queued, run or done before each of its inputs is met, however *)
(* it moved between the lists of unmet dependencies in dependencyMet().    *)
StartedInputsMet ==
    \A t \in Task : task[t].state \in {"Ready", "Running", "Done"} /\ task[t].group # NoGroup
                     => ToSet(task[t].inputs) \subseteq group[task[t].group].met

(* A dependency is not met while a task that has yet to finish holds it as *)
(* its output: a deferring parent that finishes first does not meet it.    *)
UnmetUntilProduced ==
    \A t \in Live : task[t].group # NoGroup /\ task[t].state # "Done"
                     => task[t].output \notin group[task[t].group].met

PoolFreed == ~running /\ \A c \in Client : call[c].op # "join"

(* A waiting task is on one list, that of the first input it still waits   *)
(* for, so that meeting that input finds it: no task is forgotten.         *)
WaitingIsListed ==
    ~PoolFreed => \A g \in Group :
        /\ \A d \in Dep : \A t \in group[g].waiting[d] :
              /\ t \in Members(g) /\ task[t].state = "Waiting"
              /\ d = taskLowestUnmetDependency(task[t].inputs, group[g].met)
              /\ d \notin group[g].met
        /\ \A t \in Members(g) : task[t].state = "Waiting" =>
              \E d \in Dep : t \in group[g].waiting[d]
        /\ group[g].waitingCount = Cardinality({t \in Members(g) : task[t].state = "Waiting"})

(* pendingTaskCount and the tasksCount of each group, which the waits poll, *)
(* count the task blocks that are not done, and those not freed yet.       *)
CountsAgree ==
    ~PoolFreed => /\ pending = Cardinality({t \in Live : task[t].state # "Done"})
                  /\ \A g \in Group : group[g].tasksCount = Cardinality(Members(g))

Outstanding(t) == {i \in DOMAIN ready : ready[i].task = t}
AtWork(t) == {w \in Worker : pc[w] \in {"function", "returning"} /\ part[w].task = t}

Iterations(p) == p.start .. p.start + p.count - 1
Unrun(t) == UNION ({Iterations(ready[i]) : i \in Outstanding(t)}
                      \cup {Iterations(part[w]) : w \in AtWork(t)})

(* Every iteration of a started task is queued, being run by one worker, or *)
(* counted as completed: none is lost or run twice, so that the last part  *)
(* to end, and no other, finishes the task.                                *)
IterationsAccounted ==
    \A t \in Task : task[t].state \in {"Ready", "Running"} =>
        /\ task[t].active = Cardinality(AtWork(t))
        /\ task[t].completed + Cardinality(Unrun(t)) = task[t].total
        /\ \A i, j \in Outstanding(t) :
              i # j => Iterations(ready[i]) \cap Iterations(ready[j]) = {}
        /\ \A w \in AtWork(t) :
              /\ \A v \in AtWork(t) :
                    v # w => Iterations(part[w]) \cap Iterations(part[v]) = {}
              /\ \A i \in Outstanding(t) :
                    Iterations(part[w]) \cap Iterations(ready[i]) = {}

(* No thread sleeps through its wake up: a client asleep on                *)
(* condVarCompleted waits for something that is not so yet, and no worker  *)
(* sleeps on condVarReady while a part is queued.                          *)
NoLostWakeup ==
    /\ \A c \in asleepCompleted : ~Satisfied(call[c])
    /\ ready # <<>> => asleepReady = {}

(* The loop of dependencyMet() comes to its end. *)
LoopsEnd == ~hung

(* The pool implements the task graph. *)
Node == [t \in Task |->
    [phase  |-> CASE task[t].state = "Free" -> "absent"
                  [] task[t].state \in {"Waiting", "Blocked"} -> "pending"
                  [] task[t].state \in {"Ready", "Running"} -> "runnable"
                  [] task[t].state = "Done" -> "done",
     group  |-> task[t].group,
     inputs |-> ToSet(task[t].inputs),
     output |-> task[t].output]]

Graph == INSTANCE TaskGraph WITH
            node <- Node,
            met <- [g \in Group |-> group[g].met],
            paused <- {g \in Group : group[g].blocked}

(* Scheduling through lists of waiting tasks, queued parts and worker      *)
(* threads makes exactly those tasks runnable whose inputs are met.        *)
ImplementsTaskGraph == Graph!GraphSpec

-----------------------------------------------------------------------------
(* Fairness: the operating system runs every thread that can take a step,  *)
(* and the functions of tasks return.                                      *)
Fairness ==
    /\ \A w \in Worker : WF_vars(WorkerStep(w))
    /\ \A a \in Actor : WF_vars(CallStep(a))

FairSpec == Spec /\ Fairness

(* A client that waits for tasks that can run, returns. *)
WaitsReturn ==
    \A c \in Client : (call[c] \in Waits \/ call[c].op = "join")
                         ~> (call[c] = Idle \/ call[c].op = "destroyed")

(* A task that is runnable finishes, unless the pool is stopped. *)
RunnableFinishes ==
    \A t \in Task : (task[t].state \in {"Ready", "Running"})
                       ~> (task[t].state \in {"Free", "Done"} \/ ~running)
=============================================================================
