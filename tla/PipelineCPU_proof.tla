------------------------- MODULE PipelineCPU_proof --------------------------
(***************************************************************************)
(* Theorems about the CPU pipeline, for every number of timestamps,        *)
(* pictures and workers, every limit and every mode: types, and that no    *)
(* base picture goes back while a task has still to read it.               *)
(*                                                                         *)
(* Core is the inductive invariant that the other theorems build on.  It   *)
(* says of the record of each frame which tasks it has been given and has  *)
(* done at each stage of generateTasks(), and ties the records to the two  *)
(* indexes, to the tasks that are half way through and to the call under   *)
(* way.  It is needed because the properties speak of finished frames and  *)
(* of pictures, and the code reaches those only through the dependencies   *)
(* that generateTasks() adds one by one while workers already run tasks.   *)
(***************************************************************************)
EXTENDS PipelineCPU, FiniteSetTheorems, SequenceTheorems, WellFoundedInduction, TLAPS

(* Among some numbers there is a least one. *)
LEMMA LeastNumber ==
    ASSUME NEW U \in SUBSET Nat, U # {}
    PROVE  \E i \in U : \A j \in U : i <= j
<1> DEFINE T == {1 .. i : i \in U}
           R == StrictSubsetOrdering(Nat)
<1>1. IsWellFoundedOn(R, FiniteSubsetsOf(Nat))
  BY FS_StrictSubsetOrderingWellFounded
<1>2. T \subseteq FiniteSubsetsOf(Nat) /\ T # {}
  <2>1. ASSUME NEW i \in U PROVE 1 .. i \in SUBSET Nat /\ IsFiniteSet(1 .. i)
    BY FS_Interval
  <2> QED BY <2>1 DEF FiniteSubsetsOf
<1>3. \E x \in T : \A y \in T : ~(<<y, x>> \in R)
  <2> HIDE DEF T, R
  <2> QED BY <1>1, <1>2, WFMin
<1>4. PICK i \in U : \A j \in U : ~(<<1 .. j, 1 .. i>> \in R)
  BY <1>3
<1>5. ASSUME NEW j \in U PROVE i <= j
  <2> SUFFICES ASSUME j < i PROVE FALSE
    OBVIOUS
  <2>1. i \in 1 .. i /\ i \notin 1 .. j /\ 1 .. j \subseteq 1 .. i
    OBVIOUS
  <2>2. <<1 .. j, 1 .. i>> \in R
    BY <2>1 DEF StrictSubsetOrdering
  <2> QED BY <1>4, <2>2
<1> QED BY <1>5


(* How far generateTasks() has got with the frame t. *)
Building(t) == api.frame = t /\ api.pc \in {"generate", "require", "match", "findBase"}
Stage(t) ==
    IF frames[t].phase \in {"None", "Reorder"} \/ (Building(t) /\ api.pc = "generate")
    THEN "unmade"
    ELSE IF Building(t) THEN api.pc ELSE "made"

(* The tasks that generateTasks() has added by then, but for the slices. *)
Made(graph, stage) ==
    CASE stage = "unmade" -> {}
      [] stage \in {"require", "match"} -> {"Read"}
      [] stage \in {"findBase", "made"} ->
            {"Read", "OutputDone"} \cup (IF graph = "temporal" THEN {"Add", "Release"} ELSE {})
               \cup (IF stage = "made" THEN {"BaseDone"} ELSE {})

(* The tasks of a frame: what is done was added, and its inputs were met. *)
TasksOK(f, stage) ==
    /\ f.met \cap Task \subseteq f.added \cup {"Slices"}
    /\ \A k \in f.met \cap Task : Needs(f, k) \subseteq f.met
    /\ f.added \ {"Slices"} = Made(f.graph, stage)
    /\ "BaseDone" \in f.added => f.baseNeeds \subseteq {"Slices"} /\ "Slices" \in f.met \cup f.baseNeeds

(* Its pictures, and its phase. *)
InputsOK(f, t) ==
    /\ f.baseSeen <=> "base" \in f.met
    /\ f.base = IF "base" \in f.met /\ "BaseDone" \notin f.met THEN t ELSE NoPic
    /\ f.output # NoPic <=> "output" \in f.met
    /\ f.phase = "Done" <=> "OutputDone" \in f.met
    /\ f.phase = "None" => f.met = {}

(* Its temporal buffer: what it asks for, and what it knows of it. *)
GraphOK(f, stage) ==
    /\ f.phase \in {"None", "Reorder"} => f.graph = "none"
    /\ f.dep <=> f.graph = "temporal" /\ stage \in {"findBase", "made"}
    /\ "temporal" \in f.met => f.dep
    /\ f.wants # Unset => f.graph = "temporal" /\ stage \in {"match", "findBase", "made"}
    /\ f.graph = "none" <=> stage = "unmade"
    /\ stage \in {"require", "match"} => f.graph = "temporal"
    /\ f.graph = "temporal" => f.good /\ f.kind \in {"temporal", "refresh"}
    /\ f.phase \in {"Processing", "Done"} /\ ~f.passthrough => f.good /\ f.kind # "bad"

RecordOK(f, t, stage) == TasksOK(f, stage) /\ InputsOK(f, t) /\ GraphOK(f, stage)

FramesOK == \A t \in Time : RecordOK(frames[t], t, Stage(t))

(* A task that is half way through is under way once, with its inputs met. *)
BusyOK ==
    /\ \A b \in busy : /\ b.task \in frames[b.frame].added \ frames[b.frame].met
                       /\ Needs(frames[b.frame], b.task) \subseteq frames[b.frame].met
                       /\ b.task \in {"Add", "Release", "BaseDone"}
                       /\ b.task = "BaseDone" <=> b.next = NoFrame
    /\ \A b, c \in busy : b.frame = c.frame /\ b.task = c.task => b = c

(* What the call under way relies on. *)
ApiOK ==
    /\ api.pc \in {"generate", "require", "match", "findBase"} =>
          /\ api.frame \in Time /\ processing # <<>> /\ processing[Len(processing)] = api.frame
          /\ frames[api.frame].phase \in {"Processing", "Done"}
    /\ api.pc = "receive" => processing # <<>>
    /\ api.pc = "free" => api.frame \in Time /\ frames[api.frame].phase = "Done"

Freeing == IF api.pc = "free" THEN {api.frame} ELSE {}
IndexOK ==
    /\ \A t \in Time : frames[t].phase = "Reorder" <=> \E i \in 1 .. Len(reorder) : reorder[i] = t
    /\ \A t \in Time : frames[t].phase \in {"Processing", "Done"} /\ t \notin Freeing
                          <=> \E i \in 1 .. Len(processing) : processing[i] = t
    /\ \A i, j \in 1 .. Len(reorder) : i < j => reorder[i] < reorder[j]
    /\ \A i, j \in 1 .. Len(processing) : processing[i] = processing[j] => i = j

BaseSent == \A t \in Time : "base" \in frames[t].met => t \in sent.base

TypeInv == TypeOK /\ IsFiniteSet(busy)
Core == FramesOK /\ BusyOK /\ ApiOK /\ IndexOK /\ BaseSent

-----------------------------------------------------------------------------
(* Records of frames. *)

LEMMA FrameFields ==
    ASSUME NEW f \in FrameRec
    PROVE  /\ f.phase \in {"None", "Reorder", "Processing", "Done"}
           /\ f.kind \in Kind /\ f.ready \in BOOLEAN /\ f.skip \in BOOLEAN
           /\ f.passthrough \in BOOLEAN /\ f.good \in BOOLEAN /\ f.base \in Time \cup {NoPic}
           /\ f.baseSeen \in BOOLEAN /\ f.output \in Pic \cup {NoPic}
           /\ f.graph \in {"none", "pass", "plain", "temporal"}
           /\ f.added \subseteq Task /\ f.met \subseteq Input \cup Task
           /\ f.baseNeeds \subseteq Task /\ f.wants \in Stamp
           /\ f.dep \in BOOLEAN /\ f.holds \in BOOLEAN
BY DEF FrameRec

LEMMA NeedsSame ==
    ASSUME NEW f, NEW g, g.graph = f.graph, g.baseNeeds = f.baseNeeds, NEW k \in Task
    PROVE  Needs(g, k) = Needs(f, k)
BY DEF Needs, Task

(* A frame without tasks. *)
LEMMA UnmadeFrame ==
    ASSUME NEW f \in FrameRec, NEW t, RecordOK(f, t, "unmade")
    PROVE  /\ f.graph = "none" /\ f.added \subseteq {"Slices"} /\ f.met \cap Task = {}
           /\ ~f.dep /\ "temporal" \notin f.met /\ f.wants = Unset
           /\ f.phase # "Done"
BY FrameFields DEF RecordOK, GraphOK, TasksOK, Made, Needs, Task, InputsOK

(* The inputs of the tasks of a frame with tasks. *)
LEMMA MadeFrame ==
    ASSUME NEW f \in FrameRec, NEW t, NEW stage, RecordOK(f, t, stage)
    PROVE  /\ "Slices" \in f.met => "Read" \in f.met
           /\ "Read" \in f.met => "base" \in f.met
           /\ "Add" \in f.met => "temporal" \in f.met /\ "Slices" \in f.met
           /\ "Release" \in f.met => "Add" \in f.met
           /\ "OutputDone" \in f.met => /\ "output" \in f.met /\ "Slices" \in f.met
                                        /\ f.graph = "temporal" => "Add" \in f.met
           /\ "BaseDone" \in f.met => "Slices" \in f.met
BY DEF RecordOK, TasksOK, Needs, Task

-----------------------------------------------------------------------------
(* What a task may do to the record of a frame: tasks are done, slices are  *)
(* added, a dependency that is there is met.                               *)
SameMake(f, g) ==
    /\ g.graph = f.graph /\ g.baseNeeds = f.baseNeeds /\ g.kind = f.kind /\ g.good = f.good
    /\ g.passthrough = f.passthrough /\ g.baseSeen = f.baseSeen /\ g.output = f.output
    /\ g.dep = f.dep /\ g.wants = f.wants
Progress(f, g) ==
    /\ g \in FrameRec /\ SameMake(f, g)
    /\ f.met \subseteq g.met
    /\ g.met \ f.met \subseteq f.added \cup {"Slices", "temporal"}
    /\ "temporal" \in g.met \ f.met => f.dep
    /\ \A k \in Task \cap (g.met \ f.met) : Needs(f, k) \subseteq g.met
    /\ f.added \subseteq g.added /\ g.added \subseteq f.added \cup {"Slices"}
    /\ g.phase = IF "OutputDone" \in g.met \ f.met THEN "Done" ELSE f.phase
    /\ g.base = IF "BaseDone" \in g.met \ f.met THEN NoPic ELSE f.base
    /\ f.graph = "none" => g.met = f.met

LEMMA NoProgress ==
    ASSUME NEW f \in FrameRec, NEW g \in FrameRec, SameMake(f, g), g.met = f.met, g.added = f.added,
           g.phase = f.phase, g.base = f.base
    PROVE  Progress(f, g)
BY DEF Progress

LEMMA ProgressTasks ==
    ASSUME NEW f \in FrameRec, NEW g, NEW stage, TasksOK(f, stage), Progress(f, g)
    PROVE  TasksOK(g, stage)
BY NeedsSame DEF TasksOK, Progress, Task, SameMake

LEMMA ProgressInputs ==
    ASSUME NEW f \in FrameRec, NEW g, NEW t, NEW stage, RecordOK(f, t, stage), Progress(f, g)
    PROVE  InputsOK(g, t)
BY FrameFields DEF Progress, Task, RecordOK, InputsOK, SameMake, GraphOK

LEMMA ProgressGraph ==
    ASSUME NEW f \in FrameRec, NEW g, NEW stage, GraphOK(f, stage), Progress(f, g)
    PROVE  GraphOK(g, stage)
BY FrameFields DEF Progress, GraphOK, SameMake

LEMMA ProgressRecord ==
    ASSUME NEW f \in FrameRec, NEW g, NEW t, NEW stage, RecordOK(f, t, stage), Progress(f, g)
    PROVE  RecordOK(g, t, stage)
BY ProgressTasks, ProgressInputs, ProgressGraph DEF RecordOK

LEMMA ProgressTwice ==
    ASSUME NEW f \in FrameRec, NEW g, NEW h, Progress(f, g), Progress(g, h)
    PROVE  Progress(f, h)
BY NeedsSame DEF Progress, SameMake

LEMMA MetEdit ==
    ASSUME NEW f \in FrameRec, NEW D \in SUBSET (Input \cup Task),
           NEW g, g = [f EXCEPT !.met = @ \cup D]
    PROVE  /\ g \in FrameRec /\ SameMake(f, g) /\ g.met = f.met \cup D
           /\ g.added = f.added /\ g.phase = f.phase /\ g.base = f.base /\ g.holds = f.holds
BY DEF FrameRec, SameMake

LEMMA DoneEdit ==
    ASSUME NEW f \in FrameRec,
           NEW g, g = [f EXCEPT !.phase = "Done", !.met = @ \cup {"OutputDone"}]
    PROVE  /\ g \in FrameRec /\ SameMake(f, g) /\ g.met = f.met \cup {"OutputDone"}
           /\ g.added = f.added /\ g.phase = "Done" /\ g.base = f.base /\ g.holds = f.holds
BY DEF FrameRec, SameMake, Input, Task

LEMMA BackEdit ==
    ASSUME NEW f \in FrameRec,
           NEW g, g = [f EXCEPT !.base = NoPic, !.met = @ \cup {"BaseDone"}]
    PROVE  /\ g \in FrameRec /\ SameMake(f, g) /\ g.met = f.met \cup {"BaseDone"}
           /\ g.added = f.added /\ g.phase = f.phase /\ g.base = NoPic /\ g.holds = f.holds
BY DEF FrameRec, SameMake, Input, Task

LEMMA HoldsEdit ==
    ASSUME NEW f \in FrameRec, NEW v \in BOOLEAN, NEW g, g = [f EXCEPT !.holds = v]
    PROVE  /\ g \in FrameRec /\ SameMake(f, g) /\ g.met = f.met
           /\ g.added = f.added /\ g.phase = f.phase /\ g.base = f.base /\ g.holds = v
BY DEF FrameRec, SameMake

(* The tasks in D are done, and change nothing else. *)
LEMMA MetProgress ==
    ASSUME NEW f \in FrameRec, f.graph # "none", NEW g \in FrameRec, SameMake(f, g),
           NEW D, D \subseteq f.added \cup {"Slices"}, "OutputDone" \notin D, "BaseDone" \notin D,
           "temporal" \notin D,
           g.met = f.met \cup D, f.added \subseteq g.added, g.added \subseteq f.added \cup {"Slices"},
           \A k \in D : Needs(f, k) \subseteq f.met \cup D,
           g.phase = f.phase, g.base = f.base
    PROVE  Progress(f, g)
BY DEF Progress

-----------------------------------------------------------------------------
(* Steps of worker threads. *)

WorkerEffect ==
    /\ UNCHANGED <<orderVars, available, api, clientVars, decoded>>
    /\ frames' \in [Time -> FrameRec]
    /\ \A u \in Time : Progress(frames[u], frames'[u])

(* Nothing happens to the temporal buffer; nothing happens to base pictures. *)
BufferKept ==
    /\ UNCHANGED <<buffer, kept, strayed>>
    /\ \A u \in Time : /\ frames'[u].holds = frames[u].holds
                       /\ "temporal" \in frames'[u].met <=> "temporal" \in frames[u].met
                       /\ "Release" \in frames'[u].met <=> "Release" \in frames[u].met
BasesKept == UNCHANGED baseOut /\ \A u \in Time : frames'[u].base = frames[u].base

LEMMA FrameIs ==
    ASSUME TypeInv, FramesOK, NEW t \in Time
    PROVE  /\ frames[t] \in FrameRec /\ RecordOK(frames[t], t, Stage(t))
           /\ Stage(t) \in {"unmade", "require", "match", "findBase", "made"}
BY DEF TypeInv, TypeOK, Stage, Building, FramesOK

LEMMA RunnableIs ==
    ASSUME TypeInv, FramesOK, NEW t \in Time, NEW k, Runnable(t, k)
    PROVE  /\ k \in Task /\ k \in frames[t].added /\ k \notin frames[t].met
           /\ Needs(frames[t], k) \subseteq frames[t].met
           /\ frames[t].graph # "none" /\ frames[t].phase \in {"Processing", "Done"}
           /\ Cardinality(busy) < Workers
           /\ \A b \in busy : ~(b.frame = t /\ b.task = k)
BY FrameIs, FrameFields, UnmadeFrame DEF Runnable, RecordOK, GraphOK, Needs, Task

LEMMA OneProgress ==
    ASSUME frames \in [Time -> FrameRec], NEW t \in Time, NEW g,
           frames' = [frames EXCEPT ![t] = g], Progress(frames[t], g)
    PROVE  /\ frames' \in [Time -> FrameRec] /\ \A u \in Time : Progress(frames[u], frames'[u])
           /\ frames'[t] = g /\ \A u \in Time \ {t} : frames'[u] = frames[u]
BY NoProgress DEF Progress, SameMake

LEMMA RunReadEffect ==
    ASSUME TypeInv, FramesOK, NEW t \in Time, RunRead(t)
    PROVE  /\ WorkerEffect /\ BufferKept /\ BasesKept /\ UNCHANGED busy
           /\ \A u \in Time : frames'[u].met \subseteq frames[u].met \cup {"Read", "Slices"}
<1>0. PICK f : f = frames[t]
  OBVIOUS
<1>1. /\ f \in FrameRec /\ f.graph # "none" /\ "Read" \in f.added
      /\ Needs(f, "Read") \subseteq f.met
  BY <1>0, FrameIs, RunnableIs DEF RunRead
<1>2. frames \in [Time -> FrameRec]
  BY DEF TypeInv, TypeOK
<1>3. PICK g : frames' = [frames EXCEPT ![t] = g] /\
                 \/ g = [f EXCEPT !.met = @ \cup {"Read", "Slices"}]
                 \/ g = [f EXCEPT !.met = @ \cup {"Read"}, !.added = @ \cup {"Slices"}]
  BY <1>0 DEF RunRead
<1>4. \/ /\ g \in FrameRec /\ SameMake(f, g) /\ g.met = f.met \cup {"Read", "Slices"}
         /\ g.added = f.added /\ g.phase = f.phase /\ g.base = f.base /\ g.holds = f.holds
      \/ /\ g \in FrameRec /\ SameMake(f, g) /\ g.met = f.met \cup {"Read"}
         /\ g.added = f.added \cup {"Slices"} /\ g.phase = f.phase /\ g.base = f.base
         /\ g.holds = f.holds
  <2>1. {"Read", "Slices"} \in SUBSET (Input \cup Task)
    BY DEF Task
  <2>2. CASE g = [f EXCEPT !.met = @ \cup {"Read", "Slices"}]
    BY <1>1, <2>1, <2>2 DEF FrameRec, SameMake
  <2>3. CASE g = [f EXCEPT !.met = @ \cup {"Read"}, !.added = @ \cup {"Slices"}]
    BY <1>1, <2>3 DEF FrameRec, SameMake, Input, Task
  <2> QED BY <1>0, <1>3, <2>2, <2>3
<1>41. PICK D : /\ D \in {{"Read", "Slices"}, {"Read"}} /\ g \in FrameRec /\ SameMake(f, g)
                /\ g.met = f.met \cup D /\ f.added \subseteq g.added
                /\ g.added \subseteq f.added \cup {"Slices"}
                /\ g.phase = f.phase /\ g.base = f.base /\ g.holds = f.holds
  <2> QED BY <1>0, <1>4
<1>5. \A k \in D : Needs(f, k) \subseteq f.met \cup D
  BY <1>0, <1>1, <1>41 DEF Needs
<1>6. Progress(f, g)
  BY <1>0, <1>1, <1>41, <1>5, MetProgress
<1>7. /\ frames' \in [Time -> FrameRec] /\ \A u \in Time : Progress(frames[u], frames'[u])
      /\ frames'[t] = g /\ \A u \in Time \ {t} : frames'[u] = frames[u]
  BY <1>0, <1>2, <1>3, <1>6, OneProgress
<1>8. UNCHANGED <<orderVars, available, api, clientVars, decoded, buffer, kept, strayed, baseOut, busy>>
  BY <1>0 DEF RunRead, pastVars
<1>9. BufferKept
  BY <1>41, <1>7, <1>8, <1>0 DEF BufferKept
<1>10. BasesKept
  BY <1>41, <1>7, <1>8, <1>0 DEF BasesKept
<1>11. \A u \in Time : frames'[u].met \subseteq frames[u].met \cup {"Read", "Slices"}
  BY <1>41, <1>7, <1>0
<1> QED BY <1>0, <1>7, <1>8, <1>9, <1>10, <1>11 DEF WorkerEffect

(* A task that touches one frame only, and neither buffer nor bases. *)
LEMMA PlainStep ==
    ASSUME TypeInv, NEW t \in Time, NEW g, frames' = [frames EXCEPT ![t] = g], Progress(frames[t], g),
           g.holds = frames[t].holds,
           "temporal" \in g.met <=> "temporal" \in frames[t].met,
           "Release" \in g.met <=> "Release" \in frames[t].met,
           UNCHANGED <<orderVars, available, api, clientVars, decoded, buffer, kept, strayed>>
    PROVE  WorkerEffect /\ BufferKept /\ frames'[t] = g /\ \A u \in Time \ {t} : frames'[u] = frames[u]
BY OneProgress DEF TypeInv, TypeOK, BufferKept, WorkerEffect

LEMMA RunSlicesEffect ==
    ASSUME TypeInv, FramesOK, NEW t \in Time, NEW k \in {"Slices", "Add"}, Runnable(t, k),
           frames' = Met(frames, t, {k}),
           UNCHANGED <<orderVars, baseOut, available, buffer, busy, api, clientVars, pastVars>>
    PROVE  /\ WorkerEffect /\ BufferKept /\ BasesKept
           /\ \A u \in Time : frames'[u].met \subseteq frames[u].met \cup (IF u = t THEN {k} ELSE {})
<1>0. PICK f : f = frames[t]
  OBVIOUS
<1>1. f \in FrameRec /\ f.graph # "none" /\ k \in f.added /\ Needs(f, k) \subseteq f.met
  BY <1>0, FrameIs, RunnableIs
<1>2. PICK g : frames' = [frames EXCEPT ![t] = g] /\ g = [f EXCEPT !.met = @ \cup {k}]
  BY <1>0 DEF Met
<1>3. {k} \in SUBSET (Input \cup Task)
  BY DEF Task
<1>4. /\ g \in FrameRec /\ SameMake(f, g) /\ g.met = f.met \cup {k}
      /\ g.added = f.added /\ g.phase = f.phase /\ g.base = f.base /\ g.holds = f.holds
  BY <1>0, <1>1, <1>2, <1>3, MetEdit
<1>5. Progress(f, g)
  BY <1>0, <1>1, <1>4, MetProgress
<1>6. UNCHANGED <<orderVars, available, api, clientVars, decoded, buffer, kept, strayed, baseOut>>
  BY <1>0 DEF pastVars
<1>7. /\ WorkerEffect /\ BufferKept /\ frames'[t] = g /\ \A u \in Time \ {t} : frames'[u] = frames[u]
  BY ZenonT(60), <1>2, <1>4, <1>5, <1>6, PlainStep, <1>0
<1> QED BY <1>4, <1>6, <1>7, <1>0 DEF BasesKept

LEMMA RunOutputDoneEffect ==
    ASSUME TypeInv, FramesOK, NEW t \in Time, RunOutputDone(t)
    PROVE  /\ WorkerEffect /\ BufferKept /\ BasesKept /\ UNCHANGED busy
           /\ \A u \in Time : frames'[u].met \subseteq frames[u].met \cup {"OutputDone"}
<1>0. PICK f : f = frames[t]
  OBVIOUS
<1>1. f \in FrameRec /\ f.graph # "none" /\ "OutputDone" \in f.added \ f.met /\ Needs(f, "OutputDone") \subseteq f.met
  BY <1>0, FrameIs, RunnableIs DEF RunOutputDone
<1>2. PICK g : /\ frames' = [frames EXCEPT ![t] = g]
               /\ g = [f EXCEPT !.phase = "Done", !.met = @ \cup {"OutputDone"}]
  BY <1>0 DEF RunOutputDone
<1>3. /\ g \in FrameRec /\ SameMake(f, g) /\ g.met = f.met \cup {"OutputDone"}
      /\ g.added = f.added /\ g.phase = "Done" /\ g.base = f.base /\ g.holds = f.holds
  BY ZenonT(40), <1>0, <1>1, <1>2, DoneEdit
<1>4. Progress(f, g)
  BY <1>0, <1>1, <1>3 DEF Progress
<1>5. UNCHANGED <<orderVars, available, api, clientVars, decoded, buffer, kept, strayed, baseOut, busy>>
  BY <1>0 DEF RunOutputDone, pastVars
<1>6. /\ WorkerEffect /\ BufferKept /\ frames'[t] = g /\ \A u \in Time \ {t} : frames'[u] = frames[u]
  BY <1>2, <1>3, <1>4, <1>5, PlainStep, <1>0
<1> QED BY <1>3, <1>5, <1>6, <1>0 DEF BasesKept

(* The base picture goes to the FIFO. *)
LEMMA GiveBackEffect ==
    ASSUME TypeInv, FramesOK, NEW t \in Time, GiveBack(t), frames[t].graph # "none",
           "BaseDone" \in frames[t].added \ frames[t].met,
           Needs(frames[t], "BaseDone") \subseteq frames[t].met,
           UNCHANGED <<orderVars, available, buffer, api, clientVars, pastVars>>
    PROVE  /\ WorkerEffect /\ BufferKept
           /\ frames[t].base = t /\ baseOut' = Append(baseOut, t) /\ frames'[t].base = NoPic
           /\ frames'[t].met = frames[t].met \cup {"BaseDone"}
           /\ \A u \in Time \ {t} : frames'[u] = frames[u]
<1>0. PICK f : f = frames[t]
  OBVIOUS
<1>1. f \in FrameRec /\ RecordOK(f, t, Stage(t))
  BY <1>0, FrameIs
<1>2. "base" \in f.met
  BY <1>0, <1>1, MadeFrame DEF Needs, RecordOK, TasksOK
<1>3. f.base = t
  BY <1>0, <1>1, <1>2 DEF RecordOK, InputsOK
<1>4. PICK g : frames' = [frames EXCEPT ![t] = g] /\ g = [f EXCEPT !.base = NoPic, !.met = @ \cup {"BaseDone"}]
  BY <1>0 DEF GiveBack
<1>5. baseOut' = Append(baseOut, t)
  BY <1>0, <1>3 DEF GiveBack
<1>6. "BaseDone" \in f.added \ f.met /\ Needs(f, "BaseDone") \subseteq f.met /\ f.graph # "none"
  BY <1>0
<1>7. /\ g \in FrameRec /\ SameMake(f, g) /\ g.met = f.met \cup {"BaseDone"}
      /\ g.added = f.added /\ g.phase = f.phase /\ g.base = NoPic /\ g.holds = f.holds
  BY ZenonT(60), <1>0, <1>1, <1>4, BackEdit
<1>8. Progress(f, g)
  BY <1>0, <1>6, <1>7 DEF Progress
<1>9. UNCHANGED <<orderVars, available, api, clientVars, decoded, buffer, kept, strayed>>
  BY <1>0 DEF pastVars
<1>10. /\ WorkerEffect /\ BufferKept /\ frames'[t] = g /\ \A u \in Time \ {t} : frames'[u] = frames[u]
  BY ZenonT(60), <1>4, <1>7, <1>8, <1>9, PlainStep, <1>0
<1> QED BY <1>3, <1>5, <1>7, <1>10, <1>0

LEMMA NextHolderIs ==
    ASSUME TypeInv, NEW t \in Time, NextHolders(t) # {}
    PROVE  /\ NextHolder(t) \in Time /\ Filled(frames[NextHolder(t)].wants) = t
           /\ \E i \in 1 .. Len(processing) : processing[i] = NextHolder(t)
<1> DEFINE c == CHOOSE i \in NextHolders(t) : \A j \in NextHolders(t) : i <= j
<1>1. NextHolders(t) \in SUBSET Nat
  BY DEF NextHolders
<1>2. \E i \in NextHolders(t) : \A j \in NextHolders(t) : i <= j
  BY <1>1, LeastNumber
<1>3. c \in NextHolders(t)
  BY <1>2
<1>4. NextHolder(t) = processing[c]
  BY DEF NextHolder
<1> HIDE DEF c
<1>5. processing \in Seq(Time)
  BY DEF TypeInv, TypeOK
<1> QED BY <1>3, <1>4, <1>5 DEF NextHolders

(* A release by a frame that holds no buffer; one that finds nobody; and    *)
(* one that hands the buffer to the frame n.                               *)
ReleaseNothing(t, k) ==
    /\ ~frames[t].holds
    /\ UNCHANGED <<buffer, kept, strayed, busy>>
    /\ \A u \in Time : frames'[u].holds = frames[u].holds
    /\ \A u \in Time : frames'[u].met = frames[u].met \cup (IF u = t THEN {k} ELSE {})
LetGo(t, k) ==
    /\ frames[t].holds /\ UNCHANGED <<busy, strayed>>
    /\ kept' = t /\ buffer' = [owner |-> NoFrame, stamp |-> t]
    /\ frames'[t].holds = FALSE
    /\ \A u \in Time \ {t} : frames'[u].holds = frames[u].holds
    /\ \A u \in Time : frames'[u].met = frames[u].met \cup (IF u = t THEN {k} ELSE {})
HandTo(t, k, n) ==
    /\ frames[t].holds /\ Filled(frames[n].wants) = t
    /\ strayed' = (strayed \/ frames[n].wants = Unset)
    /\ \E i \in 1 .. Len(processing) : processing[i] = n
    /\ kept' = t /\ buffer' = [owner |-> n, stamp |-> t]
    /\ busy' = busy \cup {[frame |-> t, task |-> k, next |-> n]}
    /\ \A u \in Time : frames'[u].met = frames[u].met
    /\ frames'[n].holds = TRUE
    /\ \A u \in Time \ {n} : frames'[u].holds = IF u = t THEN FALSE ELSE frames[u].holds

LEMMA RunReleaseEffect ==
    ASSUME TypeInv, FramesOK, NEW t \in Time, NEW k \in {"Add", "Release"}, RunRelease(t, k)
    PROVE  /\ WorkerEffect /\ BasesKept
           /\ ReleaseNothing(t, k) \/ LetGo(t, k) \/ \E n \in Time : HandTo(t, k, n)
<1>0. PICK f : f = frames[t]
  OBVIOUS
<1>1. f \in FrameRec /\ f.graph # "none" /\ k \in f.added /\ Needs(f, k) \subseteq f.met
  BY <1>0, FrameIs, RunnableIs DEF RunRelease
<1>2. frames \in [Time -> FrameRec]
  BY DEF TypeInv, TypeOK
<1>3. UNCHANGED <<orderVars, available, api, clientVars, decoded, baseOut>>
  BY <1>0 DEF RunRelease
<1>4. k \in Task /\ {k} \in SUBSET (Input \cup Task)
  BY DEF Task
<1>5. f.holds = frames[t].holds /\ f = frames[t]
  BY <1>0
<1>6. CASE ~f.holds
  <2>1. UNCHANGED <<buffer, kept, strayed, busy>>
    BY <1>0, <1>6 DEF RunRelease
  <2>2. PICK g : frames' = [frames EXCEPT ![t] = g] /\ g = [f EXCEPT !.met = @ \cup {k}]
    BY <1>0, <1>6 DEF RunRelease, Met
  <2>3. /\ g \in FrameRec /\ SameMake(f, g) /\ g.met = f.met \cup {k}
        /\ g.added = f.added /\ g.phase = f.phase /\ g.base = f.base /\ g.holds = f.holds
    BY ONLY <1>1, <1>4, <2>2 DEF FrameRec, SameMake
  <2>4. Progress(f, g)
    <3>1. /\ {k} \subseteq f.added \cup {"Slices"} /\ \A k2 \in {k} : Needs(f, k2) \subseteq f.met \cup {k}
          /\ "OutputDone" \notin {k} /\ "BaseDone" \notin {k} /\ "temporal" \notin {k}
      BY <1>1
    <3>2. /\ f \in FrameRec /\ f.graph # "none" /\ g \in FrameRec /\ SameMake(f, g)
          /\ g.met = f.met \cup {k} /\ f.added \subseteq g.added
          /\ g.added \subseteq f.added \cup {"Slices"} /\ g.phase = f.phase /\ g.base = f.base
      BY <1>1, <2>3
    <3> QED BY ONLY <3>1, <3>2, MetProgress
  <2>5. /\ frames' \in [Time -> FrameRec] /\ \A u \in Time : Progress(frames[u], frames'[u])
        /\ frames'[t] = g /\ \A u \in Time \ {t} : frames'[u] = frames[u]
    BY <1>0, <1>2, <1>5, <2>2, <2>4, OneProgress
  <2>6. ReleaseNothing(t, k)
    BY <1>0, <1>5, <1>6, <2>1, <2>3, <2>5 DEF ReleaseNothing
  <2>7. WorkerEffect /\ BasesKept
    BY <1>0, <1>3, <1>5, <2>3, <2>5 DEF WorkerEffect, BasesKept
  <2> QED BY <1>0, <2>6, <2>7
<1>7. CASE f.holds /\ NextHolders(t) = {}
  <2>1. UNCHANGED <<busy, strayed>> /\ kept' = t /\ buffer' = [owner |-> NoFrame, stamp |-> t]
    BY <1>0, <1>7 DEF RunRelease
  <2>2. PICK g : frames' = [frames EXCEPT ![t] = g] /\ g = [f EXCEPT !.holds = FALSE, !.met = @ \cup {k}]
    BY <1>0, <1>7 DEF RunRelease
  <2>3. /\ g \in FrameRec /\ SameMake(f, g) /\ g.met = f.met \cup {k}
        /\ g.added = f.added /\ g.phase = f.phase /\ g.base = f.base /\ g.holds = FALSE
    BY ONLY <1>1, <1>4, <2>2 DEF FrameRec, SameMake
  <2>4. Progress(f, g)
    BY <1>1, <2>3, MetProgress
  <2>5. /\ frames' \in [Time -> FrameRec] /\ \A u \in Time : Progress(frames[u], frames'[u])
        /\ frames'[t] = g /\ \A u \in Time \ {t} : frames'[u] = frames[u]
    BY <1>0, <1>2, <1>5, <2>2, <2>4, OneProgress
  <2>6. LetGo(t, k)
    BY <1>0, <1>5, <1>7, <2>1, <2>3, <2>5 DEF LetGo
  <2>7. WorkerEffect /\ BasesKept
    BY <1>0, <1>3, <1>5, <2>3, <2>5 DEF WorkerEffect, BasesKept
  <2> QED BY <1>0, <2>6, <2>7
<1>8. CASE f.holds /\ NextHolders(t) # {}
  <2>1. PICK n \in Time : /\ n = NextHolder(t) /\ Filled(frames[n].wants) = t
                          /\ \E i \in 1 .. Len(processing) : processing[i] = n
    BY <1>0, <1>8, NextHolderIs
  <2>2. /\ kept' = t /\ buffer' = [owner |-> n, stamp |-> t]
        /\ strayed' = (strayed \/ frames[n].wants = Unset)
        /\ busy' = busy \cup {[frame |-> t, task |-> k, next |-> n]}
        /\ frames' = [frames EXCEPT ![t].holds = FALSE, ![n].holds = TRUE]
    BY <1>0, <1>8, <2>1 DEF RunRelease
  <2>3. \A u \in Time : frames'[u] = IF u = n THEN [frames[u] EXCEPT !.holds = TRUE]
                                     ELSE IF u = t THEN [frames[u] EXCEPT !.holds = FALSE]
                                     ELSE frames[u]
    BY <1>0, <1>2, <2>2, <1>1 DEF FrameRec
  <2>4. ASSUME NEW u \in Time
        PROVE  /\ frames'[u] \in FrameRec /\ SameMake(frames[u], frames'[u])
               /\ frames'[u].met = frames[u].met /\ frames'[u].added = frames[u].added
               /\ frames'[u].phase = frames[u].phase /\ frames'[u].base = frames[u].base
               /\ frames'[u].holds = IF u = n THEN TRUE ELSE IF u = t THEN FALSE ELSE frames[u].holds
    <3>1. frames[u] \in FrameRec
      BY <1>0, <1>2
    <3>2. CASE u = n
      <4>1. frames'[u] = [frames[u] EXCEPT !.holds = TRUE]
        BY <1>0, <2>3, <3>2
      <4> QED BY ZenonT(40), <1>0, <3>1, <3>2, <4>1, HoldsEdit
    <3>3. CASE u # n /\ u = t
      <4>1. frames'[u] = [frames[u] EXCEPT !.holds = FALSE]
        BY <1>0, <2>3, <3>3
      <4> QED BY ZenonT(60), <1>0, <3>1, <3>3, <4>1, HoldsEdit
    <3>4. CASE u # n /\ u # t
      BY <1>0, <2>3, <3>4, <3>1 DEF SameMake
    <3> QED BY <1>0, <3>2, <3>3, <3>4
  <2>5. \A u \in Time : Progress(frames[u], frames'[u])
    BY <1>0, <1>2, <2>4, NoProgress
  <2>6. frames' \in [Time -> FrameRec]
    BY <1>0, <1>2, <2>2, <2>4
  <2>7. HandTo(t, k, n)
    BY ZenonT(40), <1>0, <1>5, <1>8, <2>1, <2>2, <2>4 DEF HandTo
  <2>8. WorkerEffect /\ BasesKept
    BY <1>0, <1>3, <2>4, <2>5, <2>6 DEF WorkerEffect, BasesKept
  <2> QED BY <1>0, <2>7, <2>8
<1> QED BY <1>0, <1>6, <1>7, <1>8

LEMMA HandOverEffect ==
    ASSUME TypeInv, FramesOK, BusyOK, NEW b \in busy, HandOver(b)
    PROVE  /\ WorkerEffect /\ BasesKept /\ busy' = busy \ {b} /\ UNCHANGED <<kept, strayed>>
           /\ b.frame \in Time /\ b.next \in Time /\ b.task \in {"Add", "Release"}
           /\ buffer' = [buffer EXCEPT !.stamp = Filled(frames[b.next].wants)]
           /\ \A u \in Time : frames'[u].holds = frames[u].holds
           /\ \A u \in Time : frames'[u].met =
                 frames[u].met \cup (IF u = b.next /\ frames[u].dep THEN {"temporal"} ELSE {})
                               \cup (IF u = b.frame THEN {b.task} ELSE {})
<1>1. /\ b.frame \in Time /\ b.next \in Time \cup {NoFrame} /\ b.task \in {"Add", "Release", "BaseDone"}
      /\ b.task \in frames[b.frame].added /\ Needs(frames[b.frame], b.task) \subseteq frames[b.frame].met
      /\ b.task = "BaseDone" <=> b.next = NoFrame
  BY DEF TypeInv, TypeOK, BusyOK
<1>2. b.task \in {"Add", "Release"} /\ b.next \in Time
  BY <1>1 DEF HandOver
<1>3. PICK n \in Time, t \in Time, k \in {"Add", "Release"} : n = b.next /\ t = b.frame /\ k = b.task
  BY <1>1, <1>2
<1>4. frames \in [Time -> FrameRec] /\ frames[t] \in FrameRec /\ frames[n] \in FrameRec
  BY DEF TypeInv, TypeOK
<1>5. PICK told : /\ told = (IF frames[n].dep THEN {"temporal"} ELSE {})
                  /\ frames' = Met(Met(frames, n, told), t, {k})
  BY <1>3 DEF HandOver
<1>6. /\ UNCHANGED <<orderVars, available, api, clientVars, decoded, baseOut, kept, strayed>>
      /\ busy' = busy \ {b} /\ buffer' = [buffer EXCEPT !.stamp = Filled(frames[n].wants)]
  BY <1>3 DEF HandOver, pastVars
<1>7. /\ frames[t].graph # "none" /\ k \in frames[t].added
      /\ Needs(frames[t], k) \subseteq frames[t].met
  BY <1>1, <1>3, FrameIs, UnmadeFrame DEF Task, RecordOK, GraphOK
<1>8. PICK fs : fs = Met(frames, n, told) /\ frames' = Met(fs, t, {k})
  BY <1>5
<1>9. /\ fs \in [Time -> FrameRec] /\ fs = [frames EXCEPT ![n] = fs[n]]
      /\ fs[n] = [frames[n] EXCEPT !.met = @ \cup told]
      /\ \A u \in Time \ {n} : fs[u] = frames[u]
  BY <1>5, <1>4, MetEdit, <1>8 DEF Input, Met
<1>10. /\ SameMake(frames[n], fs[n]) /\ fs[n].met = frames[n].met \cup told
       /\ fs[n].added = frames[n].added /\ fs[n].phase = frames[n].phase
       /\ fs[n].base = frames[n].base /\ fs[n].holds = frames[n].holds
  BY <1>5, <1>4, <1>9, MetEdit DEF Input
<1>11. Progress(frames[n], fs[n])
  BY FrameIs, <1>9, <1>5, <1>10 DEF RecordOK, GraphOK, Task, Progress
<1>12. \A u \in Time : Progress(frames[u], fs[u])
  BY NoProgress, <1>4, <1>9, <1>11 DEF SameMake
<1>13. PICK g, h : h = fs[t] /\ frames' = [fs EXCEPT ![t] = g] /\ g = [h EXCEPT !.met = @ \cup {k}]
  BY <1>8 DEF Met
<1>14. /\ g \in FrameRec /\ SameMake(fs[t], g) /\ g.met = fs[t].met \cup {k}
       /\ g.added = fs[t].added /\ g.phase = fs[t].phase /\ g.base = fs[t].base /\ g.holds = fs[t].holds
  BY <1>9, <1>13 DEF Task, FrameRec, SameMake
<1>15. Progress(fs[t], g)
  <2>1. /\ fs[t].graph = frames[t].graph /\ fs[t].baseNeeds = frames[t].baseNeeds
        /\ frames[t].met \subseteq fs[t].met /\ frames[t].added \subseteq fs[t].added
    BY <1>12 DEF Progress, SameMake
  <2>2. Needs(fs[t], k) = Needs(frames[t], k)
    BY <2>1, NeedsSame DEF Task
  <2>3. fs[t] \in FrameRec
    BY <1>9
  <2> QED BY ZenonT(60), <1>7, <1>14, <2>1, <2>2, <2>3, MetProgress
<1>16. frames' \in [Time -> FrameRec] /\ frames'[t] = g /\ \A u \in Time \ {t} : frames'[u] = fs[u]
  BY <1>9, <1>13, <1>14
<1>17. \A u \in Time : Progress(frames[u], frames'[u])
  BY <1>4, <1>12, <1>15, ProgressTwice, <1>16
<1>18. \A u \in Time : frames'[u].holds = frames[u].holds /\ frames'[u].base = frames[u].base
  BY ZenonT(40), <1>9, <1>10, <1>14, <1>16
<1>19. \A u \in Time : fs[u].met = frames[u].met \cup (IF u = n THEN told ELSE {})
  BY <1>9, <1>10
<1>20. \A u \in Time : frames'[u].met = fs[u].met \cup (IF u = t THEN {k} ELSE {})
  BY <1>14, <1>16
<1>21. \A u \in Time : frames'[u].met =
                 frames[u].met \cup (IF u = n /\ frames[u].dep THEN {"temporal"} ELSE {})
                               \cup (IF u = t THEN {k} ELSE {})
  BY <1>5, <1>19, <1>20
<1>22. WorkerEffect /\ BasesKept
  BY <1>6, <1>16, <1>17, <1>18 DEF WorkerEffect, BasesKept
<1> QED BY <1>1, <1>2, <1>3, <1>6, <1>18, <1>21, <1>22

-----------------------------------------------------------------------------
(* Steps of worker threads keep Core. *)

LEMMA SameStage ==
    ASSUME TypeInv, FramesOK, NEW t \in Time, UNCHANGED api, Progress(frames[t], frames'[t])
    PROVE  Stage(t)' = Stage(t)
BY FrameIs DEF RecordOK, GraphOK, Progress, Stage, Building

LEMMA WorkerKeeps ==
    ASSUME TypeInv, FramesOK, ApiOK, IndexOK, BaseSent, WorkerEffect
    PROVE  FramesOK' /\ ApiOK' /\ IndexOK' /\ BaseSent'
<1>1. /\ UNCHANGED api /\ UNCHANGED reorder /\ UNCHANGED processing /\ UNCHANGED sent
      /\ \A u \in Time : Progress(frames[u], frames'[u])
  BY DEF WorkerEffect, orderVars, clientVars
<1>2. ASSUME NEW t \in Time
      PROVE  /\ RecordOK(frames'[t], t, Stage(t)')
             /\ frames'[t].phase = "Reorder" <=> frames[t].phase = "Reorder"
             /\ frames'[t].phase \in {"Processing", "Done"} <=> frames[t].phase \in {"Processing", "Done"}
             /\ frames[t].phase = "Done" => frames'[t].phase = "Done"
             /\ "base" \in frames'[t].met <=> "base" \in frames[t].met
  <2>1. frames[t] \in FrameRec /\ RecordOK(frames[t], t, Stage(t)) /\ Progress(frames[t], frames'[t])
    BY <1>1, FrameIs
  <2>2. Stage(t)' = Stage(t)
    BY <1>1, SameStage
  <2>3. frames[t].phase \in {"None", "Reorder"} => frames[t].graph = "none"
    BY <2>1 DEF RecordOK, GraphOK
  <2>4. frames'[t].phase = frames[t].phase
           \/ (frames'[t].phase = "Done" /\ frames[t].phase \in {"Processing", "Done"})
    BY <2>1, <2>3, FrameFields DEF Progress
  <2>5. "base" \in frames'[t].met <=> "base" \in frames[t].met
    BY <2>1, FrameFields DEF Progress, Task
  <2>6. RecordOK(frames'[t], t, Stage(t))
    BY <2>1, ProgressRecord
  <2> QED BY <2>2, <2>4, <2>5, <2>6
<1>3. FramesOK'
  BY <1>2 DEF FramesOK
<1>4. ApiOK'
  BY <1>1, <1>2 DEF ApiOK
<1>5. IndexOK'
  BY <1>1, <1>2 DEF IndexOK, Freeing
<1>6. BaseSent'
  BY <1>1, <1>2 DEF BaseSent
<1> QED BY <1>3, <1>4, <1>5, <1>6

(* The tasks that are half way through go on. *)
LEMMA BusyGoesOn ==
    ASSUME TypeInv, FramesOK, BusyOK, NEW S, S \subseteq busy,
           \A u \in Time : Progress(frames[u], frames'[u]),
           \A c \in S : c.task \notin frames'[c.frame].met
    PROVE  \A c \in S : /\ c.task \in frames'[c.frame].added \ frames'[c.frame].met
                        /\ Needs(frames'[c.frame], c.task) \subseteq frames'[c.frame].met
                        /\ c.task \in {"Add", "Release", "BaseDone"}
                        /\ c.task = "BaseDone" <=> c.next = NoFrame
<1>1. ASSUME NEW c \in S
      PROVE  /\ c.task \in frames'[c.frame].added \ frames'[c.frame].met
             /\ Needs(frames'[c.frame], c.task) \subseteq frames'[c.frame].met
             /\ c.task \in {"Add", "Release", "BaseDone"}
             /\ c.task = "BaseDone" <=> c.next = NoFrame
  <2>1. c \in busy /\ c.frame \in Time
    BY <1>1 DEF TypeInv, TypeOK
  <2>2. /\ c.task \in frames[c.frame].added
        /\ Needs(frames[c.frame], c.task) \subseteq frames[c.frame].met
        /\ c.task \in {"Add", "Release", "BaseDone"}
        /\ c.task = "BaseDone" <=> c.next = NoFrame
    BY <2>1 DEF BusyOK
  <2>3. Progress(frames[c.frame], frames'[c.frame]) /\ c.task \notin frames'[c.frame].met
    BY <1>1, <2>1
  <2>4. PICK f, g, k : f = frames[c.frame] /\ g = frames'[c.frame] /\ k = c.task
    OBVIOUS
  <2>5. Needs(g, k) = Needs(f, k)
    <3>1. k \in Task
      BY ONLY <2>2, <2>4 DEF Task
    <3>2. g.graph = f.graph /\ g.baseNeeds = f.baseNeeds
      BY ONLY <2>3, <2>4 DEF Progress, SameMake
    <3> QED BY <3>1, <3>2, NeedsSame
  <2>6. f.added \subseteq g.added /\ f.met \subseteq g.met
    BY ONLY <2>3, <2>4 DEF Progress
  <2> QED BY ONLY <2>2, <2>3, <2>4, <2>5, <2>6
<1> QED BY <1>1

LEMMA BusyFewer ==
    ASSUME TypeInv, FramesOK, BusyOK, busy' \subseteq busy,
           \A u \in Time : Progress(frames[u], frames'[u]),
           \A c \in busy' : c.task \notin frames'[c.frame].met
    PROVE  BusyOK'
BY BusyGoesOn DEF BusyOK

LEMMA BusyMore ==
    ASSUME TypeInv, FramesOK, BusyOK, NEW t \in Time, NEW k \in {"Add", "Release", "BaseDone"}, NEW n,
           k = "BaseDone" <=> n = NoFrame, Runnable(t, k),
           busy' = busy \cup {[frame |-> t, task |-> k, next |-> n]},
           \A u \in Time : Progress(frames[u], frames'[u]) /\ frames'[u].met = frames[u].met
    PROVE  BusyOK'
<1> DEFINE b == [frame |-> t, task |-> k, next |-> n]
<1>1. \A c \in busy : c.frame \in Time /\ c.task \notin frames[c.frame].met
  BY DEF BusyOK, TypeInv, TypeOK
<1>2. \A c \in busy : /\ c.task \in frames'[c.frame].added \ frames'[c.frame].met
                      /\ Needs(frames'[c.frame], c.task) \subseteq frames'[c.frame].met
                      /\ c.task \in {"Add", "Release", "BaseDone"}
                      /\ c.task = "BaseDone" <=> c.next = NoFrame
  BY ZenonT(60), <1>1, BusyGoesOn
<1>3. /\ k \in frames'[t].added \ frames'[t].met
      /\ Needs(frames'[t], k) \subseteq frames'[t].met
  BY NeedsSame, RunnableIs DEF Progress, SameMake, Task
<1>4. b.frame = t /\ b.task = k /\ b.next = n
  OBVIOUS
<1>5. \A c \in busy : ~(c.frame = t /\ c.task = k)
  BY RunnableIs
<1> HIDE DEF b
<1>6. \A c, d \in busy' : c.frame = d.frame /\ c.task = d.task => c = d
  BY <1>4, <1>5 DEF BusyOK, b
<1>7. \A c \in busy' : c \in busy \/ c = b
  BY DEF b
<1> QED BY <1>2, <1>3, <1>4, <1>6, <1>7 DEF BusyOK

LEMMA WorkerTypes ==
    ASSUME TypeInv, WorkerEffect, {kept'} \subseteq Time \cup {Invalid}, strayed' \in BOOLEAN,
           baseOut' \in Seq(Time), Len(baseOut') <= RingCapacity,
           buffer' \in [owner : Time \cup {NoFrame}, stamp : Stamp],
           busy' \subseteq [frame : Time, task : Task, next : Time \cup {NoFrame}],
           IsFiniteSet(busy'), Cardinality(busy') <= Workers
    PROVE  TypeInv'
BY DEF TypeInv, TypeOK, WorkerEffect, orderVars, clientVars

LEMMA WorkerTypesSame ==
    ASSUME TypeInv, WorkerEffect, UNCHANGED <<kept, strayed, baseOut, buffer, busy>>
    PROVE  TypeInv'
BY WorkerTypes DEF TypeInv, TypeOK

LEMMA BusyAdded ==
    ASSUME TypeInv, NEW b \in [frame : Time, task : Task, next : Time \cup {NoFrame}],
           Cardinality(busy) < Workers, busy' = busy \cup {b}
    PROVE  /\ busy' \subseteq [frame : Time, task : Task, next : Time \cup {NoFrame}]
           /\ IsFiniteSet(busy') /\ Cardinality(busy') <= Workers
<1>1. /\ busy \subseteq [frame : Time, task : Task, next : Time \cup {NoFrame}]
      /\ IsFiniteSet(busy) /\ Workers \in Nat
  BY ConfigAssumption DEF TypeInv, TypeOK
<1>2. IsFiniteSet(busy \cup {b}) /\ Cardinality(busy \cup {b}) <= Cardinality(busy) + 1
  <2>1. IsFiniteSet(busy)
    BY <1>1
  <2>2. /\ IsFiniteSet(busy \cup {b})
        /\ Cardinality(busy \cup {b}) = IF b \in busy THEN Cardinality(busy) ELSE Cardinality(busy) + 1
    BY ONLY <2>1, FS_AddElement
  <2>3. Cardinality(busy) \in Nat
    BY <2>1, FS_CardinalityType
  <2> QED BY ONLY <2>2, <2>3
<1>3. Cardinality(busy) \in Nat /\ Cardinality(busy \cup {b}) \in Nat
  BY <1>1, <1>2, FS_CardinalityType
<1> QED BY <1>1, <1>2, <1>3

LEMMA BusyRemoved ==
    ASSUME TypeInv, NEW b \in busy, busy' = busy \ {b}
    PROVE  /\ busy' \subseteq [frame : Time, task : Task, next : Time \cup {NoFrame}]
           /\ IsFiniteSet(busy') /\ Cardinality(busy') <= Workers
<1>1. /\ busy \subseteq [frame : Time, task : Task, next : Time \cup {NoFrame}]
      /\ IsFiniteSet(busy) /\ Workers \in Nat /\ Cardinality(busy) <= Workers
  BY ConfigAssumption DEF TypeInv, TypeOK
<1>2. IsFiniteSet(busy \ {b}) /\ Cardinality(busy \ {b}) = Cardinality(busy) - 1
  BY <1>1, FS_RemoveElement
<1>3. Cardinality(busy) \in Nat
  BY <1>1, FS_CardinalityType
<1> QED BY <1>1, <1>2, <1>3

(* A task that runs from beginning to end in one step. *)
LEMMA WholeTaskCore ==
    ASSUME TypeInv, Core, WorkerEffect, UNCHANGED <<kept, strayed, baseOut, buffer, busy>>,
           NEW t \in Time, NEW k, Runnable(t, k),
           \A u \in Time : frames'[u].met \subseteq frames[u].met \cup {"Read", "Slices", "OutputDone"}
                                                     \cup (IF u = t THEN {k} ELSE {})
    PROVE  TypeInv' /\ Core'
<1>1. TypeInv'
  BY WorkerTypesSame
<1>2. \A c \in busy : c.task \notin frames'[c.frame].met
  <2>1. ASSUME NEW c \in busy PROVE c.task \notin frames'[c.frame].met
    <3>1. /\ c.frame \in Time /\ c.task \in {"Add", "Release", "BaseDone"}
          /\ c.task \notin frames[c.frame].met
      BY DEF Core, BusyOK, TypeInv, TypeOK
    <3>2. ~(c.frame = t /\ c.task = k)
      BY RunnableIs DEF Core
    <3> QED BY <3>1, <3>2
  <2> QED BY <2>1
<1>3. \A u \in Time : Progress(frames[u], frames'[u])
  BY DEF WorkerEffect
<1>4. BusyOK'
  BY <1>2, <1>3, BusyFewer DEF Core
<1> QED BY <1>1, <1>4, WorkerKeeps DEF Core

(* A base picture that goes back, at once or when there is room. *)
LEMMA BaseBackCore ==
    ASSUME TypeInv, Core, NEW t \in Time, GiveBack(t), Len(baseOut) < RingCapacity,
           frames[t].graph # "none", "BaseDone" \in frames[t].added \ frames[t].met,
           Needs(frames[t], "BaseDone") \subseteq frames[t].met,
           UNCHANGED <<orderVars, available, buffer, api, clientVars, pastVars>>,
           busy' \subseteq busy, IsFiniteSet(busy'), Cardinality(busy') <= Workers,
           \A c \in busy' : ~(c.frame = t /\ c.task = "BaseDone")
    PROVE  TypeInv' /\ Core'
<1>1. /\ WorkerEffect /\ baseOut' = Append(baseOut, t)
      /\ frames'[t].met = frames[t].met \cup {"BaseDone"}
      /\ \A u \in Time \ {t} : frames'[u] = frames[u]
  BY GiveBackEffect DEF Core
<1>2. baseOut \in Seq(Time) /\ Len(baseOut) \in Nat /\ RingCapacity \in Nat
  BY ConfigAssumption DEF TypeInv, TypeOK
<1>3. baseOut' \in Seq(Time) /\ Len(baseOut') <= RingCapacity
  BY <1>1, <1>2
<1>4. TypeInv'
  BY <1>1, <1>3, WorkerTypes DEF TypeInv, TypeOK, pastVars
<1>5. \A c \in busy' : c.task \notin frames'[c.frame].met
  BY <1>1 DEF Core, BusyOK, TypeInv, TypeOK
<1>6. \A u \in Time : Progress(frames[u], frames'[u])
  BY <1>1 DEF WorkerEffect
<1>7. BusyOK'
  BY <1>5, <1>6, BusyFewer DEF Core
<1> QED BY <1>1, <1>4, <1>7, WorkerKeeps DEF Core

LEMMA RunReleaseCore ==
    ASSUME TypeInv, Core, NEW t \in Time, NEW k \in {"Add", "Release"}, RunRelease(t, k)
    PROVE  TypeInv' /\ Core'
<1>1. /\ WorkerEffect /\ BasesKept
      /\ ReleaseNothing(t, k) \/ LetGo(t, k) \/ \E n \in Time : HandTo(t, k, n)
  BY RunReleaseEffect DEF Core
<1>2. Runnable(t, k)
  BY DEF RunRelease
<1>3. \A u \in Time : Progress(frames[u], frames'[u])
  BY <1>1 DEF WorkerEffect
<1>4. /\ baseOut' \in Seq(Time) /\ Len(baseOut') <= RingCapacity
  BY <1>1 DEF BasesKept, TypeInv, TypeOK
<1>5. CASE ReleaseNothing(t, k) \/ LetGo(t, k)
  <2>1. /\ UNCHANGED busy
        /\ \A u \in Time : frames'[u].met = frames[u].met \cup (IF u = t THEN {k} ELSE {})
    BY <1>5 DEF ReleaseNothing, LetGo
  <2>2. /\ {kept'} \subseteq Time \cup {Invalid} /\ strayed' \in BOOLEAN
        /\ buffer' \in [owner : Time \cup {NoFrame}, stamp : Stamp]
    <3>1. /\ kept \in Time \cup {Invalid} /\ strayed \in BOOLEAN
          /\ buffer \in [owner : Time \cup {NoFrame}, stamp : Stamp]
      BY DEF TypeInv, TypeOK
    <3>2. CASE ReleaseNothing(t, k)
      BY ONLY <3>1, <3>2 DEF ReleaseNothing
    <3>3. CASE LetGo(t, k)
      <4>1. kept' = t /\ buffer' = [owner |-> NoFrame, stamp |-> t] /\ strayed' = strayed
        BY ONLY <3>3 DEF LetGo
      <4>2. t \in Time
        OBVIOUS
      <4> QED BY ONLY <3>1, <4>1, <4>2 DEF Stamp
    <3> QED BY <1>5, <3>2, <3>3
  <2>3. TypeInv'
    BY <2>1, <1>1, <1>4, <2>2, WorkerTypes DEF TypeInv, TypeOK
  <2>4. \A c \in busy' : c.task \notin frames'[c.frame].met
    <3>1. ASSUME NEW c \in busy' PROVE c.task \notin frames'[c.frame].met
      <4>1. c.frame \in Time /\ c.task \notin frames[c.frame].met
        BY <2>1 DEF Core, BusyOK, TypeInv, TypeOK
      <4>2. ~(c.frame = t /\ c.task = k)
        BY <1>2, <2>1, RunnableIs DEF Core
      <4> QED BY <2>1, <4>1, <4>2
    <3> QED BY <3>1
  <2>5. BusyOK'
    BY <1>3, <2>1, <2>4, BusyFewer DEF Core
  <2> QED BY <1>1, <2>3, <2>5, WorkerKeeps DEF Core
<1>6. ASSUME NEW n \in Time, HandTo(t, k, n) PROVE TypeInv' /\ Core'
  <2>1. /\ busy' = busy \cup {[frame |-> t, task |-> k, next |-> n]}
        /\ kept' = t /\ buffer' = [owner |-> n, stamp |-> t]
        /\ strayed' = (strayed \/ frames[n].wants = Unset)
        /\ \A u \in Time : frames'[u].met = frames[u].met
    BY <1>6 DEF HandTo
  <2>2. /\ {kept'} \subseteq Time \cup {Invalid} /\ strayed' \in BOOLEAN
        /\ buffer' \in [owner : Time \cup {NoFrame}, stamp : Stamp]
    BY <2>1 DEF Stamp
  <2>3. [frame |-> t, task |-> k, next |-> n] \in [frame : Time, task : Task, next : Time \cup {NoFrame}]
    BY DEF Task
  <2>4. TypeInv'
    BY <1>2, <2>1, <2>3, BusyAdded, RunnableIs, <1>1, <1>4, <2>2, WorkerTypes DEF Core
  <2>5. k # "BaseDone" /\ n # NoFrame
    BY TimeAssumption DEF NoFrame
  <2>6. BusyOK'
    BY <1>2, <1>3, <2>1, <2>5, BusyMore DEF Core
  <2> QED BY <1>1, <2>4, <2>6, WorkerKeeps DEF Core
<1> QED BY <1>1, <1>5, <1>6

LEMMA HandOverCore ==
    ASSUME TypeInv, Core, NEW b \in busy, HandOver(b)
    PROVE  TypeInv' /\ Core'
<1>1. /\ WorkerEffect /\ BasesKept /\ busy' = busy \ {b} /\ UNCHANGED <<kept, strayed>>
      /\ b.frame \in Time /\ b.next \in Time /\ b.task \in {"Add", "Release"}
      /\ buffer' = [buffer EXCEPT !.stamp = Filled(frames[b.next].wants)]
      /\ \A u \in Time : frames'[u].met =
            frames[u].met \cup (IF u = b.next /\ frames[u].dep THEN {"temporal"} ELSE {})
                          \cup (IF u = b.frame THEN {b.task} ELSE {})
  BY HandOverEffect DEF Core
<1>2. TypeInv'
  <2>1. /\ kept \in Time \cup {Invalid} /\ strayed \in BOOLEAN
        /\ baseOut \in Seq(Time) /\ Len(baseOut) <= RingCapacity
        /\ buffer \in [owner : Time \cup {NoFrame}, stamp : Stamp]
        /\ busy \subseteq [frame : Time, task : Task, next : Time \cup {NoFrame}]
        /\ Cardinality(busy) <= Workers /\ IsFiniteSet(busy)
    BY DEF TypeInv, TypeOK
  <2>2. frames[b.next] \in FrameRec
    BY <1>1, FrameIs DEF Core
  <2>3. Filled(frames[b.next].wants) \in Stamp
    <3>1. PICK w : w = frames[b.next].wants /\ w \in Stamp
      BY <2>2, FrameFields
    <3> QED BY <3>1 DEF Filled, Stamp
  <2>4. buffer' \in [owner : Time \cup {NoFrame}, stamp : Stamp]
    BY ONLY <1>1, <2>1, <2>3
  <2>5. UNCHANGED <<kept, strayed, baseOut>>
    BY <1>1 DEF BasesKept
  <2>6. IsFiniteSet(busy') /\ Cardinality(busy') <= Workers
    BY <1>1, <2>1, BusyRemoved
  <2> QED BY <1>1, <2>1, <2>4, <2>5, <2>6, WorkerTypes
<1>3. \A c \in busy' : c.task \notin frames'[c.frame].met
  <2>1. ASSUME NEW c \in busy' PROVE c.task \notin frames'[c.frame].met
    <3>1. /\ c.frame \in Time /\ c.task \in {"Add", "Release", "BaseDone"}
          /\ c.task \notin frames[c.frame].met
      BY <1>1 DEF Core, BusyOK, TypeInv, TypeOK
    <3>2. ~(c.frame = b.frame /\ c.task = b.task)
      BY <1>1 DEF Core, BusyOK
    <3> QED BY <1>1, <3>1, <3>2
  <2> QED BY <2>1
<1>4. BusyOK'
  BY <1>1, <1>3, BusyFewer DEF Core, WorkerEffect
<1> QED BY <1>1, <1>2, <1>4, WorkerKeeps DEF Core

LEMMA WorkerCore ==
    ASSUME TypeInv, Core, WorkerStep
    PROVE  TypeInv' /\ Core'
<1>1. ASSUME NEW t \in Time, RunRead(t) PROVE TypeInv' /\ Core'
  BY <1>1, RunReadEffect, WholeTaskCore DEF Core, RunRead, BufferKept, BasesKept
<1>2. ASSUME NEW t \in Time, RunSlices(t) \/ RunAdd(t) PROVE TypeInv' /\ Core'
  BY <1>2, RunSlicesEffect, WholeTaskCore DEF RunSlices, RunAdd, Core, BufferKept, BasesKept
<1>3. ASSUME NEW t \in Time, RunOutputDone(t) PROVE TypeInv' /\ Core'
  BY <1>3, RunOutputDoneEffect, WholeTaskCore DEF Core, RunOutputDone, BufferKept, BasesKept
<1>4. ASSUME NEW t \in Time, RunBaseDone(t) PROVE TypeInv' /\ Core'
  <2>1. /\ frames[t].graph # "none" /\ "BaseDone" \in frames[t].added \ frames[t].met
        /\ Needs(frames[t], "BaseDone") \subseteq frames[t].met
        /\ \A c \in busy : ~(c.frame = t /\ c.task = "BaseDone")
        /\ Cardinality(busy) < Workers /\ Runnable(t, "BaseDone")
    BY <1>4, RunnableIs DEF RunBaseDone, Core
  <2>2. UNCHANGED <<orderVars, available, buffer, api, clientVars, pastVars>>
    BY <1>4 DEF RunBaseDone
  <2>3. CASE Len(baseOut) < RingCapacity
    BY <1>4, <2>3, <2>1, <2>2, BaseBackCore DEF RunBaseDone, TypeInv, TypeOK
  <2>4. CASE ~(Len(baseOut) < RingCapacity)
    BY <1>4, <2>4, NoProgress, <2>2, <2>1, BusyAdded, WorkerTypes, BusyMore, WorkerKeeps DEF RunBaseDone,
       TypeInv, TypeOK, SameMake, WorkerEffect, pastVars, Task, Core
  <2> QED BY <2>3, <2>4
<1>5. ASSUME NEW b \in busy, PushBase(b) PROVE TypeInv' /\ Core'
  <2>1. /\ b.frame \in Time /\ b.task = "BaseDone"
        /\ "BaseDone" \in frames[b.frame].added \ frames[b.frame].met
        /\ Needs(frames[b.frame], "BaseDone") \subseteq frames[b.frame].met
    BY <1>5 DEF PushBase, Core, BusyOK, TypeInv, TypeOK
  <2>2. frames[b.frame].graph # "none"
    BY <2>1, FrameIs, UnmadeFrame DEF RecordOK, GraphOK, Core
  <2>3. /\ Len(baseOut) < RingCapacity /\ GiveBack(b.frame) /\ busy' = busy \ {b}
        /\ UNCHANGED <<orderVars, available, buffer, api, clientVars, pastVars>>
    BY <1>5 DEF PushBase
  <2>4. \A c \in busy' : ~(c.frame = b.frame /\ c.task = "BaseDone")
    BY <2>1, <2>3 DEF Core, BusyOK
  <2>5. IsFiniteSet(busy') /\ Cardinality(busy') <= Workers /\ busy' \subseteq busy
    BY <2>3, BusyRemoved
  <2> QED BY <2>1, <2>2, <2>3, <2>4, <2>5, BaseBackCore
<1> QED BY <1>1, <1>2, <1>3, <1>4, <1>5, RunReleaseCore, HandOverCore DEF WorkerStep

-----------------------------------------------------------------------------
(* Calls: what they do to the record of a frame. *)

Alike(f, g) ==
    /\ g \in FrameRec /\ SameMake(f, g) /\ g.met = f.met /\ g.added = f.added
    /\ g.phase = f.phase /\ g.base = f.base /\ g.holds = f.holds

LEMMA AlikeProgress ==
    ASSUME NEW f \in FrameRec, NEW g, Alike(f, g)
    PROVE  Progress(f, g)
BY NoProgress DEF Alike

LEMMA AlikeSelf ==
    ASSUME NEW f \in FrameRec
    PROVE  Alike(f, f)
BY DEF Alike, SameMake

LEMMA FlagsEdit ==
    ASSUME NEW f \in FrameRec, NEW ready \in BOOLEAN, NEW skip \in BOOLEAN, NEW g,
           \/ g = [f EXCEPT !.ready = ready]
           \/ g = [f EXCEPT !.skip = skip]
           \/ g = [f EXCEPT !.skip = skip, !.ready = ready]
    PROVE  Alike(f, g)
BY DEF FrameRec, Alike, SameMake

LEMMA BlankRecord ==
    ASSUME NEW t
    PROVE  /\ NewFrame \in FrameRec /\ RecordOK(NewFrame, t, "unmade")
           /\ NewFrame.holds = FALSE /\ NewFrame.met = {} /\ NewFrame.added = {}
           /\ NewFrame.base = NoPic /\ NewFrame.output = NoPic /\ NewFrame.phase = "None"
           /\ NewFrame.wants = Unset /\ NewFrame.kind = "bad" /\ NewFrame.good = FALSE
<1>1. NewFrame \in FrameRec
  BY DEF NewFrame, FrameRec, Kind, Stamp, Unset
<1>2. /\ NewFrame.holds = FALSE /\ NewFrame.met = {} /\ NewFrame.added = {}
      /\ NewFrame.base = NoPic /\ NewFrame.output = NoPic /\ NewFrame.phase = "None"
      /\ NewFrame.wants = Unset /\ NewFrame.baseSeen = FALSE /\ NewFrame.graph = "none"
      /\ NewFrame.dep = FALSE /\ NewFrame.kind = "bad" /\ NewFrame.good = FALSE
  BY DEF NewFrame
<1>3. TasksOK(NewFrame, "unmade")
  BY <1>2 DEF TasksOK, Made
<1>4. InputsOK(NewFrame, t)
  BY <1>2 DEF InputsOK
<1>5. GraphOK(NewFrame, "unmade")
  BY <1>2 DEF GraphOK
<1> QED BY <1>1, <1>2, <1>3, <1>4, <1>5 DEF RecordOK

LEMMA FreshRecord ==
    ASSUME NEW t, NEW kind \in Kind, NEW g, g = [NewFrame EXCEPT !.phase = "Reorder", !.kind = kind]
    PROVE  /\ g \in FrameRec /\ RecordOK(g, t, "unmade")
           /\ g.holds = FALSE /\ g.met = {} /\ g.added = {}
           /\ g.base = NoPic /\ g.output = NoPic /\ g.phase = "Reorder" /\ g.kind = kind
           /\ g.wants = Unset
<1>1. /\ g \in FrameRec /\ g.phase = "Reorder" /\ g.kind = kind
      /\ g.holds = NewFrame.holds /\ g.met = NewFrame.met /\ g.added = NewFrame.added
      /\ g.base = NewFrame.base /\ g.output = NewFrame.output /\ g.wants = NewFrame.wants
      /\ g.baseSeen = FALSE /\ g.graph = "none" /\ g.dep = FALSE
  BY DEF NewFrame, FrameRec, Kind, Stamp, Unset
<1>2. /\ g.holds = FALSE /\ g.met = {} /\ g.added = {}
      /\ g.base = NoPic /\ g.output = NoPic /\ g.wants = Unset
  BY <1>1, BlankRecord
<1>3. TasksOK(g, "unmade")
  BY <1>1, <1>2 DEF TasksOK, Made
<1>4. InputsOK(g, t)
  BY <1>1, <1>2 DEF InputsOK
<1>5. GraphOK(g, "unmade")
  BY <1>1, <1>2 DEF GraphOK
<1> QED BY <1>1, <1>2, <1>3, <1>4, <1>5 DEF RecordOK

LEMMA AloneRecord ==
    ASSUME NEW t \in Time, NEW g,
           g = WithBase([NewFrame EXCEPT !.phase = "Reorder", !.ready = TRUE, !.passthrough = TRUE], t)
    PROVE  /\ g \in FrameRec /\ RecordOK(g, t, "unmade")
           /\ g.holds = FALSE /\ g.met = {"base"} /\ g.added = {}
           /\ g.base = t /\ g.output = NoPic /\ g.phase = "Reorder" /\ g.kind = "bad"
           /\ g.wants = Unset
<1>1. /\ g \in FrameRec /\ g.phase = "Reorder" /\ g.kind = "bad"
      /\ g.holds = FALSE /\ g.met = {"base"} /\ g.added = {}
      /\ g.base = t /\ g.output = NoPic /\ g.wants = Unset
      /\ g.baseSeen = TRUE /\ g.graph = "none" /\ g.dep = FALSE
  BY DEF NewFrame, FrameRec, Kind, Stamp, Unset, WithBase, Input
<1>2. TasksOK(g, "unmade")
  BY <1>1 DEF TasksOK, Made, Task
<1>3. InputsOK(g, t)
  <2>1. t # NoPic
    BY PicAssumption
  <2> QED BY <1>1, <2>1 DEF InputsOK
<1>4. GraphOK(g, "unmade")
  BY <1>1 DEF GraphOK
<1> QED BY <1>1, <1>2, <1>3, <1>4 DEF RecordOK

(* The fields that a picture that arrives leaves alone. *)
SameFrame(f, g) ==
    /\ g.graph = f.graph /\ g.baseNeeds = f.baseNeeds /\ g.kind = f.kind /\ g.good = f.good
    /\ g.passthrough = f.passthrough /\ g.dep = f.dep /\ g.wants = f.wants
    /\ g.added = f.added /\ g.phase = f.phase /\ g.holds = f.holds

LEMMA PictureArrives ==
    ASSUME NEW f \in FrameRec, NEW g \in FrameRec, NEW t, NEW stage, RecordOK(f, t, stage),
           SameFrame(f, g), NEW i \in {"base", "output"}, g.met = f.met \cup {i}, InputsOK(g, t)
    PROVE  RecordOK(g, t, stage)
BY NeedsSame, FrameFields DEF Task, SameFrame, RecordOK, TasksOK, GraphOK

LEMMA BaseArrives ==
    ASSUME NEW f \in FrameRec, NEW t \in Time, NEW stage, RecordOK(f, t, stage),
           f.phase # "None", "base" \notin f.met, NEW g, g = WithBase(f, t)
    PROVE  RecordOK(g, t, stage)
<1>1. /\ g \in FrameRec /\ SameFrame(f, g) /\ g.met = f.met \cup {"base"}
      /\ g.base = t /\ g.baseSeen = TRUE /\ g.output = f.output
  BY DEF FrameRec, WithBase, SameFrame, Input
<1>2. "BaseDone" \notin f.met
  BY MadeFrame
<1>3. t # NoPic
  BY PicAssumption
<1>4. InputsOK(g, t)
  BY <1>1, <1>2, <1>3 DEF InputsOK, RecordOK, SameFrame
<1> QED BY <1>1, <1>4, PictureArrives

LEMMA OutputArrives ==
    ASSUME NEW f \in FrameRec, NEW t \in Time, NEW stage, RecordOK(f, t, stage),
           f.phase # "None", NEW p \in Pic,
           NEW g, g = [f EXCEPT !.output = p, !.met = @ \cup {"output"}]
    PROVE  RecordOK(g, t, stage)
<1>1. /\ g \in FrameRec /\ SameFrame(f, g) /\ g.met = f.met \cup {"output"}
      /\ g.output = p /\ g.base = f.base /\ g.baseSeen = f.baseSeen
  BY DEF FrameRec, SameFrame, Input
<1>2. p # NoPic
  BY PicAssumption
<1>3. InputsOK(g, t)
  BY <1>1, <1>2 DEF InputsOK, RecordOK, SameFrame
<1> QED BY <1>1, <1>3, PictureArrives

(* The tasks of a frame that are half way through go on, whatever call the  *)
(* client makes.                                                           *)
Continues(f, g) ==
    /\ f.added \subseteq g.added /\ f.met \subseteq g.met /\ g.met \cap Task = f.met \cap Task
    /\ \A k \in f.added : Needs(g, k) = Needs(f, k)

LEMMA CallKeepsBusy ==
    ASSUME TypeInv, BusyOK, UNCHANGED busy,
           \A u \in Time : \/ Continues(frames[u], frames'[u])
                           \/ frames[u].added \subseteq frames[u].met \cup {"Slices"}
    PROVE  BusyOK'
<1>1. ASSUME NEW b \in busy
      PROVE  /\ b.task \in frames'[b.frame].added \ frames'[b.frame].met
             /\ Needs(frames'[b.frame], b.task) \subseteq frames'[b.frame].met
             /\ b.task \in {"Add", "Release", "BaseDone"}
             /\ b.task = "BaseDone" <=> b.next = NoFrame
  BY DEF BusyOK, TypeInv, TypeOK, Task, Continues
<1>2. \A b, c \in busy : b.frame = c.frame /\ b.task = c.task => b = c
  BY DEF BusyOK
<1> QED BY <1>1, <1>2 DEF BusyOK

LEMMA ContinuesSelf == ASSUME NEW f PROVE Continues(f, f)
BY DEF Continues

LEMMA AlikeContinues ==
    ASSUME NEW f \in FrameRec, NEW g, Alike(f, g)
    PROVE  Continues(f, g)
BY FrameFields, NeedsSame DEF Alike, SameMake, Continues

LEMMA PictureContinues ==
    ASSUME NEW f \in FrameRec, NEW g, SameFrame(f, g), NEW i \in {"base", "output"}, g.met = f.met \cup {i}
    PROVE  Continues(f, g)
BY FrameFields, NeedsSame DEF SameFrame, Task, Continues

BuildPc == {"generate", "require", "match", "findBase"}

LEMMA CalmStage ==
    ASSUME NEW t \in Time, api.pc \notin BuildPc, api'.pc \notin BuildPc,
           frames'[t].phase \in {"None", "Reorder"} <=> frames[t].phase \in {"None", "Reorder"}
    PROVE  Stage(t)' = Stage(t)
BY DEF Stage, Building, BuildPc

LEMMA OtherStage ==
    ASSUME NEW t \in Time, api.frame # t \/ api.pc \notin BuildPc, api'.frame # t \/ api'.pc \notin BuildPc,
           frames'[t].phase \in {"None", "Reorder"} <=> frames[t].phase \in {"None", "Reorder"}
    PROVE  Stage(t)' = Stage(t)
BY DEF Stage, Building, BuildPc

-----------------------------------------------------------------------------
(* Calls keep Core, one by one. *)

ApiRec == [pc : {"idle", "start", "generate", "require", "match", "findBase",
                 "receive", "free", "sync", "syncWait", "connect"},
           frame : Time \cup {NoFrame}, index : Nat, then : {"idle", "sync"}]

LEMMA TypesHold ==
    ASSUME TypeInv
    PROVE  /\ frames \in [Time -> FrameRec] /\ api \in ApiRec
           /\ reorder \in Seq(Time) /\ processing \in Seq(Time) /\ decoded \in Seq(Time)
           /\ baseOut \in Seq(Time) /\ available \in Seq(Pic)
           /\ {previous, lastGood, kept} \subseteq Time \cup {Invalid}
           /\ NoFrame \notin Time /\ Invalid \notin Time /\ Unset \notin Time
BY TimeAssumption DEF TypeInv, TypeOK, ApiRec, NoFrame, Invalid, Unset

(* Flags of frames are set, and frames may start. *)
LEMMA FlagsCore ==
    ASSUME TypeInv, Core, api.pc = "idle", api' \in ApiRec, api'.pc = "start",
           UNCHANGED <<orderVars, baseOut, available, buffer, busy, clientVars, pastVars>>,
           frames' \in [Time -> FrameRec], \A u \in Time : Alike(frames[u], frames'[u])
    PROVE  TypeInv' /\ Core'
<1>1. TypeInv'
  BY DEF TypeInv, TypeOK, orderVars, clientVars, pastVars, ApiRec
<1>2. \A u \in Time : frames'[u].phase = frames[u].phase /\ frames'[u].met = frames[u].met
  BY DEF Alike
<1>3. FramesOK'
  BY <1>2, CalmStage, FrameIs, AlikeProgress, ProgressRecord DEF BuildPc, Core, FramesOK
<1>4. BusyOK'
  BY AlikeContinues, TypesHold, CallKeepsBusy DEF Core
<1>5. ApiOK'
  BY DEF ApiOK
<1>6. IndexOK'
  BY <1>2 DEF Core, IndexOK, Freeing, orderVars
<1>7. BaseSent'
  BY <1>2 DEF Core, BaseSent, clientVars
<1> QED BY <1>1, <1>3, <1>4, <1>5, <1>6, <1>7 DEF Core

LEMMA ReadiedAlike ==
    ASSUME NEW fs \in [Time -> FrameRec], NEW t \in Time
    PROVE  /\ Readied(fs, t) \in [Time -> FrameRec]
           /\ \A u \in Time : Alike(fs[u], Readied(fs, t)[u])
BY FlagsEdit, AlikeSelf DEF Readied, Alike

LEMMA StartReadyIs ==
    ASSUME NEW then \in {"idle", "sync"}, StartReady(then)
    PROVE  /\ api' \in ApiRec /\ api'.pc = "start" /\ api'.frame = NoFrame /\ api'.index = 0
           /\ api'.then = then
BY DEF StartReady, ApiRec

LEMMA GotoIs ==
    ASSUME TypeInv, NEW pc, Goto(pc),
           pc \in {"idle", "start", "generate", "require", "match", "findBase",
                   "receive", "free", "sync", "syncWait", "connect"}
    PROVE  api' \in ApiRec /\ api'.pc = pc /\ api'.frame = api.frame
BY TypesHold DEF Goto, ApiRec

LEMMA GotoFrameIs ==
    ASSUME TypeInv, NEW pc, NEW t \in Time \cup {NoFrame}, GotoFrame(pc, t),
           pc \in {"idle", "start", "generate", "require", "match", "findBase",
                   "receive", "free", "sync", "syncWait", "connect"}
    PROVE  api' \in ApiRec /\ api'.pc = pc /\ api'.frame = t
BY TypesHold DEF GotoFrame, ApiRec

(* What the three calls that set flags do, for the layers below. *)
FlagCall ==
    /\ api.pc = "idle" /\ api' \in ApiRec /\ api'.pc = "start"
    /\ UNCHANGED <<orderVars, baseOut, available, buffer, busy, clientVars, pastVars>>
    /\ frames' \in [Time -> FrameRec] /\ \A u \in Time : Alike(frames[u], frames'[u])

LEMMA FlagCalls ==
    ASSUME TypeInv, NEW t \in Time, MakeReady(t) \/ Skip(t)
    PROVE  FlagCall
<1>1. frames \in [Time -> FrameRec]
  BY TypesHold
<1>2. CASE MakeReady(t)
  BY <1>2, StartReadyIs, <1>1, ReadiedAlike DEF MakeReady, FlagCall, At
<1>3. CASE Skip(t)
  <2>1. frames' = [s \in Time |-> IF Live(s) /\ s <= t
                                  THEN [frames[s] EXCEPT !.skip = TRUE, !.ready = TRUE] ELSE frames[s]]
    BY <1>3 DEF Skip
  <2>2. \A u \in Time : Alike(frames[u], frames'[u])
    BY <2>1, <1>1, FlagsEdit, AlikeSelf
  <2>3. frames' \in [Time -> FrameRec]
    BY <2>1, <2>2 DEF Alike
  <2>4. api' \in ApiRec /\ api'.pc = "start"
    BY <1>3, StartReadyIs DEF Skip
  <2> QED BY <1>3, <2>2, <2>3, <2>4 DEF Skip, FlagCall, At
<1> QED BY <1>2, <1>3

LEMMA SynchronizeFlags ==
    ASSUME TypeInv, NEW drop \in BOOLEAN, Synchronize(drop)
    PROVE  FlagCall
<1>1. frames \in [Time -> FrameRec]
  BY TypesHold
<1>2. frames' = [s \in Time |-> IF Live(s) THEN [frames[s] EXCEPT !.skip = drop] ELSE frames[s]]
  BY DEF Synchronize
<1>3. \A u \in Time : Alike(frames[u], frames'[u])
  BY <1>2, <1>1, FlagsEdit, AlikeSelf
<1>4. frames' \in [Time -> FrameRec]
  BY <1>2, <1>3 DEF Alike
<1>5. api' \in ApiRec /\ api'.pc = "start"
  BY StartReadyIs DEF Synchronize
<1> QED BY <1>3, <1>4, <1>5 DEF Synchronize, FlagCall, At

(* A frame that is not live. *)
LEMMA NotLive ==
    ASSUME TypeInv, Core, NEW t \in Time, ~Live(t)
    PROVE  /\ frames[t].phase = "None" /\ frames[t].added \subseteq {"Slices"} /\ frames[t].met = {}
           /\ Stage(t) = "unmade" /\ frames[t].base = NoPic /\ frames[t].output = NoPic
           /\ frames[t].wants = Unset
           /\ \A i \in 1 .. Len(reorder) : reorder[i] # t
           /\ \A i \in 1 .. Len(processing) : processing[i] # t
<1>1. frames[t].phase = "None" /\ Stage(t) = "unmade"
  BY DEF Live, Stage
<1>2. frames[t] \in FrameRec /\ RecordOK(frames[t], t, "unmade")
  BY <1>1, FrameIs DEF Core
<1>3. frames[t].met = {} /\ frames[t].base = NoPic /\ frames[t].output = NoPic
  BY <1>1, <1>2, FrameFields DEF RecordOK, InputsOK
<1>4. frames[t].added \subseteq {"Slices"} /\ frames[t].wants = Unset
  BY <1>2, UnmadeFrame
<1>5. /\ \A i \in 1 .. Len(reorder) : reorder[i] # t
      /\ \A i \in 1 .. Len(processing) : processing[i] # t
  BY <1>1 DEF Core, IndexOK
<1> QED BY <1>1, <1>3, <1>4, <1>5

(* Where Vector::insert() puts a timestamp. *)
LEMMA SpotIs ==
    ASSUME TypeInv, IndexOK, NEW t \in Time, frames[t].phase # "Reorder"
    PROVE  /\ Spot(t) \in 1 .. Len(reorder) + 1
           /\ \A j \in 1 .. Spot(t) - 1 : reorder[j] < t
           /\ \A j \in Spot(t) .. Len(reorder) : t < reorder[j]
<1> DEFINE n == Len(reorder)
           U == {i \in 1 .. n + 1 : \A j \in i .. n : t < reorder[j]}
           P(i) == (\A j \in 1 .. i - 1 : reorder[j] < t) /\ (\A j \in i .. n : t < reorder[j])
<1>1. reorder \in Seq(Time) /\ n \in Nat
  BY TypesHold
<1>2. \A i \in 1 .. n : reorder[i] \in Nat /\ reorder[i] # t
  <2>1. \A i \in 1 .. n : reorder[i] \in Time
    BY <1>1
  <2>2. \A i \in 1 .. n : reorder[i] # t
    BY DEF IndexOK
  <2> QED BY <2>1, <2>2, TimeAssumption
<1>3. t \in Nat
  BY TimeAssumption
<1>4. U \in SUBSET Nat /\ n + 1 \in U
  BY <1>1
<1>5. PICK i \in U : \A j \in U : i <= j
  <2> HIDE DEF U
  <2> QED BY <1>4, LeastNumber
<1>6. i \in 1 .. n + 1 /\ \A j \in i .. n : t < reorder[j]
  OBVIOUS
<1>7. ASSUME NEW j \in 1 .. i - 1 PROVE reorder[j] < t
  <2>1. i - 1 \in 1 .. n /\ j \in 1 .. n
    BY <1>1, <1>6
  <2>2. reorder[i - 1] < t
    <3>1. i - 1 \notin U
      <4>1. i \in Nat /\ ~(i <= i - 1)
        BY <1>1, <1>6
      <4> HIDE DEF U
      <4> QED BY <1>5, <4>1
    <3>2. PICK k \in i - 1 .. n : ~(t < reorder[k])
      BY <2>1, <3>1
    <3>3. k = i - 1
      BY <1>6, <2>1, <3>2
    <3> QED BY <1>2, <1>3, <2>1, <3>2, <3>3
  <2>3. j = i - 1 \/ reorder[j] < reorder[i - 1]
    BY <2>1 DEF IndexOK
  <2> QED BY <1>2, <1>3, <2>1, <2>2, <2>3
<1>8. P(i) /\ i \in 1 .. n + 1
  BY <1>6, <1>7
<1>9. Spot(t) = CHOOSE k \in 1 .. n + 1 : P(k)
  BY DEF Spot
<1> HIDE DEF P
<1>10. Spot(t) \in 1 .. n + 1 /\ P(Spot(t))
  BY <1>8, <1>9
<1> QED BY <1>10 DEF P

LEMMA InsertedIs ==
    ASSUME TypeInv, IndexOK, NEW t \in Time, frames[t].phase # "Reorder"
    PROVE  /\ Inserted(t) \in Seq(Time) /\ Len(Inserted(t)) = Len(reorder) + 1
           /\ \A i \in 1 .. Len(reorder) + 1 :
                 Inserted(t)[i] = IF i < Spot(t) THEN reorder[i]
                                  ELSE IF i = Spot(t) THEN t ELSE reorder[i - 1]
<1> DEFINE n == Len(reorder)
           p == Spot(t)
           a == SubSeq(reorder, 1, p - 1)
           b == SubSeq(reorder, p, n)
<1>1. reorder \in Seq(Time) /\ n \in Nat /\ p \in 1 .. n + 1
  BY TypesHold, SpotIs
<1>2. \A i \in 1 .. n : reorder[i] \in Time
  BY <1>1
<1> HIDE DEF n, p
<1>3. a \in Seq(Time) /\ Len(a) = p - 1 /\ \A i \in 1 .. p - 1 : a[i] = reorder[i]
  BY <1>1, <1>2, SubSeqProperties
<1>4. b \in Seq(Time) /\ Len(b) = n - p + 1 /\ \A i \in 1 .. n - p + 1 : b[i] = reorder[p + i - 1]
  BY <1>1, <1>2, SubSeqProperties
<1>5. Inserted(t) = (a \o <<t>>) \o b
  BY DEF Inserted, InsertAt, n, p
<1> HIDE DEF a, b
<1>6. <<t>> \in Seq(Time) /\ Len(<<t>>) = 1 /\ <<t>>[1] = t
  OBVIOUS
<1>7. /\ a \o <<t>> \in Seq(Time) /\ Len(a \o <<t>>) = p
      /\ \A i \in 1 .. p : (a \o <<t>>)[i] = IF i <= p - 1 THEN a[i] ELSE <<t>>[i - (p - 1)]
  BY <1>1, <1>3, <1>6, ConcatProperties
<1>8. PICK c : c = a \o <<t>>
  OBVIOUS
<1>9. c \in Seq(Time) /\ Len(c) = p /\ \A i \in 1 .. p : c[i] = IF i < p THEN reorder[i] ELSE t
  BY <1>1, <1>3, <1>6, <1>7, <1>8
<1>10. /\ c \o b \in Seq(Time) /\ Len(c \o b) = n + 1
       /\ \A i \in 1 .. n + 1 : (c \o b)[i] = IF i <= p THEN c[i] ELSE b[i - p]
  <2>1. p + (n - p + 1) = n + 1
    BY <1>1
  <2>2. c \in Seq(Time) /\ b \in Seq(Time) /\ Len(c) = p /\ Len(c) + Len(b) = n + 1
    BY <1>4, <1>9, <2>1
  <2> QED BY ONLY <2>2, ConcatProperties
<1>11. \A i \in 1 .. n + 1 : i > p => b[i - p] = reorder[i - 1]
  BY <1>1, <1>4
<1>12. Inserted(t) = c \o b
  BY <1>5, <1>8
<1>13. \A i \in 1 .. n + 1 : Inserted(t)[i] = IF i < p THEN reorder[i] ELSE IF i = p THEN t ELSE reorder[i - 1]
  BY <1>1, <1>9, <1>10, <1>11, <1>12
<1> QED BY <1>10, <1>12, <1>13 DEF n, p

-----------------------------------------------------------------------------
(* Calls that change one frame, or none. *)

LEMMA OneFrameCore ==
    ASSUME TypeInv, Core, NEW t \in Time, NEW g \in FrameRec, frames' = [frames EXCEPT ![t] = g],
           api.pc \in BuildPc => api.frame = t, api'.pc \in BuildPc => api'.frame = t,
           RecordOK(g, t, Stage(t)'), UNCHANGED busy,
           Continues(frames[t], g) \/ frames[t].added \subseteq frames[t].met \cup {"Slices"}
    PROVE  /\ frames' \in [Time -> FrameRec] /\ frames'[t] = g
           /\ \A u \in Time \ {t} : frames'[u] = frames[u]
           /\ FramesOK' /\ BusyOK'
BY TypesHold, OtherStage, FrameIs, ContinuesSelf, CallKeepsBusy DEF Core, FramesOK

LEMMA StageCalm ==
    ASSUME NEW t \in Time, api'.pc \notin BuildPc
    PROVE  Stage(t)' = IF frames'[t].phase \in {"None", "Reorder"} THEN "unmade" ELSE "made"
BY DEF Stage, Building, BuildPc

(* Nothing happens to the frames. *)
LEMMA CalmCore ==
    ASSUME TypeInv, Core, UNCHANGED <<frames, busy, reorder, processing>>,
           api.pc \notin BuildPc \cup {"free"}, api'.pc \notin BuildPc \cup {"free"},
           api'.pc = "receive" => processing # <<>>, UNCHANGED sent
    PROVE  Core'
BY CalmStage DEF FramesOK, Core, BusyOK, ApiOK, BuildPc, Freeing, IndexOK, BaseSent

LEMMA SameIndex ==
    ASSUME IndexOK, UNCHANGED <<reorder, processing>>, Freeing' = Freeing,
           \A u \in Time : frames'[u].phase = frames[u].phase
    PROVE  IndexOK'
BY DEF IndexOK

LEMMA InsertedOrder ==
    ASSUME TypeInv, IndexOK, NEW t \in Time, frames[t].phase # "Reorder"
    PROVE  /\ \A u : (\E i \in 1 .. Len(Inserted(t)) : Inserted(t)[i] = u)
                        <=> u = t \/ \E i \in 1 .. Len(reorder) : reorder[i] = u
           /\ \A i, j \in 1 .. Len(Inserted(t)) : i < j => Inserted(t)[i] < Inserted(t)[j]
<1>1. PICK n, p, s : n = Len(reorder) /\ p = Spot(t) /\ s = Inserted(t)
  OBVIOUS
<1>2. n \in Nat /\ p \in 1 .. n + 1 /\ Len(s) = n + 1
  BY <1>1, SpotIs, InsertedIs, TypesHold
<1>3. \A i \in 1 .. n + 1 : s[i] = IF i < p THEN reorder[i] ELSE IF i = p THEN t ELSE reorder[i - 1]
  BY <1>1, InsertedIs
<1>4. ASSUME NEW u, NEW i \in 1 .. n + 1, s[i] = u
      PROVE  u = t \/ \E j \in 1 .. n : reorder[j] = u
  BY <1>2, <1>3, <1>4
<1>5. ASSUME NEW j \in 1 .. n PROVE \E i \in 1 .. n + 1 : s[i] = reorder[j]
  <2>1. CASE j < p
    BY <1>2, <1>3, <2>1
  <2>2. CASE ~(j < p)
    <3>1. j + 1 \in 1 .. n + 1 /\ ~(j + 1 < p) /\ j + 1 # p /\ (j + 1) - 1 = j
      BY <1>2, <2>2
    <3> QED BY <1>3, <3>1
  <2> QED BY <2>1, <2>2
<1>6. s[p] = t
  BY <1>2, <1>3
<1>7. \A u : (\E i \in 1 .. n + 1 : s[i] = u) <=> u = t \/ \E i \in 1 .. n : reorder[i] = u
  BY <1>2, <1>4, <1>5, <1>6
<1>8. /\ \A j \in 1 .. p - 1 : reorder[j] < t
      /\ \A j \in p .. n : t < reorder[j]
  BY <1>1, SpotIs
<1>9. \A i, j \in 1 .. n : i < j => reorder[i] < reorder[j]
  BY <1>1 DEF IndexOK
<1>10. ASSUME NEW i \in 1 .. n + 1, NEW j \in 1 .. n + 1, i < j PROVE s[i] < s[j]
  <2>1. CASE j < p
    BY <1>2, <1>10, <2>1, <1>3, <1>9
  <2>2. CASE j = p
    BY <1>2, <1>10, <2>2, <1>3, <1>6, <1>8
  <2>3. CASE j > p
    BY <1>2, <1>3, <2>3, <1>9, <1>6, <1>8, <1>10
  <2> QED BY <1>2, <2>1, <2>2, <2>3
<1> QED BY <1>1, <1>2, <1>7, <1>10

(* A frame arrives, from its enhancement data or from its base alone. *)
LEMMA NewFrameCore ==
    ASSUME TypeInv, Core, NEW t \in Time, ~Live(t), NEW g \in FrameRec, RecordOK(g, t, "unmade"),
           g.phase = "Reorder", api.pc = "idle", api' \in ApiRec, api'.pc = "start",
           frames' = [frames EXCEPT ![t] = g], reorder' = Inserted(t),
           sent' \in [enhancement : SUBSET Time, base : SUBSET Time],
           sent.base \subseteq sent'.base, "base" \in g.met => t \in sent'.base,
           UNCHANGED <<processing, previous, lastGood, configured, baseOut, available,
                       buffer, busy, returned, owned, pastVars>>
    PROVE  TypeInv' /\ Core'
<1>1. /\ frames[t].phase = "None" /\ frames[t].added \subseteq {"Slices"}
      /\ \A i \in 1 .. Len(processing) : processing[i] # t
  BY NotLive
<1>2. Stage(t)' = "unmade"
  BY TypesHold, StageCalm DEF BuildPc
<1>3. /\ frames' \in [Time -> FrameRec] /\ frames'[t] = g
      /\ \A u \in Time \ {t} : frames'[u] = frames[u]
      /\ FramesOK' /\ BusyOK'
  BY <1>1, <1>2, OneFrameCore DEF BuildPc
<1>4. TypeInv'
  BY <1>1, InsertedIs, <1>3 DEF Core, TypeInv, TypeOK, ApiRec, pastVars
<1>5. ApiOK'
  BY DEF ApiOK
<1>6. IndexOK'
  <2>1. /\ \A u : (\E i \in 1 .. Len(reorder') : reorder'[i] = u)
                     <=> u = t \/ \E i \in 1 .. Len(reorder) : reorder[i] = u
        /\ \A i, j \in 1 .. Len(reorder') : i < j => reorder'[i] < reorder'[j]
    <3>1. frames[t].phase # "Reorder" /\ IndexOK
      BY <1>1 DEF Core
    <3>2. /\ \A u : (\E i \in 1 .. Len(Inserted(t)) : Inserted(t)[i] = u)
                       <=> u = t \/ \E i \in 1 .. Len(reorder) : reorder[i] = u
          /\ \A i, j \in 1 .. Len(Inserted(t)) : i < j => Inserted(t)[i] < Inserted(t)[j]
      BY <3>1, InsertedOrder
    <3>3. reorder' = Inserted(t)
      OBVIOUS
    <3> QED BY ONLY <3>2, <3>3
  <2>2. Freeing' = {} /\ Freeing = {}
    BY DEF Freeing
  <2>3. \A u \in Time : frames'[u].phase = "Reorder" <=> \E i \in 1 .. Len(reorder') : reorder'[i] = u
    BY ZenonT(40), <1>3, <2>1 DEF Core, IndexOK
  <2>4. \A u \in Time : frames'[u].phase \in {"Processing", "Done"}
                          <=> \E i \in 1 .. Len(processing) : processing[i] = u
    BY <1>1, <1>3, <2>2 DEF Core, IndexOK
  <2>5. \A i, j \in 1 .. Len(processing) : processing[i] = processing[j] => i = j
    BY DEF Core, IndexOK
  <2> QED BY <2>1, <2>2, <2>3, <2>4, <2>5 DEF IndexOK
<1>7. BaseSent'
  BY <1>3 DEF Core, BaseSent
<1> QED BY <1>3, <1>4, <1>5, <1>6, <1>7 DEF Core

LEMMA SendEnhancementCore ==
    ASSUME TypeInv, Core, NEW t \in Time, NEW kind \in Kinds, SendEnhancement(t, kind)
    PROVE  TypeInv' /\ Core'
<1>1. PICK g : g = [NewFrame EXCEPT !.phase = "Reorder", !.kind = kind] /\ frames' = [frames EXCEPT ![t] = g]
  BY DEF SendEnhancement
<1>2. kind \in Kind
  BY ConfigAssumption
<1>3. g \in FrameRec /\ RecordOK(g, t, "unmade") /\ g.met = {} /\ g.phase = "Reorder"
  BY <1>1, <1>2, FreshRecord
<1>4. sent' \in [enhancement : SUBSET Time, base : SUBSET Time] /\ sent'.base = sent.base
  BY DEF SendEnhancement, TypeInv, TypeOK
<1>5. api' \in ApiRec /\ api'.pc = "start"
  BY StartReadyIs DEF SendEnhancement
<1>6. /\ api.pc = "idle" /\ ~Live(t) /\ reorder' = Inserted(t)
      /\ UNCHANGED <<processing, previous, lastGood, configured, baseOut, available,
                     buffer, busy, returned, owned, pastVars>>
  BY DEF SendEnhancement, At
<1> QED BY <1>1, <1>3, <1>4, <1>5, <1>6, NewFrameCore

LEMMA SendBaseAloneCore ==
    ASSUME TypeInv, Core, NEW t \in Time, SendBaseAlone(t)
    PROVE  TypeInv' /\ Core'
<1>1. PICK g : /\ g = WithBase([NewFrame EXCEPT !.phase = "Reorder", !.ready = TRUE, !.passthrough = TRUE], t)
               /\ frames' = [frames EXCEPT ![t] = g]
  BY DEF SendBaseAlone
<1>3. g \in FrameRec /\ RecordOK(g, t, "unmade") /\ g.phase = "Reorder"
  BY <1>1, AloneRecord
<1>4. sent' \in [enhancement : SUBSET Time, base : SUBSET Time] /\ sent'.base = sent.base \cup {t}
  BY DEF SendBaseAlone, TypeInv, TypeOK
<1>5. api' \in ApiRec /\ api'.pc = "start"
  BY StartReadyIs DEF SendBaseAlone
<1>6. /\ api.pc = "idle" /\ ~Live(t) /\ reorder' = Inserted(t)
      /\ UNCHANGED <<processing, previous, lastGood, configured, baseOut, available,
                     buffer, busy, returned, owned, pastVars>>
  BY DEF SendBaseAlone, At
<1> QED BY <1>1, <1>3, <1>4, <1>5, <1>6, NewFrameCore

LEMMA SendBaseCore ==
    ASSUME TypeInv, Core, NEW t \in Time, SendBase(t)
    PROVE  TypeInv' /\ Core'
<1>1. /\ api.pc = "idle" /\ frames[t].phase # "None" /\ t \notin sent.base
      /\ frames' = Readied([frames EXCEPT ![t] = WithBase(frames[t], t)], t)
      /\ sent' = [sent EXCEPT !.base = @ \cup {t}]
      /\ UNCHANGED <<orderVars, baseOut, available, buffer, busy, returned, owned, pastVars>>
  BY DEF SendBase, At, Live
<1>2. api' \in ApiRec /\ api'.pc = "start"
  BY StartReadyIs DEF SendBase
<1>3. frames \in [Time -> FrameRec] /\ frames[t] \in FrameRec /\ RecordOK(frames[t], t, Stage(t))
  BY TypesHold, FrameIs DEF Core
<1>4. "base" \notin frames[t].met
  BY <1>1 DEF Core, BaseSent
<1>5. PICK f, g : f = frames[t] /\ g = WithBase(f, t)
  OBVIOUS
<1>6. PICK h : h = [frames EXCEPT ![t] = g]
  OBVIOUS
<1>7. /\ g \in FrameRec /\ SameFrame(f, g) /\ g.met = f.met \cup {"base"}
  BY <1>3, <1>5 DEF FrameRec, WithBase, SameFrame, Input
<1>8. RecordOK(g, t, Stage(t))
  BY <1>1, <1>3, <1>4, <1>5, BaseArrives
<1>9. /\ h \in [Time -> FrameRec] /\ h[t] = g /\ \A u \in Time \ {t} : h[u] = frames[u]
      /\ frames' = Readied(h, t)
  BY <1>1, <1>3, <1>5, <1>6, <1>7
<1>10. frames' \in [Time -> FrameRec] /\ \A u \in Time : Alike(h[u], frames'[u])
  BY <1>9, ReadiedAlike
<1>11. \A u \in Time : frames'[u].phase = frames[u].phase
  BY <1>5, <1>7, <1>9, <1>10 DEF Alike, SameFrame
<1>12. FramesOK'
  <2>1. ASSUME NEW u \in Time PROVE RecordOK(frames'[u], u, Stage(u)')
    <3>1. Stage(u)' = Stage(u)
      BY <1>1, <1>2, <1>11, CalmStage DEF BuildPc
    <3>2. h[u] \in FrameRec /\ RecordOK(h[u], u, Stage(u))
      BY <1>8, <1>9, FrameIs DEF Core
    <3> QED BY <1>10, <3>1, <3>2, AlikeProgress, ProgressRecord
  <2> QED BY <2>1 DEF FramesOK
<1>13. BusyOK'
  <2>1. ASSUME NEW u \in Time PROVE Continues(frames[u], frames'[u])
    BY <1>9, <1>10, AlikeContinues, <1>3, <1>5, <1>7, PictureContinues DEF Continues
  <2> QED BY <1>1, <2>1, CallKeepsBusy DEF Core
<1>14. TypeInv'
  BY <1>1, <1>2, <1>10 DEF TypeInv, TypeOK, ApiRec, orderVars, pastVars
<1>15. ApiOK'
  BY <1>2 DEF ApiOK
<1>16. IndexOK'
  BY <1>1, <1>2, <1>11, SameIndex DEF Freeing, orderVars, Core
<1>17. BaseSent'
  BY <1>1, <1>9, <1>10 DEF TypeInv, TypeOK, Alike, Core, BaseSent
<1> QED BY <1>12, <1>13, <1>14, <1>15, <1>16, <1>17 DEF Core

LEMMA QueueTail ==
    ASSUME NEW S, NEW s \in Seq(S), s # <<>>
    PROVE  /\ Head(s) \in S /\ Head(s) = s[1] /\ Tail(s) \in Seq(S) /\ Len(Tail(s)) = Len(s) - 1
           /\ Len(s) \in Nat \ {0}
           /\ \A i \in 1 .. Len(s) - 1 : Tail(s)[i] = s[i + 1]
           /\ \A x : (\E i \in 1 .. Len(s) : s[i] = x)
                        <=> x = Head(s) \/ \E i \in 1 .. Len(s) - 1 : Tail(s)[i] = x
<1>1. /\ Head(s) \in S /\ Head(s) = s[1] /\ Tail(s) \in Seq(S) /\ Len(Tail(s)) = Len(s) - 1
      /\ Len(s) \in Nat \ {0} /\ \A i \in 1 .. Len(s) - 1 : Tail(s)[i] = s[i + 1]
  OBVIOUS
<1>2. PICK n, u : n = Len(s) /\ u = Tail(s)
  OBVIOUS
<1>3. ASSUME NEW x PROVE (\E i \in 1 .. n : s[i] = x) <=> x = s[1] \/ \E i \in 1 .. n - 1 : u[i] = x
  <2>1. ASSUME NEW i \in 1 .. n, s[i] = x PROVE x = s[1] \/ \E j \in 1 .. n - 1 : u[j] = x
    <3>1. CASE i = 1
      BY <2>1, <3>1
    <3>2. CASE i # 1
      <4>1. i - 1 \in 1 .. n - 1 /\ (i - 1) + 1 = i
        BY <1>1, <1>2, <3>2
      <4>2. u[i - 1] = s[i]
        BY <1>1, <1>2, <4>1
      <4> QED BY <2>1, <4>1, <4>2
    <3> QED BY <3>1, <3>2
  <2>2. ASSUME NEW j \in 1 .. n - 1, u[j] = x PROVE \E i \in 1 .. n : s[i] = x
    BY <1>1, <1>2, <2>2
  <2>3. 1 \in 1 .. n
    BY <1>1, <1>2
  <2> QED BY <2>1, <2>2, <2>3
<1> QED BY <1>1, <1>2, <1>3

LEMMA QueueAppend ==
    ASSUME NEW S, NEW s \in Seq(S), NEW e \in S
    PROVE  /\ Append(s, e) \in Seq(S) /\ Len(Append(s, e)) = Len(s) + 1 /\ Len(s) \in Nat
           /\ \A i \in 1 .. Len(s) + 1 : Append(s, e)[i] = IF i = Len(s) + 1 THEN e ELSE s[i]
           /\ \A x : (\E i \in 1 .. Len(s) + 1 : Append(s, e)[i] = x)
                        <=> x = e \/ \E i \in 1 .. Len(s) : s[i] = x
OBVIOUS

(* Which frame gets the picture at the head of the queue. *)
LEMMA NextWithoutOutputIs ==
    ASSUME TypeInv, Core, MayConnect
    PROVE  /\ NextWithoutOutput \in Time /\ frames[NextWithoutOutput].output = NoPic
           /\ "base" \in frames[NextWithoutOutput].met
           /\ frames[NextWithoutOutput].phase # "None"
           /\ available # <<>> /\ Head(available) \in Pic
           /\ \E i \in 1 .. Len(processing) : processing[i] = NextWithoutOutput
<1>1. PICK W, c : W = WithoutOutput /\ c = CHOOSE i \in W : \A j \in W : i <= j
  OBVIOUS
<1>2. W \in SUBSET Nat /\ W # {}
  BY <1>1 DEF WithoutOutput, MayConnect
<1>3. \E i \in W : \A j \in W : i <= j
  BY <1>2, LeastNumber
<1>4. c \in W
  BY <1>1, <1>3
<1>5. NextWithoutOutput = processing[c]
  BY <1>1 DEF NextWithoutOutput
<1>6. /\ c \in 1 .. Len(processing) /\ processing[c] \in Time
      /\ frames[processing[c]].output = NoPic /\ frames[processing[c]].baseSeen
  <2>1. c \in {i \in 1 .. Len(processing) : frames[processing[i]].output = NoPic /\ frames[processing[i]].baseSeen}
    BY <1>1, <1>4 DEF WithoutOutput
  <2>2. /\ c \in 1 .. Len(processing)
        /\ frames[processing[c]].output = NoPic /\ frames[processing[c]].baseSeen
    BY ONLY <2>1
  <2>3. processing \in Seq(Time)
    BY TypesHold
  <2> QED BY <2>2, <2>3
<1>7. PICK t \in Time : t = NextWithoutOutput
  BY <1>5, <1>6
<1>8. "base" \in frames[t].met /\ frames[t].phase # "None"
  BY <1>5, <1>6, <1>7, FrameIs DEF Core, RecordOK, InputsOK
<1>9. available # <<>> /\ Head(available) \in Pic
  BY TypesHold, QueueTail DEF MayConnect
<1> QED BY <1>5, <1>6, <1>7, <1>8, <1>9

LEMMA ConnectOutputCore ==
    ASSUME TypeInv, Core, ConnectOutput
    PROVE  TypeInv' /\ Core'
<1>1. PICK t \in Time, p \in Pic : /\ t = NextWithoutOutput /\ p = Head(available)
               /\ frames[t].phase # "None" /\ available # <<>>
  BY NextWithoutOutputIs DEF ConnectOutput
<1>2. PICK f, g : /\ f = frames[t] /\ g = [f EXCEPT !.output = p, !.met = @ \cup {"output"}]
                  /\ frames' = [frames EXCEPT ![t] = g]
  BY <1>1 DEF ConnectOutput
<1>3. /\ available' = Tail(available)
      /\ UNCHANGED <<orderVars, baseOut, buffer, busy, api, clientVars, pastVars>>
      /\ api.pc \in {"connect", "start"}
  BY DEF ConnectOutput, At
<1>4. f \in FrameRec /\ RecordOK(f, t, Stage(t)) /\ f.phase # "None"
  BY <1>1, <1>2, FrameIs DEF Core
<1>5. /\ g \in FrameRec /\ SameFrame(f, g) /\ g.met = f.met \cup {"output"}
  BY <1>2, <1>4 DEF FrameRec, SameFrame, Input
<1>6. RecordOK(g, t, Stage(t))
  BY <1>2, <1>4, OutputArrives
<1>7. /\ frames' \in [Time -> FrameRec] /\ frames'[t] = g /\ \A u \in Time \ {t} : frames'[u] = frames[u]
  BY <1>2, <1>5, TypesHold
<1>8. Stage(t)' = Stage(t)
  BY <1>2, <1>3, <1>5, <1>7, CalmStage DEF BuildPc, SameFrame
<1>9. Continues(frames[t], g)
  BY <1>2, <1>4, <1>5, PictureContinues
<1>10. FramesOK' /\ BusyOK'
  BY <1>2, <1>3, <1>5, <1>6, <1>8, <1>9, OneFrameCore DEF BuildPc
<1>11. TypeInv'
  BY ConfigAssumption, <1>1, <1>3, QueueTail, <1>7 DEF TypeInv, TypeOK, orderVars, clientVars, pastVars
<1>12. ApiOK'
  BY <1>3 DEF ApiOK
<1>13. \A u \in Time : frames'[u].phase = frames[u].phase
  BY <1>2, <1>5, <1>7 DEF SameFrame
<1>14. IndexOK'
  BY <1>3, <1>13, SameIndex DEF Freeing, orderVars, Core
<1>15. BaseSent'
  BY <1>2, <1>5, <1>7, <1>3 DEF Core, BaseSent, clientVars
<1> QED BY <1>10, <1>11, <1>12, <1>14, <1>15 DEF Core

(* Calls and steps of calls that leave the frames alone. *)
LEMMA SendOutputCore ==
    ASSUME TypeInv, Core, NEW p \in Pic, SendOutput(p)
    PROVE  TypeInv' /\ Core'
<1>1. /\ api.pc = "idle" /\ available' = Append(available, p) /\ owned' = owned \ {p}
      /\ Len(available) < RingCapacity
      /\ UNCHANGED <<frames, orderVars, baseOut, buffer, busy, sent, returned, pastVars>>
  BY DEF SendOutput, At
<1>2. api' \in ApiRec /\ api'.pc = "connect"
  BY GotoIs DEF SendOutput
<1>3. TypeInv'
  BY ConfigAssumption, TypesHold, <1>1, QueueAppend, <1>2 DEF TypeInv, TypeOK, ApiRec, orderVars, pastVars
<1> QED BY <1>1, <1>2, <1>3, CalmCore DEF BuildPc, orderVars

LEMMA ReceiveBaseCore ==
    ASSUME TypeInv, Core, ReceiveBase
    PROVE  TypeInv' /\ Core'
BY ConfigAssumption, QueueTail, CalmCore DEF ReceiveBase, At, TypeInv, TypeOK, orderVars, pastVars, BuildPc

CalmStep ==
    \/ OutputConnected \/ StartEnd \/ ReceiveOutput \/ ReceiveNothing
    \/ SyncNext \/ SyncWaited \/ SyncEnd

LEMMA CalmStepIs ==
    ASSUME TypeInv, CalmStep
    PROVE  /\ api' \in ApiRec /\ api.pc \in {"connect", "start", "idle", "receive", "sync", "syncWait"}
           /\ api'.pc \in {"start", "idle", "sync", "syncWait", "receive"}
           /\ api'.pc = "receive" => processing # <<>>
           /\ UNCHANGED <<frames, orderVars, baseOut, available, buffer, busy, clientVars, pastVars>>
<1>1. CASE OutputConnected
  BY <1>1, StartReadyIs DEF OutputConnected, At
<1>2. CASE StartEnd
  BY <1>2, TypesHold DEF StartEnd, ApiRec, At
<1>3. CASE ReceiveOutput
  BY <1>3, GotoIs DEF ReceiveOutput, At
<1>4. CASE ReceiveNothing
  BY <1>4, GotoIs DEF ReceiveNothing, At
<1>5. CASE SyncNext
  <2>1. /\ Goto("syncWait") \/ api' = [api EXCEPT !.index = @ + 1]
        /\ api \in ApiRec /\ api.pc = "sync"
    BY <1>5, TypesHold DEF SyncNext, At
  <2>2. UNCHANGED <<frames, orderVars, baseOut, available, buffer, busy, clientVars, pastVars>>
    BY <1>5 DEF SyncNext
  <2>3. CASE Goto("syncWait")
    BY <2>1, <2>2, <2>3, GotoIs
  <2>4. CASE api' = [api EXCEPT !.index = @ + 1]
    <3>1. PICK j : j = api.index + 1 /\ j \in Nat
      BY ONLY <2>1 DEF ApiRec
    <3>2. api' = [api EXCEPT !.index = j]
      BY ONLY <2>4, <3>1
    <3>3. api' \in ApiRec /\ api'.pc = "sync"
      BY ONLY <2>1, <3>1, <3>2 DEF ApiRec
    <3> QED BY <2>1, <2>2, <3>3
  <2> QED BY <2>1, <2>3, <2>4
<1>6. CASE SyncWaited
  <2>1. /\ api' = [api EXCEPT !.pc = "sync", !.index = @ + 1]
        /\ api \in ApiRec /\ api.pc = "syncWait"
    BY <1>6, TypesHold DEF SyncWaited, At
  <2>2. PICK j : j = api.index + 1 /\ j \in Nat
    BY ONLY <2>1 DEF ApiRec
  <2>3. api' = [api EXCEPT !.pc = "sync", !.index = j]
    BY ONLY <2>1, <2>2
  <2>4. api' \in ApiRec /\ api'.pc = "sync"
    BY ONLY <2>1, <2>2, <2>3 DEF ApiRec
  <2> QED BY <1>6, <2>1, <2>4 DEF SyncWaited
<1>7. CASE SyncEnd
  BY <1>7, GotoIs DEF SyncEnd, At
<1> QED BY <1>1, <1>2, <1>3, <1>4, <1>5, <1>6, <1>7 DEF CalmStep

LEMMA CalmStepCore ==
    ASSUME TypeInv, Core, CalmStep
    PROVE  TypeInv' /\ Core'
BY CalmStepIs, CalmCore DEF TypeInv, TypeOK, ApiRec, orderVars, clientVars, pastVars, BuildPc

(* The first frame to reorder is started. *)
LEMMA StartFrameIs ==
    ASSUME TypeInv, Core, StartFrame
    PROVE  \E t \in Time, good \in BOOLEAN, passthrough \in BOOLEAN, g \in FrameRec :
             /\ reorder # <<>> /\ t = Head(reorder) /\ frames[t].phase = "Reorder"
             /\ g = [frames[t] EXCEPT !.phase = "Processing", !.good = good, !.passthrough = passthrough]
             /\ frames' = [frames EXCEPT ![t] = g]
             /\ good => frames[t].kind # "bad" /\ decoded' = Append(decoded, t)
             /\ ~good => passthrough /\ decoded' = decoded
             /\ reorder' = Tail(reorder) /\ processing' = Append(processing, t)
             /\ api' \in ApiRec /\ api'.pc = "generate" /\ api'.frame = t
<1>1. At("start") /\ reorder # <<>>
  BY DEF StartFrame, getNextReordered
<1>2. PICK t \in Time : t = Head(reorder)
  BY <1>1, TypesHold, QueueTail
<1>3. frames[t].phase = "Reorder" /\ frames[t] \in FrameRec
  BY <1>1, <1>2, TypesHold, QueueTail DEF Core, IndexOK
<1>4. PICK good \in BOOLEAN :
        good = (~(frames[t].passthrough \/ Late(t)) /\ frames[t].kind # "bad")
  OBVIOUS
<1>5. PICK failed \in BOOLEAN :
        frames' = [frames EXCEPT ![t] =
           [frames[t] EXCEPT !.phase = "Processing", !.good = good, !.passthrough = ~good \/ failed]]
  BY <1>2, <1>4 DEF StartFrame
<1>6. PICK passthrough, g :
        /\ passthrough \in BOOLEAN /\ passthrough = (~good \/ failed)
        /\ g = [frames[t] EXCEPT !.phase = "Processing", !.good = good, !.passthrough = passthrough]
        /\ frames' = [frames EXCEPT ![t] = g]
  BY <1>5
<1>7. g \in FrameRec
  BY ZenonT(60), <1>3, <1>6 DEF FrameRec
<1>8. /\ reorder' = Tail(reorder) /\ processing' = Append(processing, t)
      /\ decoded' = (IF good THEN Append(decoded, t) ELSE decoded)
  BY <1>2, <1>4 DEF StartFrame
<1>9. api' \in ApiRec /\ api'.pc = "generate" /\ api'.frame = t
  BY <1>2, GotoFrameIs DEF StartFrame
<1>10. good => frames[t].kind # "bad"
  BY <1>4
<1>11. ~good => passthrough
  BY <1>6
<1> QED BY <1>1, <1>2, <1>3, <1>6, <1>7, <1>8, <1>9, <1>10, <1>11

LEMMA StartFrameCore ==
    ASSUME TypeInv, Core, StartFrame
    PROVE  TypeInv' /\ Core'
<1>1. PICK t \in Time, good \in BOOLEAN, passthrough \in BOOLEAN, g \in FrameRec :
             /\ reorder # <<>> /\ t = Head(reorder) /\ frames[t].phase = "Reorder"
             /\ g = [frames[t] EXCEPT !.phase = "Processing", !.good = good, !.passthrough = passthrough]
             /\ frames' = [frames EXCEPT ![t] = g]
             /\ good => frames[t].kind # "bad" /\ decoded' = Append(decoded, t)
             /\ ~good => passthrough /\ decoded' = decoded
             /\ reorder' = Tail(reorder) /\ processing' = Append(processing, t)
             /\ api' \in ApiRec /\ api'.pc = "generate" /\ api'.frame = t
  BY StartFrameIs
<1>2. /\ api.pc = "start"
      /\ UNCHANGED <<previous, lastGood, baseOut, available, buffer, busy, clientVars, kept, strayed>>
  BY DEF StartFrame, At
<1>3. PICK f : f = frames[t]
  OBVIOUS
<1>4. f \in FrameRec /\ f.phase = "Reorder" /\ Stage(t) = "unmade" /\ RecordOK(f, t, "unmade")
  BY <1>1, <1>3, FrameIs DEF Stage, Core
<1>5. /\ g.phase = "Processing" /\ g.good = good /\ g.passthrough = passthrough
      /\ g.graph = f.graph /\ g.baseNeeds = f.baseNeeds /\ g.kind = f.kind /\ g.dep = f.dep
      /\ g.wants = f.wants /\ g.added = f.added /\ g.met = f.met /\ g.holds = f.holds
      /\ g.base = f.base /\ g.baseSeen = f.baseSeen /\ g.output = f.output
  BY <1>1, <1>3, <1>4 DEF FrameRec
<1>6. /\ f.graph = "none" /\ f.added \subseteq {"Slices"} /\ f.met \cap Task = {}
      /\ ~f.dep /\ "temporal" \notin f.met /\ f.wants = Unset
  BY <1>4, UnmadeFrame
<1>7. RecordOK(g, t, "unmade")
  BY <1>5, <1>6, <1>4, <1>1, <1>3 DEF RecordOK, TasksOK, Task, InputsOK, GraphOK
<1>8. Stage(t)' = "unmade"
  BY <1>1 DEF Stage, Building
<1>9. /\ frames' \in [Time -> FrameRec] /\ frames'[t] = g
      /\ \A u \in Time \ {t} : frames'[u] = frames[u]
      /\ FramesOK' /\ BusyOK'
  BY <1>1, <1>2, <1>3, <1>6, <1>7, <1>8, OneFrameCore DEF BuildPc
<1>10. /\ reorder \in Seq(Time) /\ processing \in Seq(Time)
       /\ reorder' \in Seq(Time) /\ processing' \in Seq(Time) /\ decoded' \in Seq(Time)
  <2>1. reorder \in Seq(Time) /\ processing \in Seq(Time) /\ decoded \in Seq(Time)
    BY TypesHold
  <2>2. /\ reorder # <<>> /\ reorder' = Tail(reorder) /\ processing' = Append(processing, t)
        /\ decoded' = decoded \/ decoded' = Append(decoded, t)
    BY <1>1
  <2>3. Tail(reorder) \in Seq(Time)
    BY ONLY <2>1, <2>2, QueueTail
  <2>4. Append(processing, t) \in Seq(Time)
    BY ONLY <2>1, QueueAppend
  <2>5. Append(decoded, t) \in Seq(Time)
    BY ONLY <2>1, QueueAppend
  <2> QED BY <2>1, <2>2, <2>3, <2>4, <2>5
<1>11. TypeInv'
  BY <1>1, <1>2, <1>9, <1>10 DEF StartFrame, TypeInv, TypeOK, ApiRec, clientVars
<1>12. ApiOK'
  BY <1>1, <1>10, <1>5, <1>9 DEF ApiOK
<1>13. IndexOK'
  <2>1. /\ Len(reorder') = Len(reorder) - 1 /\ Len(reorder) \in Nat \ {0} /\ t = reorder[1]
        /\ \A i \in 1 .. Len(reorder) - 1 : reorder'[i] = reorder[i + 1]
        /\ \A x : (\E i \in 1 .. Len(reorder) : reorder[i] = x)
                     <=> x = t \/ \E i \in 1 .. Len(reorder) - 1 : reorder'[i] = x
    <3>1. reorder \in Seq(Time) /\ reorder # <<>> /\ reorder' = Tail(reorder) /\ t = Head(reorder)
      BY <1>1, <1>10
    <3>2. PICK s, u : s = reorder /\ u = reorder'
      OBVIOUS
    <3>3. /\ Head(s) \in Time /\ Head(s) = s[1] /\ Tail(s) \in Seq(Time) /\ Len(Tail(s)) = Len(s) - 1
          /\ Len(s) \in Nat \ {0}
          /\ \A i \in 1 .. Len(s) - 1 : Tail(s)[i] = s[i + 1]
          /\ \A x : (\E i \in 1 .. Len(s) : s[i] = x)
                        <=> x = Head(s) \/ \E i \in 1 .. Len(s) - 1 : Tail(s)[i] = x
      <4>1. s \in Seq(Time) /\ s # <<>>
        BY <3>1, <3>2
      <4> QED BY ONLY <4>1, QueueTail
    <3>4. u = Tail(s) /\ t = Head(s)
      BY <3>1, <3>2
    <3> QED BY ONLY <3>2, <3>3, <3>4
  <2>2. /\ Len(processing') = Len(processing) + 1 /\ Len(processing) \in Nat
        /\ \A i \in 1 .. Len(processing) + 1 :
              processing'[i] = IF i = Len(processing) + 1 THEN t ELSE processing[i]
        /\ \A x : (\E i \in 1 .. Len(processing) + 1 : processing'[i] = x)
                     <=> x = t \/ \E i \in 1 .. Len(processing) : processing[i] = x
    <3>1. processing \in Seq(Time) /\ processing' = Append(processing, t)
      BY <1>1, <1>10
    <3>2. PICK s, u : s = processing /\ u = processing'
      OBVIOUS
    <3>3. /\ Append(s, t) \in Seq(Time) /\ Len(Append(s, t)) = Len(s) + 1 /\ Len(s) \in Nat
          /\ \A i \in 1 .. Len(s) + 1 : Append(s, t)[i] = IF i = Len(s) + 1 THEN t ELSE s[i]
          /\ \A x : (\E i \in 1 .. Len(s) + 1 : Append(s, t)[i] = x)
                        <=> x = t \/ \E i \in 1 .. Len(s) : s[i] = x
      BY <3>1, <3>2, QueueAppend
    <3>4. u = Append(s, t)
      BY <3>1, <3>2
    <3> QED BY ONLY <3>2, <3>3, <3>4
  <2>3. \A i, j \in 1 .. Len(reorder) : i < j => reorder[i] < reorder[j]
    BY DEF Core, IndexOK
  <2>4. \A i, j \in 1 .. Len(reorder') : i < j => reorder'[i] < reorder'[j]
    BY <2>1, <2>3
  <2>5. \A i \in 1 .. Len(reorder') : reorder'[i] # t
    BY <2>1, <2>3, TimeAssumption
  <2>6. \A i \in 1 .. Len(processing) : processing[i] # t
    BY <1>1 DEF Core, IndexOK
  <2>7. Freeing = {} /\ Freeing' = {}
    BY <1>1, <1>2 DEF Freeing
  <2>8. ASSUME NEW u \in Time
        PROVE  frames'[u].phase = "Reorder" <=> \E i \in 1 .. Len(reorder') : reorder'[i] = u
    <3>1. frames[u].phase = "Reorder" <=> \E i \in 1 .. Len(reorder) : reorder[i] = u
      BY DEF Core, IndexOK
    <3>2. u = t => frames'[u].phase # "Reorder"
      BY <1>5, <1>9
    <3>3. u # t => frames'[u] = frames[u]
      BY <1>9
    <3> QED BY <2>1, <2>5, <3>1, <3>2, <3>3
  <2>9. ASSUME NEW u \in Time
        PROVE  frames'[u].phase \in {"Processing", "Done"}
                  <=> \E i \in 1 .. Len(processing') : processing'[i] = u
    BY <2>7, <1>5, <1>9, <2>2 DEF Core, IndexOK
  <2>10. \A i, j \in 1 .. Len(processing') : processing'[i] = processing'[j] => i = j
    BY <2>2, <2>6 DEF Core, IndexOK
  <2> QED BY <2>4, <2>7, <2>8, <2>9, <2>10 DEF IndexOK
<1>14. BaseSent'
  BY <1>3, <1>5, <1>9, <1>2 DEF Core, BaseSent, clientVars
<1> QED BY <1>9, <1>11, <1>12, <1>13, <1>14 DEF Core

(* What is known of the frame whose tasks are being generated. *)
LEMMA BuildFrame ==
    ASSUME TypeInv, Core, NEW pc \in BuildPc, api.pc = pc
    PROVE  /\ api.frame \in Time /\ frames[api.frame] \in FrameRec
           /\ frames[api.frame].phase \in {"Processing", "Done"}
           /\ RecordOK(frames[api.frame], api.frame, IF pc = "generate" THEN "unmade" ELSE pc)
           /\ Stage(api.frame) = IF pc = "generate" THEN "unmade" ELSE pc
           /\ processing # <<>> /\ processing[Len(processing)] = api.frame
BY FrameIs DEF Core, ApiOK, BuildPc, Stage, Building

(* A step of generateTasks(), which changes the record f of its frame to g. *)
LEMMA BuildStep ==
    ASSUME TypeInv, Core, NEW t \in Time, api.pc \in BuildPc, api.frame = t,
           NEW g \in FrameRec, frames' = [frames EXCEPT ![t] = g],
           api' \in ApiRec, (api'.pc \in {"require", "match", "findBase"} /\ api'.frame = t) \/ api'.pc = "start",
           RecordOK(g, t, IF api'.pc = "start" THEN "made" ELSE api'.pc),
           g.phase = frames[t].phase, "base" \in g.met <=> "base" \in frames[t].met,
           Continues(frames[t], g) \/ frames[t].added \subseteq frames[t].met \cup {"Slices"},
           previous' \in Time \cup {Invalid}, lastGood' \in Time \cup {Invalid},
           buffer' \in [owner : Time \cup {NoFrame}, stamp : Stamp],
           UNCHANGED <<reorder, processing, configured, baseOut, available, busy, clientVars, pastVars>>
    PROVE  TypeInv' /\ Core'
<1>1. /\ frames[t].phase \in {"Processing", "Done"}
      /\ processing # <<>> /\ processing[Len(processing)] = t
  BY BuildFrame
<1>2. frames'[t].phase = frames[t].phase
  BY TypesHold
<1>3. Stage(t)' = IF api'.pc = "start" THEN "made" ELSE api'.pc
  BY <1>1, <1>2 DEF Stage, Building
<1>4. /\ frames' \in [Time -> FrameRec] /\ frames'[t] = g
      /\ \A u \in Time \ {t} : frames'[u] = frames[u]
      /\ FramesOK' /\ BusyOK'
  BY <1>3, OneFrameCore DEF BuildPc
<1>5. TypeInv'
  BY <1>4 DEF TypeInv, TypeOK, ApiRec, clientVars, pastVars
<1>6. ApiOK'
  BY <1>1, <1>2, <1>4 DEF ApiOK
<1>7. IndexOK'
  BY <1>4, SameIndex DEF Freeing, BuildPc, Core
<1>8. BaseSent'
  BY <1>4 DEF Core, BaseSent, clientVars
<1> QED BY <1>4, <1>5, <1>6, <1>7, <1>8 DEF Core

LEMMA GenerateCore ==
    ASSUME TypeInv, Core, Generate
    PROVE  TypeInv' /\ Core'
<1>1. api.pc = "generate"
  BY DEF Generate, At
<1>2. PICK t \in Time : t = api.frame /\ frames[t] \in FrameRec /\ RecordOK(frames[t], t, "unmade")
                        /\ frames[t].phase \in {"Processing", "Done"}
  BY <1>1, BuildFrame DEF BuildPc
<1>3. PICK f, graph, now, g :
         /\ f = frames[t] /\ graph = GraphOf(f)
         /\ now = (IF graph = "temporal" THEN {"Read"} ELSE {"Read", "OutputDone"})
         /\ g = [f EXCEPT !.graph = graph, !.added = @ \cup now]
         /\ frames' = [frames EXCEPT ![t] = g]
  BY <1>2 DEF Generate
<1>4. /\ f \in FrameRec /\ RecordOK(f, t, "unmade") /\ f.phase \in {"Processing", "Done"}
      /\ f.graph = "none" /\ f.added \subseteq {"Slices"} /\ f.met \cap Task = {}
      /\ ~f.dep /\ "temporal" \notin f.met /\ f.wants = Unset
  BY <1>2, <1>3, UnmadeFrame
<1>5. /\ graph \in {"pass", "plain", "temporal"}
      /\ graph = "temporal" => ~f.passthrough /\ f.kind # "plain"
  BY <1>3 DEF GraphOf
<1>6. /\ g \in FrameRec /\ g.graph = graph /\ g.added = f.added \cup now
      /\ g.phase = f.phase /\ g.good = f.good /\ g.passthrough = f.passthrough
      /\ g.baseNeeds = f.baseNeeds /\ g.kind = f.kind /\ g.dep = f.dep
      /\ g.wants = f.wants /\ g.met = f.met
      /\ g.base = f.base /\ g.baseSeen = f.baseSeen /\ g.output = f.output
  <2>1. f \in FrameRec /\ graph \in {"none", "pass", "plain", "temporal"} /\ now \subseteq Task
    BY <1>3, <1>4, <1>5 DEF Task
  <2>2. g = [f EXCEPT !.graph = graph, !.added = @ \cup now]
    BY <1>3
  <2> QED BY ONLY <2>1, <2>2 DEF FrameRec
<1>7. PICK stage : stage = (IF graph = "temporal" THEN "require" ELSE "findBase")
  OBVIOUS
<1>8. RecordOK(g, t, stage)
  BY <1>3, <1>4, <1>6, <1>7, <1>5, FrameFields DEF Made, TasksOK, RecordOK, InputsOK, GraphOK, Kind
<1>9. api' \in ApiRec /\ api'.pc = stage /\ api'.frame = t
  BY <1>2, <1>3, <1>7, GotoIs DEF Generate
<1>10. UNCHANGED <<orderVars, baseOut, available, buffer, busy, clientVars, pastVars>>
  BY DEF Generate
<1>11. /\ previous' \in Time \cup {Invalid} /\ lastGood' \in Time \cup {Invalid}
       /\ buffer' \in [owner : Time \cup {NoFrame}, stamp : Stamp]
  BY <1>10 DEF TypeInv, TypeOK, orderVars
<1>12. frames[t].added \subseteq frames[t].met \cup {"Slices"}
  BY <1>3, <1>4
<1>13. g.phase = frames[t].phase /\ ("base" \in g.met <=> "base" \in frames[t].met)
  BY <1>3, <1>6
<1>14. RecordOK(g, t, IF api'.pc = "start" THEN "made" ELSE api'.pc)
  BY <1>7, <1>8, <1>9
<1>15. /\ api.pc \in BuildPc /\ api.frame = t /\ g \in FrameRec /\ frames' = [frames EXCEPT ![t] = g]
       /\ (api'.pc \in {"require", "match", "findBase"} /\ api'.frame = t) \/ api'.pc = "start"
  BY <1>1, <1>2, <1>3, <1>6, <1>7, <1>9 DEF BuildPc
<1>16. UNCHANGED <<reorder, processing, configured, baseOut, available, busy, clientVars, pastVars>>
  BY <1>10 DEF orderVars
<1> QED BY <1>9, <1>11, <1>12, <1>13, <1>14, <1>15, <1>16, BuildStep

LEMMA RequireBufferCore ==
    ASSUME TypeInv, Core, RequireBuffer
    PROVE  TypeInv' /\ Core'
<1>1. api.pc = "require"
  BY DEF RequireBuffer, At
<1>2. PICK t \in Time : t = api.frame /\ frames[t] \in FrameRec /\ RecordOK(frames[t], t, "require")
                        /\ frames[t].phase \in {"Processing", "Done"}
  BY <1>1, BuildFrame DEF BuildPc
<1>3. PICK f, g : /\ f = frames[t] /\ g = [f EXCEPT !.wants = lastGood]
                  /\ frames' = [frames EXCEPT ![t] = g]
  BY <1>2 DEF RequireBuffer
<1>4. f \in FrameRec /\ RecordOK(f, t, "require") /\ lastGood \in Stamp
  BY <1>2, <1>3, TypesHold DEF Stamp
<1>5. /\ g \in FrameRec /\ g.graph = f.graph /\ g.added = f.added
      /\ g.phase = f.phase /\ g.good = f.good /\ g.passthrough = f.passthrough
      /\ g.baseNeeds = f.baseNeeds /\ g.kind = f.kind /\ g.dep = f.dep
      /\ g.wants = lastGood /\ g.met = f.met
      /\ g.base = f.base /\ g.baseSeen = f.baseSeen /\ g.output = f.output
  BY <1>3, <1>4 DEF FrameRec
<1>6. \A k \in Task : Needs(g, k) = Needs(f, k)
  BY <1>5, NeedsSame
<1>7. RecordOK(g, t, "match")
  BY <1>4, <1>5, <1>6 DEF Made, RecordOK, TasksOK, InputsOK, GraphOK
<1>8. api' \in ApiRec /\ api'.pc = "match" /\ api'.frame = t
  BY <1>2, GotoIs DEF RequireBuffer
<1>9. UNCHANGED <<orderVars, baseOut, available, buffer, busy, clientVars, pastVars>>
  BY DEF RequireBuffer
<1>10. /\ previous' \in Time \cup {Invalid} /\ lastGood' \in Time \cup {Invalid}
       /\ buffer' \in [owner : Time \cup {NoFrame}, stamp : Stamp]
  BY <1>9 DEF TypeInv, TypeOK, orderVars
<1>11. Continues(f, g)
  BY <1>4, FrameFields, <1>5, <1>6 DEF Continues
<1>12. g.phase = frames[t].phase /\ ("base" \in g.met <=> "base" \in frames[t].met)
  BY <1>3, <1>5
<1>13. RecordOK(g, t, IF api'.pc = "start" THEN "made" ELSE api'.pc)
  BY <1>7, <1>8
<1>14. /\ api.pc \in BuildPc /\ api.frame = t /\ g \in FrameRec /\ frames' = [frames EXCEPT ![t] = g]
       /\ (api'.pc \in {"require", "match", "findBase"} /\ api'.frame = t) \/ api'.pc = "start"
       /\ Continues(frames[t], g)
  BY <1>1, <1>2, <1>3, <1>5, <1>8, <1>11 DEF BuildPc
<1>15. UNCHANGED <<reorder, processing, configured, baseOut, available, busy, clientVars, pastVars>>
  BY <1>9 DEF orderVars
<1> QED BY <1>8, <1>10, <1>12, <1>13, <1>14, <1>15, BuildStep

LEMMA MatchBufferIs ==
    ASSUME TypeInv, Core, MatchBuffer
    PROVE  \E t \in Time, g \in FrameRec :
             /\ t = api.frame /\ api.pc = "match" /\ api'.pc = "findBase" /\ api'.frame = t
             /\ api' \in ApiRec
             /\ frames[t] \in FrameRec /\ RecordOK(frames[t], t, "match")
             /\ frames' = [frames EXCEPT ![t] = g]
             /\ g.graph = frames[t].graph /\ g.dep = TRUE
             /\ g.added = frames[t].added \cup {"Add", "Release", "OutputDone"}
             /\ g.phase = frames[t].phase /\ g.good = frames[t].good /\ g.passthrough = frames[t].passthrough
             /\ g.baseNeeds = frames[t].baseNeeds /\ g.kind = frames[t].kind
             /\ g.wants = frames[t].wants /\ g.base = frames[t].base
             /\ g.baseSeen = frames[t].baseSeen /\ g.output = frames[t].output
             /\ \/ /\ buffer.owner = NoFrame
                   /\ buffer.stamp = g.wants \/ (g.kind = "refresh" /\ buffer.stamp = Invalid)
                   /\ g.holds = TRUE /\ g.met = frames[t].met \cup {"temporal"}
                   /\ buffer' = [owner |-> t, stamp |-> g.wants]
                \/ /\ ~(/\ buffer.owner = NoFrame
                        /\ buffer.stamp = g.wants \/ (g.kind = "refresh" /\ buffer.stamp = Invalid))
                   /\ g.holds = frames[t].holds /\ g.met = frames[t].met /\ UNCHANGED buffer
             /\ UNCHANGED <<orderVars, baseOut, available, busy, clientVars, pastVars>>
<1>1. api.pc = "match"
  BY DEF MatchBuffer, At
<1>2. PICK t \in Time : t = api.frame /\ frames[t] \in FrameRec /\ RecordOK(frames[t], t, "match")
  BY <1>1, BuildFrame DEF BuildPc
<1>3. PICK f : f = [frames[t] EXCEPT !.dep = TRUE, !.added = @ \cup {"Add", "Release", "OutputDone"}]
  OBVIOUS
<1>4. IF Matches(f)
      THEN /\ frames' = [frames EXCEPT ![t] = [f EXCEPT !.holds = TRUE, !.met = @ \cup {"temporal"}]]
           /\ buffer' = [owner |-> t, stamp |-> f.wants]
      ELSE frames' = [frames EXCEPT ![t] = f] /\ UNCHANGED buffer
  BY <1>2, <1>3 DEF MatchBuffer
<1>5. /\ f \in FrameRec /\ f.graph = frames[t].graph /\ f.dep = TRUE
      /\ f.added = frames[t].added \cup {"Add", "Release", "OutputDone"}
      /\ f.phase = frames[t].phase /\ f.good = frames[t].good /\ f.passthrough = frames[t].passthrough
      /\ f.baseNeeds = frames[t].baseNeeds /\ f.kind = frames[t].kind
      /\ f.wants = frames[t].wants /\ f.base = frames[t].base
      /\ f.baseSeen = frames[t].baseSeen /\ f.output = frames[t].output
      /\ f.holds = frames[t].holds /\ f.met = frames[t].met
  BY <1>2, <1>3 DEF FrameRec, Task
<1>6. PICK h : h = [f EXCEPT !.holds = TRUE, !.met = @ \cup {"temporal"}]
  OBVIOUS
<1>7. /\ h \in FrameRec /\ h.graph = f.graph /\ h.dep = f.dep /\ h.added = f.added
      /\ h.phase = f.phase /\ h.good = f.good /\ h.passthrough = f.passthrough
      /\ h.baseNeeds = f.baseNeeds /\ h.kind = f.kind /\ h.wants = f.wants /\ h.base = f.base
      /\ h.baseSeen = f.baseSeen /\ h.output = f.output
      /\ h.holds = TRUE /\ h.met = f.met \cup {"temporal"}
  BY <1>5, <1>6 DEF FrameRec, Input
<1>8. api' \in ApiRec /\ api'.pc = "findBase" /\ api'.frame = t
  BY <1>2, GotoIs DEF MatchBuffer
<1>9. UNCHANGED <<orderVars, baseOut, available, busy, clientVars, pastVars>>
  BY DEF MatchBuffer
<1>10. Matches(f) <=> /\ buffer.owner = NoFrame
                      /\ buffer.stamp = f.wants \/ (f.kind = "refresh" /\ buffer.stamp = Invalid)
  BY DEF Matches
<1>11. CASE Matches(f)
  <2>1. frames' = [frames EXCEPT ![t] = h] /\ buffer' = [owner |-> t, stamp |-> f.wants]
    BY <1>4, <1>6, <1>11
  <2>2. h \in FrameRec
    BY <1>7
  <2> USE <2>2
  <2> WITNESS t \in Time, h \in FrameRec
  <2> QED BY <1>1, <1>2, <1>5, <1>7, <1>8, <1>9, <1>10, <1>11, <2>1
<1>12. CASE ~Matches(f)
  <2>1. frames' = [frames EXCEPT ![t] = f] /\ UNCHANGED buffer
    BY <1>4, <1>12
  <2>2. f \in FrameRec
    BY <1>5
  <2> USE <2>2
  <2> WITNESS t \in Time, f \in FrameRec
  <2> QED BY <1>1, <1>2, <1>5, <1>8, <1>9, <1>10, <1>12, <2>1
<1> QED BY <1>11, <1>12

LEMMA MatchBufferCore ==
    ASSUME TypeInv, Core, MatchBuffer
    PROVE  TypeInv' /\ Core'
<1>1. PICK t \in Time, g \in FrameRec :
             /\ t = api.frame /\ api.pc = "match" /\ api'.pc = "findBase" /\ api'.frame = t
             /\ api' \in ApiRec
             /\ frames[t] \in FrameRec /\ RecordOK(frames[t], t, "match")
             /\ frames' = [frames EXCEPT ![t] = g]
             /\ g.graph = frames[t].graph /\ g.dep = TRUE
             /\ g.added = frames[t].added \cup {"Add", "Release", "OutputDone"}
             /\ g.phase = frames[t].phase /\ g.good = frames[t].good /\ g.passthrough = frames[t].passthrough
             /\ g.baseNeeds = frames[t].baseNeeds /\ g.kind = frames[t].kind
             /\ g.wants = frames[t].wants /\ g.base = frames[t].base
             /\ g.baseSeen = frames[t].baseSeen /\ g.output = frames[t].output
             /\ \/ g.met = frames[t].met \cup {"temporal"} /\ buffer' = [owner |-> t, stamp |-> g.wants]
                \/ g.met = frames[t].met /\ UNCHANGED buffer
             /\ UNCHANGED <<orderVars, baseOut, available, busy, clientVars, pastVars>>
  BY ZenonT(40), MatchBufferIs
<1>2. PICK f : f = frames[t]
  OBVIOUS
<1>3. /\ f \in FrameRec /\ RecordOK(f, t, "match") /\ g.graph = f.graph /\ g.dep = TRUE
      /\ g.added = f.added \cup {"Add", "Release", "OutputDone"}
      /\ g.phase = f.phase /\ g.good = f.good /\ g.passthrough = f.passthrough
      /\ g.baseNeeds = f.baseNeeds /\ g.kind = f.kind
      /\ g.wants = f.wants /\ g.base = f.base /\ g.baseSeen = f.baseSeen /\ g.output = f.output
      /\ f.met \subseteq g.met /\ g.met \subseteq f.met \cup {"temporal"}
  BY <1>1, <1>2
<1>4. \A k \in Task : Needs(g, k) = Needs(f, k)
  BY <1>3, NeedsSame
<1>5. g.met \cap Task = f.met \cap Task
  BY <1>3 DEF Task
<1>6. f.graph = "temporal"
  BY <1>3 DEF RecordOK, GraphOK
<1>7. RecordOK(g, t, "findBase")
  BY <1>3, <1>6, <1>4, <1>5 DEF RecordOK, TasksOK, Made, GraphOK, InputsOK
<1>8. /\ previous' \in Time \cup {Invalid} /\ lastGood' \in Time \cup {Invalid}
      /\ buffer' \in [owner : Time \cup {NoFrame}, stamp : Stamp]
  BY FrameFields, <1>1 DEF TypeInv, TypeOK, orderVars
<1>9. Continues(f, g)
  BY <1>3, FrameFields, <1>4, <1>5 DEF Continues
<1>10. g.phase = frames[t].phase /\ ("base" \in g.met <=> "base" \in frames[t].met)
  BY <1>2, <1>3
<1>11. /\ api.pc \in BuildPc /\ api.frame = t /\ g \in FrameRec /\ frames' = [frames EXCEPT ![t] = g]
       /\ (api'.pc \in {"require", "match", "findBase"} /\ api'.frame = t) \/ api'.pc = "start"
       /\ Continues(frames[t], g) /\ RecordOK(g, t, IF api'.pc = "start" THEN "made" ELSE api'.pc)
       /\ api' \in ApiRec
  BY <1>1, <1>2, <1>7, <1>9 DEF BuildPc
<1>12. UNCHANGED <<reorder, processing, configured, baseOut, available, busy, clientVars, pastVars>>
  BY <1>1 DEF orderVars
<1> QED BY <1>8, <1>10, <1>11, <1>12, BuildStep

LEMMA FindBaseIs ==
    ASSUME TypeInv, Core, FindBase
    PROVE  \E t \in Time, g \in FrameRec :
             /\ t = api.frame /\ api.pc = "findBase" /\ api'.pc = "start" /\ api'.frame = NoFrame
             /\ api' \in ApiRec
             /\ frames[t] \in FrameRec /\ RecordOK(frames[t], t, "findBase")
             /\ frames' = [frames EXCEPT ![t] = g]
             /\ g.graph = frames[t].graph /\ g.dep = frames[t].dep
             /\ g.added = frames[t].added \cup {"BaseDone"} /\ g.baseNeeds = BaseReaders(frames[t])
             /\ g.phase = frames[t].phase /\ g.good = frames[t].good /\ g.passthrough = frames[t].passthrough
             /\ g.kind = frames[t].kind /\ g.met = frames[t].met /\ g.holds = frames[t].holds
             /\ g.wants = frames[t].wants /\ g.base = frames[t].base
             /\ g.baseSeen = frames[t].baseSeen /\ g.output = frames[t].output
             /\ lastGood' = (IF frames[t].good THEN t ELSE lastGood) /\ previous' = t
             /\ UNCHANGED <<reorder, processing, configured, baseOut, available, buffer,
                            busy, clientVars, pastVars>>
<1>1. api.pc = "findBase"
  BY DEF FindBase, At
<1>2. PICK t \in Time : t = api.frame /\ frames[t] \in FrameRec /\ RecordOK(frames[t], t, "findBase")
  BY <1>1, BuildFrame DEF BuildPc
<1>3. PICK f, needs, g :
         /\ f = frames[t] /\ needs = BaseReaders(f)
         /\ g = [f EXCEPT !.baseNeeds = needs, !.added = @ \cup {"BaseDone"}]
         /\ frames' = [frames EXCEPT ![t] = g]
  BY <1>2 DEF FindBase
<1>4. /\ g \in FrameRec
      /\ g.graph = f.graph /\ g.dep = f.dep
      /\ g.added = f.added \cup {"BaseDone"} /\ g.baseNeeds = needs
      /\ g.phase = f.phase /\ g.good = f.good /\ g.passthrough = f.passthrough
      /\ g.kind = f.kind /\ g.met = f.met /\ g.holds = f.holds
      /\ g.wants = f.wants /\ g.base = f.base /\ g.baseSeen = f.baseSeen /\ g.output = f.output
  <2>1. f \in FrameRec /\ needs \subseteq Task
    BY <1>2, <1>3 DEF BaseReaders, Task
  <2>2. g = [f EXCEPT !.baseNeeds = needs, !.added = @ \cup {"BaseDone"}]
    BY <1>3
  <2> QED BY ONLY <2>1, <2>2 DEF FrameRec, Task
<1>5. api' \in ApiRec /\ api'.pc = "start" /\ api'.frame = NoFrame
  BY GotoFrameIs DEF FindBase
<1>6. /\ lastGood' = (IF frames[t].good THEN t ELSE lastGood) /\ previous' = t
      /\ UNCHANGED <<reorder, processing, configured, baseOut, available, buffer,
                     busy, clientVars, pastVars>>
  BY <1>2 DEF FindBase
<1>7. g \in FrameRec
  BY <1>4
<1> USE <1>7
<1> WITNESS t \in Time, g \in FrameRec
<1> QED BY <1>1, <1>2, <1>3, <1>4, <1>5, <1>6

LEMMA FindBaseCore ==
    ASSUME TypeInv, Core, FindBase
    PROVE  TypeInv' /\ Core'
<1>1. PICK t \in Time, g \in FrameRec :
             /\ t = api.frame /\ api.pc = "findBase" /\ api'.pc = "start" /\ api'.frame = NoFrame
             /\ api' \in ApiRec
             /\ frames[t] \in FrameRec /\ RecordOK(frames[t], t, "findBase")
             /\ frames' = [frames EXCEPT ![t] = g]
             /\ g.graph = frames[t].graph /\ g.dep = frames[t].dep
             /\ g.added = frames[t].added \cup {"BaseDone"} /\ g.baseNeeds = BaseReaders(frames[t])
             /\ g.phase = frames[t].phase /\ g.good = frames[t].good /\ g.passthrough = frames[t].passthrough
             /\ g.kind = frames[t].kind /\ g.met = frames[t].met
             /\ g.wants = frames[t].wants /\ g.base = frames[t].base
             /\ g.baseSeen = frames[t].baseSeen /\ g.output = frames[t].output
             /\ lastGood' = (IF frames[t].good THEN t ELSE lastGood) /\ previous' = t
             /\ UNCHANGED <<reorder, processing, configured, baseOut, available, buffer,
                            busy, clientVars, pastVars>>
  BY FindBaseIs
<1>2. PICK f : f = frames[t]
  OBVIOUS
<1>3. /\ f \in FrameRec /\ RecordOK(f, t, "findBase") /\ g.graph = f.graph /\ g.dep = f.dep
      /\ g.added = f.added \cup {"BaseDone"} /\ g.baseNeeds = BaseReaders(f)
      /\ g.phase = f.phase /\ g.good = f.good /\ g.passthrough = f.passthrough
      /\ g.kind = f.kind /\ g.met = f.met
      /\ g.wants = f.wants /\ g.base = f.base /\ g.baseSeen = f.baseSeen /\ g.output = f.output
  BY <1>1, <1>2
<1>4. /\ f.added \ {"Slices"} = Made(f.graph, "findBase") /\ f.met \cap Task \subseteq f.added \cup {"Slices"}
      /\ \A k \in f.met \cap Task : Needs(f, k) \subseteq f.met
  BY <1>3 DEF RecordOK, TasksOK
<1>5. "BaseDone" \notin f.added /\ "BaseDone" \notin f.met
  BY <1>4 DEF Made, Task
<1>6. \A k \in Task \ {"BaseDone"} : Needs(g, k) = Needs(f, k)
  BY <1>3 DEF Needs, Task
<1>7. RecordOK(g, t, "made")
  BY <1>3, <1>4, <1>5, <1>6 DEF Made, BaseReaders, TasksOK, RecordOK, InputsOK, GraphOK
<1>8. /\ previous' \in Time \cup {Invalid} /\ lastGood' \in Time \cup {Invalid}
      /\ buffer' \in [owner : Time \cup {NoFrame}, stamp : Stamp]
  BY <1>1 DEF TypeInv, TypeOK
<1>9. Continues(f, g)
  BY <1>3, <1>5, FrameFields, <1>6 DEF Continues
<1>10. g.phase = frames[t].phase /\ ("base" \in g.met <=> "base" \in frames[t].met)
  BY <1>2, <1>3
<1>11. /\ api.pc \in BuildPc /\ api.frame = t /\ g \in FrameRec /\ frames' = [frames EXCEPT ![t] = g]
       /\ (api'.pc \in {"require", "match", "findBase"} /\ api'.frame = t) \/ api'.pc = "start"
       /\ Continues(frames[t], g) /\ RecordOK(g, t, IF api'.pc = "start" THEN "made" ELSE api'.pc)
       /\ api' \in ApiRec
  BY <1>1, <1>2, <1>7, <1>9 DEF BuildPc
<1>12. UNCHANGED <<reorder, processing, configured, baseOut, available, busy, clientVars, pastVars>>
  BY <1>1
<1> QED BY <1>8, <1>10, <1>11, <1>12, BuildStep

LEMMA ReceiveTakeIs ==
    ASSUME TypeInv, Core, ReceiveTake
    PROVE  \E t \in Time :
             /\ processing # <<>> /\ t = Head(processing) /\ frames[t].phase = "Done"
             /\ processing' = Tail(processing)
             /\ api.pc = "receive" /\ api' \in ApiRec /\ api'.pc = "free" /\ api'.frame = t
             /\ UNCHANGED <<frames, reorder, previous, lastGood, configured, baseOut,
                            available, buffer, busy, clientVars, pastVars>>
BY TypesHold, QueueTail, GotoFrameIs DEF ReceiveTake, At, Core, ApiOK

LEMMA ReceiveTakeCore ==
    ASSUME TypeInv, Core, ReceiveTake
    PROVE  TypeInv' /\ Core'
<1>1. PICK t \in Time :
             /\ processing # <<>> /\ t = Head(processing) /\ frames[t].phase = "Done"
             /\ processing' = Tail(processing)
             /\ api.pc = "receive" /\ api' \in ApiRec /\ api'.pc = "free" /\ api'.frame = t
             /\ UNCHANGED <<frames, reorder, previous, lastGood, configured, baseOut,
                            available, buffer, busy, clientVars, pastVars>>
  BY ReceiveTakeIs
<1>2. /\ processing' \in Seq(Time) /\ Len(processing') = Len(processing) - 1
      /\ Len(processing) \in Nat \ {0} /\ t = processing[1]
      /\ \A i \in 1 .. Len(processing) - 1 : processing'[i] = processing[i + 1]
      /\ \A x : (\E i \in 1 .. Len(processing) : processing[i] = x)
                   <=> x = t \/ \E i \in 1 .. Len(processing) - 1 : processing'[i] = x
  <2>1. processing \in Seq(Time) /\ processing # <<>> /\ processing' = Tail(processing) /\ t = Head(processing)
    BY <1>1, TypesHold
  <2>2. PICK s, u : s = processing /\ u = processing'
    OBVIOUS
  <2>3. /\ Head(s) \in Time /\ Head(s) = s[1] /\ Tail(s) \in Seq(Time) /\ Len(Tail(s)) = Len(s) - 1
        /\ Len(s) \in Nat \ {0}
        /\ \A i \in 1 .. Len(s) - 1 : Tail(s)[i] = s[i + 1]
        /\ \A x : (\E i \in 1 .. Len(s) : s[i] = x)
                      <=> x = Head(s) \/ \E i \in 1 .. Len(s) - 1 : Tail(s)[i] = x
    <3>1. s \in Seq(Time) /\ s # <<>>
      BY <2>1, <2>2
    <3> QED BY ONLY <3>1, QueueTail
  <2>4. u = Tail(s) /\ t = Head(s)
    BY <2>1, <2>2
  <2> QED BY ONLY <2>2, <2>3, <2>4
<1>3. TypeInv'
  BY <1>1, <1>2 DEF TypeInv, TypeOK, ApiRec, clientVars, pastVars
<1>4. FramesOK'
  BY <1>1, CalmStage DEF BuildPc, FramesOK, Core
<1>5. BusyOK'
  BY <1>1 DEF BusyOK, Core
<1>6. ApiOK'
  BY <1>1 DEF ApiOK
<1>7. IndexOK'
  <2>1. Freeing = {} /\ Freeing' = {t}
    BY <1>1 DEF Freeing
  <2>2. \A i, j \in 1 .. Len(processing) : processing[i] = processing[j] => i = j
    BY DEF Core, IndexOK
  <2>3. \A i \in 1 .. Len(processing') : processing'[i] # t
    BY <1>2, <2>2
  <2>4. \A i, j \in 1 .. Len(processing') : processing'[i] = processing'[j] => i = j
    BY <1>2, <2>2
  <2>5. ASSUME NEW u \in Time
        PROVE  frames[u].phase \in {"Processing", "Done"} /\ u # t
                  <=> \E i \in 1 .. Len(processing') : processing'[i] = u
    <3>1. frames[u].phase \in {"Processing", "Done"} <=> \E i \in 1 .. Len(processing) : processing[i] = u
      BY <2>1 DEF Core, IndexOK
    <3> QED BY <1>2, <2>3, <3>1
  <2>6. \A u \in Time : frames[u].phase = "Reorder" <=> \E i \in 1 .. Len(reorder) : reorder[i] = u
    BY DEF Core, IndexOK
  <2>7. \A i, j \in 1 .. Len(reorder) : i < j => reorder[i] < reorder[j]
    BY DEF Core, IndexOK
  <2>8. UNCHANGED <<frames, reorder>>
    BY <1>1
  <2> QED BY <2>1, <2>4, <2>5, <2>6, <2>7, <2>8 DEF IndexOK
<1>8. BaseSent'
  BY <1>1 DEF BaseSent, Core, clientVars
<1> QED BY <1>3, <1>4, <1>5, <1>6, <1>7, <1>8 DEF Core

LEMMA FreeFrameIs ==
    ASSUME TypeInv, Core, FreeFrame
    PROVE  \E t \in Time :
             /\ t = api.frame /\ api.pc = "free" /\ frames[t].phase = "Done"
             /\ frames[t].added \subseteq frames[t].met /\ frames[t].output \in Pic
             /\ owned' = owned \cup {frames[t].output}
             /\ frames' = [frames EXCEPT ![t] = NewFrame]
             /\ api' \in ApiRec /\ api'.pc = "idle" /\ api'.frame = NoFrame
             /\ UNCHANGED <<orderVars, baseOut, available, buffer, busy, sent, returned, pastVars>>
<1>1. api.pc = "free"
  BY DEF FreeFrame, At
<1>2. PICK t \in Time : t = api.frame /\ frames[t].phase = "Done"
  BY <1>1 DEF Core, ApiOK
<1>3. frames[t].output \in Pic
  BY FrameIs, <1>2, MadeFrame, FrameFields DEF Core, RecordOK, InputsOK
<1>4. api' \in ApiRec /\ api'.pc = "idle" /\ api'.frame = NoFrame
  BY GotoFrameIs DEF FreeFrame
<1> QED BY <1>1, <1>2, <1>3, <1>4 DEF FreeFrame, Finished

LEMMA FreeFrameCore ==
    ASSUME TypeInv, Core, FreeFrame
    PROVE  TypeInv' /\ Core'
<1>1. PICK t \in Time :
             /\ t = api.frame /\ api.pc = "free" /\ frames[t].phase = "Done"
             /\ frames[t].added \subseteq frames[t].met /\ frames[t].output \in Pic
             /\ owned' = owned \cup {frames[t].output}
             /\ frames' = [frames EXCEPT ![t] = NewFrame]
             /\ api' \in ApiRec /\ api'.pc = "idle" /\ api'.frame = NoFrame
             /\ UNCHANGED <<orderVars, baseOut, available, buffer, busy, sent, returned, pastVars>>
  BY FreeFrameIs
<1>2. PICK g : g = NewFrame
  OBVIOUS
<1>3. g \in FrameRec /\ RecordOK(g, t, "unmade") /\ g.phase = "None" /\ g.met = {}
  BY <1>2, BlankRecord
<1>4. frames' \in [Time -> FrameRec] /\ frames'[t] = g /\ \A u \in Time \ {t} : frames'[u] = frames[u]
  BY <1>1, <1>2, <1>3, TypesHold
<1>5. Stage(t)' = "unmade"
  BY <1>1, <1>3, <1>4 DEF Stage
<1>6. FramesOK' /\ BusyOK'
  BY <1>1, <1>2, <1>3, <1>5, OneFrameCore DEF BuildPc
<1>7. TypeInv'
  BY <1>1, <1>4 DEF TypeInv, TypeOK, ApiRec, orderVars, pastVars
<1>8. ApiOK'
  BY <1>1 DEF ApiOK
<1>9. IndexOK'
  BY <1>1, <1>3, <1>4 DEF Freeing, orderVars, Core, IndexOK
<1>10. BaseSent'
  BY <1>1, <1>3, <1>4 DEF BaseSent, Core
<1> QED BY <1>6, <1>7, <1>8, <1>9, <1>10 DEF Core

-----------------------------------------------------------------------------
(* The core of the invariant. *)

LEMMA InitCore ==
    ASSUME Init
    PROVE  TypeInv /\ Core
<1>1. \A t \in Time : frames[t] = NewFrame
  BY DEF Init
<1>2. TypeInv
  <2>1. frames \in [Time -> FrameRec]
    BY BlankRecord DEF Init
  <2>2. IsFiniteSet(busy) /\ Cardinality(busy) = 0
    BY FS_EmptySet DEF Init
  <2>3. Workers \in Nat /\ RingCapacity \in Nat
    BY ConfigAssumption
  <2>4. buffer \in [owner : Time \cup {NoFrame}, stamp : Stamp]
    BY DEF Init, Stamp
  <2>5. api \in ApiRec
    BY DEF Init, ApiRec
  <2>6. /\ reorder \in Seq(Time) /\ processing \in Seq(Time) /\ decoded \in Seq(Time)
        /\ baseOut \in Seq(Time) /\ available \in Seq(Pic)
        /\ Len(baseOut) = 0 /\ Len(available) = 0
    BY DEF Init
  <2>7. {previous, lastGood, kept} \subseteq Time \cup {Invalid} /\ configured \in BOOLEAN
    BY DEF Init
  <2>8. busy \subseteq [frame : Time, task : Task, next : Time \cup {NoFrame}]
    BY DEF Init
  <2>9. sent \in [enhancement : SUBSET Time, base : SUBSET Time]
    BY DEF Init
  <2>10. returned \subseteq Time /\ owned \subseteq Pic /\ strayed \in BOOLEAN
    BY DEF Init
  <2> QED BY ONLY <2>1, <2>2, <2>3, <2>4, <2>5, <2>6, <2>7, <2>8, <2>9, <2>10
             DEF TypeInv, TypeOK, ApiRec
<1>3. FramesOK
  BY <1>1, BlankRecord DEF Stage, FramesOK
<1>4. BusyOK
  BY DEF Init, BusyOK
<1>5. ApiOK
  BY DEF Init, ApiOK
<1>6. IndexOK
  <2>1. \A t \in Time : frames[t].phase = "None"
    BY <1>1, BlankRecord
  <2>2. reorder = <<>> /\ processing = <<>>
    BY DEF Init
  <2> QED BY <2>1, <2>2 DEF IndexOK
<1>7. BaseSent
  BY <1>1, BlankRecord DEF BaseSent
<1> QED BY <1>2, <1>3, <1>4, <1>5, <1>6, <1>7 DEF Core

LEMMA NextCore ==
    ASSUME TypeInv, Core, Next
    PROVE  TypeInv' /\ Core'
<1>1. CASE WorkerStep
  BY <1>1, WorkerCore
<1>2. CASE ApiStep
  <2>1. CASE ConnectOutput \/ StartFrame \/ Generate \/ RequireBuffer \/ MatchBuffer \/ FindBase
    BY <2>1, ConnectOutputCore, StartFrameCore, GenerateCore, RequireBufferCore,
       MatchBufferCore, FindBaseCore
  <2>2. CASE ReceiveTake \/ FreeFrame
    BY <2>2, ReceiveTakeCore, FreeFrameCore
  <2>3. CASE OutputConnected \/ StartEnd \/ ReceiveNothing \/ SyncNext \/ SyncWaited \/ SyncEnd
    BY <2>3, CalmStepCore DEF CalmStep
  <2> QED BY <1>2, <2>1, <2>2, <2>3 DEF ApiStep
<1>3. CASE ClientCall
  <2>1. ASSUME NEW t \in Time, \E kind \in Kinds : SendEnhancement(t, kind) PROVE TypeInv' /\ Core'
    BY <2>1, SendEnhancementCore
  <2>2. ASSUME NEW t \in Time, SendBase(t) \/ SendBaseAlone(t) PROVE TypeInv' /\ Core'
    BY <2>2, SendBaseCore, SendBaseAloneCore
  <2>3. ASSUME NEW p \in Pic, SendOutput(p) PROVE TypeInv' /\ Core'
    BY <2>3, SendOutputCore
  <2>4. ASSUME FlagCall PROVE TypeInv' /\ Core'
    BY <2>4, FlagsCore DEF FlagCall
  <2>5. ASSUME NEW t \in Time, MakeReady(t) \/ Skip(t) PROVE TypeInv' /\ Core'
    BY <2>4, <2>5, FlagCalls
  <2>6. ASSUME NEW drop \in BOOLEAN, Synchronize(drop) PROVE TypeInv' /\ Core'
    BY <2>6, SynchronizeFlags, <2>4
  <2>7. ASSUME ReceiveBase \/ ReceiveOutput PROVE TypeInv' /\ Core'
    BY <2>7, ReceiveBaseCore, CalmStepCore DEF CalmStep
  <2> QED BY <1>3, <2>1, <2>2, <2>3, <2>5, <2>6, <2>7 DEF ClientCall
<1> QED BY <1>1, <1>2, <1>3 DEF Next

LEMMA StutterCore ==
    ASSUME TypeInv, Core, UNCHANGED vars
    PROVE  TypeInv' /\ Core'
BY DEF vars, orderVars, clientVars, pastVars, TypeInv, TypeOK, Core, FramesOK, Stage, Building,
       BusyOK, ApiOK, IndexOK, Freeing, BaseSent

(* The invariant of the CPU pipeline: each frame is at one stage of its life, *)
(* and every list, picture and task of the pipeline is accounted to one.      *)
THEOREM CoreInvariant == Spec => [](TypeInv /\ Core)
<1>1. Init => TypeInv /\ Core
  BY InitCore
<1>2. TypeInv /\ Core /\ [Next]_vars => (TypeInv /\ Core)'
  BY NextCore, StutterCore
<1> QED BY <1>1, <1>2, PTL DEF Spec

(* Every variable has its type, and neither FIFO of pictures holds more than *)
(* its capacity.                                                             *)
THEOREM TypesCorrect == Spec => []TypeOK
<1>1. TypeInv /\ Core => TypeOK
  BY DEF TypeInv
<1> QED BY <1>1, CoreInvariant, PTL

(* No base picture goes back to the client while a task of its frame has    *)
(* still to read it.                                                         *)
THEOREM BasesHeldWhileRead == Spec => []BaseHeldWhileRead
<1>1. ASSUME TypeInv, Core PROVE BaseHeldWhileRead
  BY <1>1, FrameIs, MadeFrame DEF Core, RecordOK, InputsOK, BaseHeldWhileRead
<1> QED BY <1>1, CoreInvariant, PTL

-----------------------------------------------------------------------------
(* Theorems about the indexes and the pictures of the CPU pipeline: every  *)
(* live frame is where its phase says, no more frames are alive than the   *)
(* latency allows, and every base and output picture is in one place.      *)
(* Each is a layer over Core.  A FIFO has no picture twice (Apart), none   *)
(* of its pictures is with a frame, and a picture that leaves one place    *)
(* reaches another in the same step.                                       *)
(* The indexes, and how many frames are alive. *)

(* Frames in the indexes and the one that is being freed: only a base       *)
(* picture that is passed on alone gets a frame without a latency check.    *)
InFlight == Len(reorder) + Len(processing) + (IF api.pc = "free" THEN 1 ELSE 0)
LatencyOK == Passthrough = "Disable" => InFlight <= MaxLatency

LEMMA LengthsAre ==
    ASSUME TypeInv
    PROVE  /\ Len(reorder) \in Nat /\ Len(processing) \in Nat /\ MaxLatency \in Nat \ {0}
           /\ reorder \in Seq(Time) /\ processing \in Seq(Time)
BY ConfigAssumption, LenProperties DEF TypeInv, TypeOK

(* A step that leaves the indexes alone, and frees no frame. *)
LEMMA LatencySame ==
    ASSUME TypeInv, LatencyOK, UNCHANGED <<reorder, processing>>,
           api'.pc = "free" => api.pc = "free"
    PROVE  LatencyOK'
BY LengthsAre DEF InFlight, LatencyOK

LEMMA WorkerLatency ==
    ASSUME WorkerStep
    PROVE  UNCHANGED <<reorder, processing, api>>
<1>1. ASSUME NEW t \in Time, RunRead(t) \/ RunSlices(t) \/ RunAdd(t) \/ RunOutputDone(t) \/ RunBaseDone(t)
      PROVE  UNCHANGED <<reorder, processing, api>>
  BY <1>1 DEF RunRead, RunSlices, RunAdd, RunOutputDone, RunBaseDone, orderVars
<1>2. ASSUME NEW t \in Time, NEW k \in {"Add", "Release"}, RunRelease(t, k)
      PROVE  UNCHANGED <<reorder, processing, api>>
  BY <1>2 DEF RunRelease, orderVars
<1>3. ASSUME NEW b \in busy, HandOver(b) \/ PushBase(b)
      PROVE  UNCHANGED <<reorder, processing, api>>
  BY <1>3 DEF HandOver, PushBase, orderVars
<1> QED BY <1>1, <1>2, <1>3 DEF WorkerStep

(* A frame that begins when fewer than maxLatency are alive. *)
LEMMA InsertedLatency ==
    ASSUME TypeInv, Core, NEW t \in Time, ~Live(t), api.pc = "idle", frameLatency < MaxLatency,
           reorder' = Inserted(t), UNCHANGED processing, api'.pc = "start"
    PROVE  LatencyOK'
BY InsertedIs, LengthsAre DEF Live, Core, InFlight, LatencyOK, frameLatency

LEMMA CallLatency ==
    ASSUME TypeInv, Core, LatencyOK, ClientCall
    PROVE  LatencyOK'
<1>1. ASSUME NEW t \in Time, NEW kind \in Kinds, SendEnhancement(t, kind) PROVE LatencyOK'
  BY <1>1, InsertedLatency DEF SendEnhancement, At, StartReady
<1>2. ASSUME NEW t \in Time, SendBaseAlone(t) PROVE LatencyOK'
  BY <1>2 DEF SendBaseAlone, LatencyOK
<1>3. ASSUME NEW t \in Time, SendBase(t) PROVE LatencyOK'
  BY <1>3, LatencySame DEF SendBase, StartReady, orderVars
<1>4. ASSUME FlagCall PROVE LatencyOK'
  BY <1>4, LatencySame DEF FlagCall, orderVars
<1>5. ASSUME NEW t \in Time, MakeReady(t) \/ Skip(t) PROVE LatencyOK'
  BY <1>4, <1>5, FlagCalls
<1>6. ASSUME NEW drop \in BOOLEAN, Synchronize(drop) PROVE LatencyOK'
  BY <1>4, <1>6, SynchronizeFlags
<1>7. ASSUME NEW p \in Pic, SendOutput(p) PROVE LatencyOK'
  BY <1>7, GotoIs, LatencySame DEF SendOutput, orderVars
<1>8. CASE ReceiveBase
  BY <1>8, LatencySame DEF ReceiveBase, orderVars
<1>9. CASE ReceiveOutput
  BY <1>9, GotoIs, LatencySame DEF ReceiveOutput, orderVars
<1> QED BY <1>1, <1>2, <1>3, <1>5, <1>6, <1>7, <1>8, <1>9 DEF ClientCall

LEMMA StepLatency ==
    ASSUME TypeInv, Core, LatencyOK, ApiStep
    PROVE  LatencyOK'
<1>1. CASE ConnectOutput
  BY <1>1, LatencySame DEF ConnectOutput, orderVars
<1>2. CASE CalmStep
  BY <1>2, CalmStepIs, LatencySame DEF orderVars
<1>3. CASE StartFrame
  <2>1. reorder # <<>> /\ reorder' = Tail(reorder) /\ api'.pc = "generate"
        /\ \E t \in Time : processing' = Append(processing, t)
    BY <1>3, StartFrameIs
  <2>2. Len(reorder') = Len(reorder) - 1
    BY <2>1, QueueTail, LengthsAre
  <2>3. Len(processing') = Len(processing) + 1
    BY <2>1, QueueAppend, LengthsAre
  <2>4. InFlight' <= InFlight /\ InFlight \in Nat /\ InFlight' \in Int
    BY <2>1, <2>2, <2>3, LengthsAre DEF InFlight
  <2> QED BY <2>4, LengthsAre DEF LatencyOK
<1>4. CASE Generate \/ RequireBuffer \/ MatchBuffer \/ FindBase
  BY <1>4, GotoIs, GotoFrameIs, LatencySame DEF Generate, RequireBuffer, MatchBuffer, FindBase, orderVars
<1>5. CASE ReceiveTake
  BY <1>5, ReceiveTakeIs, QueueTail, LengthsAre DEF InFlight, LatencyOK
<1>6. CASE FreeFrame
  BY <1>6, FreeFrameIs, LatencySame DEF orderVars
<1> QED BY <1>1, <1>2, <1>3, <1>4, <1>5, <1>6 DEF ApiStep, CalmStep

LEMMA NextLatency ==
    ASSUME TypeInv, Core, LatencyOK, [Next]_vars
    PROVE  LatencyOK'
BY WorkerLatency, LatencySame, CallLatency, StepLatency DEF vars, orderVars, Next

(* The set of the elements of a queue. *)
LEMMA QueueSet ==
    ASSUME NEW S, NEW s \in Seq(S)
    PROVE  /\ IsFiniteSet(ToSet(s)) /\ Cardinality(ToSet(s)) <= Len(s)
           /\ Cardinality(ToSet(s)) \in Nat
           /\ \A x : x \in ToSet(s) <=> \E i \in 1 .. Len(s) : s[i] = x
           /\ (\A i, j \in 1 .. Len(s) : s[i] = s[j] => i = j) => Cardinality(ToSet(s)) = Len(s)
<1>1. Len(s) \in Nat /\ DOMAIN s = 1 .. Len(s) /\ s = [i \in 1 .. Len(s) |-> s[i]]
  OBVIOUS
<1>2. \A x : x \in ToSet(s) <=> \E i \in 1 .. Len(s) : s[i] = x
  BY <1>1 DEF ToSet
<1>3. IsFiniteSet(1 .. Len(s)) /\ Cardinality(1 .. Len(s)) = Len(s)
  <2>1. 1 \in Int /\ Len(s) \in Int
    BY <1>1
  <2>2. IsFiniteSet(1 .. Len(s))
        /\ Cardinality(1 .. Len(s)) = IF 1 > Len(s) THEN 0 ELSE Len(s) - 1 + 1
    BY <2>1, FS_Interval
  <2> QED BY <1>1, <2>2
<1>4. s \in Surjection(1 .. Len(s), ToSet(s))
  BY <1>1, <1>2 DEF Surjection
<1>5. /\ IsFiniteSet(ToSet(s)) /\ Cardinality(ToSet(s)) <= Len(s)
      /\ Cardinality(ToSet(s)) = Len(s) <=> s \in Injection(1 .. Len(s), ToSet(s))
  BY <1>3, <1>4, FS_Surjection
<1>6. ASSUME \A i, j \in 1 .. Len(s) : s[i] = s[j] => i = j
      PROVE  s \in Injection(1 .. Len(s), ToSet(s))
  BY <1>1, <1>2, <1>6 DEF IsInjective, Injection
<1>7. Cardinality(ToSet(s)) \in Nat
  BY <1>5, FS_CardinalityType
<1> QED BY <1>2, <1>5, <1>6, <1>7

(* How many frames are alive. *)
LEMMA LiveCount ==
    ASSUME TypeInv, Core
    PROVE  Cardinality({t \in Time : Live(t)}) <= InFlight
<1>1. /\ IsFiniteSet(ToSet(reorder)) /\ Cardinality(ToSet(reorder)) <= Len(reorder)
      /\ Cardinality(ToSet(reorder)) \in Nat
      /\ \A x : x \in ToSet(reorder) <=> \E i \in 1 .. Len(reorder) : reorder[i] = x
  BY QueueSet, LengthsAre
<1>2. /\ IsFiniteSet(ToSet(processing)) /\ Cardinality(ToSet(processing)) <= Len(processing)
      /\ Cardinality(ToSet(processing)) \in Nat
      /\ \A x : x \in ToSet(processing) <=> \E i \in 1 .. Len(processing) : processing[i] = x
  BY QueueSet, LengthsAre
<1>3. IsFiniteSet(Freeing) /\ Cardinality(Freeing) = IF api.pc = "free" THEN 1 ELSE 0
  BY FS_Singleton, FS_EmptySet DEF Freeing
<1>4. PICK A : A = ToSet(reorder)
  OBVIOUS
<1>5. PICK B : B = ToSet(processing)
  OBVIOUS
<1>6. PICK C : C = Freeing
  OBVIOUS
<1>7. /\ IsFiniteSet(A \cup B)
      /\ Cardinality(A \cup B) = Cardinality(A) + Cardinality(B) - Cardinality(A \cap B)
      /\ Cardinality(A \cap B) \in Nat
  BY <1>1, <1>2, <1>4, <1>5, FS_Union, FS_Intersection, FS_CardinalityType
<1>8. /\ IsFiniteSet((A \cup B) \cup C)
      /\ Cardinality((A \cup B) \cup C)
            = Cardinality(A \cup B) + Cardinality(C) - Cardinality((A \cup B) \cap C)
      /\ Cardinality((A \cup B) \cap C) \in Nat /\ Cardinality((A \cup B) \cup C) \in Nat
  BY <1>7, <1>3, <1>6, FS_Union, FS_Intersection, FS_CardinalityType
<1>9. {t \in Time : Live(t)} \subseteq (A \cup B) \cup C
  <2>1. ASSUME NEW t \in Time, Live(t) PROVE t \in (A \cup B) \cup C
    <3>1. frames[t].phase \in {"Reorder", "Processing", "Done"}
      BY <2>1, FrameFields DEF TypeInv, TypeOK, Live
    <3> QED BY <3>1, <1>1, <1>2, <1>4, <1>5, <1>6 DEF Core, IndexOK
  <2> QED BY <2>1
<1>10. Cardinality({t \in Time : Live(t)}) <= Cardinality((A \cup B) \cup C)
       /\ Cardinality({t \in Time : Live(t)}) \in Nat
  BY <1>8, <1>9, FS_Subset, FS_CardinalityType
<1>11. Len(reorder) \in Nat /\ Len(processing) \in Nat
  BY LengthsAre
<1> QED BY <1>1, <1>2, <1>3, <1>4, <1>5, <1>6, <1>7, <1>8, <1>10, <1>11 DEF InFlight

(* Every live frame is in the index that its phase says, unless it is being  *)
(* freed; the reorder index is sorted whatever the order of arrival; and,   *)
(* unless base pictures are passed on alone, no more frames are alive than  *)
(* maxLatency, which allocateFrame() asserts and does not check.            *)
THEOREM IndexesAlwaysAgree == Spec => []IndexesAgree
<1>1. Init => LatencyOK
  BY ConfigAssumption DEF Init, InFlight, LatencyOK
<1>2. TypeInv /\ Core /\ LatencyOK /\ [Next]_vars => LatencyOK'
  BY NextLatency
<1>3. Spec => []LatencyOK
  BY <1>1, <1>2, CoreInvariant, PTL DEF Spec
<1>4. ASSUME TypeInv, Core, LatencyOK PROVE IndexesAgree
  <2>0. /\ reorder \in Seq(Time) /\ processing \in Seq(Time) /\ IndexOK
        /\ \A i \in 1 .. Len(reorder) : reorder[i] \in Time
        /\ \A i \in 1 .. Len(processing) : processing[i] \in Time
        /\ \A x : x \in ToSet(reorder) <=> \E i \in 1 .. Len(reorder) : reorder[i] = x
        /\ \A x : x \in ToSet(processing) <=> \E i \in 1 .. Len(processing) : processing[i] = x
    <3>1. reorder \in Seq(Time) /\ processing \in Seq(Time) /\ IndexOK
      BY <1>4, LengthsAre DEF Core
    <3>2. /\ \A i \in 1 .. Len(reorder) : reorder[i] \in Time
          /\ \A i \in 1 .. Len(processing) : processing[i] \in Time
      BY ONLY <3>1
    <3> QED BY <3>1, <3>2, QueueSet
  <2>1. ToSet(reorder) = {t \in Time : frames[t].phase = "Reorder"}
    BY ONLY <2>0 DEF IndexOK
  <2>2. ToSet(processing) = {t \in Time : frames[t].phase \in {"Processing", "Done"}} \ Freeing
    <3>1. ASSUME NEW t \in Time
          PROVE  frames[t].phase \in {"Processing", "Done"} /\ t \notin Freeing <=> t \in ToSet(processing)
      BY ONLY <2>0, t \in Time DEF IndexOK
    <3>2. \A t \in ToSet(processing) : t \in Time
      BY ONLY <2>0
    <3> QED BY ONLY <3>1, <3>2
  <2>3. Cardinality(ToSet(processing)) = Len(processing)
    BY <1>4, QueueSet, LengthsAre DEF Core, IndexOK
  <2>4. Passthrough = "Disable" => Cardinality({t \in Time : Live(t)}) <= MaxLatency
    BY <1>4, LengthsAre, TimeAssumption, FS_Subset, FS_CardinalityType, LiveCount DEF InFlight, LatencyOK
  <2>5. \A i, j \in 1 .. Len(reorder) : i < j => reorder[i] < reorder[j]
    BY <1>4 DEF Core, IndexOK
  <2> QED BY <2>1, <2>2, <2>3, <2>4, <2>5 DEF IndexesAgree, Freeing, At
<1> QED BY <1>3, <1>4, CoreInvariant, PTL

-----------------------------------------------------------------------------
(* The steps of generateTasks() and the calls that bring pictures, for the  *)
(* layers below.                                                            *)

(* The fields of a record that a step of generateTasks() leaves alone. *)
SameBuild(f, g) ==
    /\ g.phase = f.phase /\ g.good = f.good /\ g.passthrough = f.passthrough
    /\ g.kind = f.kind /\ g.met = f.met /\ g.holds = f.holds
    /\ g.base = f.base /\ g.output = f.output

LEMMA GenerateIs ==
    ASSUME TypeInv, Core, Generate
    PROVE  \E t \in Time, g \in FrameRec :
             /\ t = api.frame /\ api.pc = "generate" /\ api'.pc \in {"require", "findBase"} /\ api'.frame = t
             /\ frames[t] \in FrameRec /\ RecordOK(frames[t], t, "unmade")
             /\ frames' = [frames EXCEPT ![t] = g] /\ SameBuild(frames[t], g)
             /\ g.wants = frames[t].wants /\ g.dep = frames[t].dep
             /\ g.graph = "temporal" <=> api'.pc = "require"
             /\ UNCHANGED <<orderVars, baseOut, available, buffer, busy, clientVars, pastVars>>
<1>1. api.pc = "generate"
  BY DEF Generate, At
<1>2. PICK t \in Time : t = api.frame /\ frames[t] \in FrameRec /\ RecordOK(frames[t], t, "unmade")
  BY <1>1, BuildFrame DEF BuildPc
<1>3. PICK f, graph, now, g :
         /\ f = frames[t] /\ graph = GraphOf(f)
         /\ now = (IF graph = "temporal" THEN {"Read"} ELSE {"Read", "OutputDone"})
         /\ g = [f EXCEPT !.graph = graph, !.added = @ \cup now]
         /\ frames' = [frames EXCEPT ![t] = g]
  BY ZenonT(40), <1>2 DEF Generate
<1>4. graph \in {"pass", "plain", "temporal"} /\ now \subseteq Task
  BY <1>3 DEF GraphOf, Task
<1>5. /\ g \in FrameRec /\ SameBuild(f, g) /\ g.graph = graph
      /\ g.wants = f.wants /\ g.dep = f.dep
  <2>1. f \in FrameRec /\ graph \in {"none", "pass", "plain", "temporal"} /\ now \subseteq Task
    BY <1>2, <1>3, <1>4
  <2>2. g = [f EXCEPT !.graph = graph, !.added = @ \cup now]
    BY <1>3
  <2> QED BY ONLY <2>1, <2>2 DEF FrameRec, SameBuild
<1>6. PICK stage : stage = (IF graph = "temporal" THEN "require" ELSE "findBase")
  OBVIOUS
<1>7. api'.pc = stage /\ api'.frame = t
  BY <1>2, <1>3, <1>6, GotoIs DEF Generate
<1>8. UNCHANGED <<orderVars, baseOut, available, buffer, busy, clientVars, pastVars>>
  BY DEF Generate
<1>9. stage \in {"require", "findBase"} /\ (g.graph = "temporal" <=> stage = "require")
  BY <1>5, <1>6
<1> USE <1>5
<1> QED BY <1>1, <1>2, <1>3, <1>7, <1>8, <1>9

LEMMA RequireBufferIs ==
    ASSUME TypeInv, Core, RequireBuffer
    PROVE  \E t \in Time, g \in FrameRec :
             /\ t = api.frame /\ api.pc = "require" /\ api'.pc = "match" /\ api'.frame = t
             /\ frames[t] \in FrameRec /\ RecordOK(frames[t], t, "require")
             /\ frames' = [frames EXCEPT ![t] = g] /\ SameBuild(frames[t], g)
             /\ g.wants = lastGood /\ g.graph = frames[t].graph /\ g.dep = frames[t].dep
             /\ UNCHANGED <<orderVars, baseOut, available, buffer, busy, clientVars, pastVars>>
<1>1. api.pc = "require"
  BY DEF RequireBuffer, At
<1>2. PICK t \in Time : t = api.frame /\ frames[t] \in FrameRec /\ RecordOK(frames[t], t, "require")
  BY <1>1, BuildFrame DEF BuildPc
<1>3. PICK f, g : /\ f = frames[t] /\ g = [f EXCEPT !.wants = lastGood]
                  /\ frames' = [frames EXCEPT ![t] = g]
  BY <1>2 DEF RequireBuffer
<1>4. f \in FrameRec /\ lastGood \in Stamp
  BY <1>2, <1>3, TypesHold DEF Stamp
<1>5. /\ g \in FrameRec /\ SameBuild(f, g) /\ g.wants = lastGood /\ g.graph = f.graph /\ g.dep = f.dep
  BY <1>3, <1>4 DEF FrameRec, SameBuild
<1>6. api'.pc = "match" /\ api'.frame = t
  BY <1>2, GotoIs DEF RequireBuffer
<1>7. UNCHANGED <<orderVars, baseOut, available, buffer, busy, clientVars, pastVars>>
  BY DEF RequireBuffer
<1> USE <1>5
<1> QED BY <1>1, <1>2, <1>3, <1>6, <1>7

(* The record of a frame once a base picture or an output picture is there. *)
Joined(f, g, i) == g \in FrameRec /\ SameFrame(f, g) /\ g.met = f.met \cup {i}

LEMMA SendBaseIs ==
    ASSUME TypeInv, Core, NEW t \in Time, SendBase(t)
    PROVE  /\ api.pc = "idle" /\ api'.pc = "start" /\ t \notin sent.base /\ Live(t)
           /\ sent' = [sent EXCEPT !.base = @ \cup {t}]
           /\ frames' \in [Time -> FrameRec]
           /\ \A u \in Time \ {t} : Alike(frames[u], frames'[u])
           /\ Joined(frames[t], frames'[t], "base")
           /\ frames'[t].base = t /\ frames'[t].output = frames[t].output
           /\ UNCHANGED <<orderVars, baseOut, available, buffer, busy, returned, owned, pastVars>>
<1>1. /\ api.pc = "idle" /\ Live(t) /\ t \notin sent.base
      /\ frames' = Readied([frames EXCEPT ![t] = WithBase(frames[t], t)], t)
      /\ sent' = [sent EXCEPT !.base = @ \cup {t}]
      /\ UNCHANGED <<orderVars, baseOut, available, buffer, busy, returned, owned, pastVars>>
  BY DEF SendBase, At
<1>2. api'.pc = "start"
  BY StartReadyIs DEF SendBase
<1>3. frames \in [Time -> FrameRec] /\ frames[t] \in FrameRec
  BY TypesHold
<1>4. PICK f, g : f = frames[t] /\ g = WithBase(f, t)
  OBVIOUS
<1>5. PICK h : h = [frames EXCEPT ![t] = g]
  OBVIOUS
<1>6. /\ g \in FrameRec /\ SameFrame(f, g) /\ g.met = f.met \cup {"base"} /\ g.base = t
      /\ g.output = f.output
  BY <1>3, <1>4 DEF FrameRec, WithBase, SameFrame, Input
<1>7. /\ h \in [Time -> FrameRec] /\ h[t] = g /\ \A u \in Time \ {t} : h[u] = frames[u]
      /\ frames' = Readied(h, t)
  BY <1>1, <1>3, <1>4, <1>5, <1>6
<1>8. frames' \in [Time -> FrameRec] /\ \A u \in Time : Alike(h[u], frames'[u])
  BY <1>7, ReadiedAlike
<1>9. \A u \in Time \ {t} : Alike(frames[u], frames'[u])
  BY <1>7, <1>8
<1>10. Alike(g, frames'[t])
  BY <1>7, <1>8
<1>11. Joined(frames[t], frames'[t], "base") /\ frames'[t].base = t /\ frames'[t].output = frames[t].output
  BY <1>4, <1>6, <1>10 DEF Joined, Alike, SameFrame, SameMake
<1> QED BY <1>1, <1>2, <1>8, <1>9, <1>11

LEMMA ConnectOutputIs ==
    ASSUME TypeInv, Core, ConnectOutput
    PROVE  \E t \in Time, g \in FrameRec :
             /\ api.pc \in {"connect", "start"} /\ UNCHANGED api
             /\ frames' = [frames EXCEPT ![t] = g] /\ Joined(frames[t], g, "output")
             /\ available # <<>> /\ available' = Tail(available)
             /\ frames[t].output = NoPic /\ g.output = Head(available) /\ g.base = frames[t].base
             /\ UNCHANGED <<orderVars, baseOut, buffer, busy, clientVars, pastVars>>
<1>1. PICK t \in Time, p \in Pic : /\ t = NextWithoutOutput /\ p = Head(available)
               /\ frames[t].output = NoPic /\ available # <<>>
  BY NextWithoutOutputIs DEF ConnectOutput
<1>2. PICK f, g : /\ f = frames[t] /\ g = [f EXCEPT !.output = p, !.met = @ \cup {"output"}]
                  /\ frames' = [frames EXCEPT ![t] = g]
  BY <1>1 DEF ConnectOutput
<1>3. /\ available' = Tail(available)
      /\ UNCHANGED <<orderVars, baseOut, buffer, busy, api, clientVars, pastVars>>
      /\ api.pc \in {"connect", "start"}
  BY DEF ConnectOutput, At
<1>4. f \in FrameRec
  BY <1>2, TypesHold
<1>5. /\ g \in FrameRec /\ Joined(f, g, "output") /\ g.output = p /\ g.base = f.base
  BY <1>2, <1>4 DEF Joined, FrameRec, SameFrame, Input
<1> USE <1>5
<1> QED BY <1>1, <1>2, <1>3

(* A frame that arrives: from enhancement data, or from its base alone. *)
LEMMA SendEnhancementIs ==
    ASSUME TypeInv, Core, NEW t \in Time, NEW kind \in Kinds, SendEnhancement(t, kind)
    PROVE  \E g \in FrameRec :
             /\ api.pc = "idle" /\ api'.pc = "start" /\ ~Live(t) /\ t \notin sent.enhancement
             /\ frames' = [frames EXCEPT ![t] = g]
             /\ g.phase = "Reorder" /\ g.kind = kind /\ g.met = {} /\ g.holds = FALSE /\ g.wants = Unset
             /\ g.base = NoPic /\ g.output = NoPic
             /\ sent' = [sent EXCEPT !.enhancement = @ \cup {t}]
             /\ UNCHANGED <<processing, previous, lastGood, configured, baseOut, available,
                            buffer, busy, returned, owned, pastVars>>
<1>1. PICK g : g = [NewFrame EXCEPT !.phase = "Reorder", !.kind = kind] /\ frames' = [frames EXCEPT ![t] = g]
  BY DEF SendEnhancement
<1>2. kind \in Kind
  BY ConfigAssumption
<1>3. /\ g \in FrameRec /\ g.met = {} /\ g.phase = "Reorder" /\ g.kind = kind /\ g.holds = FALSE
      /\ g.base = NoPic /\ g.output = NoPic /\ g.wants = Unset
  BY <1>1, <1>2, FreshRecord
<1>4. api'.pc = "start"
  BY StartReadyIs DEF SendEnhancement
<1> USE <1>3
<1> QED BY <1>1, <1>4 DEF SendEnhancement, At

LEMMA SendBaseAloneIs ==
    ASSUME TypeInv, Core, NEW t \in Time, SendBaseAlone(t)
    PROVE  \E g \in FrameRec :
             /\ api.pc = "idle" /\ api'.pc = "start" /\ ~Live(t) /\ t \notin sent.base
             /\ frames' = [frames EXCEPT ![t] = g]
             /\ g.phase = "Reorder" /\ g.kind = "bad" /\ g.met = {"base"} /\ g.holds = FALSE
             /\ g.wants = Unset /\ g.base = t /\ g.output = NoPic
             /\ sent' = [sent EXCEPT !.base = @ \cup {t}]
             /\ UNCHANGED <<processing, previous, lastGood, configured, baseOut, available,
                            buffer, busy, returned, owned, pastVars>>
<1>1. PICK g : /\ g = WithBase([NewFrame EXCEPT !.phase = "Reorder", !.ready = TRUE, !.passthrough = TRUE], t)
               /\ frames' = [frames EXCEPT ![t] = g]
  BY DEF SendBaseAlone
<1>2. /\ g \in FrameRec /\ g.met = {"base"} /\ g.phase = "Reorder" /\ g.kind = "bad" /\ g.holds = FALSE
      /\ g.base = t /\ g.output = NoPic /\ g.wants = Unset
  BY <1>1, AloneRecord DEF WithBase, NewFrame
<1>3. api'.pc = "start"
  BY StartReadyIs DEF SendBaseAlone
<1> USE <1>2
<1> QED BY <1>1, <1>3 DEF SendBaseAlone, At

(* A worker's step is an Effect, and touches bases only to give one back. *)
LEMMA WorkerIs ==
    ASSUME TypeInv, Core, WorkerStep
    PROVE  /\ WorkerEffect
           /\ \/ BasesKept
              \/ \E t \in Time : /\ frames[t].base = t /\ baseOut' = Append(baseOut, t)
                                 /\ frames'[t].base = NoPic
                                 /\ \A u \in Time \ {t} : frames'[u] = frames[u]
<1> DEFINE Back == \E t \in Time : /\ frames[t].base = t /\ baseOut' = Append(baseOut, t)
                                   /\ frames'[t].base = NoPic
                                   /\ \A u \in Time \ {t} : frames'[u] = frames[u]
<1>1. ASSUME NEW t \in Time, RunRead(t) PROVE WorkerEffect /\ BasesKept
  BY <1>1, RunReadEffect DEF Core
<1>2. ASSUME NEW t \in Time, RunSlices(t) \/ RunAdd(t) PROVE WorkerEffect /\ BasesKept
  BY <1>2, RunSlicesEffect DEF RunSlices, RunAdd, Core
<1>3. ASSUME NEW t \in Time, RunOutputDone(t) PROVE WorkerEffect /\ BasesKept
  BY <1>3, RunOutputDoneEffect DEF Core
<1>4. ASSUME NEW t \in Time, NEW k \in {"Add", "Release"}, RunRelease(t, k) PROVE WorkerEffect /\ BasesKept
  BY <1>4, RunReleaseEffect DEF Core
<1>5. ASSUME NEW b \in busy, HandOver(b) PROVE WorkerEffect /\ BasesKept
  BY <1>5, HandOverEffect DEF Core
<1>6. ASSUME NEW t \in Time, GiveBack(t), "BaseDone" \in frames[t].added \ frames[t].met,
             Needs(frames[t], "BaseDone") \subseteq frames[t].met,
             UNCHANGED <<orderVars, available, buffer, api, clientVars, pastVars>>
      PROVE  WorkerEffect /\ Back
  BY FrameIs, <1>6, UnmadeFrame, GiveBackEffect DEF Core, RecordOK, GraphOK
<1>7. ASSUME NEW t \in Time, RunBaseDone(t) PROVE WorkerEffect /\ (BasesKept \/ Back)
  BY <1>7, <1>6, NoProgress DEF RunBaseDone, Runnable, TypeInv, TypeOK, SameMake, WorkerEffect, BasesKept,
     pastVars
<1>8. ASSUME NEW b \in busy, PushBase(b) PROVE WorkerEffect /\ (BasesKept \/ Back)
  <2>1. /\ b.frame \in Time /\ b.task = "BaseDone"
        /\ "BaseDone" \in frames[b.frame].added \ frames[b.frame].met
        /\ Needs(frames[b.frame], "BaseDone") \subseteq frames[b.frame].met
    BY <1>8 DEF PushBase, Core, BusyOK, TypeInv, TypeOK
  <2>2. /\ GiveBack(b.frame)
        /\ UNCHANGED <<orderVars, available, buffer, api, clientVars, pastVars>>
    BY <1>8 DEF PushBase
  <2> QED BY <2>1, <2>2, <1>6
<1> QED BY <1>1, <1>2, <1>3, <1>4, <1>5, <1>7, <1>8 DEF WorkerStep

-----------------------------------------------------------------------------
(* Where each picture is. *)

In(queue, x) == \E i \in 1 .. Len(queue) : queue[i] = x
Apart(queue) == \A i, j \in 1 .. Len(queue) : queue[i] = queue[j] => i = j

(* An output picture is with the client, available, or with one frame. *)
OutputsOK ==
    /\ \A p \in Pic : p \in owned \/ In(available, p) \/ \E t \in Time : frames[t].output = p
    /\ \A p \in owned : ~In(available, p) /\ \A t \in Time : frames[t].output # p
    /\ \A t \in Time : ~In(available, frames[t].output)
    /\ Apart(available)
    /\ \A s, t \in Time : frames[s].output = frames[t].output /\ frames[t].output # NoPic => s = t

(* A base picture is with its frame, finished, or back with the client. *)
BasesOK ==
    /\ \A t \in Time : frames[t].base = t => t \notin returned /\ ~In(baseOut, t)
    /\ \A t \in Time : In(baseOut, t) => t \in sent.base /\ t \notin returned
    /\ Apart(baseOut)
    /\ returned \subseteq sent.base
    /\ \A t \in sent.base : frames[t].base = t \/ t \in returned \/ In(baseOut, t)

LEMMA BaseIs ==
    ASSUME TypeInv, Core, NEW t \in Time
    PROVE  /\ frames[t].base \in {t, NoPic} /\ t # NoPic
           /\ frames[t].base = t => t \in sent.base
BY FrameIs, PicAssumption DEF Core, RecordOK, InputsOK, BaseSent

LEMMA AppendApart ==
    ASSUME NEW S, NEW s \in Seq(S), NEW x \in S, Apart(s), ~In(s, x), NEW u, u = Append(s, x)
    PROVE  Apart(u) /\ \A y : In(u, y) <=> y = x \/ In(s, y)
<1>1. /\ Len(u) = Len(s) + 1 /\ Len(s) \in Nat
      /\ \A i \in 1 .. Len(s) + 1 : u[i] = IF i = Len(s) + 1 THEN x ELSE s[i]
      /\ \A y : (\E i \in 1 .. Len(s) + 1 : u[i] = y) <=> y = x \/ \E i \in 1 .. Len(s) : s[i] = y
  BY QueueAppend
<1>2. \A y : In(u, y) <=> y = x \/ In(s, y)
  BY <1>1 DEF In
<1>3. Apart(u)
  BY <1>1 DEF Apart, In
<1> QED BY <1>2, <1>3

LEMMA TailApart ==
    ASSUME NEW S, NEW s \in Seq(S), s # <<>>, Apart(s), NEW u, u = Tail(s)
    PROVE  /\ Apart(u) /\ Head(s) \in S /\ In(s, Head(s)) /\ ~In(u, Head(s))
           /\ \A y : In(u, y) <=> In(s, y) /\ y # Head(s)
BY QueueTail DEF Apart, In

(* What a step may do to the output pictures ... *)
OutputsStay == UNCHANGED <<available, owned>> /\ \A u \in Time : frames'[u].output = frames[u].output
OutputSent(p) ==
    /\ p \in owned /\ owned' = owned \ {p} /\ available' = Append(available, p)
    /\ \A u \in Time : frames'[u].output = frames[u].output
OutputJoins(t) ==
    /\ available # <<>> /\ available' = Tail(available) /\ UNCHANGED owned
    /\ frames[t].output = NoPic /\ frames'[t].output = Head(available)
    /\ \A u \in Time \ {t} : frames'[u].output = frames[u].output
OutputLeaves(t) ==
    /\ frames[t].output \in Pic /\ owned' = owned \cup {frames[t].output} /\ UNCHANGED available
    /\ frames'[t].output = NoPic
    /\ \A u \in Time \ {t} : frames'[u].output = frames[u].output
OutputsMove ==
    \/ OutputsStay \/ (\E p \in Pic : OutputSent(p))
    \/ \E t \in Time : OutputJoins(t) \/ OutputLeaves(t)

(* ... and to the base pictures. *)
BasesStay ==
    UNCHANGED <<baseOut, returned>> /\ sent'.base = sent.base
    /\ \A u \in Time : frames'[u].base = frames[u].base
BaseJoins(t) ==
    /\ t \notin sent.base /\ sent'.base = sent.base \cup {t} /\ UNCHANGED <<baseOut, returned>>
    /\ frames'[t].base = t /\ \A u \in Time \ {t} : frames'[u].base = frames[u].base
BaseGoes(t) ==
    /\ frames[t].base = t /\ baseOut' = Append(baseOut, t) /\ UNCHANGED <<returned, sent>>
    /\ frames'[t].base = NoPic /\ \A u \in Time \ {t} : frames'[u].base = frames[u].base
BaseReturns ==
    /\ baseOut # <<>> /\ returned' = returned \cup {Head(baseOut)} /\ baseOut' = Tail(baseOut)
    /\ sent'.base = sent.base /\ \A u \in Time : frames'[u].base = frames[u].base
BasesMove == BasesStay \/ BaseReturns \/ \E t \in Time : BaseJoins(t) \/ BaseGoes(t)

LEMMA OutputsMoved ==
    ASSUME TypeInv, OutputsOK, OutputsMove
    PROVE  OutputsOK'
<1>1. /\ frames \in [Time -> FrameRec] /\ available \in Seq(Pic) /\ owned \subseteq Pic
      /\ NoPic \notin Pic
  BY PicAssumption DEF TypeInv, TypeOK
<1>2. \A u \in Time : frames[u].output \in Pic \cup {NoPic}
  BY <1>1, FrameFields
<1>3. ~In(available, NoPic) /\ \A p : In(available, p) => p \in Pic
  BY <1>1, ElementOfSeq DEF In
<1>4. CASE OutputsStay
  BY <1>4 DEF OutputsOK, OutputsStay
<1>5. ASSUME NEW p \in Pic, OutputSent(p) PROVE OutputsOK'
  BY <1>5, <1>1, AppendApart DEF OutputSent, OutputsOK, Apart, In
<1>6. ASSUME NEW t \in Time, OutputJoins(t) PROVE OutputsOK'
  <2>1. /\ available # <<>> /\ available' = Tail(available) /\ UNCHANGED owned
        /\ frames[t].output = NoPic /\ frames'[t].output = Head(available)
        /\ \A u \in Time \ {t} : frames'[u].output = frames[u].output
    BY <1>6 DEF OutputJoins
  <2>2. PICK s, r, p : s = available /\ r = available' /\ p = Head(available)
    OBVIOUS
  <2>3. /\ Apart(r) /\ p \in Pic /\ In(s, p) /\ ~In(r, p)
        /\ \A y : In(r, y) <=> In(s, y) /\ y # p
    BY <1>1, <2>1, <2>2, TailApart DEF OutputsOK
  <2>4. /\ Apart(available)' /\ p \in Pic /\ In(available, p)
        /\ \A y : In(available, y)' <=> In(available, y) /\ y # p
    BY <2>2, <2>3 DEF Apart, In
  <2>5. \A u \in Time : frames'[u].output = IF u = t THEN p ELSE frames[u].output
    BY <2>1, <2>2
  <2>6. p \notin owned /\ \A u \in Time : frames[u].output # p
    BY <2>4 DEF OutputsOK
  <2>7. \A q \in Pic : q \in owned' \/ In(available, q)' \/ \E u \in Time : frames'[u].output = q
    BY <1>1, <2>1, <2>4, <2>5 DEF OutputsOK
  <2>8. \A q \in owned' : ~In(available, q)' /\ \A u \in Time : frames'[u].output # q
    BY <2>1, <2>4, <2>5, <2>6 DEF OutputsOK
  <2>9. \A u \in Time : ~(\E i \in 1 .. Len(available') : available'[i] = frames'[u].output)
    BY <2>4, <2>5 DEF OutputsOK, In
  <2>10. \A a, b \in Time : frames'[a].output = frames'[b].output /\ frames'[b].output # NoPic => a = b
    BY <2>5, <2>6 DEF OutputsOK
  <2> QED BY <2>4, <2>7, <2>8, <2>9, <2>10 DEF OutputsOK, In
<1>7. ASSUME NEW t \in Time, OutputLeaves(t) PROVE OutputsOK'
  BY <1>7, <1>1, <1>3 DEF OutputLeaves, OutputsOK, In, Apart
<1> QED BY <1>4, <1>5, <1>6, <1>7 DEF OutputsMove

LEMMA BasesMoved ==
    ASSUME TypeInv, Core, BasesOK, BasesMove
    PROVE  BasesOK'
<1>1. /\ frames \in [Time -> FrameRec] /\ baseOut \in Seq(Time) /\ returned \subseteq Time
      /\ sent.base \subseteq Time
  BY DEF TypeInv, TypeOK
<1>2. \A u \in Time : /\ frames[u].base \in {u, NoPic} /\ u # NoPic
                      /\ frames[u].base = u => u \in sent.base
  BY BaseIs
<1>3. \A u : In(baseOut, u) => u \in Time
  BY <1>1, ElementOfSeq DEF In
<1>4. CASE BasesStay
  BY <1>4, <1>1 DEF BasesStay, In, Apart, BasesOK
<1>5. CASE BaseReturns
  <2>1. /\ baseOut # <<>> /\ returned' = returned \cup {Head(baseOut)} /\ baseOut' = Tail(baseOut)
        /\ sent'.base = sent.base /\ \A u \in Time : frames'[u].base = frames[u].base
    BY <1>5 DEF BaseReturns
  <2>2. PICK s, u, p : s = baseOut /\ u = baseOut' /\ p = Head(baseOut)
    OBVIOUS
  <2>3. /\ Apart(u) /\ p \in Time /\ In(s, p) /\ ~In(u, p)
        /\ \A y : In(u, y) <=> In(s, y) /\ y # p
    BY <1>1, <2>1, <2>2, TailApart DEF BasesOK
  <2>4. /\ Apart(baseOut)' /\ p \in Time /\ In(baseOut, p)
        /\ \A y : In(baseOut, y)' <=> In(baseOut, y) /\ y # p
    BY <2>2, <2>3 DEF Apart, In
  <2>5. \A t \in Time : frames'[t].base = t => t \notin returned' /\ ~In(baseOut, t)'
    BY <2>1, <2>2, <2>4 DEF BasesOK
  <2>6. \A t \in Time : In(baseOut, t)' => t \in sent'.base /\ t \notin returned'
    BY <2>1, <2>2, <2>4 DEF BasesOK
  <2>7. returned' \subseteq sent'.base
    BY <2>1, <2>2, <2>4 DEF BasesOK
  <2>8. \A t \in sent'.base : frames'[t].base = t \/ t \in returned' \/ In(baseOut, t)'
    BY <1>1, <2>1, <2>2, <2>4 DEF BasesOK
  <2> QED BY <2>4, <2>5, <2>6, <2>7, <2>8 DEF BasesOK
<1>6. ASSUME NEW t \in Time, BaseJoins(t) PROVE BasesOK'
  BY <1>6, <1>1 DEF BaseJoins, In, Apart, BasesOK
<1>7. ASSUME NEW t \in Time, BaseGoes(t) PROVE BasesOK'
  <2>1. /\ frames[t].base = t /\ baseOut' = Append(baseOut, t) /\ UNCHANGED <<returned, sent>>
        /\ frames'[t].base = NoPic /\ \A u \in Time \ {t} : frames'[u].base = frames[u].base
    BY <1>7 DEF BaseGoes
  <2>2. t \in sent.base /\ t \notin returned /\ ~In(baseOut, t) /\ Apart(baseOut)
    BY <1>2, <2>1 DEF BasesOK
  <2>3. PICK s, u : s = baseOut /\ u = baseOut'
    OBVIOUS
  <2>4. Apart(u) /\ \A y : In(u, y) <=> y = t \/ In(s, y)
    BY <1>1, <2>1, <2>2, <2>3, AppendApart
  <2>5. Apart(baseOut)' /\ \A y : In(baseOut, y)' <=> y = t \/ In(baseOut, y)
    BY ZenonT(40), <2>3, <2>4 DEF Apart, In
  <2>6. \A v \in Time : frames'[v].base = v => v \notin returned' /\ ~In(baseOut, v)'
    BY <1>2, <2>1, <2>5 DEF BasesOK
  <2>7. \A v \in Time : In(baseOut, v)' => v \in sent'.base /\ v \notin returned'
    BY <2>1, <2>2, <2>5 DEF BasesOK
  <2>8. returned' \subseteq sent'.base
    BY <2>1 DEF BasesOK
  <2>9. \A v \in sent'.base : frames'[v].base = v \/ v \in returned' \/ In(baseOut, v)'
    BY <1>1, <2>1, <2>5 DEF BasesOK
  <2> QED BY <2>5, <2>6, <2>7, <2>8, <2>9 DEF BasesOK
<1> QED BY <1>4, <1>5, <1>6, <1>7 DEF BasesMove

(* A step that changes neither kind of picture. *)
LEMMA PicturesStay ==
    ASSUME UNCHANGED <<available, owned, baseOut, returned>>, sent'.base = sent.base,
           \A u \in Time : frames'[u].output = frames[u].output /\ frames'[u].base = frames[u].base
    PROVE  OutputsMove /\ BasesMove
BY DEF OutputsMove, BasesMove, OutputsStay, BasesStay

LEMMA OneChanged ==
    ASSUME TypeInv, NEW t \in Time, NEW g, frames' = [frames EXCEPT ![t] = g]
    PROVE  frames'[t] = g /\ \A u \in Time \ {t} : frames'[u] = frames[u]
BY DEF TypeInv, TypeOK

LEMMA WorkerPictures ==
    ASSUME TypeInv, Core, WorkerStep
    PROVE  OutputsMove /\ BasesMove
<1>1. WorkerEffect
  BY WorkerIs
<1>2. UNCHANGED <<available, sent, returned, owned>> /\ \A u \in Time : frames'[u].output = frames[u].output
  BY <1>1 DEF WorkerEffect, Progress, SameMake, clientVars
<1>3. OutputsMove
  BY <1>2 DEF OutputsMove, OutputsStay
<1>4. BasesMove
  BY <1>2, WorkerIs DEF BasesKept, BasesMove, BasesStay, BaseGoes
<1> QED BY <1>3, <1>4

LEMMA CallPictures ==
    ASSUME TypeInv, Core, ClientCall
    PROVE  OutputsMove /\ BasesMove
<1>1. ASSUME NEW t \in Time, NEW kind \in Kinds, SendEnhancement(t, kind) PROVE OutputsMove /\ BasesMove
  <2>1. PICK g \in FrameRec :
             /\ api.pc = "idle" /\ api'.pc = "start" /\ ~Live(t) /\ t \notin sent.enhancement
             /\ frames' = [frames EXCEPT ![t] = g]
             /\ g.phase = "Reorder" /\ g.kind = kind /\ g.met = {} /\ g.holds = FALSE /\ g.wants = Unset
             /\ g.base = NoPic /\ g.output = NoPic
             /\ sent' = [sent EXCEPT !.enhancement = @ \cup {t}]
             /\ UNCHANGED <<processing, previous, lastGood, configured, baseOut, available,
                            buffer, busy, returned, owned, pastVars>>
    BY <1>1, SendEnhancementIs
  <2>2. frames[t].base = NoPic /\ frames[t].output = NoPic
    BY <2>1, NotLive
  <2>3. sent'.base = sent.base
    BY <2>1 DEF TypeInv, TypeOK
  <2> QED BY <2>1, <2>2, <2>3, OneChanged, PicturesStay
<1>2. ASSUME NEW t \in Time, SendBaseAlone(t) PROVE OutputsMove /\ BasesMove
  <2>1. PICK g \in FrameRec :
             /\ api.pc = "idle" /\ api'.pc = "start" /\ ~Live(t) /\ t \notin sent.base
             /\ frames' = [frames EXCEPT ![t] = g]
             /\ g.phase = "Reorder" /\ g.kind = "bad" /\ g.met = {"base"} /\ g.holds = FALSE
             /\ g.wants = Unset /\ g.base = t /\ g.output = NoPic
             /\ sent' = [sent EXCEPT !.base = @ \cup {t}]
             /\ UNCHANGED <<processing, previous, lastGood, configured, baseOut, available,
                            buffer, busy, returned, owned, pastVars>>
    BY <1>2, SendBaseAloneIs
  <2>2. frames[t].output = NoPic
    BY <2>1, NotLive
  <2>3. sent'.base = sent.base \cup {t}
    BY <2>1 DEF TypeInv, TypeOK
  <2>4. frames'[t] = g /\ \A u \in Time \ {t} : frames'[u] = frames[u]
    BY <2>1, OneChanged
  <2>5. BaseJoins(t)
    BY <2>1, <2>3, <2>4 DEF BaseJoins
  <2>6. OutputsStay
    BY <2>1, <2>2, <2>4 DEF OutputsStay
  <2> QED BY <2>5, <2>6 DEF OutputsMove, BasesMove
<1>3. ASSUME NEW t \in Time, SendBase(t) PROVE OutputsMove /\ BasesMove
  <2>1. /\ t \notin sent.base /\ sent' = [sent EXCEPT !.base = @ \cup {t}]
        /\ \A u \in Time \ {t} : Alike(frames[u], frames'[u])
        /\ frames'[t].base = t /\ frames'[t].output = frames[t].output
        /\ UNCHANGED <<baseOut, available, returned, owned>>
    BY <1>3, SendBaseIs
  <2>2. sent'.base = sent.base \cup {t}
    BY <2>1 DEF TypeInv, TypeOK
  <2>3. \A u \in Time \ {t} : frames'[u].base = frames[u].base /\ frames'[u].output = frames[u].output
    BY <2>1 DEF Alike, SameMake
  <2>4. BaseJoins(t)
    BY <2>1, <2>2, <2>3 DEF BaseJoins
  <2>5. OutputsStay
    BY <2>1, <2>3 DEF OutputsStay
  <2> QED BY <2>4, <2>5 DEF OutputsMove, BasesMove
<1>4. ASSUME NEW p \in Pic, SendOutput(p) PROVE OutputsMove /\ BasesMove
  BY <1>4 DEF SendOutput, OutputSent, BasesStay, OutputsMove, BasesMove
<1>5. ASSUME FlagCall PROVE OutputsMove /\ BasesMove
  BY <1>5, PicturesStay DEF FlagCall, Alike, SameMake, clientVars
<1>6. ASSUME NEW t \in Time, MakeReady(t) \/ Skip(t) PROVE OutputsMove /\ BasesMove
  BY <1>5, <1>6, FlagCalls
<1>7. ASSUME NEW drop \in BOOLEAN, Synchronize(drop) PROVE OutputsMove /\ BasesMove
  BY <1>5, <1>7, SynchronizeFlags
<1>8. CASE ReceiveBase
  BY <1>8 DEF ReceiveBase, BaseReturns, OutputsStay, OutputsMove, BasesMove
<1>9. CASE ReceiveOutput
  BY <1>9, PicturesStay DEF ReceiveOutput, clientVars
<1> QED BY <1>1, <1>2, <1>3, <1>4, <1>6, <1>7, <1>8, <1>9 DEF ClientCall

LEMMA StepPictures ==
    ASSUME TypeInv, Core, ApiStep
    PROVE  OutputsMove /\ BasesMove
<1>1. CASE ConnectOutput
  <2>1. PICK t \in Time, g \in FrameRec :
             /\ frames' = [frames EXCEPT ![t] = g]
             /\ available # <<>> /\ available' = Tail(available)
             /\ frames[t].output = NoPic /\ g.output = Head(available) /\ g.base = frames[t].base
             /\ UNCHANGED <<baseOut, sent, returned, owned>>
    BY <1>1, ConnectOutputIs DEF clientVars
  <2>2. frames'[t] = g /\ \A u \in Time \ {t} : frames'[u] = frames[u]
    BY <2>1, OneChanged
  <2>3. OutputJoins(t) /\ BasesStay
    BY <2>1, <2>2 DEF OutputJoins, BasesStay
  <2> QED BY <2>3 DEF OutputsMove, BasesMove
<1>2. CASE CalmStep
  BY <1>2, CalmStepIs, PicturesStay DEF clientVars
<1>3. CASE StartFrame
  <2>1. PICK t \in Time, good \in BOOLEAN, passthrough \in BOOLEAN, g \in FrameRec :
             /\ g = [frames[t] EXCEPT !.phase = "Processing", !.good = good, !.passthrough = passthrough]
             /\ frames' = [frames EXCEPT ![t] = g]
    BY <1>3, StartFrameIs
  <2>2. frames[t] \in FrameRec
    BY TypesHold
  <2>3. g.base = frames[t].base /\ g.output = frames[t].output
    BY ONLY <2>1, <2>2 DEF FrameRec
  <2>4. frames'[t] = g /\ \A u \in Time \ {t} : frames'[u] = frames[u]
    BY <2>1, OneChanged
  <2>5. UNCHANGED <<available, owned, baseOut, returned, sent>>
    BY <1>3 DEF StartFrame, clientVars
  <2> QED BY <2>3, <2>4, <2>5, PicturesStay
<1>4. ASSUME NEW t \in Time, NEW g, frames' = [frames EXCEPT ![t] = g],
             g.base = frames[t].base, g.output = frames[t].output,
             UNCHANGED <<available, owned, baseOut, returned, sent>>
      PROVE  OutputsMove /\ BasesMove
  BY <1>4, OneChanged, PicturesStay
<1>5. CASE Generate
  BY <1>4, <1>5, GenerateIs DEF SameBuild, clientVars
<1>6. CASE RequireBuffer
  BY <1>4, <1>6, RequireBufferIs DEF SameBuild, clientVars
<1>7. CASE MatchBuffer
  BY ZenonT(60), <1>4, <1>7, MatchBufferIs DEF clientVars
<1>8. CASE FindBase
  BY <1>4, <1>8, FindBaseIs DEF clientVars
<1>9. CASE ReceiveTake
  BY <1>9, ReceiveTakeIs, PicturesStay DEF clientVars
<1>10. CASE FreeFrame
  <2>1. PICK t \in Time :
             /\ t = api.frame /\ api.pc = "free" /\ frames[t].phase = "Done"
             /\ frames[t].added \subseteq frames[t].met /\ frames[t].output \in Pic
             /\ owned' = owned \cup {frames[t].output}
             /\ frames' = [frames EXCEPT ![t] = NewFrame]
             /\ UNCHANGED <<baseOut, available, sent, returned>>
    BY <1>10, FreeFrameIs
  <2>2. frames[t].base = NoPic
    BY <2>1, FrameIs DEF Core, Stage, Building, RecordOK, TasksOK, Made, InputsOK
  <2>3. NewFrame.base = NoPic /\ NewFrame.output = NoPic
    BY BlankRecord
  <2>4. frames'[t] = NewFrame /\ \A u \in Time \ {t} : frames'[u] = frames[u]
    BY <2>1, OneChanged
  <2>5. OutputLeaves(t)
    BY <2>1, <2>3, <2>4 DEF OutputLeaves
  <2>6. BasesStay
    BY <2>1, <2>2, <2>3, <2>4 DEF BasesStay
  <2> QED BY <2>5, <2>6 DEF OutputsMove, BasesMove
<1> QED BY <1>1, <1>2, <1>3, <1>5, <1>6, <1>7, <1>8, <1>9, <1>10 DEF ApiStep, CalmStep

LEMMA NextPictures ==
    ASSUME TypeInv, Core, [Next]_vars
    PROVE  OutputsMove /\ BasesMove
BY PicturesStay, WorkerPictures, CallPictures, StepPictures DEF vars, clientVars, Next

(* The places where a picture is, counted. *)
LEMMA PlacesOf ==
    ASSUME NEW S, NEW s \in Seq(S), Apart(s), NEW x
    PROVE  Cardinality({i \in 1 .. Len(s) : s[i] = x}) = IF In(s, x) THEN 1 ELSE 0
<1>1. CASE In(s, x)
  <2>1. PICK i \in 1 .. Len(s) : s[i] = x
    BY <1>1 DEF In
  <2>2. {j \in 1 .. Len(s) : s[j] = x} = {i}
    BY <2>1 DEF Apart
  <2> QED BY <1>1, <2>2, FS_Singleton
<1>2. CASE ~In(s, x)
  BY <1>2, FS_EmptySet DEF In
<1> QED BY <1>1, <1>2

LEMMA OneOf ==
    ASSUME NEW S, NEW x
    PROVE  Cardinality({x} \cap S) = IF x \in S THEN 1 ELSE 0
BY FS_Singleton, FS_EmptySet

LEMMA Counted ==
    ASSUME TypeInv, Core, OutputsOK, BasesOK
    PROVE  PicturesAccounted
<1>1. /\ baseOut \in Seq(Time) /\ available \in Seq(Pic) /\ sent.base \subseteq Time
      /\ Apart(baseOut) /\ Apart(available) /\ NoPic \notin Pic /\ NoPic \notin Time
  BY PicAssumption DEF TypeInv, TypeOK, BasesOK, OutputsOK
<1>2. ASSUME NEW t \in sent.base
      PROVE  Cardinality({s \in Time : frames[s].base = t})
             + Cardinality({i \in 1 .. Len(baseOut) : baseOut[i] = t})
             + Cardinality({t} \cap returned) = 1
  <2>1. t \in Time
    BY <1>1
  <2>2. Cardinality({s \in Time : frames[s].base = t}) = IF frames[t].base = t THEN 1 ELSE 0
    <3>1. \A s \in Time : frames[s].base \in {s, NoPic}
      BY BaseIs
    <3>2. CASE frames[t].base = t
      <4>1. {s \in Time : frames[s].base = t} = {t}
        BY <1>1, <2>1, <3>1, <3>2
      <4> QED BY <3>2, <4>1, FS_Singleton
    <3>3. CASE frames[t].base # t
      BY <1>1, <2>1, <3>1, <3>3, FS_EmptySet
    <3> QED BY <3>2, <3>3
  <2>3. Cardinality({i \in 1 .. Len(baseOut) : baseOut[i] = t}) = IF In(baseOut, t) THEN 1 ELSE 0
    BY <1>1, PlacesOf
  <2>4. Cardinality({t} \cap returned) = IF t \in returned THEN 1 ELSE 0
    BY OneOf
  <2>5. /\ frames[t].base = t \/ t \in returned \/ In(baseOut, t)
        /\ frames[t].base = t => t \notin returned /\ ~In(baseOut, t)
        /\ In(baseOut, t) => t \notin returned
    BY <2>1 DEF BasesOK
  <2> QED BY <2>2, <2>3, <2>4, <2>5
<1>3. ASSUME NEW p \in Pic
      PROVE  Cardinality({p} \cap owned)
             + Cardinality({i \in 1 .. Len(available) : available[i] = p})
             + Cardinality({t \in Time : frames[t].output = p}) = 1
  <2>1. Cardinality({p} \cap owned) = IF p \in owned THEN 1 ELSE 0
    BY OneOf
  <2>2. Cardinality({i \in 1 .. Len(available) : available[i] = p}) = IF In(available, p) THEN 1 ELSE 0
    BY <1>1, PlacesOf
  <2>3. Cardinality({t \in Time : frames[t].output = p})
           = IF \E t \in Time : frames[t].output = p THEN 1 ELSE 0
    <3>1. ASSUME NEW t \in Time, frames[t].output = p
          PROVE  Cardinality({s \in Time : frames[s].output = p}) = 1
      <4>1. {s \in Time : frames[s].output = p} = {t}
        BY <1>1, <3>1 DEF OutputsOK
      <4> QED BY <4>1, FS_Singleton
    <3>2. ASSUME ~\E t \in Time : frames[t].output = p
          PROVE  Cardinality({s \in Time : frames[s].output = p}) = 0
      BY <3>2, FS_EmptySet
    <3> QED BY <3>1, <3>2
  <2>4. /\ p \in owned \/ In(available, p) \/ \E t \in Time : frames[t].output = p
        /\ p \in owned => ~In(available, p) /\ ~\E t \in Time : frames[t].output = p
        /\ In(available, p) => ~\E t \in Time : frames[t].output = p
    BY DEF OutputsOK
  <2> QED BY <2>1, <2>2, <2>3, <2>4
<1> QED BY <1>2, <1>3 DEF PicturesAccounted

(* Every base picture the decoder accepted is with its frame, in the FIFO of *)
(* finished bases or back with the client, and in one of these places only; *)
(* and every output picture is with the client, available or with one frame. *)
THEOREM PicturesAlwaysAccounted == Spec => []PicturesAccounted
<1>1. ASSUME Init PROVE OutputsOK /\ BasesOK
  <2>1. \A t \in Time : frames[t].base = NoPic /\ frames[t].output = NoPic
    BY <1>1, BlankRecord DEF Init
  <2>2. /\ available = <<>> /\ baseOut = <<>> /\ owned = Pic /\ returned = {} /\ sent.base = {}
    BY <1>1 DEF Init
  <2>3. \A x : ~In(available, x) /\ ~In(baseOut, x)
    BY <2>2 DEF In
  <2>4. Apart(available) /\ Apart(baseOut)
    BY <2>2 DEF Apart
  <2>5. NoPic \notin Pic /\ NoPic \notin Time
    BY PicAssumption
  <2>6. OutputsOK
    BY <2>1, <2>2, <2>3, <2>4, <2>5 DEF OutputsOK
  <2>7. BasesOK
    BY <2>1, <2>2, <2>3, <2>4, <2>5 DEF BasesOK
  <2> QED BY <2>6, <2>7
<1>2. TypeInv /\ Core /\ OutputsOK /\ BasesOK /\ [Next]_vars => (OutputsOK /\ BasesOK)'
  BY NextPictures, OutputsMoved, BasesMoved
<1>3. TypeInv /\ Core /\ OutputsOK /\ BasesOK => PicturesAccounted
  BY Counted
<1> QED BY <1>1, <1>2, <1>3, CoreInvariant, PTL DEF Spec

-----------------------------------------------------------------------------
(***************************************************************************)
(* Theorems about the temporal buffer of the CPU pipeline: one frame holds *)
(* it at most, a frame that adds to earlier residuals gets those of the    *)
(* good frame before it, and a hand-over never reaches a frame that has    *)
(* been delivered.                                                         *)
(*                                                                         *)
(* DecodedOK is about the order in which good frames were started.         *)
(* BufferOK ties the holder to the frames, to the residuals that the       *)
(* buffer has, and to the hand-overs under way; that it is kept rests on   *)
(* LatestOK: the residuals never go back to an older frame, so the frame   *)
(* that asks for them next has not had them yet.                           *)
(*                                                                         *)
(* A description that nobody has filled in asks for the residuals of       *)
(* timestamp 0: when a good frame has that timestamp, its release may hand *)
(* the buffer to a frame that did not ask for it (strayed), and BufferOK   *)
(* holds until it does.                                                    *)
(***************************************************************************)

(* The good frames, in the order in which they were started. *)

LastDecoded(n) == IF n = 0 THEN Invalid ELSE decoded[n]
(* Every good frame is in the history once; lastGood is the last of them    *)
(* whose tasks were generated, and a frame that asks for a temporal buffer  *)
(* asks for that of the good frame before it.                               *)
DecodedOK ==
    /\ Apart(decoded)
    /\ \A t : In(decoded, t) => t \in sent.enhancement
    /\ \A t \in Time : frames[t].phase = "Reorder" /\ frames[t].kind # "bad"
                          => t \in sent.enhancement /\ ~In(decoded, t)
    /\ IF api.pc \in BuildPc /\ frames[api.frame].good
       THEN /\ Len(decoded) > 0 /\ decoded[Len(decoded)] = api.frame
            /\ lastGood = LastDecoded(Len(decoded) - 1)
       ELSE lastGood = LastDecoded(Len(decoded))
    /\ \A t \in Time : frames[t].wants # Unset
                          => \E i \in 1 .. Len(decoded) : decoded[i] = t /\ frames[t].wants = LastDecoded(i - 1)
    /\ api.pc = "match" => frames[api.frame].wants # Unset

LEMMA HistorySame ==
    ASSUME TypeInv, ApiOK, DecodedOK, UNCHANGED <<decoded, lastGood>>,
           sent.enhancement \subseteq sent'.enhancement,
           api.pc \in BuildPc \/ api'.pc \in BuildPc =>
               /\ api.pc \in BuildPc /\ api'.pc \in BuildPc /\ api'.frame = api.frame
               /\ frames'[api.frame].good = frames[api.frame].good,
           api'.pc = "match" => api.pc = "match" /\ frames'[api.frame].wants = frames[api.frame].wants,
           \A u \in Time :
               /\ frames'[u].wants \in {frames[u].wants, Unset}
               /\ frames'[u].phase = "Reorder" /\ frames'[u].kind # "bad" =>
                     \/ frames[u].phase = "Reorder" /\ frames[u].kind # "bad"
                     \/ u \in sent'.enhancement /\ u \notin sent.enhancement
    PROVE  DecodedOK'
BY DEF DecodedOK, Apart, In, LastDecoded, BuildPc

LEMMA WorkerHistory ==
    ASSUME TypeInv, Core, DecodedOK, WorkerStep
    PROVE  DecodedOK'
BY WorkerIs, HistorySame DEF WorkerEffect, orderVars, clientVars, Progress, SameMake, Core, ApiOK, BuildPc

(* Calls outside generateTasks() that start no frame. *)
LEMMA CallHistory ==
    ASSUME TypeInv, Core, DecodedOK, ClientCall
    PROVE  DecodedOK'
<1>0. ApiOK
  BY DEF Core
<1>1. ASSUME UNCHANGED <<decoded, lastGood, sent>>, api.pc \notin BuildPc, api'.pc \notin BuildPc,
             \A u \in Time : /\ frames'[u].wants = frames[u].wants /\ frames'[u].phase = frames[u].phase
                             /\ frames'[u].kind = frames[u].kind
      PROVE  DecodedOK'
  BY <1>1, <1>0, HistorySame DEF BuildPc
<1>2. ASSUME NEW t \in Time, NEW kind \in Kinds, SendEnhancement(t, kind) PROVE DecodedOK'
  <2>1. PICK g \in FrameRec :
             /\ api.pc = "idle" /\ api'.pc = "start" /\ ~Live(t) /\ t \notin sent.enhancement
             /\ frames' = [frames EXCEPT ![t] = g]
             /\ g.phase = "Reorder" /\ g.kind = kind /\ g.met = {} /\ g.holds = FALSE /\ g.wants = Unset
             /\ g.base = NoPic /\ g.output = NoPic
             /\ sent' = [sent EXCEPT !.enhancement = @ \cup {t}]
             /\ UNCHANGED <<processing, previous, lastGood, configured, baseOut, available,
                            buffer, busy, returned, owned, pastVars>>
    BY <1>2, SendEnhancementIs
  <2>2. frames'[t] = g /\ \A u \in Time \ {t} : frames'[u] = frames[u]
    BY <2>1, OneChanged
  <2>3. sent'.enhancement = sent.enhancement \cup {t}
    BY <2>1 DEF TypeInv, TypeOK
  <2> QED BY <1>0, <2>1, <2>2, <2>3, HistorySame DEF BuildPc, pastVars
<1>3. ASSUME NEW t \in Time, SendBaseAlone(t) PROVE DecodedOK'
  <2>1. PICK g \in FrameRec :
             /\ api.pc = "idle" /\ api'.pc = "start" /\ ~Live(t) /\ t \notin sent.base
             /\ frames' = [frames EXCEPT ![t] = g]
             /\ g.phase = "Reorder" /\ g.kind = "bad" /\ g.met = {"base"} /\ g.holds = FALSE
             /\ g.wants = Unset /\ g.base = t /\ g.output = NoPic
             /\ sent' = [sent EXCEPT !.base = @ \cup {t}]
             /\ UNCHANGED <<processing, previous, lastGood, configured, baseOut, available,
                            buffer, busy, returned, owned, pastVars>>
    BY <1>3, SendBaseAloneIs
  <2>2. frames'[t] = g /\ \A u \in Time \ {t} : frames'[u] = frames[u]
    BY <2>1, OneChanged
  <2>3. sent'.enhancement = sent.enhancement
    BY <2>1 DEF TypeInv, TypeOK
  <2> QED BY <1>0, <2>1, <2>2, <2>3, HistorySame DEF BuildPc, pastVars
<1>4. ASSUME NEW t \in Time, SendBase(t) PROVE DecodedOK'
  <2>1. /\ api.pc = "idle" /\ api'.pc = "start" /\ sent' = [sent EXCEPT !.base = @ \cup {t}]
        /\ \A u \in Time \ {t} : Alike(frames[u], frames'[u])
        /\ Joined(frames[t], frames'[t], "base")
        /\ UNCHANGED <<lastGood, decoded>>
    BY <1>4, SendBaseIs DEF orderVars, pastVars
  <2>2. sent'.enhancement = sent.enhancement
    BY <2>1 DEF TypeInv, TypeOK
  <2>3. \A u \in Time : /\ frames'[u].wants = frames[u].wants /\ frames'[u].phase = frames[u].phase
                        /\ frames'[u].kind = frames[u].kind
    BY <2>1 DEF Alike, SameMake, Joined, SameFrame
  <2> QED BY <1>0, <2>1, <2>2, <2>3, HistorySame DEF BuildPc
<1>5. ASSUME NEW p \in Pic, SendOutput(p) PROVE DecodedOK'
  BY <1>5, GotoIs, <1>1 DEF SendOutput, At, BuildPc, orderVars, pastVars
<1>6. ASSUME FlagCall PROVE DecodedOK'
  BY <1>1, <1>6 DEF FlagCall, Alike, SameMake, BuildPc, orderVars, pastVars, clientVars
<1>7. ASSUME NEW t \in Time, MakeReady(t) \/ Skip(t) PROVE DecodedOK'
  BY <1>6, <1>7, FlagCalls
<1>8. ASSUME NEW drop \in BOOLEAN, Synchronize(drop) PROVE DecodedOK'
  BY <1>6, <1>8, SynchronizeFlags
<1>9. CASE ReceiveBase
  BY <1>1, <1>9 DEF ReceiveBase, At, BuildPc, orderVars, pastVars
<1>10. CASE ReceiveOutput
  BY <1>10, GotoIs, <1>1 DEF ReceiveOutput, At, BuildPc, orderVars, pastVars, clientVars
<1> QED BY <1>2, <1>3, <1>4, <1>5, <1>7, <1>8, <1>9, <1>10 DEF ClientCall

(* A good frame that is started goes to the end of the history. *)
LEMMA StartHistory ==
    ASSUME TypeInv, Core, DecodedOK, StartFrame
    PROVE  DecodedOK'
<1>1. PICK t \in Time, good \in BOOLEAN, passthrough \in BOOLEAN, g \in FrameRec :
             /\ reorder # <<>> /\ t = Head(reorder) /\ frames[t].phase = "Reorder"
             /\ g = [frames[t] EXCEPT !.phase = "Processing", !.good = good, !.passthrough = passthrough]
             /\ frames' = [frames EXCEPT ![t] = g]
             /\ good => frames[t].kind # "bad" /\ decoded' = Append(decoded, t)
             /\ ~good => passthrough /\ decoded' = decoded
             /\ reorder' = Tail(reorder) /\ processing' = Append(processing, t)
             /\ api' \in ApiRec /\ api'.pc = "generate" /\ api'.frame = t
  BY StartFrameIs
<1>2. frames[t] \in FrameRec /\ decoded \in Seq(Time) /\ Len(decoded) \in Nat
  BY TypesHold, LenProperties
<1>3. g.phase = "Processing" /\ g.good = good /\ g.kind = frames[t].kind /\ g.wants = frames[t].wants
  BY ONLY <1>1, <1>2 DEF FrameRec
<1>4. frames'[t] = g /\ \A u \in Time \ {t} : frames'[u] = frames[u]
  BY <1>1, OneChanged
<1>5. api.pc = "start" /\ UNCHANGED <<lastGood, sent>>
  BY DEF StartFrame, At, clientVars
<1>6. frames[t].wants = Unset
  BY <1>1, FrameIs, <1>2, UnmadeFrame DEF Core, Stage
<1>7. lastGood = LastDecoded(Len(decoded))
  BY <1>5 DEF DecodedOK, BuildPc
<1>8. \A u \in Time : frames'[u].phase = "Reorder" /\ frames'[u].kind # "bad"
                        => u # t /\ u \in sent'.enhancement /\ ~In(decoded, u)
  BY <1>3, <1>4, <1>5 DEF DecodedOK
<1>9. CASE ~good
  <2>1. decoded' = decoded
    BY <1>1, <1>9
  <2>2. Apart(decoded)' /\ \A u : In(decoded, u)' <=> In(decoded, u)
    BY <2>1 DEF DecodedOK, Apart, In
  <2>3. IF api'.pc \in BuildPc /\ frames'[api'.frame].good
        THEN /\ Len(decoded') > 0 /\ decoded'[Len(decoded')] = api'.frame
             /\ lastGood' = LastDecoded(Len(decoded) - 1)'
        ELSE lastGood' = LastDecoded(Len(decoded))'
    BY ZenonT(40), <1>1, <1>3, <1>4, <1>5, <1>7, <1>9, <2>1 DEF LastDecoded
  <2>4. \A u \in Time : frames'[u].wants # Unset
         => \E i \in 1 .. Len(decoded') : decoded'[i] = u /\ frames'[u].wants = LastDecoded(i - 1)'
    BY <1>3, <1>4, <1>6, <2>1 DEF DecodedOK, LastDecoded
  <2>5. \A u : In(decoded, u)' => u \in sent'.enhancement
    BY <1>5, <2>2 DEF DecodedOK
  <2> QED BY <1>1, <1>8, <2>2, <2>3, <2>4, <2>5 DEF DecodedOK
<1>10. CASE good
  <2>1. decoded' = Append(decoded, t) /\ ~In(decoded, t) /\ t \in sent.enhancement /\ Apart(decoded)
    BY <1>1, <1>10 DEF DecodedOK
  <2>2. PICK s, d : s = decoded /\ d = decoded'
    OBVIOUS
  <2>3. /\ Apart(d) /\ \A y : In(d, y) <=> y = t \/ In(s, y)
    BY <1>2, <2>1, <2>2, AppendApart
  <2>4. Apart(decoded)' /\ \A y : In(decoded, y)' <=> y = t \/ In(decoded, y)
    BY <2>2, <2>3 DEF Apart, In
  <2>5. /\ Len(decoded') = Len(decoded) + 1
        /\ \A i \in 1 .. Len(decoded) + 1 : decoded'[i] = IF i = Len(decoded) + 1 THEN t ELSE decoded[i]
    BY <1>2, <2>1, QueueAppend
  <2>6. \A n \in 0 .. Len(decoded) : LastDecoded(n)' = LastDecoded(n)
    BY <1>2, <2>5 DEF LastDecoded
  <2>7. /\ Len(decoded') > 0 /\ decoded'[Len(decoded')] = api'.frame
        /\ lastGood' = LastDecoded(Len(decoded) - 1)'
    BY <1>2, <2>5, <1>5, <1>7, <1>1 DEF LastDecoded
  <2>8. \A u \in Time : frames'[u].wants # Unset
         => \E i \in 1 .. Len(decoded') : decoded'[i] = u /\ frames'[u].wants = LastDecoded(i - 1)'
    BY <1>3, <1>4, <1>6, <1>2, <2>5, <2>6 DEF DecodedOK
  <2>9. \A u : In(decoded, u)' => u \in sent'.enhancement
    BY <1>5, <2>1, <2>4 DEF DecodedOK
  <2>10. \A u \in Time : frames'[u].phase = "Reorder" /\ frames'[u].kind # "bad"
                        => u \in sent'.enhancement /\ ~In(decoded, u)'
    BY <1>8, <2>4
  <2>11. api'.pc \in BuildPc /\ frames'[api'.frame].good /\ api'.pc # "match"
    BY <1>1, <1>3, <1>4, <1>10 DEF BuildPc
  <2> QED BY <2>4, <2>7, <2>8, <2>9, <2>10, <2>11 DEF DecodedOK
<1> QED BY <1>9, <1>10

LEMMA StepHistory ==
    ASSUME TypeInv, Core, DecodedOK, ApiStep
    PROVE  DecodedOK'
<1>0. ApiOK
  BY DEF Core
<1>1. CASE ConnectOutput
  <2>1. PICK t \in Time, g \in FrameRec :
             /\ api.pc \in {"connect", "start"} /\ UNCHANGED api
             /\ frames' = [frames EXCEPT ![t] = g] /\ Joined(frames[t], g, "output")
             /\ available # <<>> /\ available' = Tail(available)
             /\ frames[t].output = NoPic /\ g.output = Head(available) /\ g.base = frames[t].base
             /\ UNCHANGED <<orderVars, baseOut, buffer, busy, clientVars, pastVars>>
    BY <1>1, ConnectOutputIs
  <2>2. frames'[t] = g /\ \A u \in Time \ {t} : frames'[u] = frames[u]
    BY <2>1, OneChanged
  <2>3. \A u \in Time : /\ frames'[u].wants = frames[u].wants /\ frames'[u].phase = frames[u].phase
                        /\ frames'[u].kind = frames[u].kind
    BY <2>1, <2>2 DEF Joined, SameFrame
  <2> QED BY <1>0, <2>1, <2>3, HistorySame DEF BuildPc, orderVars, pastVars, clientVars
<1>2. CASE CalmStep
  BY <1>2, CalmStepIs, <1>0, HistorySame DEF orderVars, pastVars, clientVars, BuildPc
<1>3. CASE Generate
  BY <1>3, GenerateIs, OneChanged, <1>0, HistorySame DEF BuildPc, SameBuild, orderVars, pastVars, clientVars
<1>4. CASE RequireBuffer
  <2>1. PICK t \in Time, g \in FrameRec :
             /\ t = api.frame /\ api.pc = "require" /\ api'.pc = "match" /\ api'.frame = t
             /\ frames[t] \in FrameRec /\ RecordOK(frames[t], t, "require")
             /\ frames' = [frames EXCEPT ![t] = g] /\ SameBuild(frames[t], g)
             /\ g.wants = lastGood /\ g.graph = frames[t].graph /\ g.dep = frames[t].dep
             /\ UNCHANGED <<orderVars, baseOut, available, buffer, busy, clientVars, pastVars>>
    BY <1>4, RequireBufferIs
  <2>2. frames'[t] = g /\ \A u \in Time \ {t} : frames'[u] = frames[u]
    BY <2>1, OneChanged
  <2>3. UNCHANGED <<decoded, lastGood, sent>>
    BY <2>1 DEF orderVars, pastVars, clientVars
  <2>4. frames[t].good /\ frames[t].graph = "temporal"
    BY <2>1 DEF RecordOK, GraphOK
  <2>5. /\ Len(decoded) > 0 /\ decoded[Len(decoded)] = t
        /\ lastGood = LastDecoded(Len(decoded) - 1)
    BY <2>1, <2>4 DEF DecodedOK, BuildPc
  <2>6. lastGood # Unset /\ Len(decoded) \in Nat
    BY TypesHold, LenProperties DEF Invalid, Unset
  <2>7. Apart(decoded)' /\ \A u : In(decoded, u)' <=> In(decoded, u)
    BY <2>3 DEF DecodedOK, Apart, In
  <2>8. \A n : LastDecoded(n)' = LastDecoded(n)
    BY <2>3 DEF LastDecoded
  <2>9. \A u \in Time : frames'[u].phase = frames[u].phase /\ frames'[u].kind = frames[u].kind
    BY <2>1, <2>2 DEF SameBuild
  <2>10. /\ api'.pc \in BuildPc /\ frames'[api'.frame].good
         /\ Len(decoded') > 0 /\ decoded'[Len(decoded')] = api'.frame
         /\ lastGood' = LastDecoded(Len(decoded) - 1)'
    BY <2>1, <2>2, <2>3, <2>4, <2>5, <2>8 DEF BuildPc, SameBuild
  <2>11. \A u \in Time : frames'[u].wants # Unset
         => \E i \in 1 .. Len(decoded') : decoded'[i] = u /\ frames'[u].wants = LastDecoded(i - 1)'
    BY <2>2, <2>3, <2>8, <2>1, <2>5, <2>6 DEF DecodedOK
  <2>12. api'.pc = "match" => frames'[api'.frame].wants # Unset
    BY <2>1, <2>2, <2>6
  <2> QED BY <2>3, <2>7, <2>9, <2>10, <2>11, <2>12 DEF DecodedOK
<1>5. CASE MatchBuffer
  <2>1. PICK t \in Time, g \in FrameRec :
             /\ t = api.frame /\ api.pc = "match" /\ api'.pc = "findBase" /\ api'.frame = t
             /\ frames' = [frames EXCEPT ![t] = g]
             /\ g.phase = frames[t].phase /\ g.good = frames[t].good
             /\ g.kind = frames[t].kind /\ g.wants = frames[t].wants
             /\ UNCHANGED <<decoded, lastGood, sent>>
    BY ZenonT(40), <1>5, MatchBufferIs DEF orderVars, pastVars, clientVars
  <2>2. frames'[t] = g /\ \A u \in Time \ {t} : frames'[u] = frames[u]
    BY <2>1, OneChanged
  <2> QED BY <1>0, <2>1, <2>2, HistorySame DEF BuildPc
<1>6. CASE FindBase
  <2>1. PICK t \in Time, g \in FrameRec :
             /\ t = api.frame /\ api.pc = "findBase" /\ api'.pc = "start"
             /\ frames' = [frames EXCEPT ![t] = g]
             /\ g.phase = frames[t].phase /\ g.good = frames[t].good
             /\ g.kind = frames[t].kind /\ g.wants = frames[t].wants
             /\ lastGood' = (IF frames[t].good THEN t ELSE lastGood)
             /\ UNCHANGED <<decoded, sent>>
    BY <1>6, FindBaseIs DEF pastVars, clientVars
  <2>2. frames'[t] = g /\ \A u \in Time \ {t} : frames'[u] = frames[u]
    BY <2>1, OneChanged
  <2>3. lastGood' = LastDecoded(Len(decoded))'
    BY <2>1 DEF DecodedOK, BuildPc, LastDecoded
  <2>4. Apart(decoded)' /\ \A u : In(decoded, u)' <=> In(decoded, u)
    BY <2>1 DEF DecodedOK, Apart, In
  <2>5. \A n : LastDecoded(n)' = LastDecoded(n)
    BY <2>1 DEF LastDecoded
  <2>6. \A u \in Time : frames'[u].phase = frames[u].phase /\ frames'[u].kind = frames[u].kind
                       /\ frames'[u].wants = frames[u].wants
    BY <2>1, <2>2
  <2>7. \A u \in Time : frames'[u].wants # Unset
         => \E i \in 1 .. Len(decoded') : decoded'[i] = u /\ frames'[u].wants = LastDecoded(i - 1)'
    BY <2>1, <2>5, <2>6 DEF DecodedOK
  <2>8. api'.pc \notin BuildPc /\ api'.pc # "match"
    BY <2>1 DEF BuildPc
  <2> QED BY <2>1, <2>3, <2>4, <2>6, <2>7, <2>8 DEF DecodedOK
<1>7. CASE ReceiveTake
  BY <1>7, ReceiveTakeIs, <1>0, HistorySame DEF pastVars, clientVars, BuildPc
<1>8. CASE FreeFrame
  <2>1. PICK t \in Time :
             /\ api.pc = "free" /\ api'.pc = "idle"
             /\ frames' = [frames EXCEPT ![t] = NewFrame]
             /\ UNCHANGED <<decoded, lastGood, sent>>
    BY <1>8, FreeFrameIs DEF orderVars, pastVars
  <2>2. frames'[t] = NewFrame /\ \A u \in Time \ {t} : frames'[u] = frames[u]
    BY <2>1, OneChanged
  <2>3. NewFrame.wants = Unset /\ NewFrame.phase = "None"
    BY BlankRecord
  <2> QED BY <1>0, <2>1, <2>2, <2>3, HistorySame DEF BuildPc
<1> QED BY <1>1, <1>2, <1>3, <1>4, <1>5, <1>6, <1>7, <1>8, StartHistory DEF ApiStep, CalmStep

LEMMA NextHistory ==
    ASSUME TypeInv, Core, DecodedOK, [Next]_vars
    PROVE  DecodedOK'
BY HistorySame, WorkerHistory, CallHistory, StepHistory DEF vars, orderVars, pastVars, clientVars, Core,
   Next

-----------------------------------------------------------------------------
(* The temporal buffer. *)

(* The frame that has the residuals last: the holder, or who let them go. *)
Latest == IF buffer.owner = NoFrame THEN kept ELSE buffer.owner
HandOvers == {b \in busy : b.task # "BaseDone"}
Had(t) == "temporal" \in frames[t].met \/ frames[t].holds

HoldersOK ==
    /\ \A t \in Time : frames[t].holds <=> buffer.owner = t
    /\ buffer.owner = NoFrame => buffer.stamp = kept
    /\ \A t \in Time : frames[t].holds => frames[t].wants # Unset /\ "Release" \notin frames[t].met
    /\ \A t \in Time : frames[t].holds /\ frames[t].kind = "temporal" => kept = frames[t].wants

(* No frame has had the residuals that was started after the one that has   *)
(* them now.                                                                *)
LatestOK ==
    \A i \in 1 .. Len(decoded) :
        Had(decoded[i]) => \E j \in 1 .. Len(decoded) : i <= j /\ decoded[j] = Latest

(* At most one frame is about to be told that it holds the buffer. *)
HandOversOK ==
    /\ \A b \in HandOvers : /\ b.next \in Time /\ buffer.owner = b.next
                            /\ "temporal" \notin frames[b.next].met
    /\ \A b, c \in HandOvers : b = c

BufferOK == HoldersOK /\ LatestOK /\ HandOversOK

LEMMA BufferSame ==
    ASSUME TypeInv, BufferOK, UNCHANGED <<buffer, kept>>,
           \/ decoded' = decoded
           \/ \E t \in Time : decoded' = Append(decoded, t) /\ ~Had(t)',
           HandOvers' \subseteq HandOvers,
           \A u \in Time :
               /\ frames'[u].holds = frames[u].holds
               /\ frames[u].holds => frames'[u].wants = frames[u].wants /\ frames'[u].kind = frames[u].kind
               /\ "temporal" \in frames'[u].met => "temporal" \in frames[u].met
               /\ "Release" \in frames'[u].met => "Release" \in frames[u].met \/ ~frames[u].holds
    PROVE  BufferOK'
<1>1. HoldersOK'
  BY DEF BufferOK, HoldersOK
<1>2. HandOversOK'
  BY DEF BufferOK, HandOversOK
<1>3. \A u \in Time : Had(u)' => Had(u)
  BY DEF Had
<1>4. Latest' = Latest
  BY DEF Latest
<1>5. decoded \in Seq(Time) /\ Len(decoded) \in Nat
  BY TypesHold, LenProperties
<1>6. LatestOK'
  BY <1>5, ElementOfSeq, <1>3, <1>4, QueueAppend DEF Had, BufferOK, LatestOK
<1> QED BY <1>1, <1>2, <1>6 DEF BufferOK

(* A holder that runs a task which may release the buffer has been told. *)
LEMMA HolderRuns ==
    ASSUME TypeInv, Core, BufferOK, NEW t \in Time, frames[t].holds,
           NEW k \in {"Add", "Release"}, Runnable(t, k)
    PROVE  "temporal" \in frames[t].met /\ HandOvers = {} /\ buffer.owner = t
BY FrameIs, MadeFrame DEF Runnable, Core, Needs, BufferOK, HoldersOK, HandOversOK

LEMMA LetGoBuffer ==
    ASSUME TypeInv, Core, BufferOK, WorkerEffect, NEW t \in Time, NEW k \in {"Add", "Release"},
           Runnable(t, k), LetGo(t, k)
    PROVE  BufferOK'
<1>1. /\ frames[t].holds /\ UNCHANGED busy
      /\ kept' = t /\ buffer' = [owner |-> NoFrame, stamp |-> t]
      /\ frames'[t].holds = FALSE
      /\ \A u \in Time \ {t} : frames'[u].holds = frames[u].holds
      /\ \A u \in Time : frames'[u].met = frames[u].met \cup (IF u = t THEN {k} ELSE {})
  BY DEF LetGo
<1>2. HandOvers = {} /\ buffer.owner = t
  BY <1>1, HolderRuns
<1>3. NoFrame \notin Time
  BY TypesHold
<1>4. \A u \in Time : ~frames'[u].holds
  BY <1>1, <1>2, <1>3 DEF BufferOK, HoldersOK
<1>5. HoldersOK'
  BY <1>1, <1>3, <1>4 DEF HoldersOK
<1>6. HandOversOK'
  BY <1>1, <1>2 DEF HandOvers, HandOversOK
<1>7. LatestOK'
  <2>1. Latest = t /\ Latest' = t
    BY ONLY <1>1, <1>2, <1>3, t \in Time DEF Latest
  <2>2. decoded' = decoded /\ decoded \in Seq(Time) /\ Len(decoded) \in Nat
    BY TypesHold, LenProperties DEF WorkerEffect
  <2>3. \A u \in Time : Had(u)' => Had(u)
    BY ONLY <1>1, <1>4, k \in {"Add", "Release"} DEF Had
  <2>4. \A i \in 1 .. Len(decoded) : decoded[i] \in Time
    BY <2>2, ElementOfSeq
  <2>5. \A i \in 1 .. Len(decoded) :
            Had(decoded[i]) => \E j \in 1 .. Len(decoded) : i <= j /\ decoded[j] = Latest
    BY DEF BufferOK, LatestOK
  <2>6. \A i \in 1 .. Len(decoded) : Had(decoded[i])' => Had(decoded[i])
    BY <2>2, <2>3, <2>4
  <2> HIDE DEF Latest
  <2> QED BY <2>1, <2>2, <2>5, <2>6 DEF LatestOK
<1> QED BY <1>5, <1>6, <1>7 DEF BufferOK

(* The good frame after the one that holds the buffer never had it. *)
LEMMA NextNeverHad ==
    ASSUME TypeInv, Core, DecodedOK, BufferOK,
           NEW t \in Time, frames[t].holds, NEW n \in Time, frames[n].wants = t
    PROVE  /\ n # t /\ ~Had(n) /\ "Release" \notin frames[n].met
           /\ \E m \in 1 .. Len(decoded) : /\ decoded[m] = n /\ m - 1 \in 1 .. Len(decoded)
                                           /\ decoded[m - 1] = t
<1>1. PICK m \in 1 .. Len(decoded) : decoded[m] = n /\ t = LastDecoded(m - 1)
  BY TypesHold DEF DecodedOK
<1>2. decoded \in Seq(Time) /\ Len(decoded) \in Nat /\ Invalid \notin Time
  BY TypesHold, LenProperties
<1>3. m - 1 \in 1 .. Len(decoded) /\ decoded[m - 1] = t
  BY <1>1, <1>2 DEF LastDecoded
<1>4. Apart(decoded)
  BY DEF DecodedOK
<1>5. n # t
  <2>1. m - 1 # m
    BY <1>2
  <2> QED BY <1>1, <1>3, <1>4, <2>1 DEF Apart
<1>6. Latest = t
  BY TypesHold DEF BufferOK, HoldersOK, Latest
<1>7. ~Had(n)
  BY <1>1, <1>6, <1>3, <1>4, <1>2 DEF BufferOK, LatestOK, Apart
<1>8. "Release" \notin frames[n].met
  BY FrameIs, <1>7, MadeFrame DEF Core, Had
<1> QED BY <1>1, <1>3, <1>5, <1>7, <1>8

LEMMA HandToBuffer ==
    ASSUME TypeInv, Core, DecodedOK, BufferOK, WorkerEffect,
           NEW t \in Time, NEW k \in {"Add", "Release"}, Runnable(t, k),
           NEW n \in Time, HandTo(t, k, n), ~strayed'
    PROVE  BufferOK'
<1>1. /\ frames[t].holds /\ frames[n].wants = t
      /\ kept' = t /\ buffer' = [owner |-> n, stamp |-> t]
      /\ busy' = busy \cup {[frame |-> t, task |-> k, next |-> n]}
      /\ \A u \in Time : frames'[u].met = frames[u].met
      /\ frames'[n].holds = TRUE
      /\ \A u \in Time \ {n} : frames'[u].holds = IF u = t THEN FALSE ELSE frames[u].holds
  BY DEF HandTo, Filled
<1>2. HandOvers = {} /\ buffer.owner = t
  BY <1>1, HolderRuns
<1>3. NoFrame \notin Time /\ Unset \notin Time
  BY TypesHold
<1>4. n # t /\ ~Had(n) /\ "Release" \notin frames[n].met
  BY <1>1, NextNeverHad
<1>5. PICK m \in 1 .. Len(decoded) : /\ decoded[m] = n /\ m - 1 \in 1 .. Len(decoded)
                                     /\ decoded[m - 1] = t
  BY <1>1, NextNeverHad
<1>6. \A u \in Time : frames'[u].wants = frames[u].wants
  BY DEF WorkerEffect, Progress, SameMake
<1>7. \A u \in Time : frames'[u].holds <=> u = n
  BY <1>1, <1>2 DEF BufferOK, HoldersOK
<1>8. HoldersOK'
  BY <1>1, <1>3, <1>4, <1>6, <1>7 DEF HoldersOK
<1>9. HandOversOK'
  BY <1>1, <1>2, <1>4 DEF HandOvers, Had, HandOversOK
<1>10. LatestOK'
  <2>1. Latest' = n /\ Latest = t
    BY <1>1, <1>2, <1>3 DEF Latest
  <2>2. decoded' = decoded /\ decoded \in Seq(Time) /\ Len(decoded) \in Nat
    BY TypesHold, LenProperties DEF WorkerEffect
  <2>3. \A u \in Time : Had(u)' => Had(u) \/ u = n
    BY <1>1, <1>7 DEF Had
  <2>4. ASSUME NEW i \in 1 .. Len(decoded), NEW u \in Time, u = decoded[i], Had(u)'
        PROVE  \E j \in 1 .. Len(decoded) : i <= j /\ decoded[j] = Latest'
    <3>1. CASE u = n
      <4>1. i <= i /\ decoded[i] = Latest'
        BY <2>1, <2>2, <2>4, <3>1
      <4> QED BY <4>1
    <3>2. CASE u # n
      BY <2>3, <2>4, <3>2, <2>1, <1>5, <2>2 DEF BufferOK, LatestOK, DecodedOK, Apart
    <3> QED BY <3>1, <3>2
  <2>5. \A i \in 1 .. Len(decoded) : decoded[i] \in Time
    BY <2>2, ElementOfSeq
  <2> QED BY <2>2, <2>4, <2>5 DEF LatestOK, Had
<1> QED BY <1>8, <1>9, <1>10 DEF BufferOK

LEMMA HandOverBuffer ==
    ASSUME TypeInv, Core, BufferOK, NEW b \in busy, HandOver(b)
    PROVE  BufferOK'
<1>1. /\ WorkerEffect /\ busy' = busy \ {b} /\ UNCHANGED <<kept, strayed>>
      /\ b.frame \in Time /\ b.next \in Time /\ b.task \in {"Add", "Release"}
      /\ buffer' = [buffer EXCEPT !.stamp = Filled(frames[b.next].wants)]
      /\ \A u \in Time : frames'[u].holds = frames[u].holds
      /\ \A u \in Time : frames'[u].met =
            frames[u].met \cup (IF u = b.next /\ frames[u].dep THEN {"temporal"} ELSE {})
                          \cup (IF u = b.frame THEN {b.task} ELSE {})
  BY HandOverEffect DEF Core
<1>2. b \in HandOvers
  BY <1>1 DEF HandOvers
<1>3. buffer.owner = b.next /\ "temporal" \notin frames[b.next].met /\ HandOvers = {b}
  BY <1>2 DEF BufferOK, HandOversOK
<1>4. buffer'.owner = b.next
  BY <1>1, <1>3 DEF TypeInv, TypeOK
<1>5. b.frame # b.next
  BY <1>1, FrameIs, MadeFrame, <1>3 DEF Core, BusyOK, Needs
<1>6. \A u \in Time : /\ frames'[u].wants = frames[u].wants /\ frames'[u].kind = frames[u].kind
  BY <1>1 DEF WorkerEffect, Progress, SameMake
<1>7. NoFrame \notin Time
  BY TypesHold
<1>8. HoldersOK'
  BY <1>1, <1>3, <1>5, <1>4, <1>6, <1>7 DEF BufferOK, HoldersOK
<1>9. HandOversOK'
  BY <1>1, <1>3 DEF HandOvers, HandOversOK
<1>10. LatestOK'
  <2>1. Latest' = Latest
    BY <1>1, <1>3, <1>4, <1>7 DEF Latest
  <2>2. decoded' = decoded /\ decoded \in Seq(Time)
    BY <1>1, TypesHold DEF WorkerEffect
  <2>3. \A u \in Time : Had(u)' => Had(u)
    BY <1>1, <1>3 DEF Had, BufferOK, HoldersOK
  <2>4. ASSUME NEW i \in 1 .. Len(decoded), NEW u \in Time, u = decoded[i], Had(u)'
        PROVE  \E j \in 1 .. Len(decoded) : i <= j /\ decoded[j] = Latest'
    BY <2>3, <2>4, <2>1 DEF BufferOK, LatestOK
  <2>5. \A i \in 1 .. Len(decoded) : decoded[i] \in Time
    BY <2>2, ElementOfSeq
  <2> QED BY <2>2, <2>4, <2>5 DEF LatestOK, Had
<1> QED BY <1>8, <1>9, <1>10 DEF BufferOK

(* A frame finds the buffer free and takes it. *)
LEMMA MatchedBuffer ==
    ASSUME TypeInv, Core, DecodedOK, BufferOK, NEW t \in Time, NEW g \in FrameRec,
           t = api.frame, api.pc = "match", RecordOK(frames[t], t, "match"), frames[t] \in FrameRec,
           frames' = [frames EXCEPT ![t] = g],
           buffer.owner = NoFrame,
           buffer.stamp = g.wants \/ (g.kind = "refresh" /\ buffer.stamp = Invalid),
           g.holds = TRUE, g.met = frames[t].met \cup {"temporal"},
           g.wants = frames[t].wants, g.kind = frames[t].kind,
           buffer' = [owner |-> t, stamp |-> g.wants], UNCHANGED <<busy, decoded, kept>>
    PROVE  BufferOK'
<1>1. frames'[t] = g /\ \A u \in Time \ {t} : frames'[u] = frames[u]
  BY OneChanged
<1>2. NoFrame \notin Time
  BY TypesHold
<1>3. HandOvers = {}
  BY <1>2 DEF BufferOK, HandOversOK
<1>4. frames[t].wants # Unset
  BY DEF DecodedOK
<1>5. "Release" \notin frames[t].met
  BY DEF RecordOK, TasksOK, Made, Task
<1>6. \A u \in Time : ~frames[u].holds
  BY <1>2 DEF BufferOK, HoldersOK
<1>7. HoldersOK'
  BY <1>1, <1>6, <1>4, <1>5, <1>2 DEF BufferOK, HoldersOK
<1>8. HandOversOK'
  BY <1>3 DEF HandOvers, HandOversOK
<1>9. LatestOK'
  <2>1. frames[t].good
    BY DEF RecordOK, GraphOK
  <2>2. Len(decoded) > 0 /\ decoded[Len(decoded)] = t
    BY <2>1 DEF DecodedOK, BuildPc
  <2>3. Latest' = t
    BY <1>2 DEF Latest
  <2>4. Len(decoded) \in Nat
    BY TypesHold, LenProperties
  <2>5. \A i \in 1 .. Len(decoded) : \E j \in 1 .. Len(decoded) : i <= j /\ decoded[j] = t
    BY <2>2, <2>4
  <2> QED BY <2>3, <2>5 DEF LatestOK
<1> QED BY <1>7, <1>8, <1>9 DEF BufferOK

LEMMA WorkerBuffer ==
    ASSUME TypeInv, Core, DecodedOK, BufferOK, WorkerStep, ~strayed'
    PROVE  BufferOK'
<1>1. ASSUME WorkerEffect, BufferKept, HandOvers' \subseteq HandOvers PROVE BufferOK'
  BY <1>1, BufferSame DEF WorkerEffect, BufferKept, Progress, SameMake
<1>2. ASSUME NEW t \in Time, RunRead(t) PROVE BufferOK'
  BY <1>2, RunReadEffect, <1>1 DEF Core, HandOvers
<1>3. ASSUME NEW t \in Time, RunSlices(t) \/ RunAdd(t) PROVE BufferOK'
  BY <1>3, RunSlicesEffect, <1>1 DEF RunSlices, RunAdd, Core, HandOvers
<1>4. ASSUME NEW t \in Time, RunOutputDone(t) PROVE BufferOK'
  BY <1>4, RunOutputDoneEffect, <1>1 DEF Core, HandOvers
<1>5. ASSUME NEW t \in Time, NEW k \in {"Add", "Release"}, RunRelease(t, k) PROVE BufferOK'
  <2>1. /\ WorkerEffect
        /\ ReleaseNothing(t, k) \/ LetGo(t, k) \/ \E n \in Time : HandTo(t, k, n)
    BY <1>5, RunReleaseEffect DEF Core
  <2>2. Runnable(t, k)
    BY <1>5 DEF RunRelease
  <2>3. CASE ReleaseNothing(t, k)
    BY <2>3, <2>1, BufferSame DEF ReleaseNothing, HandOvers, WorkerEffect, Progress, SameMake
  <2> QED BY <2>1, <2>2, <2>3, LetGoBuffer, HandToBuffer
<1>6. ASSUME NEW b \in busy, HandOver(b) PROVE BufferOK'
  BY <1>6, HandOverBuffer
<1>7. ASSUME NEW t \in Time, GiveBack(t), "BaseDone" \in frames[t].added \ frames[t].met,
             Needs(frames[t], "BaseDone") \subseteq frames[t].met, HandOvers' \subseteq HandOvers,
             UNCHANGED <<orderVars, available, buffer, api, clientVars, pastVars>>
      PROVE  BufferOK'
  BY FrameIs, <1>7, UnmadeFrame, GiveBackEffect, <1>1 DEF Core, RecordOK, GraphOK
<1>8. ASSUME NEW t \in Time, RunBaseDone(t) PROVE BufferOK'
  BY <1>8, <1>7, BufferSame DEF RunBaseDone, Runnable, HandOvers, pastVars
<1>9. ASSUME NEW b \in busy, PushBase(b) PROVE BufferOK'
  <2>1. /\ b.frame \in Time /\ b.task = "BaseDone"
        /\ "BaseDone" \in frames[b.frame].added \ frames[b.frame].met
        /\ Needs(frames[b.frame], "BaseDone") \subseteq frames[b.frame].met
    BY <1>9 DEF PushBase, Core, BusyOK, TypeInv, TypeOK
  <2>2. /\ GiveBack(b.frame) /\ busy' = busy \ {b}
        /\ UNCHANGED <<orderVars, available, buffer, api, clientVars, pastVars>>
    BY <1>9 DEF PushBase
  <2>3. HandOvers' \subseteq HandOvers
    BY <2>2 DEF HandOvers
  <2> QED BY <1>7, <2>1, <2>2, <2>3
<1> QED BY <1>2, <1>3, <1>4, <1>5, <1>6, <1>8, <1>9 DEF WorkerStep

(* A frame that asks for no buffer holds none. *)
LEMMA NotHolding ==
    ASSUME BufferOK, NEW t \in Time, frames[t].wants = Unset
    PROVE  ~frames[t].holds
BY DEF BufferOK, HoldersOK

LEMMA CallBuffer ==
    ASSUME TypeInv, Core, BufferOK, ClientCall
    PROVE  BufferOK'
<1>1. ASSUME UNCHANGED <<buffer, kept, decoded, busy>>, NEW t \in Time, ~Live(t), NEW g,
             frames' = [frames EXCEPT ![t] = g], g.holds = FALSE,
             "temporal" \notin g.met, "Release" \notin g.met
      PROVE  BufferOK'
  <2>1. frames'[t] = g /\ \A u \in Time \ {t} : frames'[u] = frames[u]
    BY <1>1, OneChanged
  <2>2. frames[t].holds = FALSE
    BY <1>1, TypesHold, NotLive, NotHolding, FrameFields
  <2>3. HandOvers' \subseteq HandOvers
    BY <1>1 DEF HandOvers
  <2> QED BY <1>1, <2>1, <2>2, <2>3, BufferSame
<1>2. ASSUME UNCHANGED <<buffer, kept, decoded, busy>>,
             \A u \in Time : /\ frames'[u].holds = frames[u].holds /\ frames'[u].wants = frames[u].wants
                             /\ frames'[u].kind = frames[u].kind
                             /\ frames'[u].met \subseteq frames[u].met \cup {"base", "output"}
      PROVE  BufferOK'
  BY <1>2, BufferSame DEF HandOvers
<1>3. ASSUME NEW t \in Time, NEW kind \in Kinds, SendEnhancement(t, kind) PROVE BufferOK'
  BY <1>3, SendEnhancementIs, <1>1 DEF pastVars
<1>4. ASSUME NEW t \in Time, SendBaseAlone(t) PROVE BufferOK'
  <2>1. PICK g \in FrameRec :
             /\ api.pc = "idle" /\ api'.pc = "start" /\ ~Live(t) /\ t \notin sent.base
             /\ frames' = [frames EXCEPT ![t] = g]
             /\ g.phase = "Reorder" /\ g.kind = "bad" /\ g.met = {"base"} /\ g.holds = FALSE
             /\ g.wants = Unset /\ g.base = t /\ g.output = NoPic
             /\ sent' = [sent EXCEPT !.base = @ \cup {t}]
             /\ UNCHANGED <<processing, previous, lastGood, configured, baseOut, available,
                            buffer, busy, returned, owned, pastVars>>
    BY <1>4, SendBaseAloneIs
  <2> QED BY <1>1, <2>1 DEF pastVars
<1>5. ASSUME NEW t \in Time, SendBase(t) PROVE BufferOK'
  BY <1>5, SendBaseIs, <1>2 DEF pastVars, Alike, SameMake, Joined, SameFrame
<1>6. ASSUME NEW p \in Pic, SendOutput(p) PROVE BufferOK'
  BY <1>2, <1>6 DEF SendOutput, pastVars
<1>7. ASSUME FlagCall PROVE BufferOK'
  BY <1>2, <1>7 DEF FlagCall, Alike, SameMake, pastVars
<1>8. ASSUME NEW t \in Time, MakeReady(t) \/ Skip(t) PROVE BufferOK'
  BY <1>7, <1>8, FlagCalls
<1>9. ASSUME NEW drop \in BOOLEAN, Synchronize(drop) PROVE BufferOK'
  BY <1>7, <1>9, SynchronizeFlags
<1>10. CASE ReceiveBase \/ ReceiveOutput
  BY <1>2, <1>10 DEF ReceiveBase, ReceiveOutput, pastVars
<1> QED BY <1>3, <1>4, <1>5, <1>6, <1>8, <1>9, <1>10 DEF ClientCall

LEMMA StartBuffer ==
    ASSUME TypeInv, Core, BufferOK, StartFrame
    PROVE  BufferOK'
<1>1. PICK t \in Time, good \in BOOLEAN, passthrough \in BOOLEAN, g \in FrameRec :
             /\ reorder # <<>> /\ t = Head(reorder) /\ frames[t].phase = "Reorder"
             /\ g = [frames[t] EXCEPT !.phase = "Processing", !.good = good, !.passthrough = passthrough]
             /\ frames' = [frames EXCEPT ![t] = g]
             /\ good => frames[t].kind # "bad" /\ decoded' = Append(decoded, t)
             /\ ~good => passthrough /\ decoded' = decoded
             /\ reorder' = Tail(reorder) /\ processing' = Append(processing, t)
             /\ api' \in ApiRec /\ api'.pc = "generate" /\ api'.frame = t
  BY StartFrameIs
<1>2. frames[t] \in FrameRec
  BY TypesHold
<1>3. /\ g.kind = frames[t].kind /\ g.wants = frames[t].wants /\ g.met = frames[t].met
      /\ g.holds = frames[t].holds
  BY ONLY <1>1, <1>2 DEF FrameRec
<1>4. frames'[t] = g /\ \A u \in Time \ {t} : frames'[u] = frames[u]
  BY <1>1, OneChanged
<1>5. frames[t].wants = Unset /\ "temporal" \notin frames[t].met
  BY <1>1, FrameIs, <1>2, UnmadeFrame DEF Core, Stage
<1>6. ~frames[t].holds
  BY <1>5, NotHolding
<1>7. UNCHANGED <<buffer, kept, busy>>
  BY DEF StartFrame
<1>8. HandOvers' \subseteq HandOvers
  BY <1>7 DEF HandOvers
<1>9. ~Had(t)'
  BY <1>3, <1>4, <1>5, <1>6 DEF Had
<1>10. decoded' = decoded \/ \E u \in Time : decoded' = Append(decoded, u) /\ ~Had(u)'
  BY <1>1, <1>9
<1>11. \A u \in Time :
          /\ frames'[u].holds = frames[u].holds
          /\ frames[u].holds => frames'[u].wants = frames[u].wants /\ frames'[u].kind = frames[u].kind
          /\ "temporal" \in frames'[u].met => "temporal" \in frames[u].met
          /\ "Release" \in frames'[u].met => "Release" \in frames[u].met \/ ~frames[u].holds
  BY <1>3, <1>4
<1> QED BY <1>7, <1>8, <1>10, <1>11, BufferSame

(* A frame that is freed has released the buffer: its release is done. *)
LEMMA FreedHoldsNothing ==
    ASSUME TypeInv, Core, BufferOK, NEW t \in Time, t = api.frame, api.pc = "free",
           frames[t].phase = "Done", frames[t].added \subseteq frames[t].met
    PROVE  frames[t].holds = FALSE
BY FrameIs, FrameFields DEF Core, Stage, Building, BufferOK, HoldersOK, RecordOK, GraphOK, TasksOK, Made

LEMMA StepBuffer ==
    ASSUME TypeInv, Core, DecodedOK, BufferOK, ApiStep
    PROVE  BufferOK'
<1>1. ASSUME UNCHANGED <<buffer, kept, decoded, busy>>, NEW t \in Time, NEW g,
             frames' = [frames EXCEPT ![t] = g], g.holds = frames[t].holds,
             frames[t].holds => g.wants = frames[t].wants /\ g.kind = frames[t].kind,
             "temporal" \in g.met => "temporal" \in frames[t].met,
             "Release" \in g.met => "Release" \in frames[t].met
      PROVE  BufferOK'
  BY <1>1, OneChanged, BufferSame DEF HandOvers
<1>2. ASSUME UNCHANGED <<buffer, kept, decoded, busy, frames>> PROVE BufferOK'
  BY <1>2, BufferSame DEF HandOvers
<1>3. CASE ConnectOutput
  BY <1>3, ConnectOutputIs, <1>1 DEF Joined, SameFrame, pastVars
<1>4. CASE CalmStep
  BY <1>2, <1>4, CalmStepIs DEF pastVars
<1>5. CASE Generate
  BY <1>5, GenerateIs, <1>1 DEF SameBuild, pastVars
<1>6. CASE RequireBuffer
  BY <1>6, RequireBufferIs, NotHolding, <1>1 DEF RecordOK, GraphOK, SameBuild, pastVars
<1>7. CASE MatchBuffer
  <2>1. PICK t \in Time, g \in FrameRec :
             /\ t = api.frame /\ api.pc = "match" /\ frames[t] \in FrameRec
             /\ RecordOK(frames[t], t, "match") /\ frames' = [frames EXCEPT ![t] = g]
             /\ g.kind = frames[t].kind /\ g.wants = frames[t].wants
             /\ \/ /\ buffer.owner = NoFrame
                   /\ buffer.stamp = g.wants \/ (g.kind = "refresh" /\ buffer.stamp = Invalid)
                   /\ g.holds = TRUE /\ g.met = frames[t].met \cup {"temporal"}
                   /\ buffer' = [owner |-> t, stamp |-> g.wants]
                \/ g.holds = frames[t].holds /\ g.met = frames[t].met /\ UNCHANGED buffer
             /\ UNCHANGED <<busy, decoded, kept>>
    BY ZenonT(40), <1>7, MatchBufferIs DEF pastVars
  <2>2. CASE UNCHANGED buffer /\ g.holds = frames[t].holds /\ g.met = frames[t].met
    BY <1>1, <2>1, <2>2
  <2>3. CASE /\ buffer.owner = NoFrame
             /\ buffer.stamp = g.wants \/ (g.kind = "refresh" /\ buffer.stamp = Invalid)
             /\ g.holds = TRUE /\ g.met = frames[t].met \cup {"temporal"}
             /\ buffer' = [owner |-> t, stamp |-> g.wants]
    BY <2>1, <2>3, MatchedBuffer
  <2> QED BY <2>1, <2>2, <2>3
<1>8. CASE FindBase
  BY <1>8, FindBaseIs, <1>1 DEF pastVars
<1>9. CASE ReceiveTake
  BY <1>2, <1>9, ReceiveTakeIs DEF pastVars
<1>10. CASE FreeFrame
  <2>1. PICK t \in Time :
             /\ t = api.frame /\ api.pc = "free" /\ frames[t].phase = "Done"
             /\ frames[t].added \subseteq frames[t].met
             /\ frames' = [frames EXCEPT ![t] = NewFrame]
             /\ UNCHANGED <<buffer, busy, decoded, kept>>
    BY <1>10, FreeFrameIs DEF pastVars
  <2>2. frames[t].holds = FALSE
    BY <2>1, FreedHoldsNothing
  <2>3. NewFrame.holds = FALSE /\ NewFrame.met = {}
    BY BlankRecord
  <2> QED BY <1>1, <2>1, <2>2, <2>3
<1> QED BY <1>3, <1>4, <1>5, <1>6, <1>7, <1>8, <1>9, <1>10, StartBuffer DEF ApiStep, CalmStep

(* The buffer goes astray only when a good frame with timestamp 0 releases  *)
(* it, and then it stays so.                                               *)
LEMMA NextDecoded ==
    ASSUME TypeInv, Core, [Next]_vars
    PROVE  \A t : In(decoded, t) => In(decoded, t)'
<1>1. decoded \in Seq(Time) /\ Len(decoded) \in Nat
  BY TypesHold, LenProperties
<1>2. ASSUME decoded' = decoded PROVE \A t : In(decoded, t) => In(decoded, t)'
  BY <1>2 DEF In
<1>3. CASE StartFrame
  <2>1. PICK t \in Time : decoded' = Append(decoded, t) \/ decoded' = decoded
    BY <1>3, StartFrameIs
  <2>2. ASSUME decoded' = Append(decoded, t) PROVE \A u : In(decoded, u) => In(decoded, u)'
    BY <1>1, <2>2, QueueAppend DEF In
  <2> QED BY <1>2, <2>1, <2>2
<1>4. CASE ApiStep /\ ~StartFrame
  BY <1>2, <1>4 DEF ApiStep, ConnectOutput, OutputConnected, StartEnd, Generate, RequireBuffer,
     MatchBuffer, FindBase, ReceiveTake, ReceiveNothing, FreeFrame, SyncNext, SyncWaited, SyncEnd, pastVars
<1>5. CASE ClientCall
  BY <1>2, <1>5 DEF ClientCall, SendEnhancement, SendBase, SendBaseAlone, SendOutput, MakeReady, Skip,
     Synchronize, ReceiveBase, ReceiveOutput, pastVars
<1>6. CASE WorkerStep
  BY <1>2, <1>6, WorkerIs DEF WorkerEffect
<1> QED BY <1>2, <1>3, <1>4, <1>5, <1>6 DEF Next, vars, pastVars

Strays == strayed => In(decoded, 0)
BufferInv == (~strayed => BufferOK) /\ Strays

LEMMA NextStrayed ==
    ASSUME TypeInv, Core, DecodedOK, BufferInv, [Next]_vars
    PROVE  Strays' /\ (strayed => strayed')
<1>1. ASSUME UNCHANGED strayed PROVE Strays' /\ (strayed => strayed')
  BY <1>1, NextDecoded DEF BufferInv, Strays
<1>2. CASE ApiStep
  BY <1>1, <1>2 DEF ApiStep, ConnectOutput, OutputConnected, StartFrame, StartEnd, Generate, RequireBuffer,
     MatchBuffer, FindBase, ReceiveTake, ReceiveNothing, FreeFrame, SyncNext, SyncWaited, SyncEnd, pastVars
<1>3. CASE ClientCall
  BY <1>1, <1>3 DEF ClientCall, SendEnhancement, SendBase, SendBaseAlone, SendOutput, MakeReady, Skip,
     Synchronize, ReceiveBase, ReceiveOutput, pastVars
<1>4. ASSUME NEW t \in Time, NEW k \in {"Add", "Release"}, RunRelease(t, k)
      PROVE  Strays' /\ (strayed => strayed')
  <2>1. ReleaseNothing(t, k) \/ LetGo(t, k) \/ \E n \in Time : HandTo(t, k, n)
    BY <1>4, RunReleaseEffect DEF Core
  <2>2. CASE ReleaseNothing(t, k) \/ LetGo(t, k)
    BY <1>1, <2>2 DEF ReleaseNothing, LetGo
  <2>3. ASSUME NEW n \in Time, HandTo(t, k, n) PROVE Strays' /\ (strayed => strayed')
    <3>1. /\ strayed' = (strayed \/ frames[n].wants = Unset)
          /\ frames[t].holds /\ Filled(frames[n].wants) = t
      BY <2>3 DEF HandTo
    <3>2. CASE strayed
      BY <3>1, <3>2, NextDecoded DEF BufferInv, Strays
    <3>3. CASE ~strayed /\ frames[n].wants = Unset
      <4>1. t = 0
        BY <3>1, <3>3 DEF Filled
      <4>2. In(decoded, t)
        BY <3>1, <3>3 DEF BufferInv, BufferOK, HoldersOK, DecodedOK, In
      <4> QED BY <3>1, <3>3, <4>1, <4>2, NextDecoded DEF Strays
    <3>4. CASE ~strayed /\ frames[n].wants # Unset
      BY <3>1, <3>4 DEF Strays
    <3> QED BY <3>2, <3>3, <3>4
  <2> QED BY <2>1, <2>2, <2>3
<1>5. CASE WorkerStep /\ ~\E t \in Time, k \in {"Add", "Release"} : RunRelease(t, k)
  BY <1>1, <1>5 DEF WorkerStep, RunRead, RunSlices, RunAdd, RunOutputDone, RunBaseDone, HandOver, PushBase,
     pastVars
<1> QED BY <1>1, <1>2, <1>3, <1>4, <1>5 DEF Next, vars, pastVars

LEMMA NextBuffer ==
    ASSUME TypeInv, Core, DecodedOK, BufferInv, [Next]_vars
    PROVE  BufferInv'
<1>1. Strays' /\ (strayed => strayed')
  BY NextStrayed
<1>2. ASSUME ~strayed' PROVE BufferOK'
  <2>1. BufferOK
    BY <1>1, <1>2 DEF BufferInv
  <2>2. CASE UNCHANGED vars
    BY <2>1, <2>2, BufferSame DEF vars, pastVars, HandOvers
  <2> QED BY <1>2, <2>1, <2>2, WorkerBuffer, CallBuffer, StepBuffer DEF Next
<1> QED BY <1>1, <1>2 DEF BufferInv

LEMMA InitBuffer ==
    ASSUME Init
    PROVE  DecodedOK /\ BufferInv
<1>1. \A t \in Time : /\ frames[t].wants = Unset /\ frames[t].holds = FALSE /\ frames[t].phase = "None"
                      /\ frames[t].met = {}
  BY BlankRecord DEF Init
<1>2. /\ decoded = <<>> /\ lastGood = Invalid /\ api.pc = "idle" /\ busy = {}
      /\ buffer = [owner |-> NoFrame, stamp |-> Invalid] /\ kept = Invalid
  BY DEF Init
<1>3. NoFrame \notin Time /\ Len(decoded) = 0
  BY <1>2, TimeAssumption DEF NoFrame
<1>4. Apart(decoded) /\ \A t : ~In(decoded, t)
  BY <1>2 DEF Apart, In
<1>5. DecodedOK
  BY <1>1, <1>2, <1>3, <1>4 DEF DecodedOK, LastDecoded, BuildPc
<1>6. BufferOK
  BY <1>1, <1>2, <1>3 DEF BufferOK, HoldersOK, LatestOK, HandOversOK, HandOvers
<1>7. ~strayed
  BY DEF Init
<1> QED BY <1>5, <1>6, <1>7 DEF BufferInv, Strays

(* The invariant about the temporal buffer, for any timestamps: all is well  *)
(* until a frame that did not ask for it is handed the buffer, and the only  *)
(* frame that may hand it so is a good one with timestamp 0.                 *)
THEOREM BufferInvariant ==
    Spec => [](TypeInv /\ Core /\ DecodedOK /\ BufferInv)
<1>1. TypeInv /\ Core /\ DecodedOK /\ BufferInv /\ [Next]_vars => (DecodedOK /\ BufferInv)'
  BY NextHistory, NextBuffer
<1>2. Init => DecodedOK /\ BufferInv
  BY InitBuffer
<1> QED BY <1>1, <1>2, CoreInvariant, PTL DEF Spec

(* The temporal buffer and the frames agree on who holds it, and one frame   *)
(* holds it at most, through matches by the API thread and hand-overs by the *)
(* tasks of any number of workers.                                           *)
THEOREM BufferAlwaysHasOneHolder ==
    Spec => []BufferHasOneHolder
<1>1. ASSUME TypeInv, BufferOK PROVE BufferHasOneHolder
  <2>1. buffer.owner \in Time \cup {NoFrame}
    BY <1>1 DEF TypeInv, TypeOK
  <2>2. NoFrame \notin Time
    BY TimeAssumption DEF NoFrame
  <2>3. \A t \in Time : frames[t].holds <=> buffer.owner = t
    BY <1>1 DEF BufferOK, HoldersOK
  <2> QED BY <2>1, <2>2, <2>3 DEF BufferHasOneHolder
<1>2. TypeInv /\ BufferInv => BufferHasOneHolder
  BY <1>1 DEF BufferInv, BufferHasOneHolder
<1> QED BY <1>2, BufferInvariant, PTL

(* A frame that adds to earlier residuals gets those of the good frame that  *)
(* was started just before it, and no other.                                 *)
THEOREM ResidualsAlwaysFromPredecessor ==
    Spec => []ResidualsFromPredecessor
<1>1. ASSUME TypeInv, DecodedOK, BufferOK PROVE ResidualsFromPredecessor
  BY <1>1 DEF BufferOK, HoldersOK, DecodedOK, Apart, Predecessor, LastDecoded, ResidualsFromPredecessor
<1>2. TypeInv /\ DecodedOK /\ BufferInv => ResidualsFromPredecessor
  BY <1>1 DEF BufferInv, ResidualsFromPredecessor
<1> QED BY <1>2, BufferInvariant, PTL

(* A task that is half way through belongs to a live frame, and the frame it *)
(* hands the temporal buffer to has not been delivered in the meantime.      *)
THEOREM HandOverTargetAlwaysLives ==
    Spec => []HandOverTargetLives
<1>1. ASSUME TypeInv, Core, BufferInv PROVE HandOverTargetLives
  <2>1. ASSUME NEW b \in busy PROVE Live(b.frame)
    BY <1>1, <2>1, NotLive DEF Core, BusyOK, TypeInv, TypeOK
  <2>2. ASSUME NEW b \in busy, b.next # NoFrame, ~strayed PROVE frames[b.next].phase = "Processing"
    <3>0. BufferOK
      BY <1>1, <2>2 DEF BufferInv
    <3>1. b \in HandOvers
      BY <1>1, <2>2 DEF Core, BusyOK, HandOvers
    <3>2. PICK n \in Time : n = b.next /\ buffer.owner = n /\ "temporal" \notin frames[n].met
      BY <3>0, <3>1 DEF BufferOK, HandOversOK
    <3>3. frames[n].wants # Unset
      BY <3>0, <3>2 DEF BufferOK, HoldersOK
    <3>4. frames[n] \in FrameRec /\ RecordOK(frames[n], n, Stage(n))
      BY <1>1, FrameIs DEF Core
    <3>5. frames[n].graph = "temporal"
      BY <3>3, <3>4 DEF RecordOK, GraphOK
    <3>6. frames[n].phase \notin {"None", "Reorder"}
      BY <3>4, <3>5 DEF RecordOK, GraphOK
    <3>7. frames[n].phase # "Done"
      BY <3>2, <3>4, <3>5, MadeFrame DEF RecordOK, InputsOK
    <3> QED BY <3>2, <3>4, <3>6, <3>7, FrameFields
  <2> QED BY <2>1, <2>2 DEF HandOverTargetLives
<1> QED BY <1>1, BufferInvariant, PTL
=============================================================================
