----------------------------- MODULE FrameTasks -----------------------------
(***************************************************************************)
(* The tasks of one frame of the CPU pipeline, plane by plane and tile by  *)
(* tile: what each waits for, and which planes in memory it reads and      *)
(* writes.  Workers run tasks in any order that what they wait for leaves. *)
(* pipeline_cpu/src/pipeline_cpu.cpp, frame_cpu.cpp                        *)
(*                                                                         *)
(* A frame f has image planes, of which the stream enhances numPlanes, and *)
(* for LOQ0 and LOQ1 says whether it is scaled and enabled; tiles are      *)
(* those of a luma and of a chroma plane.  A task that is cut into slices  *)
(* counts as one, for its slices take over what it waits for and meets.    *)
(***************************************************************************)
EXTENDS Integers, Sequences, FiniteSets

LOCAL INSTANCE SequencesExt

kLdpPictureMaxNumPlanes == 4

ImagePlanes(f) == 0 .. f.numImagePlanes - 1
NumTiles(f, plane) == IF plane = 0 THEN f.tiles[1] ELSE f.tiles[2]
TilesOf(f, plane) == 0 .. NumTiles(f, plane) - 1

isEnhanced(f, loq, plane) == f.frameConfigSet /\ f.loqEnabled[loq] /\ plane < f.numPlanes
Temporal(f, plane) == f.temporalEnabled /\ ~f.passthrough /\ plane < f.numPlanes

-----------------------------------------------------------------------------
(* Memory.  A level that is not scaled shares the plane of the level above. *)

needsIntermediateBuffer(f, loq) == loq = 0 \/ f.scaled[loq - 1]

Intermediate(f, plane, loq) ==
  <<"intermediate", plane,
    CHOOSE l \in 0 .. loq :
      needsIntermediateBuffer(f, l) /\ \A k \in l + 1 .. loq : ~needsIntermediateBuffer(f, k)>>

\* A task reads and writes a place, or only the part of it that is a tile's.
Whole == -1
Access(place, tile) == [place |-> place, tile |-> tile]

-----------------------------------------------------------------------------
(* The tasks.  Dependencies that no task of the frame meets are <<name>>,   *)
(* or <<name, plane>> for the temporal buffer.                             *)

Id(name, loq, plane, tile) == <<name, loq, plane, tile>>
Task(id, needs, reads, writes) == [id |-> id, needs |-> needs, reads |-> reads, writes |-> writes]

ConvertToInternal(f, plane) ==
  Task(Id("ConvertToInternal", 2, plane, 0), {<<"base">>},
       {Access(<<"base", plane>>, Whole)}, {Access(Intermediate(f, plane, 2), Whole)})

ConvertFromInternal(f, plane, src) ==
  Task(Id("ConvertFromInternal", 0, plane, 0), {<<"output">>, src},
       {Access(Intermediate(f, plane, 0), Whole)}, {Access(<<"output", plane>>, Whole)})

Upsample(f, fromLoq, plane, src) ==
  Task(Id("Upsample", fromLoq, plane, 0), {src},
       {Access(Intermediate(f, plane, fromLoq), Whole)}, {Access(Intermediate(f, plane, fromLoq - 1), Whole)})

GenerateCmdBuffer(loq, plane, tile) ==
  Task(Id("GenerateCmdBuffer", loq, plane, tile), {}, {}, {Access(<<"commands", loq, plane, tile>>, Whole)})

ApplyCmdBufferDirect(f, loq, plane, tile, image) ==
  Task(Id("ApplyCmdBuffer", loq, plane, tile), {image, Id("GenerateCmdBuffer", loq, plane, tile)},
       {Access(<<"commands", loq, plane, tile>>, Whole)}, {Access(Intermediate(f, plane, loq), tile)})

ApplyCmdBufferTemporal(plane, tile, temporal) ==
  Task(Id("ApplyCmdBuffer", 0, plane, tile), {temporal, Id("GenerateCmdBuffer", 0, plane, tile)},
       {Access(<<"commands", 0, plane, tile>>, Whole)}, {Access(<<"temporal", plane>>, tile)})

ApplyAddTemporal(f, plane, temporal, image) ==
  Task(Id("ApplyAddTemporal", 0, plane, 0), {temporal, image},
       {Access(<<"temporal", plane>>, Whole)}, {Access(Intermediate(f, plane, 0), Whole)})

\* A plane that the base does not have is left alone.
Passthrough(f, plane) ==
  LET Copied(picture) == IF plane \in ImagePlanes(f) THEN {Access(<<picture, plane>>, Whole)} ELSE {}
  IN  Task(Id("Passthrough", 0, plane, 0), {<<"output">>, <<"base">>}, Copied("base"), Copied("output"))

WaitForMany(f, loq, plane) ==
  Task(Id("WaitForMany", loq, plane, 0), {Id("ApplyCmdBuffer", loq, plane, t) : t \in TilesOf(f, plane)}, {}, {})

\* These three hand on what the frame had: the base, the output, a temporal buffer.
Gives(id, needs, places) == Task(id, needs, {}, {Access(p, Whole) : p \in places})

BaseDone(f, needs) == Gives(Id("BaseDone", 0, 0, 0), needs, {<<"base", p>> : p \in ImagePlanes(f)})
OutputDone(f, needs) == Gives(Id("OutputDone", 0, 0, 0), needs, {<<"output", p>> : p \in ImagePlanes(f)})
TemporalRelease(plane, dep) == Gives(Id("TemporalRelease", 0, plane, 0), {dep}, {<<"temporal", plane>>})

-----------------------------------------------------------------------------
(* generateTasksEnhancement(): what each step of a plane hands to the next. *)

\* After the residuals of a level: of its one tile, of all its tiles, or none.
Enhanced(f, loq, plane, before) ==
  IF ~isEnhanced(f, loq, plane) THEN before
  ELSE IF NumTiles(f, plane) > 1 THEN Id("WaitForMany", loq, plane, 0) ELSE Id("ApplyCmdBuffer", loq, plane, 0)

BaseUpsampled(f, plane) ==
  IF f.scaled[1] THEN Id("Upsample", 2, plane, 0) ELSE Id("ConvertToInternal", 2, plane, 0)
BasePlane(f, plane) == Enhanced(f, 1, plane, BaseUpsampled(f, plane))

Upsampled(f, plane) == IF f.scaled[0] THEN Id("Upsample", 1, plane, 0) ELSE BasePlane(f, plane)

Reconstructed(f, plane) ==
  IF Temporal(f, plane) THEN Id("ApplyAddTemporal", 0, plane, 0) ELSE Enhanced(f, 0, plane, Upsampled(f, plane))

LevelTasks(f, loq, plane) ==
  LET Apply(t) == IF loq = 1 THEN ApplyCmdBufferDirect(f, 1, plane, t, BaseUpsampled(f, plane))
                  ELSE IF Temporal(f, plane) THEN ApplyCmdBufferTemporal(plane, t, <<"temporal", plane>>)
                  ELSE ApplyCmdBufferDirect(f, 0, plane, t, Upsampled(f, plane))
  IN  IF ~isEnhanced(f, loq, plane) THEN {}
      ELSE {GenerateCmdBuffer(loq, plane, t) : t \in TilesOf(f, plane)}
           \cup {Apply(t) : t \in TilesOf(f, plane)}
           \cup (IF NumTiles(f, plane) > 1 THEN {WaitForMany(f, loq, plane)} ELSE {})

PlaneTasks(f, plane) ==
  {ConvertToInternal(f, plane)}
  \cup (IF f.scaled[1] THEN {Upsample(f, 2, plane, Id("ConvertToInternal", 2, plane, 0))} ELSE {})
  \cup LevelTasks(f, 1, plane)
  \cup (IF f.scaled[0] THEN {Upsample(f, 1, plane, BasePlane(f, plane))} ELSE {})
  \cup LevelTasks(f, 0, plane)
  \cup (IF Temporal(f, plane)
        THEN {ApplyAddTemporal(f, plane, Enhanced(f, 0, plane, <<"temporal", plane>>), Upsampled(f, plane)),
              TemporalRelease(plane, Reconstructed(f, plane))}
        ELSE {})
  \cup {ConvertFromInternal(f, plane, Reconstructed(f, plane))}

\* ldcTaskGroupFindOutputSetFromInput(): outputs of the tasks that wait for the base.
BaseReaders(tasks) == {t.id : t \in {u \in tasks : <<"base">> \in u.needs}}

generateTasksEnhancement(f) ==
  LET tasks == UNION {PlaneTasks(f, p) : p \in ImagePlanes(f)}
  IN  tasks \cup {BaseDone(f, BaseReaders(tasks)),
                  OutputDone(f, {Id("ConvertFromInternal", 0, p, 0) : p \in ImagePlanes(f)})}

generateTasksPassthrough(f) ==
  LET planes == IF f.hasBase THEN ImagePlanes(f) ELSE 0 .. kLdpPictureMaxNumPlanes - 1
      outputs == {Id("Passthrough", 0, p, 0) : p \in planes}
  IN  {Passthrough(f, p) : p \in planes} \cup {BaseDone(f, outputs), OutputDone(f, outputs)}

generateTasks(f) ==
  IF f.passthrough /\ (f.passthroughMode # "Scale" \/ ~f.initialized)
  THEN generateTasksPassthrough(f) ELSE generateTasksEnhancement(f)

-----------------------------------------------------------------------------
(* The tiles are counted twice: where their command buffers are set up, and *)
(* where tasks are made for them, which take the tiles in turn.             *)

InTurn(planes, Enabled(_, _), Count(_)) ==
  FlattenSeq([k \in 1 .. 2 |->
    FlattenSeq([p \in 1 .. planes |->
      IF Enabled(2 - k, p - 1) THEN [t \in 1 .. Count(p - 1) |-> <<2 - k, p - 1, t - 1>>] ELSE <<>>])])

initializeCommandBuffers(f) ==
  InTurn(f.numPlanes, LAMBDA loq, plane : f.loqEnabled[loq], LAMBDA plane : NumTiles(f, plane))
TilesTaken(f) ==
  InTurn(f.numImagePlanes, LAMBDA loq, plane : isEnhanced(f, loq, plane), LAMBDA plane : NumTiles(f, plane))

-----------------------------------------------------------------------------
(* Properties, over every order in which the workers may take the tasks.    *)

\* What has been met when all of ids have been.
RECURSIVE Before(_, _)
Before(tasks, ids) ==
  LET earlier == UNION {t.needs : t \in {u \in tasks : u.id \in ids}}
  IN  IF earlier \subseteq ids THEN ids ELSE Before(tasks, ids \cup earlier)

Overlaps(a, b) == a.place = b.place /\ (a.tile = b.tile \/ Whole \in {a.tile, b.tile})
Conflict(t, u) == \E a \in t.writes : \E b \in u.reads \cup u.writes : Overlaps(a, b)

\* Tasks work on one plane, of the picture or of the temporal buffer.
OneWork(t, u) ==
  /\ t.id[3] = u.id[3]
  /\ \E a \in t.reads \cup t.writes : \E b \in u.reads \cup u.writes :
       a.place[1] = b.place[1] /\ a.place[1] \in {"intermediate", "temporal"}

\* The passes over such a plane, in order.
Pass(id) ==
  CASE id[1] = "ConvertToInternal" -> 0
    [] id[1] = "Upsample"          -> IF id[2] = 2 THEN 1 ELSE 3
    [] id[1] = "ApplyCmdBuffer"    -> IF id[2] = 1 THEN 2 ELSE 4
    [] id[1] = "ApplyAddTemporal"  -> 5
    [] id[1] = "ConvertFromInternal" -> 6
    [] OTHER -> -1

\* Whatever the order, no task writes what another one uses at the same time, be
\* it a plane that two levels share, the temporal buffer, or a picture that goes
\* back to the client; each plane is converted, upsampled and enhanced level by
\* level; the output waits for everything but what hands back the base and the
\* temporal buffer, and the tiles are taken in the order they were set up.
TasksOrdered(f) ==
  LET tasks == generateTasks(f)
      before == [t \in tasks |-> Before(tasks, t.needs)]
      awaited == Before(tasks, {Id("OutputDone", 0, 0, 0)})
  IN  /\ \A t \in tasks : t.id \notin before[t]
      /\ \A t, u \in tasks : t # u /\ Conflict(t, u) => t.id \in before[u] \/ u.id \in before[t]
      /\ \A t, u \in tasks :
           Pass(t.id) \in 0 .. Pass(u.id) - 1 /\ OneWork(t, u) => t.id \in before[u]
      /\ \A t \in tasks : t.id \in awaited \/ t.id[1] \in {"BaseDone", "TemporalRelease"}
      /\ Cardinality(BaseReaders(tasks)) <= kLdpPictureMaxNumPlanes
      /\ TilesTaken(f) = initializeCommandBuffers(f)
      /\ {<<t.id[2], t.id[3], t.id[4]>> : t \in {u \in tasks : u.id[1] = "ApplyCmdBuffer"}}
           = {TilesTaken(f)[k] : k \in DOMAIN TilesTaken(f)}
=============================================================================
