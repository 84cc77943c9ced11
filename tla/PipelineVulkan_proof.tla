------------------------ MODULE PipelineVulkan_proof ------------------------
(***************************************************************************)
(* Theorems about the Vulkan pipeline, for every number of timestamps,     *)
(* pictures, tiles and temporal buffers, and every set of payloads.        *)
(***************************************************************************)
EXTENDS PipelineVulkan, FiniteSetTheorems, SequenceTheorems, WellFoundedInduction, TLAPS

-----------------------------------------------------------------------------
(* Numbers and sequences. *)

(* Among some numbers there is a least one. *)
LEMMA LeastNumber ==
    ASSUME NEW U \in SUBSET Nat, U # {}
    PROVE  \E i \in U : \A j \in U : i <= j
<1> DEFINE T == {1 .. i : i \in U}
           R == StrictSubsetOrdering(Nat)
<1>1. IsWellFoundedOn(R, FiniteSubsetsOf(Nat))
  BY FS_StrictSubsetOrderingWellFounded
<1>2. T \subseteq FiniteSubsetsOf(Nat) /\ T # {}
  <2>1. ASSUME NEW i \in U PROVE 1 .. i \in SUBSET Nat /\ IsFiniteSet(1 .. i)
    <3>1. i \in Int /\ 1 \in Int
      OBVIOUS
    <3> QED BY <3>1, FS_Interval
  <2> QED BY <2>1 DEF FiniteSubsetsOf
<1>3. \E x \in T : \A y \in T : ~(<<y, x>> \in R)
  <2> HIDE DEF T, R
  <2> QED BY <1>1, <1>2, WFMin
<1>4. PICK i \in U : \A j \in U : ~(<<1 .. j, 1 .. i>> \in R)
  BY <1>3
<1>5. ASSUME NEW j \in U PROVE i <= j
  <2> SUFFICES ASSUME j < i PROVE FALSE
    OBVIOUS
  <2>1. i \in 1 .. i /\ i \notin 1 .. j /\ 1 .. j \subseteq 1 .. i
    OBVIOUS
  <2>2. <<1 .. j, 1 .. i>> \in R
    BY <2>1 DEF StrictSubsetOrdering
  <2> QED BY <1>4, <2>2
<1> QED BY <1>5

LEMMA MinIs ==
    ASSUME NEW U \in SUBSET Nat, U # {}
    PROVE  Sets!Min(U) \in U /\ \A j \in U : Sets!Min(U) <= j
BY LeastNumber DEF Sets!Min

(* What is left of a sequence when its element k is taken out. *)
LEMMA RemoveAtIs ==
    ASSUME NEW S, NEW s \in Seq(S), NEW k \in 1 .. Len(s)
    PROVE  LET r == Lists!RemoveAt(s, k)
           IN  /\ r \in Seq(S) /\ Len(r) = Len(s) - 1
               /\ \A i \in 1 .. Len(s) - 1 : r[i] = IF i < k THEN s[i] ELSE s[i + 1]
<1> DEFINE n == Len(s)
           a == SubSeq(s, 1, k - 1)
           b == SubSeq(s, k + 1, n)
<1>1. n \in Nat /\ \A i \in 1 .. n : s[i] \in S
  OBVIOUS
<1>2. a \in Seq(S) /\ Len(a) = k - 1 /\ \A i \in 1 .. k - 1 : a[i] = s[i]
  OBVIOUS
<1>3. b \in Seq(S) /\ Len(b) = n - k /\ \A i \in 1 .. n - k : b[i] = s[k + i]
  OBVIOUS
<1>4. Lists!RemoveAt(s, k) = a \o b
  BY DEF Lists!RemoveAt
<1> HIDE DEF n, a, b
<1>5. /\ a \o b \in Seq(S) /\ Len(a \o b) = (k - 1) + (n - k)
      /\ \A i \in 1 .. (k - 1) + (n - k) : (a \o b)[i] = IF i <= k - 1 THEN a[i] ELSE b[i - (k - 1)]
  <2>1. a \in Seq(S) /\ b \in Seq(S)
    BY <1>2, <1>3
  <2>2. /\ a \o b \in Seq(S) /\ Len(a \o b) = Len(a) + Len(b)
        /\ \A i \in 1 .. Len(a) + Len(b) : (a \o b)[i] = IF i <= Len(a) THEN a[i] ELSE b[i - Len(a)]
    BY ONLY <2>1, ConcatProperties
  <2> QED BY ONLY <1>2, <1>3, <2>2
<1>6. (k - 1) + (n - k) = n - 1 /\ k \in 1 .. n
  BY <1>1 DEF n
<1>7. ASSUME NEW i \in 1 .. n - 1 PROVE (a \o b)[i] = IF i < k THEN s[i] ELSE s[i + 1]
  <2>1. CASE i < k
    <3>1. i \in 1 .. k - 1 /\ i <= k - 1
      BY <1>1, <1>6, <2>1
    <3> QED BY <1>2, <1>5, <1>6, <2>1, <3>1
  <2>2. CASE ~(i < k)
    <3>1. ~(i <= k - 1) /\ i - (k - 1) \in 1 .. n - k /\ k + (i - (k - 1)) = i + 1
      BY <1>1, <1>6, <2>2
    <3> QED BY <1>3, <1>5, <1>6, <2>2, <3>1
  <2> QED BY <2>1, <2>2
<1> QED BY <1>4, <1>5, <1>6, <1>7 DEF n

(* What is put at place p of a sequence, and where the others are then. *)
LEMMA InsertAtIs ==
    ASSUME NEW S, NEW s \in Seq(S), NEW p \in 1 .. Len(s) + 1, NEW e \in S
    PROVE  LET r == Lists!InsertAt(s, p, e)
           IN  /\ r \in Seq(S) /\ Len(r) = Len(s) + 1
               /\ \A i \in 1 .. Len(s) + 1 :
                     r[i] = IF i < p THEN s[i] ELSE IF i = p THEN e ELSE s[i - 1]
<1> DEFINE n == Len(s)
           a == SubSeq(s, 1, p - 1)
           b == SubSeq(s, p, n)
<1>1. n \in Nat /\ \A i \in 1 .. n : s[i] \in S
  OBVIOUS
<1>2. a \in Seq(S) /\ Len(a) = p - 1 /\ \A i \in 1 .. p - 1 : a[i] = s[i]
  <2>1. 1 \in Int /\ p - 1 \in Int /\ \A i \in 1 .. p - 1 : s[i] \in S
    OBVIOUS
  <2> QED BY <2>1, SubSeqProperties
<1>3. b \in Seq(S) /\ Len(b) = n - p + 1 /\ \A i \in 1 .. n - p + 1 : b[i] = s[p + i - 1]
  <2>1. n \in Int /\ p \in Int /\ \A i \in p .. n : s[i] \in S
    OBVIOUS
  <2> QED BY <2>1, SubSeqProperties
<1>4. Lists!InsertAt(s, p, e) = (a \o <<e>>) \o b
  BY DEF Lists!InsertAt
<1>5. p \in 1 .. n + 1
  OBVIOUS
<1> HIDE DEF n, a, b
<1>6. <<e>> \in Seq(S) /\ Len(<<e>>) = 1 /\ <<e>>[1] = e
  OBVIOUS
<1>7. PICK c : c = a \o <<e>>
  OBVIOUS
<1>8. /\ c \in Seq(S) /\ Len(c) = p
      /\ \A i \in 1 .. p : c[i] = IF i < p THEN s[i] ELSE e
  <2>1. /\ c \in Seq(S) /\ Len(c) = p
        /\ \A i \in 1 .. p : c[i] = IF i <= p - 1 THEN a[i] ELSE <<e>>[i - (p - 1)]
    BY <1>2, <1>5, <1>6, <1>7, ConcatProperties
  <2>2. \A i \in 1 .. p : i < p => i <= p - 1 /\ i \in 1 .. p - 1
    BY <1>5
  <2>3. \A i \in 1 .. p : ~(i < p) => ~(i <= p - 1) /\ i - (p - 1) = 1
    BY <1>5
  <2> QED BY <1>2, <1>6, <2>1, <2>2, <2>3
<1>9. /\ c \o b \in Seq(S) /\ Len(c \o b) = n + 1
      /\ \A i \in 1 .. n + 1 : (c \o b)[i] = IF i <= p THEN c[i] ELSE b[i - p]
  <2>1. p + (n - p + 1) = n + 1
    BY <1>1, <1>5
  <2>2. c \in Seq(S) /\ b \in Seq(S) /\ Len(c) = p /\ Len(c) + Len(b) = n + 1
    BY <1>3, <1>8, <2>1
  <2> QED BY ONLY <2>2, ConcatProperties
<1>10. \A i \in 1 .. n + 1 : i > p => b[i - p] = s[i - 1]
  <2>1. \A i \in 1 .. n + 1 : i > p => i - p \in 1 .. n - p + 1 /\ p + (i - p) - 1 = i - 1
    BY <1>1, <1>5
  <2> QED BY <1>3, <2>1
<1>11. \A i \in 1 .. n + 1 :
         (c \o b)[i] = IF i < p THEN s[i] ELSE IF i = p THEN e ELSE s[i - 1]
  <2>1. \A i \in 1 .. n + 1 : i <= p => i \in 1 .. p /\ (i < p \/ i = p)
    BY <1>1, <1>5
  <2>2. \A i \in 1 .. n + 1 : ~(i <= p) => i > p /\ ~(i < p) /\ i # p
    BY <1>1, <1>5
  <2> QED BY <1>8, <1>9, <1>10, <2>1, <2>2
<1> QED BY <1>4, <1>7, <1>9, <1>11 DEF n

(* A sorted index stays one when a frame that is not in it is inserted. *)
Sorted(index) == \A i, j \in 1 .. Len(index) : i < j => index[i] < index[j]

LEMMA SpotIs ==
    ASSUME NEW index \in Seq(Nat), Sorted(index), NEW t \in Nat,
           \A i \in 1 .. Len(index) : index[i] # t
    PROVE  /\ Spot(index, t) \in 1 .. Len(index) + 1
           /\ \A j \in 1 .. Spot(index, t) - 1 : index[j] < t
           /\ \A j \in Spot(index, t) .. Len(index) : t < index[j]
<1> DEFINE n == Len(index)
           P(i) == (\A j \in 1 .. i - 1 : index[j] < t) /\ (\A j \in i .. n : t < index[j])
           U == {i \in 1 .. n + 1 : \A j \in i .. n : t < index[j]}
<1>1. n \in Nat /\ \A i \in 1 .. n : index[i] \in Nat
  OBVIOUS
<1>2. n + 1 \in U
  BY <1>1
<1>3. U \in SUBSET Nat /\ U # {}
  BY <1>1, <1>2
<1> HIDE DEF n
<1>4. PICK i \in U : \A j \in U : i <= j
  <2> HIDE DEF U
  <2> QED BY <1>3, LeastNumber
<1>5. i \in 1 .. n + 1 /\ \A j \in i .. n : t < index[j]
  BY <1>4
<1>6. ASSUME NEW k \in 1 .. i - 1 PROVE index[k] < t
  <2>1. i - 1 \in 1 .. n /\ i - 1 \in Nat /\ k \in 1 .. n
    BY <1>1, <1>5
  <2>2. ~(t < index[i - 1])
    <3> SUFFICES ASSUME t < index[i - 1] PROVE FALSE
      OBVIOUS
    <3>1. \A j \in i - 1 .. n : j = i - 1 \/ j \in i .. n
      BY <1>1, <1>5
    <3>2. i - 1 \in U
      BY <1>1, <1>5, <2>1, <3>1
    <3> QED BY <1>4, <1>5, <3>2
  <2>3. index[i - 1] < t
    BY <1>1, <2>1, <2>2 DEF n
  <2>4. k = i - 1 \/ index[k] < index[i - 1]
    BY <1>5, <2>1 DEF Sorted, n
  <2> QED BY <1>1, <2>1, <2>3, <2>4
<1>7. P(i) /\ i \in 1 .. n + 1
  BY <1>5, <1>6
<1>8. Spot(index, t) = CHOOSE k \in 1 .. n + 1 : P(k)
  BY DEF Spot, n
<1> HIDE DEF P
<1>9. Spot(index, t) \in 1 .. n + 1 /\ P(Spot(index, t))
  BY <1>7, <1>8
<1> QED BY <1>9 DEF P, n

LEMMA InsertedIs ==
    ASSUME NEW S \in SUBSET Nat, NEW index \in Seq(S), Sorted(index), NEW t \in S,
           \A i \in 1 .. Len(index) : index[i] # t
    PROVE  /\ Inserted(index, t) \in Seq(S) /\ Sorted(Inserted(index, t))
           /\ Len(Inserted(index, t)) = Len(index) + 1
           /\ \A i \in 1 .. Len(Inserted(index, t)) :
                 Inserted(index, t)[i] = t \/ \E j \in 1 .. Len(index) : Inserted(index, t)[i] = index[j]
           /\ \E i \in 1 .. Len(Inserted(index, t)) : Inserted(index, t)[i] = t
           /\ \A j \in 1 .. Len(index) :
                 \E i \in 1 .. Len(Inserted(index, t)) : Inserted(index, t)[i] = index[j]
<1>1. index \in Seq(Nat) /\ t \in Nat
  BY SeqMonotonic
<1>2. PICK n, p, s : n = Len(index) /\ p = Spot(index, t) /\ s = Inserted(index, t)
  OBVIOUS
<1>3. /\ n \in Nat /\ p \in 1 .. n + 1
      /\ \A j \in 1 .. p - 1 : index[j] < t
      /\ \A j \in p .. n : t < index[j]
      /\ \A j \in 1 .. n : index[j] \in Nat
  BY <1>1, <1>2, SpotIs
<1>4. /\ s \in Seq(S) /\ Len(s) = n + 1
      /\ \A i \in 1 .. n + 1 : s[i] = IF i < p THEN index[i] ELSE IF i = p THEN t ELSE index[i - 1]
  <2>1. s = Lists!InsertAt(index, p, t) /\ p \in 1 .. Len(index) + 1
    BY <1>2, <1>3 DEF Inserted
  <2>2. /\ Lists!InsertAt(index, p, t) \in Seq(S) /\ Len(Lists!InsertAt(index, p, t)) = Len(index) + 1
        /\ \A i \in 1 .. Len(index) + 1 :
              Lists!InsertAt(index, p, t)[i] = IF i < p THEN index[i] ELSE IF i = p THEN t ELSE index[i - 1]
    <3>1. index \in Seq(S) /\ p \in 1 .. Len(index) + 1 /\ t \in S
      BY <2>1
    <3> QED BY ONLY <3>1, InsertAtIs
  <2> QED BY <1>2, <2>1, <2>2
<1>5. ASSUME NEW i \in 1 .. n + 1 PROVE s[i] = t \/ \E j \in 1 .. n : s[i] = index[j]
  <2>1. CASE i < p
    <3>1. i \in 1 .. n /\ s[i] = index[i]
      BY <1>3, <1>4, <2>1
    <3> QED BY <3>1
  <2>2. CASE i = p
    BY <1>4, <2>2
  <2>3. CASE i > p
    <3>1. i - 1 \in 1 .. n /\ s[i] = index[i - 1]
      BY <1>3, <1>4, <2>3
    <3> QED BY <3>1
  <2> QED BY <1>3, <2>1, <2>2, <2>3
<1>6. s[p] = t /\ p \in 1 .. n + 1
  BY <1>3, <1>4
<1>7. ASSUME NEW j \in 1 .. n PROVE \E i \in 1 .. n + 1 : s[i] = index[j]
  <2>1. CASE j < p
    BY <1>3, <1>4, <2>1
  <2>2. CASE ~(j < p)
    <3>1. j + 1 \in 1 .. n + 1 /\ ~(j + 1 < p) /\ j + 1 # p /\ (j + 1) - 1 = j
      BY <1>3, <2>2
    <3> QED BY <1>4, <3>1
  <2> QED BY <2>1, <2>2
<1>8. ASSUME NEW i \in 1 .. n + 1, NEW j \in 1 .. n + 1, i < j
      PROVE  s[i] < s[j]
  <2>1. CASE j < p
    <3>1. i < p /\ i \in 1 .. n /\ j \in 1 .. n /\ s[i] = index[i] /\ s[j] = index[j]
      BY <1>3, <1>4, <1>8, <2>1
    <3> QED BY <1>2, <1>8, <3>1 DEF Sorted
  <2>2. CASE j = p
    <3>1. i \in 1 .. p - 1 /\ s[i] = index[i] /\ s[j] = t
      BY <1>3, <1>4, <1>8, <2>2
    <3> QED BY <1>3, <3>1
  <2>3. CASE j > p
    <3>1. j - 1 \in p .. n /\ j - 1 \in 1 .. n /\ s[j] = index[j - 1]
      BY <1>3, <1>4, <2>3
    <3>2. CASE i < p
      <4>1. i \in 1 .. p - 1 /\ i \in 1 .. n /\ s[i] = index[i]
        BY <1>3, <1>4, <3>2
      <4>2. index[i] < t /\ t < index[j - 1] /\ index[i] \in Nat /\ index[j - 1] \in Nat
        BY <1>3, <3>1, <4>1
      <4> QED BY <1>1, <3>1, <4>1, <4>2
    <3>3. CASE i = p
      BY <1>3, <1>4, <3>1, <3>3
    <3>4. CASE i > p
      <4>1. i - 1 \in 1 .. n /\ s[i] = index[i - 1] /\ i - 1 < j - 1
        BY <1>3, <1>4, <1>8, <3>4
      <4> QED BY <1>2, <3>1, <4>1 DEF Sorted
    <3> QED BY <1>3, <3>2, <3>3, <3>4
  <2> QED BY <1>3, <2>1, <2>2, <2>3
<1> QED BY <1>2, <1>4, <1>5, <1>6, <1>7, <1>8 DEF Sorted


-----------------------------------------------------------------------------
(* The invariant.                                                          *)

VulkanTypes ==
  /\ m_frames \in [FrameTime -> FrameRecord \cup {Nothing}]
  /\ m_reorderIndex \in Seq(FrameTime) /\ m_processingIndex \in Seq(FrameTime)
  /\ m_previousTimestamp \in Nat /\ m_lastGoodTimestamp \in Nat /\ initialized \in BOOLEAN
  /\ m_temporalBuffers \in [Anchors -> [timestamp : Nat, frame : FrameTime \cup {Nothing}]]
  /\ m_temporalPicture \in {Nothing} \cup SUBSET FrameTime
  /\ m_basePictureOutBuffer \in Seq(Base \cup {Nothing})
  /\ m_outputPictureAvailableBuffer \in Seq(Output)
  /\ call \in {"idle", "start", "connect", "connect first", "destroyed"}
  /\ broken \in BOOLEAN /\ goodInOrder \in BOOLEAN
  /\ stream \in [prudent : BOOLEAN, settings : Settings, sends : Nat]
  /\ chain \in SUBSET FrameTime /\ lent \in SUBSET (Base \cup Output) /\ latestBase \in Nat

\* What comes to a frame from outside.
External(temporal) ==
  {m_depBasePicture, m_depOutputPicture} \cup (IF temporal THEN {m_depTemporalBuffer} ELSE {})

\* What has come from outside when a dependency is met.
Implies(temporal, dep) ==
  IF dep \in External(TRUE) THEN {dep}
  ELSE IF dep[1] \in {"internal", "upsampled"} THEN {m_depBasePicture}
  ELSE IF dep[1] \in {"tile", "tiles"}
       THEN IF temporal /\ dep[2] = LOQ0 THEN {m_depTemporalBuffer} ELSE {m_depBasePicture}
  ELSE IF dep[1] = "added" THEN {m_depBasePicture, m_depTemporalBuffer}
  ELSE IF dep[1] \in {"done", "plane"} THEN External(temporal) ELSE {}

\* What must have come before a task ends.
Due(temporal, task) ==
  Implies(temporal, task.output)
    \cup (IF task.does = "OutputDone" THEN External(temporal)
          ELSE IF task.does = "BaseDone" THEN {m_depBasePicture}
          ELSE IF task.does = "TemporalRelease" THEN {m_depTemporalBuffer} ELSE {})

TaskOK(temporal, task) ==
  /\ task.output \notin External(TRUE)
  /\ \A e \in Due(temporal, task) : \E d \in task.inputs : e \in Implies(temporal, d)
  /\ task.does = "TemporalRelease" => temporal

\* Each input is known, or comes from a task that is added before.
Follows(known, tasks) ==
  \A k \in 1 .. Len(tasks) : \A d \in tasks[k].inputs :
    d \in known \/ \E j \in 1 .. k - 1 : tasks[j].output = d

Has(tasks, does) == \E k \in 1 .. Len(tasks) : tasks[k].does = does
Once(tasks, does) ==
  \A k, l \in 1 .. Len(tasks) : tasks[k].does = does /\ tasks[l].does = does => k = l

\* Nothing up to the release of the temporal buffer waits for the output picture.
ListOK(temporal, met, tasks) ==
  /\ \A k \in 1 .. Len(tasks) : TaskOK(temporal, tasks[k])
  /\ Follows(met \cup External(temporal), tasks)
  /\ \A k, l \in 1 .. Len(tasks) :
       tasks[l].does = "TemporalRelease" /\ k <= l => m_depOutputPicture \notin tasks[k].inputs
  /\ Once(tasks, "TemporalRelease") /\ Once(tasks, "BaseDone")

ClosedOK(temporal, met) == \A d \in met : Implies(temporal, d) \subseteq met

StateOK(f) ==
  /\ f.m_state = "Reorder" =>
       /\ f.tasks = <<>> /\ f.dependenciesMet \subseteq {m_depBasePicture}
       /\ ~f.needsBuffer /\ f.m_temporalBuffer = 0
  /\ f.m_state = "Processing" => Has(f.tasks, "OutputDone")
  /\ f.m_state = "Done" => External(f.needsBuffer) \subseteq f.dependenciesMet

TasksOK(f) == /\ ListOK(f.needsBuffer, f.dependenciesMet, f.tasks)
              /\ ClosedOK(f.needsBuffer, f.dependenciesMet)

BufferOK(t, f, anchors) ==
  /\ f.m_temporalBuffer # 0 => /\ m_depTemporalBuffer \in f.dependenciesMet
                               /\ f.m_temporalBuffer \in Anchors /\ anchors[f.m_temporalBuffer].frame = t
  /\ Has(f.tasks, "TemporalRelease") /\ m_depTemporalBuffer \in f.dependenciesMet => f.m_temporalBuffer # 0

\* A base that came is there until it is given back; that of a prudent client will be.
BaseOK(t, f, prudent, latest) ==
  /\ m_depBasePicture \in f.dependenciesMet /\ (f.m_state = "Reorder" \/ Has(f.tasks, "BaseDone"))
       => f.basePicture # Nothing
  /\ prudent => /\ m_depBasePicture \in f.dependenciesMet => t <= latest
                /\ /\ f.m_state # "Reorder"
                   /\ f.basePicture # Nothing \/ m_depBasePicture \notin f.dependenciesMet
                   => Has(f.tasks, "BaseDone")

FrameOK(t, f, anchors, prudent, latest) ==
  StateOK(f) /\ TasksOK(f) /\ BufferOK(t, f, anchors) /\ BaseOK(t, f, prudent, latest)

FramesOK(frames, anchors, prudent, latest) ==
  \A t \in FrameTime : frames[t] # Nothing => FrameOK(t, frames[t], anchors, prudent, latest)

IndexOK(frames, reorder, processing) ==
  /\ Sorted(reorder)
  /\ \A i \in 1 .. Len(reorder) : frames[reorder[i]] # Nothing /\ frames[reorder[i]].m_state = "Reorder"
  /\ \A i \in 1 .. Len(processing) :
       frames[processing[i]] # Nothing /\ frames[processing[i]].m_state # "Reorder"
  /\ \A i, j \in 1 .. Len(processing) : processing[i] = processing[j] => i = j
  /\ \A t \in FrameTime : frames[t] # Nothing /\ frames[t].m_state # "Reorder" =>
       \E i \in 1 .. Len(processing) : processing[i] = t

\* A frame that will release its buffer, and one that has none yet.
Pending(frames, t) == t \in FrameTime /\ frames[t] # Nothing /\ Has(frames[t].tasks, "TemporalRelease")
Waiting(f) == f.needsBuffer /\ m_depTemporalBuffer \notin f.dependenciesMet
Available(anchors, t) == \E a \in Anchors : anchors[a].frame = Nothing /\ anchors[a].timestamp = t

(* Each good frame wants the buffer of the last, which is free or will be. *)
ChainOK(frames, processing, anchors, lastGood, temporalEnabled) ==
  /\ \A i \in 1 .. Len(processing) : frames[processing[i]].needsBuffer =>
       frames[processing[i]].wanted <= processing[i] /\ processing[i] <= lastGood
  /\ \A i, j \in 1 .. Len(processing) :
       i < j /\ frames[processing[i]].needsBuffer /\ frames[processing[j]].needsBuffer =>
         processing[i] <= frames[processing[j]].wanted
  /\ lastGood = 0 => \A a \in Anchors : anchors[a].frame = Nothing /\ anchors[a].timestamp = 0
  /\ lastGood # 0 /\ temporalEnabled => Available(anchors, lastGood) \/ Pending(frames, lastGood)
  /\ \A i \in 1 .. Len(processing) : Waiting(frames[processing[i]]) =>
       frames[processing[i]].wanted # processing[i] /\ Pending(frames, frames[processing[i]].wanted)

(* Where a picture is: with a frame or in a queue, once, if the client has lent it. *)
PlacesOK(pictures, has, queue, out) ==
  /\ \A s, t \in FrameTime : has[s] \in pictures /\ has[s] = has[t] => s = t
  /\ \A i, j \in 1 .. Len(queue) : queue[i] \in pictures /\ queue[i] = queue[j] => i = j
  /\ \A t \in FrameTime : \A i \in 1 .. Len(queue) : has[t] \in pictures => has[t] # queue[i]
  /\ \A u \in pictures :
       u \in out <=> (\E t \in FrameTime : has[t] = u) \/ (\E i \in 1 .. Len(queue) : queue[i] = u)

OutputOf(frames) == [t \in FrameTime |-> IF frames[t] = Nothing THEN Nothing ELSE frames[t].outputPicture]
BaseOf(frames)   == [t \in FrameTime |-> IF frames[t] = Nothing THEN Nothing ELSE frames[t].basePicture]

PicturesOK ==
  call # "destroyed" =>
    /\ PlacesOK(Output, OutputOf(m_frames), m_outputPictureAvailableBuffer, lent)
    /\ stream.prudent => PlacesOK(Base, BaseOf(m_frames), m_basePictureOutBuffer, lent)

VulkanInvariant ==
  /\ VulkanTypes
  /\ FramesOK(m_frames, m_temporalBuffers, stream.prudent, latestBase)
  /\ IndexOK(m_frames, m_reorderIndex, m_processingIndex)
  /\ goodInOrder => ChainOK(m_frames, m_processingIndex, m_temporalBuffers, m_lastGoodTimestamp,
                            stream.settings.temporalEnabled)
  /\ PicturesOK
  /\ call = "idle" /\ ~broken => ~Runnable

-----------------------------------------------------------------------------
(* Lists of tasks.                                                         *)

\* What is left, and what is met, when task k ran.
Ran(tasks, met, k, left, now) ==
  /\ tasks[k].inputs \subseteq met
  /\ left = Lists!RemoveAt(tasks, k) /\ now = met \cup {tasks[k].output}

HasLeft(tasks, k, left) ==
  /\ \A does : Has(left, does) => Has(tasks, does)
  /\ \A does : tasks[k].does # does /\ Has(tasks, does) => Has(left, does)
  /\ \A does \in {"TemporalRelease", "BaseDone"} : tasks[k].does = does => ~Has(left, does)

(* A task whose inputs are met leaves the list in order, and what must have *)
(* come before it ends has come.                                            *)
LEMMA ListRuns ==
    ASSUME NEW temporal \in BOOLEAN, NEW met \in SUBSET Dependency, NEW tasks \in Seq(Tasks),
           NEW k \in 1 .. Len(tasks), ListOK(temporal, met, tasks), ClosedOK(temporal, met),
           NEW left, NEW now, Ran(tasks, met, k, left, now)
    PROVE  /\ left \in Seq(Tasks) /\ now \in SUBSET Dependency
           /\ ListOK(temporal, now, left) /\ ClosedOK(temporal, now)
           /\ Due(temporal, tasks[k]) \subseteq met
           /\ tasks[k].output \notin External(TRUE)
           /\ HasLeft(tasks, k, left)
<1>1. left = Lists!RemoveAt(tasks, k) /\ now = met \cup {tasks[k].output} /\ tasks[k].inputs \subseteq met
  BY DEF Ran
<1>2. PICK n \in Nat : n = Len(tasks)
  OBVIOUS
<1>3. /\ left \in Seq(Tasks) /\ Len(left) = n - 1
      /\ \A i \in 1 .. n - 1 : left[i] = IF i < k THEN tasks[i] ELSE tasks[i + 1]
  BY <1>1, <1>2, RemoveAtIs
<1>4. PICK at : at = [i \in 1 .. n - 1 |-> IF i < k THEN i ELSE i + 1]
  OBVIOUS
<1>5. \A i \in 1 .. n - 1 : at[i] \in 1 .. n /\ at[i] # k /\ left[i] = tasks[at[i]]
  BY <1>2, <1>3, <1>4
<1>6. \A i, j \in 1 .. n - 1 : (at[i] = at[j] => i = j) /\ (i <= j => at[i] <= at[j])
  BY <1>4
<1>7. \A j \in 1 .. n : j # k => \E i \in 1 .. n - 1 : at[i] = j
  <2>1. ASSUME NEW j \in 1 .. n, j < k PROVE \E i \in 1 .. n - 1 : at[i] = j
    <3>1. j \in 1 .. n - 1 /\ at[j] = j
      BY <1>2, <1>4, <2>1
    <3> QED BY <3>1
  <2>2. ASSUME NEW j \in 1 .. n, j > k PROVE \E i \in 1 .. n - 1 : at[i] = j
    <3>1. j - 1 \in 1 .. n - 1 /\ ~(j - 1 < k) /\ j - 1 + 1 = j
      BY <1>2, <2>2
    <3>2. at[j - 1] = j
      BY <1>4, <3>1
    <3> QED BY <3>1, <3>2
  <2> QED BY <1>2, <2>1, <2>2
<1>8. \A i \in 1 .. n - 1 : \A j \in 1 .. at[i] - 1 : j # k => \E l \in 1 .. i - 1 : at[l] = j
  <2> SUFFICES ASSUME NEW i \in 1 .. n - 1, NEW j \in 1 .. at[i] - 1, j # k
               PROVE  \E l \in 1 .. i - 1 : at[l] = j
    OBVIOUS
  <2>1. j \in 1 .. n /\ at[i] \in 1 .. n /\ j < at[i]
    BY <1>2, <1>5
  <2>2. PICK l \in 1 .. n - 1 : at[l] = j
    BY <1>7, <2>1
  <2>3. ~(i <= l)
    BY <1>6, <2>1, <2>2
  <2> QED BY <2>2, <2>3
<1>9. /\ \A i \in 1 .. n : tasks[i] \in Tasks /\ TaskOK(temporal, tasks[i])
      /\ Follows(met \cup External(temporal), tasks)
      /\ Once(tasks, "TemporalRelease") /\ Once(tasks, "BaseDone")
  BY <1>2 DEF ListOK
<1>10. ListOK(temporal, now, left)
  <2>1. ASSUME NEW i \in 1 .. Len(left) PROVE TaskOK(temporal, left[i])
    BY <1>3, <1>5, <1>9
  <2>2. Follows(now \cup External(temporal), left)
    <3> SUFFICES ASSUME NEW i \in 1 .. n - 1, NEW d \in left[i].inputs, d \notin now \cup External(temporal)
                 PROVE  \E j \in 1 .. i - 1 : left[j].output = d
      BY <1>3 DEF Follows
    <3>1. d \in tasks[at[i]].inputs /\ at[i] \in 1 .. n
      BY <1>5
    <3>2. d \notin met \cup External(temporal) /\ d # tasks[k].output
      BY <1>1
    <3>3. PICK j \in 1 .. at[i] - 1 : tasks[j].output = d
      BY <1>2, <1>9, <3>1, <3>2 DEF Follows
    <3>4. j # k
      BY <3>2, <3>3
    <3>5. PICK l \in 1 .. i - 1 : at[l] = j
      BY <1>8, <3>4
    <3>6. l \in 1 .. n - 1
      BY <1>2
    <3> QED BY <1>5, <3>3, <3>5, <3>6
  <2>3. ASSUME NEW i \in 1 .. n - 1, NEW l \in 1 .. n - 1, left[l].does = "TemporalRelease", i <= l
        PROVE  m_depOutputPicture \notin left[i].inputs
    <3>1. /\ at[i] \in 1 .. n /\ at[l] \in 1 .. n /\ at[i] <= at[l]
          /\ left[i] = tasks[at[i]] /\ left[l] = tasks[at[l]]
      BY <1>5, <1>6, <2>3
    <3> QED BY <1>2, <2>3, <3>1 DEF ListOK
  <2>4. ASSUME NEW does, Once(tasks, does) PROVE Once(left, does)
    <3> SUFFICES ASSUME NEW i \in 1 .. n - 1, NEW l \in 1 .. n - 1,
                        left[i].does = does, left[l].does = does
                 PROVE  i = l
      BY <1>3 DEF Once
    <3>1. at[i] = at[l]
      BY <1>2, <1>5, <2>4 DEF Once
    <3> QED BY <1>6, <3>1
  <2> QED BY <1>3, <1>9, <2>1, <2>2, <2>3, <2>4 DEF ListOK
<1>11. TaskOK(temporal, tasks[k]) /\ tasks[k] \in Tasks
  BY <1>2, <1>9
<1>12. Due(temporal, tasks[k]) \subseteq met
  BY <1>1, <1>11 DEF TaskOK, ClosedOK
<1>13. ClosedOK(temporal, now)
  <2>1. Implies(temporal, tasks[k].output) \subseteq met
    BY <1>12 DEF Due
  <2> QED BY <1>1, <2>1 DEF ClosedOK
<1>14. \A does : Has(left, does) => Has(tasks, does)
  BY <1>2, <1>3, <1>5 DEF Has
<1>15. ASSUME NEW does, tasks[k].does # does, Has(tasks, does) PROVE Has(left, does)
  <2>1. PICK j \in 1 .. n : tasks[j].does = does
    BY <1>2, <1>15 DEF Has
  <2>2. PICK i \in 1 .. n - 1 : at[i] = j
    BY <1>7, <1>15, <2>1
  <2> QED BY <1>3, <1>5, <2>1, <2>2 DEF Has
<1>16. ASSUME NEW does \in {"TemporalRelease", "BaseDone"}, tasks[k].does = does, Has(left, does) PROVE FALSE
  <2>1. PICK i \in 1 .. n - 1 : left[i].does = does
    BY <1>3, <1>16 DEF Has
  <2>2. Once(tasks, does)
    BY <1>9
  <2> QED BY <1>2, <1>5, <1>16, <2>1, <2>2 DEF Once
<1>17. now \in SUBSET Dependency
  BY <1>1, <1>11 DEF Tasks
<1>18. HasLeft(tasks, k, left)
  BY <1>14, <1>15, <1>16 DEF HasLeft
<1> QED BY <1>1, <1>3, <1>10, <1>11, <1>12, <1>13, <1>17, <1>18 DEF TaskOK

(* The first task can run when all has come from outside, or all but the   *)
(* output picture and the temporal buffer is still to be released.         *)
LEMMA FirstRuns ==
    ASSUME NEW temporal \in BOOLEAN, NEW met, NEW tasks \in Seq(Tasks), tasks # <<>>,
           ListOK(temporal, met, tasks),
           \/ External(temporal) \subseteq met
           \/ Has(tasks, "TemporalRelease") /\ External(temporal) \ {m_depOutputPicture} \subseteq met
    PROVE  1 \in DOMAIN tasks /\ tasks[1].inputs \subseteq met
<1>1. 1 \in 1 .. Len(tasks) /\ DOMAIN tasks = 1 .. Len(tasks)
  OBVIOUS
<1>2. \A d \in tasks[1].inputs : d \in met \cup External(temporal)
  <2>1. Follows(met \cup External(temporal), tasks)
    BY DEF ListOK
  <2> QED BY <1>1, <2>1 DEF Follows
<1>3. Has(tasks, "TemporalRelease") => m_depOutputPicture \notin tasks[1].inputs
  <2> SUFFICES ASSUME NEW l \in 1 .. Len(tasks), tasks[l].does = "TemporalRelease"
               PROVE  m_depOutputPicture \notin tasks[1].inputs
    BY DEF Has
  <2>1. 1 <= l
    OBVIOUS
  <2> QED BY <1>1, <2>1 DEF ListOK
<1> QED BY <1>1, <1>2, <1>3

(* What a list waits for may be met. *)
LEMMA ListMeets ==
    ASSUME NEW temporal, NEW met, NEW now, met \subseteq now, NEW tasks, ListOK(temporal, met, tasks)
    PROVE  ListOK(temporal, now, tasks)
<1>1. Follows(now \cup External(temporal), tasks)
  BY DEF ListOK, Follows
<1> QED BY <1>1 DEF ListOK

LEMMA ExternalMet ==
    ASSUME NEW temporal, NEW met, ClosedOK(temporal, met), NEW dep \in External(TRUE)
    PROVE  ClosedOK(temporal, met \cup {dep})
<1>1. Implies(temporal, dep) = {dep}
  BY DEF Implies
<1> QED BY <1>1 DEF ClosedOK

-----------------------------------------------------------------------------
(* The lists that are generated.                                           *)

Outputs(tasks) == {tasks[j].output : j \in 1 .. Len(tasks)}
Special == {"TemporalRelease", "BaseDone", "OutputDone"}

\* Tasks of the enhancement itself, which neither wait for the output picture nor end anything.
Quiet(temporal, known, tasks) ==
  /\ tasks \in Seq(Tasks) /\ Follows(known, tasks)
  /\ \A k \in 1 .. Len(tasks) : /\ TaskOK(temporal, tasks[k]) /\ tasks[k].does \notin Special
                                /\ m_depOutputPicture \notin tasks[k].inputs

Name == {"base", "output", "temporal", "internal", "upsampled", "commands", "tile", "tiles",
         "added", "done", "plane", "invalid"}

LEMMA DependsIs ==
    ASSUME NEW name \in Name, NEW loq \in Nat, NEW tile \in Nat
    PROVE  /\ Depends(name, loq, tile) \in Dependency
           /\ Depends(name, loq, tile)[1] = name /\ Depends(name, loq, tile)[2] = loq
BY DEF Name, Depends, Dependency

LEMMA ExternalIs ==
    /\ External(TRUE) = {m_depBasePicture, m_depOutputPicture, m_depTemporalBuffer}
    /\ External(FALSE) = {m_depBasePicture, m_depOutputPicture}
    /\ External(TRUE) \subseteq Dependency
    /\ m_depBasePicture # m_depOutputPicture /\ m_depBasePicture # m_depTemporalBuffer
    /\ m_depOutputPicture # m_depTemporalBuffer
    /\ \A dep \in External(TRUE) : dep[1] \in {"base", "output", "temporal"}
<1>1. "base" \in Name /\ "output" \in Name /\ "temporal" \in Name /\ 0 \in Nat
  BY DEF Name
<1>2. m_depBasePicture \in Dependency /\ m_depOutputPicture \in Dependency /\ m_depTemporalBuffer \in Dependency
  BY <1>1, DependsIs DEF m_depBasePicture, m_depOutputPicture, m_depTemporalBuffer
<1>3. /\ m_depBasePicture[1] = "base" /\ m_depOutputPicture[1] = "output"
      /\ m_depTemporalBuffer[1] = "temporal"
  BY <1>1, DependsIs DEF m_depBasePicture, m_depOutputPicture, m_depTemporalBuffer
<1>4. External(TRUE) = {m_depBasePicture, m_depOutputPicture, m_depTemporalBuffer}
  BY DEF External
<1>5. External(FALSE) = {m_depBasePicture, m_depOutputPicture}
  BY DEF External
<1>6. /\ m_depBasePicture # m_depOutputPicture /\ m_depBasePicture # m_depTemporalBuffer
      /\ m_depOutputPicture # m_depTemporalBuffer
  BY <1>3
<1> QED BY <1>2, <1>3, <1>4, <1>5, <1>6

LEMMA ImpliesExternal ==
    ASSUME NEW temporal, NEW dep \in External(TRUE)
    PROVE  Implies(temporal, dep) = {dep}
BY DEF Implies

LEMMA ImpliesIs ==
    ASSUME NEW temporal \in BOOLEAN, NEW loq \in Nat, NEW k \in Nat
    PROVE  /\ Implies(temporal, Depends("internal", loq, k)) = {m_depBasePicture}
           /\ Implies(temporal, Depends("upsampled", loq, k)) = {m_depBasePicture}
           /\ \A name \in {"tile", "tiles"} : Implies(temporal, Depends(name, loq, k)) =
                 IF temporal /\ loq = LOQ0 THEN {m_depTemporalBuffer} ELSE {m_depBasePicture}
           /\ Implies(temporal, Depends("commands", loq, k)) = {}
           /\ Implies(temporal, Depends("added", loq, k)) = {m_depBasePicture, m_depTemporalBuffer}
           /\ Implies(temporal, Depends("done", loq, k)) = External(temporal)
           /\ Implies(temporal, Depends("plane", loq, k)) = External(temporal)
           /\ Implies(temporal, kTaskDependencyInvalid) = {}
<1>1. ASSUME NEW name \in {"internal", "upsampled", "tile", "tiles", "commands", "added", "done", "plane"}
      PROVE  /\ Depends(name, loq, k) \notin External(TRUE)
             /\ Depends(name, loq, k)[1] = name /\ Depends(name, loq, k)[2] = loq
  <2>1. name \in Name
    BY DEF Name
  <2>2. Depends(name, loq, k)[1] = name /\ Depends(name, loq, k)[2] = loq
    BY <2>1, DependsIs
  <2>3. Depends(name, loq, k) \notin External(TRUE)
    BY <2>2, ExternalIs
  <2> QED BY <2>2, <2>3
<1>2. kTaskDependencyInvalid \notin External(TRUE) /\ kTaskDependencyInvalid[1] = "invalid"
  <2>1. "invalid" \in Name /\ 0 \in Nat
    BY DEF Name
  <2>2. kTaskDependencyInvalid[1] = "invalid"
    BY <2>1, DependsIs DEF kTaskDependencyInvalid
  <2> QED BY <2>2, ExternalIs
<1>4. /\ Implies(temporal, Depends("internal", loq, k)) = {m_depBasePicture}
      /\ Implies(temporal, Depends("upsampled", loq, k)) = {m_depBasePicture}
  BY <1>1 DEF Implies
<1>5. ASSUME NEW name \in {"tile", "tiles"}
      PROVE  Implies(temporal, Depends(name, loq, k)) =
                 IF temporal /\ loq = LOQ0 THEN {m_depTemporalBuffer} ELSE {m_depBasePicture}
  BY <1>1 DEF Implies
<1>6. Implies(temporal, Depends("commands", loq, k)) = {}
  BY <1>1 DEF Implies
<1>7. Implies(temporal, Depends("added", loq, k)) = {m_depBasePicture, m_depTemporalBuffer}
  BY <1>1 DEF Implies
<1>8. /\ Implies(temporal, Depends("done", loq, k)) = External(temporal)
      /\ Implies(temporal, Depends("plane", loq, k)) = External(temporal)
  BY <1>1 DEF Implies
<1>9. Implies(temporal, kTaskDependencyInvalid) = {}
  BY <1>2 DEF Implies
<1> QED BY <1>4, <1>5, <1>6, <1>7, <1>8, <1>9

\* Two lists, the second after the first.
LEMMA JoinedIs ==
    ASSUME NEW a \in Seq(Tasks), NEW b \in Seq(Tasks), NEW c, c = a \o b
    PROVE  /\ c \in Seq(Tasks) /\ Len(c) = Len(a) + Len(b)
           /\ \A i \in 1 .. Len(a) : i \in 1 .. Len(c) /\ c[i] = a[i]
           /\ \A i \in 1 .. Len(b) : Len(a) + i \in 1 .. Len(c) /\ c[Len(a) + i] = b[i]
           /\ \A i \in 1 .. Len(c) : i \in 1 .. Len(a) \/ (i - Len(a) \in 1 .. Len(b) /\ c[i] = b[i - Len(a)])
<1>1. PICK m, n : m = Len(a) /\ n = Len(b)
  OBVIOUS
<1>2. /\ m \in Nat /\ n \in Nat /\ c \in Seq(Tasks) /\ Len(c) = m + n
      /\ \A i \in 1 .. m + n : c[i] = IF i <= m THEN a[i] ELSE b[i - m]
  <2>1. /\ Len(a \o b) = Len(a) + Len(b) /\ a \o b \in Seq(Tasks)
        /\ \A i \in 1 .. Len(a) + Len(b) : (a \o b)[i] = IF i <= Len(a) THEN a[i] ELSE b[i - Len(a)]
    BY ConcatProperties
  <2>2. Len(a) \in Nat /\ Len(b) \in Nat /\ c = a \o b
    OBVIOUS
  <2> QED BY ONLY <1>1, <2>1, <2>2
<1>3. \A i \in 1 .. m : i \in 1 .. m + n /\ c[i] = a[i]
  BY <1>2
<1>4. ASSUME NEW i \in 1 .. n PROVE m + i \in 1 .. m + n /\ c[m + i] = b[i]
  <2>1. m + i \in 1 .. m + n /\ ~(m + i <= m) /\ (m + i) - m = i
    BY <1>2
  <2> QED BY <1>2, <2>1
<1>5. ASSUME NEW i \in 1 .. m + n, i \notin 1 .. m PROVE i - m \in 1 .. n /\ c[i] = b[i - m]
  <2>1. ~(i <= m) /\ i - m \in 1 .. n
    BY <1>2, <1>5
  <2> QED BY <1>2, <2>1
<1>6. \A i \in 1 .. m + n : i \in 1 .. m \/ (i - m \in 1 .. n /\ c[i] = b[i - m])
  BY <1>5
<1> QED BY ONLY <1>1, <1>2, <1>3, <1>4, <1>6

LEMMA JoinedFollows ==
    ASSUME NEW known, NEW a \in Seq(Tasks), NEW b \in Seq(Tasks),
           Follows(known, a), Follows(known \cup Outputs(a), b)
    PROVE  Follows(known, a \o b)
<1> DEFINE m == Len(a)
           n == Len(b)
<1>1. PICK c : c = a \o b
  OBVIOUS
<1>2. /\ m \in Nat /\ n \in Nat /\ Len(c) = m + n
      /\ \A i \in 1 .. m : i \in 1 .. Len(c) /\ c[i] = a[i]
      /\ \A i \in 1 .. n : m + i \in 1 .. Len(c) /\ c[m + i] = b[i]
      /\ \A i \in 1 .. Len(c) : i \in 1 .. m \/ (i - m \in 1 .. n /\ c[i] = b[i - m])
  BY <1>1, JoinedIs
<1> SUFFICES ASSUME NEW i \in 1 .. Len(c), NEW d \in c[i].inputs, d \notin known
             PROVE  \E j \in 1 .. i - 1 : c[j].output = d
  BY <1>1, <1>2 DEF Follows
<1>3. CASE i \in 1 .. m
  <2>0. i \in 1 .. Len(a) /\ d \in a[i].inputs
    BY <1>2, <1>3
  <2>1. PICK j \in 1 .. i - 1 : a[j].output = d
    BY <2>0 DEF Follows
  <2>2. j \in 1 .. m
    BY <1>2, <1>3
  <2> QED BY <1>2, <2>1, <2>2
<1>4. CASE i - m \in 1 .. n /\ c[i] = b[i - m]
  <2>1. CASE d \in Outputs(a)
    <3>1. PICK j \in 1 .. m : a[j].output = d
      BY <2>1 DEF Outputs
    <3>2. j \in 1 .. i - 1
      BY <1>2, <1>4
    <3> QED BY <1>2, <3>1, <3>2
  <2>2. CASE d \notin Outputs(a)
    <3>1. PICK j \in 1 .. (i - m) - 1 : b[j].output = d
      BY <1>4, <2>2 DEF Follows
    <3>2. j \in 1 .. n /\ m + j \in 1 .. i - 1
      BY <1>2, <1>4
    <3> QED BY <1>2, <3>1, <3>2
  <2> QED BY <2>1, <2>2
<1> QED BY <1>2, <1>3, <1>4

LEMMA JoinedOutputs ==
    ASSUME NEW a \in Seq(Tasks), NEW b \in Seq(Tasks)
    PROVE  Outputs(a \o b) = Outputs(a) \cup Outputs(b)
<1>1. PICK m, n, c : m = Len(a) /\ n = Len(b) /\ c = a \o b
  OBVIOUS
<1>2. /\ \A i \in 1 .. m : i \in 1 .. Len(c) /\ c[i] = a[i]
      /\ \A i \in 1 .. n : m + i \in 1 .. Len(c) /\ c[m + i] = b[i]
      /\ \A i \in 1 .. Len(c) : i \in 1 .. m \/ (i - m \in 1 .. n /\ c[i] = b[i - m])
  BY <1>1, JoinedIs
<1>3. ASSUME NEW o \in Outputs(c) PROVE o \in Outputs(a) \cup Outputs(b)
  <2>1. PICK i \in 1 .. Len(c) : o = c[i].output
    BY <1>3 DEF Outputs
  <2> QED BY <1>1, <1>2, <2>1 DEF Outputs
<1>4. ASSUME NEW o \in Outputs(a) PROVE o \in Outputs(c)
  <2>1. PICK i \in 1 .. m : o = a[i].output
    BY <1>1, <1>4 DEF Outputs
  <2> QED BY <1>2, <2>1 DEF Outputs
<1>5. ASSUME NEW o \in Outputs(b) PROVE o \in Outputs(c)
  <2>1. PICK i \in 1 .. n : o = b[i].output
    BY <1>1, <1>5 DEF Outputs
  <2> QED BY <1>2, <2>1 DEF Outputs
<1> QED BY <1>1, <1>3, <1>4, <1>5

LEMMA JoinedQuiet ==
    ASSUME NEW temporal, NEW known, NEW a, NEW b,
           Quiet(temporal, known, a), Quiet(temporal, known \cup Outputs(a), b)
    PROVE  Quiet(temporal, known, a \o b)
<1>1. a \in Seq(Tasks) /\ b \in Seq(Tasks)
  BY DEF Quiet
<1>2. PICK c : c = a \o b
  OBVIOUS
<1>3. Follows(known, c) /\ c \in Seq(Tasks)
  BY <1>1, <1>2, JoinedFollows, JoinedIs DEF Quiet
<1>4. ASSUME NEW i \in 1 .. Len(c)
      PROVE  (\E j \in 1 .. Len(a) : c[i] = a[j]) \/ (\E j \in 1 .. Len(b) : c[i] = b[j])
  BY <1>1, <1>2, JoinedIs
<1>5. ASSUME NEW i \in 1 .. Len(c)
      PROVE  /\ TaskOK(temporal, c[i]) /\ c[i].does \notin Special
             /\ m_depOutputPicture \notin c[i].inputs
  BY <1>4 DEF Quiet
<1> QED BY <1>2, <1>3, <1>5 DEF Quiet

\* The last of two lists.
LEMMA LastJoined ==
    ASSUME NEW a \in Seq(Tasks), NEW b \in Seq(Tasks), NEW other
    PROVE  /\ b # <<>> => LastOutput(a \o b, other) = LastOutput(b, other) /\ a \o b # <<>>
           /\ b # <<>> => LastOutput(b, other) \in Outputs(b)
           /\ a \o <<>> = a
<1>1. ASSUME b # <<>> PROVE LastOutput(a \o b, other) = LastOutput(b, other) /\ a \o b # <<>>
  <2>1. PICK c : c = a \o b
    OBVIOUS
  <2>2. Len(b) \in 1 .. Len(b) /\ Len(c) = Len(a) + Len(b) /\ Len(a) \in Nat
    BY <1>1, <2>1, JoinedIs
  <2>3. c[Len(a) + Len(b)] = b[Len(b)] /\ Len(a) + Len(b) > 0
    BY <2>1, <2>2, JoinedIs
  <2>4. c # <<>>
    BY <2>2, <2>3
  <2> QED BY <1>1, <2>1, <2>2, <2>3, <2>4 DEF LastOutput
<1>2. ASSUME b # <<>> PROVE LastOutput(b, other) \in Outputs(b)
  <2>1. Len(b) \in 1 .. Len(b)
    BY <1>2
  <2> QED BY <1>2, <2>1 DEF LastOutput, Outputs
<1> QED BY <1>1, <1>2

LEMMA OneTask ==
    ASSUME NEW task \in Tasks, NEW tail, tail = <<task>>
    PROVE  /\ tail \in Seq(Tasks) /\ Len(tail) = 1 /\ tail[1] = task /\ tail # <<>>
           /\ Outputs(tail) = {task.output}
           /\ \A other : LastOutput(tail, other) = task.output
           /\ \A known : task.inputs \subseteq known => Follows(known, tail)
<1>1. tail \in Seq(Tasks) /\ Len(tail) = 1 /\ tail[1] = task /\ tail # <<>>
  OBVIOUS
<1>2. Outputs(tail) = {task.output}
  BY <1>1 DEF Outputs
<1>3. \A other : LastOutput(tail, other) = task.output
  BY <1>1 DEF LastOutput
<1>4. \A known : task.inputs \subseteq known => Follows(known, tail)
  BY <1>1 DEF Follows
<1> QED BY <1>1, <1>2, <1>3, <1>4

\* What the residuals of a level rest on.
Rests(temporal, loq, e) ==
  \A name \in {"tile", "tiles"} : \A k \in Nat : Implies(temporal, Depends(name, loq, k)) = {e}

(* Commands and residuals of one level, of one tile or of several. *)
LEMMA ResidualsQuiet ==
    ASSUME stream.settings \in Settings, NEW temporal \in BOOLEAN, NEW known,
           NEW does \in {"ApplyCmdBufferDirect", "ApplyCmdBufferTemporal"},
           NEW loq \in Nat, NEW at \in Int, NEW e,
           NEW input \in Dependency, input \in known, input # m_depOutputPicture,
           e \in Implies(temporal, input),
           Rests(temporal, loq, e),
           NEW list, list = Residuals(does, loq, input, at)
    PROVE  /\ Quiet(temporal, known, list) /\ list # <<>>
           /\ \A other : e \in Implies(temporal, LastOutput(list, other))
<1> DEFINE n == stream.settings.numTiles
           commands(k) == Depends("commands", loq, k)
           tile(i) == (i + 1) \div 2
           each == [i \in 1 .. 2 * n |->
                      IF i % 2 = 1 THEN Task("GenerateCmdBuffer", {}, commands(tile(i)), at)
                      ELSE Task(does, {input, commands(tile(i))}, Depends("tile", loq, tile(i)), at)]
           wait == Task("WaitForMany", {Depends("tile", loq, k) : k \in 1 .. n}, Depends("tiles", loq, 0), at)
<1> \A name \in {"tile", "tiles"} : \A k \in Nat : Implies(temporal, Depends(name, loq, k)) = {e}
  BY DEF Rests
<1>1. n \in Nat \ {0}
  BY DEF Settings
<1>2. Residuals(does, loq, input, at) = IF n > 1 THEN Append(each, wait) ELSE each
  BY DEF Residuals
<1>3. ASSUME NEW k \in Nat
      PROVE  /\ Depends("commands", loq, k) \in Dependency /\ Depends("commands", loq, k) \notin External(TRUE)
             /\ Depends("tile", loq, k) \in Dependency /\ Depends("tile", loq, k) \notin External(TRUE)
             /\ Depends("tiles", loq, k) \in Dependency /\ Depends("tiles", loq, k) \notin External(TRUE)
             /\ Implies(temporal, Depends("commands", loq, k)) = {}
  <2>1. "commands" \in Name /\ "tile" \in Name /\ "tiles" \in Name
    BY DEF Name
  <2>2. /\ Depends("commands", loq, k)[1] = "commands" /\ Depends("tile", loq, k)[1] = "tile"
        /\ Depends("tiles", loq, k)[1] = "tiles"
    BY <2>1, DependsIs
  <2> QED BY <2>1, <2>2, DependsIs, ExternalIs, ImpliesIs
<1>4. ASSUME NEW i \in 1 .. 2 * n
      PROVE  /\ tile(i) \in 1 .. n
             /\ i % 2 = 1 \/ (i - 1 \in 1 .. 2 * n /\ (i - 1) % 2 = 1 /\ tile(i - 1) = tile(i))
  BY <1>1
<1>5. \A k \in 1 .. n : 2 * k \in 1 .. 2 * n /\ (2 * k) % 2 # 1 /\ tile(2 * k) = k
  BY <1>1
<1>6. ASSUME NEW k \in Nat
      PROVE  LET task == Task("GenerateCmdBuffer", {}, commands(k), at)
             IN  /\ task \in Tasks /\ TaskOK(temporal, task) /\ task.does \notin Special
                 /\ task.inputs = {} /\ task.output = commands(k)
  <2>1. PICK task : task = Task("GenerateCmdBuffer", {}, commands(k), at)
    OBVIOUS
  <2>2. PICK name, needs, gives : name = "GenerateCmdBuffer" /\ needs = {} /\ gives = commands(k)
    OBVIOUS
  <2>5. name \in TaskName /\ needs \in SUBSET Dependency /\ gives \in Dependency
    BY <1>3, <2>2 DEF TaskName
  <2>6. task = Task(name, needs, gives, at)
    BY <2>1, <2>2
  <2>7. task \in Tasks /\ task.does = name /\ task.inputs = needs /\ task.output = gives
    BY <2>5, <2>6 DEF Task, Tasks
  <2>3. task \in Tasks /\ task.does = "GenerateCmdBuffer" /\ task.inputs = {} /\ task.output = commands(k)
    BY <2>2, <2>7
  <2>4. Due(temporal, task) = {}
    BY <1>3, <2>3 DEF Due
  <2> QED BY <1>3, <2>1, <2>3, <2>4 DEF TaskOK, Special
<1>7. ASSUME NEW k \in Nat
      PROVE  LET task == Task(does, {input, commands(k)}, Depends("tile", loq, k), at)
             IN  /\ task \in Tasks /\ TaskOK(temporal, task) /\ task.does \notin Special
                 /\ task.inputs = {input, commands(k)} /\ task.output = Depends("tile", loq, k)
                 /\ m_depOutputPicture \notin task.inputs
  <2>1. PICK task : task = Task(does, {input, commands(k)}, Depends("tile", loq, k), at)
    OBVIOUS
  <2>2. PICK needs, gives : needs = {input, commands(k)} /\ gives = Depends("tile", loq, k)
    OBVIOUS
  <2>6. does \in TaskName /\ needs \in SUBSET Dependency /\ gives \in Dependency
    BY <1>3, <2>2 DEF TaskName
  <2>7. task = Task(does, needs, gives, at)
    BY <2>1, <2>2
  <2>8. task \in Tasks /\ task.does = does /\ task.inputs = needs /\ task.output = gives
    BY <2>6, <2>7 DEF Task, Tasks
  <2>3. /\ task \in Tasks /\ task.does = does /\ task.inputs = {input, commands(k)}
        /\ task.output = Depends("tile", loq, k)
    BY <2>2, <2>8
  <2>4. Due(temporal, task) = {e}
    BY <2>3 DEF Due
  <2>5. m_depOutputPicture \notin task.inputs
    BY <1>3, <2>3, ExternalIs
  <2> QED BY <1>3, <2>1, <2>3, <2>4, <2>5 DEF TaskOK, Special
<1>8. ASSUME NEW i \in 1 .. 2 * n
      PROVE  /\ each[i] \in Tasks /\ TaskOK(temporal, each[i]) /\ each[i].does \notin Special
             /\ m_depOutputPicture \notin each[i].inputs
             /\ i % 2 = 1 => each[i].inputs = {} /\ each[i].output = commands(tile(i))
             /\ i % 2 # 1 => /\ each[i].inputs = {input, commands(tile(i))}
                             /\ each[i].output = Depends("tile", loq, tile(i))
  <2>1. tile(i) \in Nat
    BY <1>4
  <2>2. CASE i % 2 = 1
    <3>1. each[i] = Task("GenerateCmdBuffer", {}, commands(tile(i)), at)
      BY <2>2
    <3> HIDE DEF each, tile, commands
    <3> QED BY <1>6, <2>1, <2>2, <3>1
  <2>3. CASE i % 2 # 1
    <3>1. each[i] = Task(does, {input, commands(tile(i))}, Depends("tile", loq, tile(i)), at)
      BY <2>3
    <3> HIDE DEF each, tile, commands
    <3> QED BY <1>7, <2>1, <2>3, <3>1
  <2> QED BY <2>2, <2>3
<1>9. each \in Seq(Tasks) /\ Len(each) = 2 * n
  <2>1. 2 * n \in Nat /\ DOMAIN each = 1 .. 2 * n /\ each \in [1 .. 2 * n -> Tasks]
    <3>1. 2 * n \in Nat
      BY <1>1
    <3>2. \A i \in 1 .. 2 * n : each[i] \in Tasks
      BY <1>8
    <3> HIDE DEF n, tile, commands
    <3>3. DOMAIN each = 1 .. 2 * n /\ each = [i \in DOMAIN each |-> each[i]]
      OBVIOUS
    <3> HIDE DEF each
    <3> QED BY ONLY <3>1, <3>2, <3>3
  <2> HIDE DEF each, n
  <2> QED BY <2>1
<1>10. \A k \in 1 .. n : each[2 * k].output = Depends("tile", loq, k)
  BY <1>5, <1>8
<1> HIDE DEF each
<1>11. Follows(known, each)
  <2> SUFFICES ASSUME NEW i \in 1 .. 2 * n, NEW d \in each[i].inputs, d \notin known
               PROVE  \E j \in 1 .. i - 1 : each[j].output = d
    BY <1>9 DEF Follows
  <2>1. i % 2 # 1 /\ d = commands(tile(i))
    BY <1>8
  <2>2. i - 1 \in 1 .. 2 * n /\ (i - 1) % 2 = 1 /\ tile(i - 1) = tile(i) /\ i - 1 \in 1 .. i - 1
    BY <1>4, <2>1
  <2>3. each[i - 1].output = d
    <3> HIDE DEF tile
    <3> QED BY <1>8, <2>1, <2>2
  <2> QED BY <2>2, <2>3
<1>12. Quiet(temporal, known, each)
  BY <1>8, <1>9, <1>11 DEF Quiet
<1>13. each # <<>> /\ \A other : LastOutput(each, other) = Depends("tile", loq, n)
  <2>1. 2 * n > 0 /\ n \in 1 .. n
    BY <1>1
  <2>2. each # <<>>
    BY <1>9, <2>1
  <2>3. each[2 * n].output = Depends("tile", loq, n)
    BY <1>10, <2>1
  <2> QED BY <1>9, <2>2, <2>3 DEF LastOutput
<1>14. CASE n > 1
  <2>1. PICK tail : tail = <<wait>>
    OBVIOUS
  <2>2. PICK inputs : inputs = {Depends("tile", loq, k) : k \in 1 .. n}
    OBVIOUS
  <2>3. ASSUME NEW d \in inputs PROVE d \in Dependency /\ d # m_depOutputPicture
    <3>1. PICK k \in 1 .. n : d = Depends("tile", loq, k)
      BY <2>2
    <3>2. k \in Nat
      BY <1>1
    <3> QED BY <1>3, <3>1, <3>2, ExternalIs
  <2>12. PICK name, gives : name = "WaitForMany" /\ gives = Depends("tiles", loq, 0)
    OBVIOUS
  <2>13. name \in TaskName /\ gives \in Dependency /\ inputs \in SUBSET Dependency
    BY <1>3, <2>3, <2>12 DEF TaskName
  <2>14. PICK task : task = wait
    OBVIOUS
  <2>15. task = Task(name, inputs, gives, at)
    BY <2>2, <2>12, <2>14
  <2>17. task \in Tasks /\ task.does = name /\ task.inputs = inputs /\ task.output = gives
    BY <2>13, <2>15 DEF Task, Tasks
  <2>16. /\ task \in Tasks /\ task.does = name /\ task.inputs = inputs
         /\ task.output = gives
         /\ tail \in Seq(Tasks) /\ Len(tail) = 1 /\ tail[1] = task /\ tail # <<>>
         /\ \A other : LastOutput(tail, other) = gives
         /\ \A all : inputs \subseteq all => Follows(all, tail)
    <3>1. tail = <<task>>
      BY <2>1, <2>14
    <3> HIDE DEF wait
    <3> QED BY <2>17, <3>1, OneTask
  <2>4. /\ wait \in Tasks /\ wait.does = "WaitForMany" /\ wait.inputs = inputs
        /\ wait.output = Depends("tiles", loq, 0)
        /\ tail \in Seq(Tasks) /\ Len(tail) = 1 /\ tail[1] = wait /\ tail # <<>>
        /\ \A other : LastOutput(tail, other) = Depends("tiles", loq, 0)
        /\ \A all : inputs \subseteq all => Follows(all, tail)
    BY <2>1, <2>12, <2>14, <2>16
  <2> HIDE DEF wait
  <2>5. inputs \subseteq Outputs(each)
    <3>1. ASSUME NEW k \in 1 .. n PROVE Depends("tile", loq, k) \in Outputs(each)
      BY <1>5, <1>9, <1>10 DEF Outputs
    <3> QED BY <2>2, <3>1
  <2>6. TaskOK(temporal, wait)
    <3>1. Due(temporal, wait) = {e} /\ wait.output \notin External(TRUE)
      BY <1>3, <2>4 DEF Due
    <3>2. Depends("tile", loq, 1) \in inputs /\ e \in Implies(temporal, Depends("tile", loq, 1))
      BY <1>1, <2>2
    <3> QED BY <2>4, <3>1, <3>2 DEF TaskOK
  <2>7. m_depOutputPicture \notin inputs
    BY <2>3
  <2>8. Quiet(temporal, known \cup Outputs(each), tail)
    BY <2>4, <2>5, <2>6, <2>7 DEF Quiet, Special
  <2>9. Quiet(temporal, known, each \o tail)
    BY <1>12, <2>8, JoinedQuiet
  <2>10. each \o tail # <<>> /\ \A other : LastOutput(each \o tail, other) = Depends("tiles", loq, 0)
    BY <1>9, <2>4, LastJoined
  <2>11. Residuals(does, loq, input, at) = each \o tail
    <3>1. Append(each, wait) = each \o <<wait>>
      BY <1>9, <2>4
    <3> QED BY <1>2, <1>14, <2>1, <3>1
  <2> HIDE DEF n
  <2> QED BY <2>9, <2>10, <2>11
<1>15. CASE ~(n > 1)
  BY <1>1, <1>2, <1>12, <1>13, <1>15
<1> QED BY <1>14, <1>15

\* The tasks so far: what the last gives rests on the base.
Stage(temporal, tasks) ==
  /\ Quiet(temporal, External(temporal), tasks) /\ tasks # <<>>
  /\ Depends("internal", 0, 0) \in Outputs(tasks)
  /\ m_depBasePicture \in Implies(temporal, LastOutput(tasks, ""))

LEMMA StageLast ==
    ASSUME NEW temporal, NEW tasks, Stage(temporal, tasks)
    PROVE  /\ LastOutput(tasks, "") \in Outputs(tasks) /\ LastOutput(tasks, "") \in Dependency
           /\ LastOutput(tasks, "") # m_depOutputPicture
           /\ tasks \in Seq(Tasks)
<1>1. tasks \in Seq(Tasks) /\ tasks # <<>>
  BY DEF Stage, Quiet
<1>2. PICK n : n = Len(tasks)
  OBVIOUS
<1>3. n \in 1 .. Len(tasks) /\ LastOutput(tasks, "") = tasks[n].output
  BY <1>1, <1>2 DEF LastOutput
<1>4. tasks[n] \in Tasks /\ TaskOK(temporal, tasks[n])
  <2>1. \A i \in 1 .. Len(tasks) : tasks[i] \in Tasks
    BY <1>1
  <2> QED BY <1>3, <2>1 DEF Stage, Quiet
<1>5. tasks[n].output \in Dependency /\ tasks[n].output # m_depOutputPicture
  BY <1>4, ExternalIs DEF TaskOK, Tasks
<1> QED BY <1>1, <1>3, <1>5 DEF Outputs

LEMMA StageJoined ==
    ASSUME NEW temporal, NEW a, NEW b, Stage(temporal, a),
           Quiet(temporal, External(temporal) \cup Outputs(a), b), b # <<>>,
           m_depBasePicture \in Implies(temporal, LastOutput(b, ""))
    PROVE  Stage(temporal, a \o b)
<1>1. a \in Seq(Tasks) /\ b \in Seq(Tasks)
  BY DEF Stage, Quiet
<1>2. LastOutput(a \o b, "") = LastOutput(b, "") /\ a \o b # <<>>
  BY <1>1, LastJoined
<1>3. Outputs(a) \subseteq Outputs(a \o b)
  BY <1>1, JoinedOutputs
<1>4. Quiet(temporal, External(temporal), a \o b)
  BY JoinedQuiet DEF Stage
<1>5. PICK c : c = a \o b
  OBVIOUS
<1>6. Stage(temporal, c)
  BY <1>2, <1>3, <1>4, <1>5 DEF Stage
<1> QED BY <1>5, <1>6

LEMMA StageUpsampled ==
    ASSUME stream.settings \in Settings, NEW temporal \in BOOLEAN, NEW tasks, Stage(temporal, tasks),
           NEW loq \in {LOQ0, LOQ1}, NEW at \in Int
    PROVE  Stage(temporal, tasks \o Upsampled(loq, LastOutput(tasks, ""), at))
<1>1. tasks \in Seq(Tasks)
  BY StageLast
<1>2. CASE ~stream.settings.scaled[loq + 1]
  BY <1>1, <1>2, LastJoined DEF Upsampled
<1>3. CASE stream.settings.scaled[loq + 1]
  <2>1. PICK name, needs, gives : name = "Upsample" /\ needs = {LastOutput(tasks, "")} /\ gives = Depends("upsampled", loq, 0)
    OBVIOUS
  <2>2. PICK upsampled, zero : upsampled = "upsampled" /\ zero = 0
    OBVIOUS
  <2>0. loq \in Nat /\ zero \in Nat /\ upsampled \in Name /\ gives = Depends(upsampled, loq, zero)
    <3>1. loq \in Nat
      BY DEF LOQ0, LOQ1
    <3> QED BY <2>1, <2>2, <3>1 DEF Name
  <2>3. gives \in Dependency /\ gives \notin External(TRUE) /\ Implies(temporal, gives) = {m_depBasePicture}
    <3>1. gives \in Dependency /\ gives[1] = upsampled
      BY <2>0, DependsIs
    <3>2. gives \notin External(TRUE)
      BY <2>2, <3>1, ExternalIs
    <3>3. Implies(temporal, Depends("upsampled", loq, zero)) = {m_depBasePicture}
      BY <2>0, ImpliesIs
    <3> QED BY <2>1, <2>2, <3>1, <3>2, <3>3
  <2>4. name \in TaskName /\ needs \in SUBSET Dependency
    BY <2>1, StageLast DEF TaskName
  <2>5. PICK task : task = Task(name, needs, gives, at)
    OBVIOUS
  <2>12. PICK tail : tail = <<task>>
    OBVIOUS
  <2>6. /\ task \in Tasks /\ task.does = name /\ task.inputs = needs /\ task.output = gives
        /\ tail \in Seq(Tasks) /\ Len(tail) = 1 /\ tail[1] = task /\ tail # <<>>
        /\ \A other : LastOutput(tail, other) = gives
        /\ \A all : needs \subseteq all => Follows(all, tail)
    <3>1. needs \in SUBSET Dependency /\ gives \in Dependency /\ name \in TaskName
      BY <2>3, <2>4
    <3>2. task \in Tasks /\ task.does = name /\ task.inputs = needs /\ task.output = gives
      BY <2>5, <3>1 DEF Task, Tasks
    <3> QED BY <2>12, <3>2, OneTask
  <2>7. Upsampled(loq, LastOutput(tasks, ""), at) = tail
    BY <1>3, <2>1, <2>5, <2>12 DEF Upsampled
  <2>8. Due(temporal, task) = {m_depBasePicture}
    BY <2>1, <2>3, <2>6 DEF Due
  <2>9. TaskOK(temporal, task)
    <3>1. task.output \notin External(TRUE)
      BY <2>3, <2>6
    <3>2. \A e \in Due(temporal, task) : \E d \in task.inputs : e \in Implies(temporal, d)
      BY <2>1, <2>6, <2>8 DEF Stage
    <3>3. task.does # "TemporalRelease"
      BY <2>1, <2>6
    <3> QED BY ONLY <3>1, <3>2, <3>3 DEF TaskOK
  <2>10. m_depOutputPicture \notin task.inputs /\ task.does \notin Special
    BY <2>1, <2>6, StageLast DEF Special
  <2>11. needs \subseteq External(temporal) \cup Outputs(tasks)
    BY <2>1, StageLast
  <2>13. Follows(External(temporal) \cup Outputs(tasks), tail)
    BY <2>6, <2>11
  <2>14. Quiet(temporal, External(temporal) \cup Outputs(tasks), tail)
    BY <2>6, <2>9, <2>10, <2>13 DEF Quiet
  <2>15. tail # <<>> /\ m_depBasePicture \in Implies(temporal, LastOutput(tail, ""))
    BY <2>3, <2>6
  <2>16. Stage(temporal, tasks \o tail)
    BY <2>14, <2>15, StageJoined
  <2> QED BY <2>7, <2>16
<1> QED BY <1>2, <1>3

\* What is generated for a frame, complete.
Generated(temporal, tasks) ==
  /\ tasks \in Seq(Tasks) /\ ListOK(temporal, {}, tasks)
  /\ Has(tasks, "OutputDone") /\ Has(tasks, "BaseDone")
  /\ Has(tasks, "TemporalRelease") <=> temporal

\* The tasks before the picture is converted and given out.
Enhanced(temporal, tasks, reconstructed) ==
  /\ tasks \in Seq(Tasks) /\ Follows(External(temporal), tasks)
  /\ \A k \in 1 .. Len(tasks) : /\ TaskOK(temporal, tasks[k])
                                /\ tasks[k].does \notin {"OutputDone", "BaseDone"}
                                /\ m_depOutputPicture \notin tasks[k].inputs
  /\ Once(tasks, "TemporalRelease") /\ (Has(tasks, "TemporalRelease") <=> temporal)
  /\ Depends("internal", 0, 0) \in Outputs(tasks) /\ reconstructed \in Outputs(tasks)
  /\ reconstructed \in Dependency
  /\ External(temporal) \ {m_depOutputPicture} \subseteq Implies(temporal, reconstructed)

LEMMA ThreeTasks ==
    ASSUME NEW x \in Tasks, NEW y \in Tasks, NEW z \in Tasks, NEW e, e = <<x, y, z>>
    PROVE  e \in Seq(Tasks) /\ Len(e) = 3 /\ e[1] = x /\ e[2] = y /\ e[3] = z
OBVIOUS

LEMMA EndingGenerated ==
    ASSUME NEW temporal \in BOOLEAN, NEW tasks, NEW reconstructed, NEW at \in Int,
           Enhanced(temporal, tasks, reconstructed)
    PROVE  Generated(temporal, tasks \o Ending(reconstructed, at))
<1>1. PICK done, internal : done = Depends("done", 0, 0) /\ internal = Depends("internal", 0, 0)
  OBVIOUS
<1>2. /\ done \in Dependency /\ done \notin External(TRUE) /\ Implies(temporal, done) = External(temporal)
      /\ internal \in Dependency /\ Implies(temporal, internal) = {m_depBasePicture}
      /\ kTaskDependencyInvalid \in Dependency /\ kTaskDependencyInvalid \notin External(TRUE)
      /\ Implies(temporal, kTaskDependencyInvalid) = {}
      /\ Implies(temporal, m_depOutputPicture) = {m_depOutputPicture} /\ m_depOutputPicture \in Dependency
      /\ m_depOutputPicture \in External(temporal)
  <2>1. "done" \in Name /\ "internal" \in Name /\ "invalid" \in Name /\ 0 \in Nat
    BY DEF Name
  <2>2. done[1] = "done" /\ kTaskDependencyInvalid[1] = "invalid"
    BY <1>1, <2>1, DependsIs DEF kTaskDependencyInvalid
  <2>3. done \in Dependency /\ internal \in Dependency /\ kTaskDependencyInvalid \in Dependency
    BY <1>1, <2>1, DependsIs DEF kTaskDependencyInvalid
  <2>4. /\ Implies(temporal, done) = External(temporal) /\ Implies(temporal, internal) = {m_depBasePicture}
        /\ Implies(temporal, kTaskDependencyInvalid) = {}
        /\ Implies(temporal, m_depOutputPicture) = {m_depOutputPicture}
    <3>1. PICK zero \in Nat : zero = 0
      OBVIOUS
    <3>2. /\ Implies(temporal, Depends("done", zero, zero)) = External(temporal)
          /\ Implies(temporal, Depends("internal", zero, zero)) = {m_depBasePicture}
          /\ Implies(temporal, kTaskDependencyInvalid) = {}
      BY <3>1, ImpliesIs
    <3>3. Implies(temporal, m_depOutputPicture) = {m_depOutputPicture}
      BY ImpliesExternal, ExternalIs
    <3> QED BY <1>1, <3>1, <3>2, <3>3
  <2> QED BY <2>2, <2>3, <2>4, ExternalIs
<1>3. PICK x : x = Task("ConvertFromInternal", {m_depOutputPicture, reconstructed}, done, at)
  OBVIOUS
<1>4. PICK y : y = Task("OutputDone", {done}, kTaskDependencyInvalid, at)
  OBVIOUS
<1>5. PICK z : z = Task("BaseDone", {internal}, kTaskDependencyInvalid, at)
  OBVIOUS
<1>6. /\ x \in Tasks /\ x.does = "ConvertFromInternal" /\ x.inputs = {m_depOutputPicture, reconstructed}
      /\ x.output = done
  BY <1>2, <1>3 DEF Task, Tasks, TaskName, Enhanced
<1>7. y \in Tasks /\ y.does = "OutputDone" /\ y.inputs = {done} /\ y.output = kTaskDependencyInvalid
  BY <1>2, <1>4 DEF Task, Tasks, TaskName
<1>8. z \in Tasks /\ z.does = "BaseDone" /\ z.inputs = {internal} /\ z.output = kTaskDependencyInvalid
  BY <1>2, <1>5 DEF Task, Tasks, TaskName
<1>9. TaskOK(temporal, x)
  <2>1. Due(temporal, x) = External(temporal)
    BY <1>2, <1>6 DEF Due
  <2>2. \A e \in External(temporal) : e = m_depOutputPicture \/ e \in Implies(temporal, reconstructed)
    BY DEF Enhanced
  <2> QED BY <1>2, <1>6, <2>1, <2>2 DEF TaskOK
<1>10. TaskOK(temporal, y)
  <2>1. Due(temporal, y) = External(temporal)
    BY <1>2, <1>7 DEF Due
  <2> QED BY <1>2, <1>7, <2>1 DEF TaskOK
<1>11. TaskOK(temporal, z)
  <2>1. Due(temporal, z) = {m_depBasePicture}
    BY <1>2, <1>8 DEF Due
  <2> QED BY <1>2, <1>8, <2>1 DEF TaskOK
<1>12. PICK e, c : e = <<x, y, z>> /\ c = tasks \o e
  OBVIOUS
<1>13. Ending(reconstructed, at) = e
  BY <1>1, <1>3, <1>4, <1>5, <1>12 DEF Ending
<1>14. e \in Seq(Tasks) /\ Len(e) = 3 /\ e[1] = x /\ e[2] = y /\ e[3] = z
  BY <1>6, <1>7, <1>8, <1>12, ThreeTasks
<1>15. /\ tasks \in Seq(Tasks) /\ Follows(External(temporal), tasks)
       /\ internal \in Outputs(tasks) /\ reconstructed \in Outputs(tasks)
       /\ Once(tasks, "TemporalRelease") /\ (Has(tasks, "TemporalRelease") <=> temporal)
       /\ \A k \in 1 .. Len(tasks) : /\ TaskOK(temporal, tasks[k])
                                     /\ tasks[k].does \notin {"OutputDone", "BaseDone"}
                                     /\ m_depOutputPicture \notin tasks[k].inputs
  BY <1>1 DEF Enhanced
<1> DEFINE n == Len(tasks)
<1>16. n \in Nat
  BY <1>15
<1>17. /\ c \in Seq(Tasks) /\ Len(c) = n + 3
       /\ \A i \in 1 .. n : c[i] = tasks[i]
       /\ c[n + 1] = x /\ c[n + 2] = y /\ c[n + 3] = z
       /\ \A i \in 1 .. n + 3 : i \in 1 .. n \/ i = n + 1 \/ i = n + 2 \/ i = n + 3
  <2>1. /\ c \in Seq(Tasks) /\ Len(c) = Len(tasks) + Len(e)
        /\ \A i \in 1 .. Len(tasks) : i \in 1 .. Len(c) /\ c[i] = tasks[i]
        /\ \A i \in 1 .. Len(e) : Len(tasks) + i \in 1 .. Len(c) /\ c[Len(tasks) + i] = e[i]
    BY <1>12, <1>14, <1>15, JoinedIs
  <2>2. 1 \in 1 .. Len(e) /\ 2 \in 1 .. Len(e) /\ 3 \in 1 .. Len(e)
    BY <1>14
  <2>3. \A i \in 1 .. n + 3 : i \in 1 .. n \/ i = n + 1 \/ i = n + 2 \/ i = n + 3
    BY <1>16
  <2> HIDE DEF n
  <2> QED BY <1>14, <2>1, <2>2, <2>3 DEF n
<1>18. Follows(External(temporal), c)
  <2>1. ASSUME NEW i \in 1 .. Len(e), NEW d \in e[i].inputs, d \notin External(temporal) \cup Outputs(tasks)
        PROVE  \E j \in 1 .. i - 1 : e[j].output = d
    <3>1. i \in 1 .. 3 /\ (i = 1 \/ i = 2 \/ i = 3)
      BY <1>14
    <3>2. i # 1 /\ i # 3
      BY <1>2, <1>6, <1>8, <1>14, <1>15, <2>1
    <3>3. i = 2 /\ d = done
      BY <1>7, <1>14, <2>1, <3>1, <3>2
    <3>4. 1 \in 1 .. i - 1 /\ e[1].output = d
      BY <1>6, <1>14, <3>3
    <3> QED BY <3>4
  <2>2. Follows(External(temporal) \cup Outputs(tasks), e)
    BY <2>1 DEF Follows
  <2> QED BY <1>12, <1>14, <1>15, <2>2, JoinedFollows
<1> HIDE DEF n
<1>19. \A i \in 1 .. n + 3 :
          /\ TaskOK(temporal, c[i])
          /\ c[i].does = "TemporalRelease" => i \in 1 .. n
          /\ c[i].does = "BaseDone" => i = n + 3
  BY <1>6, <1>7, <1>8, <1>9, <1>10, <1>11, <1>15, <1>17 DEF n
<1>20. Once(c, "TemporalRelease")
  BY <1>15, <1>17, <1>19 DEF Once, n
<1>21. Once(c, "BaseDone")
  BY <1>17, <1>19 DEF Once
<1>22. ASSUME NEW k \in 1 .. n + 3, NEW l \in 1 .. n + 3, c[l].does = "TemporalRelease", k <= l
       PROVE  m_depOutputPicture \notin c[k].inputs
  <2>1. l \in 1 .. n
    BY <1>19, <1>22
  <2>2. k \in 1 .. n
    BY <1>16, <1>22, <2>1
  <2> QED BY <1>15, <1>17, <2>2 DEF n
<1>23. ListOK(temporal, {}, c)
  <2>1. {} \cup External(temporal) = External(temporal)
    OBVIOUS
  <2> QED BY <1>17, <1>18, <1>19, <1>20, <1>21, <1>22, <2>1 DEF ListOK
<1>24. Has(c, "OutputDone") /\ Has(c, "BaseDone")
  <2>1. n + 2 \in 1 .. Len(c) /\ n + 3 \in 1 .. Len(c)
    BY <1>16, <1>17
  <2> QED BY <1>7, <1>8, <1>17, <2>1 DEF Has
<1>25. Has(c, "TemporalRelease") <=> temporal
  <2>1. \A i \in 1 .. n : i \in 1 .. n + 3
    BY <1>16
  <2>2. Has(c, "TemporalRelease") <=> Has(tasks, "TemporalRelease")
    BY <1>17, <1>19, <2>1 DEF Has, n
  <2> QED BY <1>15, <2>2
<1> QED BY <1>12, <1>13, <1>17, <1>23, <1>24, <1>25 DEF Generated

LEMMA ConvertStage ==
    ASSUME NEW temporal \in BOOLEAN, NEW tasks,
           tasks = <<Task("ConvertToInternal", {m_depBasePicture}, Depends("internal", 0, 0), LOQ2)>>
    PROVE  Stage(temporal, tasks)
<1>1. PICK task, name, needs, gives :
        /\ name = "ConvertToInternal" /\ needs = {m_depBasePicture} /\ gives = Depends("internal", 0, 0)
        /\ task = Task(name, needs, gives, LOQ2)
  OBVIOUS
<1>2. gives \in Dependency /\ gives \notin External(TRUE) /\ Implies(temporal, gives) = {m_depBasePicture}
  <2>1. PICK internal, zero : internal = "internal" /\ zero = 0
    OBVIOUS
  <2>2. internal \in Name /\ zero \in Nat /\ gives = Depends(internal, zero, zero)
    BY <1>1, <2>1 DEF Name
  <2>3. gives \in Dependency /\ gives[1] = internal
    BY <2>2, DependsIs
  <2>4. gives \notin External(TRUE)
    BY <2>1, <2>3, ExternalIs
  <2>5. Implies(temporal, Depends("internal", zero, zero)) = {m_depBasePicture}
    BY <2>2, ImpliesIs
  <2> QED BY <1>1, <2>1, <2>3, <2>4, <2>5
<1>3. name \in TaskName /\ needs \in SUBSET Dependency /\ LOQ2 \in Int
  <2>1. name \in TaskName
    BY <1>1 DEF TaskName
  <2>2. needs \in SUBSET Dependency
    BY <1>1, ExternalIs
  <2> QED BY <2>1, <2>2 DEF LOQ2
<1>4. task \in Tasks /\ task.does = name /\ task.inputs = needs /\ task.output = gives
  BY <1>1, <1>2, <1>3 DEF Task, Tasks
<1>5. tasks = <<task>>
  BY <1>1
<1>6. /\ tasks \in Seq(Tasks) /\ Len(tasks) = 1 /\ tasks[1] = task /\ tasks # <<>>
      /\ Outputs(tasks) = {gives} /\ LastOutput(tasks, "") = gives
      /\ Follows(External(temporal), tasks)
  <2>1. task.inputs \subseteq External(temporal)
    BY <1>1, <1>4 DEF External
  <2> QED BY <1>4, <1>5, <2>1, OneTask
<1>7. TaskOK(temporal, task)
  <2>1. Due(temporal, task) = {m_depBasePicture}
    BY <1>1, <1>2, <1>4 DEF Due
  <2>2. Implies(temporal, m_depBasePicture) = {m_depBasePicture}
    BY ImpliesExternal, ExternalIs
  <2> QED BY <1>1, <1>2, <1>4, <2>1, <2>2 DEF TaskOK
<1>8. task.does \notin Special /\ m_depOutputPicture \notin task.inputs
  BY <1>1, <1>4, ExternalIs DEF Special
<1>9. Quiet(temporal, External(temporal), tasks)
  <2>1. \A k \in 1 .. Len(tasks) : tasks[k] = task
    <3>1. Len(tasks) = 1 /\ tasks[1] = task
      BY <1>6
    <3> QED BY ONLY <3>1
  <2>2. \A k \in 1 .. Len(tasks) : /\ TaskOK(temporal, tasks[k]) /\ tasks[k].does \notin Special
                                    /\ m_depOutputPicture \notin tasks[k].inputs
    BY <1>7, <1>8, <2>1
  <2> QED BY <1>6, <2>2 DEF Quiet
<1> QED BY <1>1, <1>2, <1>6, <1>9 DEF Stage

LEMMA StageResiduals ==
    ASSUME stream.settings \in Settings, NEW temporal \in BOOLEAN, NEW tasks, Stage(temporal, tasks),
           NEW loq \in Nat, ~(temporal /\ loq = LOQ0), NEW at \in Int,
           NEW does, does = "ApplyCmdBufferDirect", NEW input, input = LastOutput(tasks, ""),
           NEW list, list = Residuals(does, loq, input, at)
    PROVE  Stage(temporal, tasks \o list) /\ list # <<>> /\ list \in Seq(Tasks)
<1>1. PICK known, e : known = External(temporal) \cup Outputs(tasks) /\ e = m_depBasePicture
  OBVIOUS
<1>2. /\ input \in Dependency /\ input \in known /\ input # m_depOutputPicture
      /\ e \in Implies(temporal, input) /\ tasks \in Seq(Tasks)
  BY <1>1, StageLast DEF Stage
<1>3. Rests(temporal, loq, e)
  <2>1. ~(temporal /\ loq = LOQ0)
    OBVIOUS
  <2>2. ASSUME NEW name \in {"tile", "tiles"}, NEW k \in Nat
        PROVE  Implies(temporal, Depends(name, loq, k)) = {m_depBasePicture}
    BY ONLY <2>1, ImpliesIs
  <2>3. e = m_depBasePicture
    BY <1>1
  <2> QED BY <2>2, <2>3 DEF Rests
<1>4. does \in {"ApplyCmdBufferDirect", "ApplyCmdBufferTemporal"}
  OBVIOUS
<1>5. /\ Quiet(temporal, known, list) /\ list # <<>>
      /\ \A other : e \in Implies(temporal, LastOutput(list, other))
  <2>1. list = Residuals(does, loq, input, at)
    BY <1>1
  <2> QED BY <1>2, <1>3, <1>4, <2>1, ResidualsQuiet
<1>6. Stage(temporal, tasks \o list)
  BY <1>1, <1>5, StageJoined
<1>7. list \in Seq(Tasks)
  BY <1>5 DEF Quiet
<1> QED BY <1>5, <1>6, <1>7

LEMMA PictureStage ==
    ASSUME stream.settings \in Settings, NEW temporal \in BOOLEAN, NEW f
    PROVE  Stage(temporal, generateTasksPicture(f))
<1>1. PICK convert : convert = <<Task("ConvertToInternal", {m_depBasePicture}, Depends("internal", 0, 0), LOQ2)>>
  OBVIOUS
<1>2. PICK first : first = convert \o Upsampled(LOQ1, LastOutput(convert, ""), LOQ2)
  OBVIOUS
<1>3. PICK at1 : at1 = intermediatePtr1
  OBVIOUS
<1>4. PICK base : base = first \o (IF f.config.loqEnabled[2]
                                   THEN Residuals("ApplyCmdBufferDirect", LOQ1, LastOutput(first, ""), at1)
                                   ELSE <<>>)
  OBVIOUS
<1>5. LOQ2 \in Int /\ LOQ1 \in Nat /\ at1 \in Int /\ ~(temporal /\ LOQ1 = LOQ0)
  BY <1>3 DEF intermediatePtr1, LOQ0, LOQ1, LOQ2
<1>6. Stage(temporal, convert)
  BY <1>1, ConvertStage
<1>7. Stage(temporal, first)
  BY <1>2, <1>5, <1>6, StageUpsampled
<1>8. Stage(temporal, base)
  <2>1. CASE f.config.loqEnabled[2]
    <3>1. PICK does, input, list : /\ does = "ApplyCmdBufferDirect" /\ input = LastOutput(first, "")
                                   /\ list = Residuals(does, LOQ1, input, at1)
      OBVIOUS
    <3>2. base = first \o list
      BY <1>4, <2>1, <3>1
    <3>3. Stage(temporal, first \o list)
      BY <1>5, <1>7, <3>1, StageResiduals
    <3> QED BY <3>2, <3>3
  <2>2. CASE ~f.config.loqEnabled[2]
    <3>1. first \in Seq(Tasks)
      BY <1>7, StageLast
    <3> QED BY <1>4, <1>7, <2>2, <3>1, LastJoined
  <2> QED BY <2>1, <2>2
<1>9. Stage(temporal, base \o Upsampled(LOQ0, LastOutput(base, ""), at1))
  BY <1>5, <1>8, StageUpsampled
<1>10. generateTasksPicture(f) = base \o Upsampled(LOQ0, LastOutput(base, ""), at1)
  BY <1>1, <1>2, <1>3, <1>4 DEF generateTasksPicture
<1> QED BY <1>9, <1>10

LEMMA StageEnhanced ==
    ASSUME NEW tasks, Stage(FALSE, tasks)
    PROVE  Enhanced(FALSE, tasks, LastOutput(tasks, ""))
<1>1. /\ tasks \in Seq(Tasks) /\ Follows(External(FALSE), tasks)
      /\ \A k \in 1 .. Len(tasks) : /\ TaskOK(FALSE, tasks[k]) /\ tasks[k].does \notin Special
                                    /\ m_depOutputPicture \notin tasks[k].inputs
  BY DEF Stage, Quiet
<1>2. \A k \in 1 .. Len(tasks) : tasks[k].does \notin {"OutputDone", "BaseDone"} /\ tasks[k].does # "TemporalRelease"
  BY <1>1 DEF Special
<1>3. Once(tasks, "TemporalRelease") /\ ~Has(tasks, "TemporalRelease")
  BY <1>2 DEF Once, Has
<1>4. LastOutput(tasks, "") \in Outputs(tasks) /\ LastOutput(tasks, "") \in Dependency
  BY StageLast
<1>5. External(FALSE) \ {m_depOutputPicture} \subseteq Implies(FALSE, LastOutput(tasks, ""))
  BY ExternalIs DEF Stage
<1> QED BY <1>1, <1>2, <1>3, <1>4, <1>5 DEF Enhanced, Stage

\* The temporal buffer is added, and left.
LEMMA TemporalEnhanced ==
    ASSUME NEW tasks, Quiet(TRUE, External(TRUE), tasks), Depends("internal", 0, 0) \in Outputs(tasks),
           NEW x \in Dependency, x \in External(TRUE) \cup Outputs(tasks), x # m_depOutputPicture,
           m_depTemporalBuffer \in Implies(TRUE, x),
           NEW recon \in Dependency, recon \in Outputs(tasks), recon # m_depOutputPicture,
           m_depBasePicture \in Implies(TRUE, recon),
           NEW at \in Int, NEW added, added = Depends("added", 0, 0),
           NEW tail, tail = <<Task("ApplyAddTemporal", {x, recon}, added, at),
                              Task("TemporalRelease", {added}, kTaskDependencyInvalid, at)>>
    PROVE  Enhanced(TRUE, tasks \o tail, added)
<1>1. /\ added \in Dependency /\ added \notin External(TRUE)
      /\ Implies(TRUE, added) = {m_depBasePicture, m_depTemporalBuffer}
      /\ kTaskDependencyInvalid \in Dependency /\ kTaskDependencyInvalid \notin External(TRUE)
      /\ Implies(TRUE, kTaskDependencyInvalid) = {}
  <2>1. PICK name, invalid, zero : name = "added" /\ invalid = "invalid" /\ zero = 0
    OBVIOUS
  <2>2. name \in Name /\ invalid \in Name /\ zero \in Nat
    BY <2>1 DEF Name
  <2>3. added = Depends(name, zero, zero) /\ kTaskDependencyInvalid = Depends(invalid, zero, zero)
    BY <2>1 DEF kTaskDependencyInvalid
  <2>4. /\ added \in Dependency /\ added[1] = name
        /\ kTaskDependencyInvalid \in Dependency /\ kTaskDependencyInvalid[1] = invalid
    BY <2>2, <2>3, DependsIs
  <2>5. added \notin External(TRUE) /\ kTaskDependencyInvalid \notin External(TRUE)
    BY <2>1, <2>4, ExternalIs
  <2>6. Implies(TRUE, added) = {m_depBasePicture, m_depTemporalBuffer}
    <3>1. Implies(TRUE, Depends("added", zero, zero)) = {m_depBasePicture, m_depTemporalBuffer}
      <4>1. zero \in Nat /\ TRUE \in BOOLEAN
        BY <2>2
      <4> QED BY ONLY <4>1, ImpliesIs
    <3> QED BY <2>1, <2>3, <3>1
  <2>7. Implies(TRUE, kTaskDependencyInvalid) = {}
    BY <2>2, ImpliesIs
  <2> QED BY <2>4, <2>5, <2>6, <2>7
<1>2. PICK y, z : /\ y = Task("ApplyAddTemporal", {x, recon}, added, at)
                  /\ z = Task("TemporalRelease", {added}, kTaskDependencyInvalid, at)
  OBVIOUS
<1>3. y \in Tasks /\ y.does = "ApplyAddTemporal" /\ y.inputs = {x, recon} /\ y.output = added
  BY <1>1, <1>2 DEF Task, Tasks, TaskName
<1>4. z \in Tasks /\ z.does = "TemporalRelease" /\ z.inputs = {added} /\ z.output = kTaskDependencyInvalid
  BY <1>1, <1>2 DEF Task, Tasks, TaskName
<1>5. tail = <<y, z>>
  BY <1>2
<1>6. tail \in Seq(Tasks) /\ Len(tail) = 2 /\ tail[1] = y /\ tail[2] = z
  BY ONLY <1>3, <1>4, <1>5
<1>7. TaskOK(TRUE, y)
  <2>1. Due(TRUE, y) = {m_depBasePicture, m_depTemporalBuffer}
    BY <1>1, <1>3 DEF Due
  <2> QED BY <1>1, <1>3, <2>1 DEF TaskOK
<1>8. TaskOK(TRUE, z)
  <2>1. Due(TRUE, z) = {m_depTemporalBuffer}
    BY <1>1, <1>4 DEF Due
  <2> QED BY <1>1, <1>4, <2>1 DEF TaskOK
<1>9. /\ tasks \in Seq(Tasks) /\ Follows(External(TRUE), tasks)
      /\ \A k \in 1 .. Len(tasks) : /\ TaskOK(TRUE, tasks[k]) /\ tasks[k].does \notin Special
                                    /\ m_depOutputPicture \notin tasks[k].inputs
  BY DEF Quiet
<1>10. PICK n, c : n = Len(tasks) /\ c = tasks \o tail
  OBVIOUS
<1>11. /\ n \in Nat /\ c \in Seq(Tasks) /\ Len(c) = n + 2
       /\ \A i \in 1 .. n : c[i] = tasks[i]
       /\ c[n + 1] = y /\ c[n + 2] = z
       /\ \A i \in 1 .. n + 2 : i \in 1 .. n \/ i = n + 1 \/ i = n + 2
  <2>1. /\ c \in Seq(Tasks) /\ Len(c) = Len(tasks) + Len(tail)
        /\ \A i \in 1 .. Len(tasks) : i \in 1 .. Len(c) /\ c[i] = tasks[i]
        /\ \A i \in 1 .. Len(tail) : Len(tasks) + i \in 1 .. Len(c) /\ c[Len(tasks) + i] = tail[i]
    BY <1>6, <1>9, <1>10, JoinedIs
  <2>2. 1 \in 1 .. Len(tail) /\ 2 \in 1 .. Len(tail)
    BY <1>6
  <2>3. n \in Nat
    BY <1>9, <1>10
  <2>4. \A i \in 1 .. n + 2 : i \in 1 .. n \/ i = n + 1 \/ i = n + 2
    BY <2>3
  <2> QED BY ONLY <1>6, <1>10, <2>1, <2>2, <2>3, <2>4
<1>12. Follows(External(TRUE), c)
  <2>1. ASSUME NEW i \in 1 .. Len(tail), NEW d \in tail[i].inputs, d \notin External(TRUE) \cup Outputs(tasks)
        PROVE  \E j \in 1 .. i - 1 : tail[j].output = d
    <3>1. i \in 1 .. 2 /\ (i = 1 \/ i = 2)
      BY <1>6
    <3>2. i # 1
      BY <1>3, <1>6, <2>1
    <3>3. i = 2 /\ d = added
      BY <1>4, <1>6, <2>1, <3>1, <3>2
    <3>4. 1 \in 1 .. i - 1 /\ tail[1].output = d
      BY <1>3, <1>6, <3>3
    <3> QED BY <3>4
  <2>2. Follows(External(TRUE) \cup Outputs(tasks), tail)
    BY <2>1 DEF Follows
  <2> QED BY <1>6, <1>9, <1>10, <2>2, JoinedFollows
<1>13. ASSUME NEW i \in 1 .. n + 2
       PROVE  /\ TaskOK(TRUE, c[i]) /\ c[i].does \notin {"OutputDone", "BaseDone"}
              /\ m_depOutputPicture \notin c[i].inputs
              /\ c[i].does = "TemporalRelease" => i = n + 2
  <2>1. CASE i \in 1 .. n
    BY <1>9, <1>10, <1>11, <2>1 DEF Special
  <2>2. CASE i = n + 1
    BY <1>3, <1>7, <1>11, <2>2
  <2>3. CASE i = n + 2
    <3>1. added # m_depOutputPicture
      BY <1>1, ExternalIs
    <3> QED BY <1>4, <1>8, <1>11, <2>3, <3>1
  <2> QED BY <1>11, <2>1, <2>2, <2>3
<1>14. Once(c, "TemporalRelease")
  BY <1>11, <1>13 DEF Once
<1>15. Has(c, "TemporalRelease")
  <2>1. n + 2 \in 1 .. Len(c)
    BY <1>11
  <2> QED BY <1>4, <1>11, <2>1 DEF Has
<1>16. Depends("internal", 0, 0) \in Outputs(c) /\ added \in Outputs(c)
  <2>1. Outputs(c) = Outputs(tasks) \cup Outputs(tail)
    BY <1>6, <1>9, <1>10, JoinedOutputs
  <2>2. 1 \in 1 .. Len(tail)
    BY <1>6
  <2>3. added \in Outputs(tail)
    BY <1>3, <1>6, <2>2 DEF Outputs
  <2> QED BY <2>1, <2>3
<1>17. External(TRUE) \ {m_depOutputPicture} \subseteq Implies(TRUE, added)
  BY <1>1, ExternalIs
<1> QED BY <1>1, <1>10, <1>11, <1>12, <1>13, <1>14, <1>15, <1>16, <1>17 DEF Enhanced

LEMMA IntermediateIs == intermediatePtr0 \in Int /\ intermediatePtr1 \in Int
<1>1. intermediatePtr1 \in Int
  BY DEF intermediatePtr1, LOQ1, LOQ2
<1> QED BY <1>1 DEF intermediatePtr0

\* A frame whose residuals wait for the temporal buffer.
LEMMA TemporalGenerated ==
    ASSUME stream.settings \in Settings, NEW f, usesTemporal(f)
    PROVE  Generated(TRUE, generateTasksEnhancement(f))
<1>1. PICK picture, at, recon :
        picture = generateTasksPicture(f) /\ recon = LastOutput(picture, "") /\ at = intermediatePtr0
  OBVIOUS
<1>2. PICK residuals : residuals = IF f.config.loqEnabled[1]
                                   THEN Residuals("ApplyCmdBufferTemporal", LOQ0, m_depTemporalBuffer, at)
                                   ELSE <<>>
  OBVIOUS
<1>3. PICK x, added : x = LastOutput(residuals, m_depTemporalBuffer) /\ added = Depends("added", 0, 0)
  OBVIOUS
<1>4. PICK tail : tail = <<Task("ApplyAddTemporal", {x, recon}, added, at),
                           Task("TemporalRelease", {added}, kTaskDependencyInvalid, at)>>
  OBVIOUS
<1>5. generateTasksEnhancement(f) = picture \o residuals \o tail \o Ending(added, at)
  BY <1>1, <1>2, <1>3, <1>4 DEF generateTasksEnhancement
<1>6. at \in Int
  BY <1>1, IntermediateIs
<1>7. Stage(TRUE, picture)
  BY <1>1, PictureStage
<1>8. /\ recon \in Outputs(picture) /\ recon \in Dependency /\ recon # m_depOutputPicture
      /\ picture \in Seq(Tasks) /\ m_depBasePicture \in Implies(TRUE, recon)
      /\ Depends("internal", 0, 0) \in Outputs(picture) /\ Quiet(TRUE, External(TRUE), picture)
  BY <1>1, <1>7, StageLast DEF Stage
<1>9. PICK c : c = picture \o residuals
  OBVIOUS
<1>10. /\ Quiet(TRUE, External(TRUE), c) /\ Outputs(picture) \subseteq Outputs(c)
       /\ x \in Dependency /\ x \in External(TRUE) \cup Outputs(c) /\ x # m_depOutputPicture
       /\ m_depTemporalBuffer \in Implies(TRUE, x)
  <2>1. CASE ~f.config.loqEnabled[1]
    <3>1. residuals = <<>> /\ x = m_depTemporalBuffer
      BY <1>2, <1>3, <2>1 DEF LastOutput
    <3>2. c = picture
      BY <1>8, <1>9, <3>1, LastJoined
    <3>3. x \in External(TRUE) /\ x \in Dependency /\ x # m_depOutputPicture /\ Implies(TRUE, x) = {x}
      BY <3>1, ExternalIs, ImpliesExternal
    <3> QED BY <1>8, <3>1, <3>2, <3>3
  <2>2. CASE f.config.loqEnabled[1]
    <3>1. PICK does, known, e : /\ does = "ApplyCmdBufferTemporal" /\ e = m_depTemporalBuffer
                                /\ known = External(TRUE) \cup Outputs(picture)
      OBVIOUS
    <3>2. e \in Dependency /\ e \in known /\ e # m_depOutputPicture /\ e \in Implies(TRUE, e)
      <4>1. m_depTemporalBuffer \in External(TRUE) /\ m_depTemporalBuffer \in Dependency
        BY ExternalIs
      <4>2. Implies(TRUE, m_depTemporalBuffer) = {m_depTemporalBuffer}
        BY <4>1, ImpliesExternal
      <4>3. m_depTemporalBuffer # m_depOutputPicture
        BY ExternalIs
      <4> QED BY <3>1, <4>1, <4>2, <4>3
    <3>3. Rests(TRUE, LOQ0, e)
      <4>1. LOQ0 \in Nat
        BY DEF LOQ0
      <4>2. ASSUME NEW name \in {"tile", "tiles"}, NEW k \in Nat
            PROVE  Implies(TRUE, Depends(name, LOQ0, k)) = {m_depTemporalBuffer}
        BY <4>1, ImpliesIs
      <4>3. e = m_depTemporalBuffer
        BY <3>1
      <4> QED BY <4>2, <4>3 DEF Rests
    <3>4. does \in {"ApplyCmdBufferDirect", "ApplyCmdBufferTemporal"}
      BY <3>1
    <3>5. LOQ0 \in Nat
      BY DEF LOQ0
    <3>6. residuals = Residuals(does, LOQ0, e, at)
      BY <1>2, <2>2, <3>1
    <3>7. /\ Quiet(TRUE, known, residuals) /\ residuals # <<>>
          /\ e \in Implies(TRUE, LastOutput(residuals, m_depTemporalBuffer))
      BY <1>6, <3>2, <3>3, <3>4, <3>5, <3>6, ResidualsQuiet
    <3>8. residuals \in Seq(Tasks)
      BY <3>7 DEF Quiet
    <3>9. Quiet(TRUE, External(TRUE), c)
      BY <1>8, <1>9, <3>1, <3>7, JoinedQuiet
    <3>10. Outputs(c) = Outputs(picture) \cup Outputs(residuals)
      BY <1>8, <1>9, <3>8, JoinedOutputs
    <3>11. x \in Outputs(residuals)
      BY <1>3, <1>8, <3>7, <3>8, LastJoined
    <3>12. x \in Dependency /\ x # m_depOutputPicture
      <4>1. PICK k \in 1 .. Len(residuals) : x = residuals[k].output
        BY <3>11 DEF Outputs
      <4>2. residuals[k] \in Tasks
        BY <3>8, <4>1
      <4>3. TaskOK(TRUE, residuals[k])
        BY <3>7, <4>1 DEF Quiet
      <4> QED BY <4>1, <4>2, <4>3, ExternalIs DEF Tasks, TaskOK
    <3> QED BY <1>3, <3>1, <3>7, <3>9, <3>10, <3>11, <3>12
  <2> QED BY <2>1, <2>2
<1>11. Enhanced(TRUE, c \o tail, added)
  BY <1>3, <1>4, <1>6, <1>8, <1>10, TemporalEnhanced
<1>12. Generated(TRUE, c \o tail \o Ending(added, at))
  BY <1>6, <1>11, EndingGenerated
<1> QED BY <1>5, <1>9, <1>12

\* A frame with its residuals, or none.
LEMMA DirectGenerated ==
    ASSUME stream.settings \in Settings, NEW f, ~usesTemporal(f)
    PROVE  Generated(FALSE, generateTasksEnhancement(f))
<1>1. PICK picture, at, recon :
        picture = generateTasksPicture(f) /\ recon = LastOutput(picture, "") /\ at = intermediatePtr0
  OBVIOUS
<1>2. PICK direct : direct = IF f.config.loqEnabled[1]
                             THEN Residuals("ApplyCmdBufferDirect", LOQ0, recon, at) ELSE <<>>
  OBVIOUS
<1>3. generateTasksEnhancement(f) = picture \o direct \o Ending(LastOutput(direct, recon), at)
  BY <1>1, <1>2 DEF generateTasksEnhancement
<1>4. at \in Int
  BY <1>1, IntermediateIs
<1>5. Stage(FALSE, picture) /\ picture \in Seq(Tasks)
  BY <1>1, PictureStage, StageLast
<1>6. Stage(FALSE, picture \o direct) /\ LastOutput(direct, recon) = LastOutput(picture \o direct, "")
  <2>1. CASE f.config.loqEnabled[1]
    <3>1. direct = Residuals("ApplyCmdBufferDirect", LOQ0, LastOutput(picture, ""), at)
      BY <1>1, <1>2, <2>1
    <3>2. PICK temporal, loq, does, input :
            /\ temporal \in BOOLEAN /\ loq \in Nat /\ temporal = FALSE /\ loq = LOQ0
            /\ does = "ApplyCmdBufferDirect" /\ input = LastOutput(picture, "")
      BY DEF LOQ0
    <3>3. /\ Stage(temporal, picture) /\ ~(temporal /\ loq = LOQ0)
          /\ direct = Residuals(does, loq, input, at)
      BY <1>5, <3>1, <3>2
    <3>4. Stage(temporal, picture \o direct) /\ direct # <<>> /\ direct \in Seq(Tasks)
      <4>1. stream.settings \in Settings /\ does = "ApplyCmdBufferDirect" /\ input = LastOutput(picture, "")
        BY <3>2
      <4>2. temporal \in BOOLEAN /\ loq \in Nat
        BY <3>2
      <4> QED BY ONLY <1>4, <3>3, <4>2, <4>1, StageResiduals
    <3>5. LastOutput(picture \o direct, "") = LastOutput(direct, "")
      BY <1>5, <3>4, LastJoined
    <3>6. LastOutput(direct, recon) = LastOutput(direct, "")
      BY <3>4 DEF LastOutput
    <3> QED BY <3>2, <3>4, <3>5, <3>6
  <2>2. CASE ~f.config.loqEnabled[1]
    <3>1. direct = <<>>
      BY <1>2, <2>2
    <3>2. picture \o direct = picture
      BY <1>5, <3>1, LastJoined
    <3>3. LastOutput(direct, recon) = recon
      BY <3>1 DEF LastOutput
    <3> QED BY <1>1, <1>5, <3>2, <3>3
  <2> QED BY <2>1, <2>2
<1>7. Enhanced(FALSE, picture \o direct, LastOutput(direct, recon))
  BY <1>6, StageEnhanced
<1>8. Generated(FALSE, picture \o direct \o Ending(LastOutput(direct, recon), at))
  BY <1>4, <1>7, EndingGenerated
<1> QED BY <1>3, <1>8

LEMMA PassthroughGenerated == Generated(FALSE, generateTasksPassthrough)
<1>1. PICK plane, at : plane = Depends("plane", 0, 0) /\ at = LOQ2
  OBVIOUS
<1>2. /\ plane \in Dependency /\ plane \notin External(TRUE) /\ Implies(FALSE, plane) = External(FALSE)
      /\ kTaskDependencyInvalid \in Dependency /\ kTaskDependencyInvalid \notin External(TRUE)
      /\ Implies(FALSE, kTaskDependencyInvalid) = {}
  <2>1. PICK name, invalid, zero : name = "plane" /\ invalid = "invalid" /\ zero = 0
    OBVIOUS
  <2>2. name \in Name /\ invalid \in Name /\ zero \in Nat
    BY <2>1 DEF Name
  <2>3. plane = Depends(name, zero, zero) /\ kTaskDependencyInvalid = Depends(invalid, zero, zero)
    BY <1>1, <2>1 DEF kTaskDependencyInvalid
  <2>4. /\ plane \in Dependency /\ plane[1] = name
        /\ kTaskDependencyInvalid \in Dependency /\ kTaskDependencyInvalid[1] = invalid
    BY <2>2, <2>3, DependsIs
  <2>5. plane \notin External(TRUE) /\ kTaskDependencyInvalid \notin External(TRUE)
    BY <2>1, <2>4, ExternalIs
  <2>6. Implies(FALSE, plane) = External(FALSE)
    <3>1. Implies(FALSE, Depends("plane", zero, zero)) = External(FALSE)
      <4>1. zero \in Nat /\ TRUE \in BOOLEAN
        BY <2>2
      <4> QED BY ONLY <4>1, ImpliesIs
    <3> QED BY <2>1, <2>3, <3>1
  <2>7. Implies(FALSE, kTaskDependencyInvalid) = {}
    BY <2>2, ImpliesIs
  <2> QED BY <2>4, <2>5, <2>6, <2>7
<1>3. PICK inputs : inputs = {m_depOutputPicture, m_depBasePicture}
  OBVIOUS
<1>4. inputs = External(FALSE) /\ inputs \in SUBSET Dependency /\ at \in Int
  <2>1. inputs = External(FALSE) /\ inputs \in SUBSET Dependency
    BY <1>3, ExternalIs
  <2>2. at \in Int
    BY <1>1 DEF LOQ2
  <2> QED BY <2>1, <2>2
<1>5. PICK x, y, z : /\ x = Task("Passthrough", inputs, plane, at)
                     /\ y = Task("OutputDone", {plane}, kTaskDependencyInvalid, at)
                     /\ z = Task("BaseDone", {plane}, kTaskDependencyInvalid, at)
  OBVIOUS
<1>6. x \in Tasks /\ x.does = "Passthrough" /\ x.inputs = inputs /\ x.output = plane
  BY <1>2, <1>4, <1>5 DEF Task, Tasks, TaskName
<1>7. y \in Tasks /\ y.does = "OutputDone" /\ y.inputs = {plane} /\ y.output = kTaskDependencyInvalid
  BY <1>2, <1>4, <1>5 DEF Task, Tasks, TaskName
<1>8. z \in Tasks /\ z.does = "BaseDone" /\ z.inputs = {plane} /\ z.output = kTaskDependencyInvalid
  BY <1>2, <1>4, <1>5 DEF Task, Tasks, TaskName
<1>9. TaskOK(FALSE, x)
  <2>1. Due(FALSE, x) = External(FALSE)
    BY <1>2, <1>6 DEF Due
  <2>2. \A e \in External(FALSE) : Implies(FALSE, e) = {e}
    BY ImpliesExternal DEF External
  <2>3. \A e \in External(FALSE) : \E d \in x.inputs : e \in Implies(FALSE, d)
    <3>1. x.inputs = External(FALSE)
      BY <1>4, <1>6
    <3> QED BY ONLY <2>2, <3>1
  <2> QED BY <1>2, <1>6, <2>1, <2>3 DEF TaskOK
<1>10. TaskOK(FALSE, y)
  <2>1. Due(FALSE, y) = External(FALSE)
    BY <1>2, <1>7 DEF Due
  <2> QED BY <1>2, <1>7, <2>1 DEF TaskOK
<1>11. TaskOK(FALSE, z)
  <2>1. Due(FALSE, z) = {m_depBasePicture}
    BY <1>2, <1>8 DEF Due
  <2> QED BY <1>2, <1>4, <1>8, <2>1 DEF TaskOK, External
<1>12. PICK e : e = <<x, y, z>>
  OBVIOUS
<1>13. generateTasksPassthrough = e
  BY <1>1, <1>3, <1>5, <1>12 DEF generateTasksPassthrough
<1>14. e \in Seq(Tasks) /\ Len(e) = 3 /\ e[1] = x /\ e[2] = y /\ e[3] = z
  BY <1>6, <1>7, <1>8, <1>12, ThreeTasks
<1>15. ASSUME NEW i \in 1 .. Len(e)
       PROVE  /\ TaskOK(FALSE, e[i]) /\ e[i].does # "TemporalRelease"
              /\ e[i].does = "BaseDone" => i = 3
  <2>1. i = 1 \/ i = 2 \/ i = 3
    BY <1>14
  <2> QED BY <1>6, <1>7, <1>8, <1>9, <1>10, <1>11, <1>14, <2>1
<1>16. Follows(External(FALSE), e)
  <2> SUFFICES ASSUME NEW i \in 1 .. Len(e), NEW d \in e[i].inputs, d \notin External(FALSE)
               PROVE  \E j \in 1 .. i - 1 : e[j].output = d
    BY DEF Follows
  <2>1. i \in 1 .. 3 /\ (i = 1 \/ i = 2 \/ i = 3)
    BY <1>14
  <2>2. i # 1
    BY <1>4, <1>6, <1>14
  <2>3. d = plane /\ 1 \in 1 .. i - 1
    BY <1>7, <1>8, <1>14, <2>1, <2>2
  <2> QED BY <1>6, <1>14, <2>3
<1>17. Has(e, "OutputDone") /\ Has(e, "BaseDone") /\ ~Has(e, "TemporalRelease")
  <2>1. 2 \in 1 .. Len(e) /\ 3 \in 1 .. Len(e)
    BY <1>14
  <2> QED BY <1>7, <1>8, <1>14, <1>15, <2>1 DEF Has
<1>18. Once(e, "TemporalRelease") /\ Once(e, "BaseDone")
  BY <1>15 DEF Once
<1>19. ListOK(FALSE, {}, e)
  <2>1. {} \cup External(FALSE) = External(FALSE)
    OBVIOUS
  <2> QED BY <1>15, <1>16, <1>18, <2>1 DEF ListOK
<1> QED BY <1>13, <1>14, <1>17, <1>19 DEF Generated

-----------------------------------------------------------------------------
(* Frames.                                                                 *)

\* A frame with these values, whatever else it holds.
Is(f, state, tasks, met, needs, wanted, buffer, base, output) ==
  /\ f \in FrameRecord
  /\ f.m_state = state /\ f.tasks = tasks /\ f.dependenciesMet = met
  /\ f.needsBuffer = needs /\ f.wanted = wanted /\ f.m_temporalBuffer = buffer
  /\ f.basePicture = base /\ f.outputPicture = output

LEMMA FrameIs ==
    ASSUME NEW f \in FrameRecord
    PROVE  /\ f.m_state \in {"Reorder", "Processing", "Done"}
           /\ f.tasks \in Seq(Tasks) /\ f.dependenciesMet \in SUBSET Dependency
           /\ f.needsBuffer \in BOOLEAN /\ f.wanted \in Nat /\ f.m_temporalBuffer \in Nat
           /\ f.basePicture \in Base \cup {Nothing} /\ f.outputPicture \in Output \cup {Nothing}
           /\ f.payload \in Payload /\ f.m_intermediatePicture \in SUBSET Int
           /\ f # Nothing
BY VulkanAssumption DEF FrameRecord

LEMMA DependencyMetIs ==
    ASSUME NEW f \in FrameRecord, NEW dep \in Dependency
    PROVE  Is(DependencyMet(f, dep), f.m_state, f.tasks, f.dependenciesMet \cup {dep}, f.needsBuffer, f.wanted,
              f.m_temporalBuffer, f.basePicture, f.outputPicture)
BY DEF Is, DependencyMet, FrameRecord

LEMMA TasksLeft ==
    ASSUME NEW f \in FrameRecord, NEW tasks \in Seq(Tasks)
    PROVE  Is([f EXCEPT !.tasks = tasks], f.m_state, tasks, f.dependenciesMet, f.needsBuffer, f.wanted,
              f.m_temporalBuffer, f.basePicture, f.outputPicture)
BY DEF Is, FrameRecord

LEMMA WithPictureIs ==
    ASSUME NEW f \in FrameRecord, NEW loq \in Int
    PROVE  Is(WithPicture(f, loq), f.m_state, f.tasks, f.dependenciesMet, f.needsBuffer, f.wanted,
              f.m_temporalBuffer, f.basePicture, f.outputPicture)
<1>1. CASE f.m_skip
  BY <1>1 DEF Is, WithPicture
<1>2. CASE ~f.m_skip
  BY <1>2 DEF Is, WithPicture, FrameRecord
<1> QED BY <1>1, <1>2

LEMMA ShownIs ==
    ASSUME NEW f \in FrameRecord, NEW picture \in {Nothing} \cup SUBSET FrameTime
    PROVE  Is([f EXCEPT !.shown = picture], f.m_state, f.tasks, f.dependenciesMet, f.needsBuffer, f.wanted,
              f.m_temporalBuffer, f.basePicture, f.outputPicture)
BY DEF Is, FrameRecord

LEMMA BufferLeft ==
    ASSUME NEW f \in FrameRecord, NEW a \in Nat
    PROVE  Is([f EXCEPT !.m_temporalBuffer = a], f.m_state, f.tasks, f.dependenciesMet, f.needsBuffer, f.wanted,
              a, f.basePicture, f.outputPicture)
BY DEF Is, FrameRecord

LEMMA BaseLeft ==
    ASSUME NEW f \in FrameRecord
    PROVE  Is([f EXCEPT !.basePicture = Nothing], f.m_state, f.tasks, f.dependenciesMet, f.needsBuffer, f.wanted,
              f.m_temporalBuffer, Nothing, f.outputPicture)
BY DEF Is, FrameRecord

LEMMA DoneIs ==
    ASSUME NEW f \in FrameRecord
    PROVE  Is([f EXCEPT !.m_state = "Done"], "Done", f.tasks, f.dependenciesMet, f.needsBuffer, f.wanted,
              f.m_temporalBuffer, f.basePicture, f.outputPicture)
BY DEF Is, FrameRecord

LEMMA OutputIs ==
    ASSUME NEW f \in FrameRecord, NEW u \in Output
    PROVE  Is([f EXCEPT !.outputPicture = u], f.m_state, f.tasks, f.dependenciesMet, f.needsBuffer, f.wanted,
              f.m_temporalBuffer, f.basePicture, u)
BY DEF Is, FrameRecord

LEMMA SetBaseIs ==
    ASSUME NEW f \in FrameRecord, NEW b \in Base
    PROVE  Is(setBase(f, b), f.m_state, f.tasks, f.dependenciesMet \cup {m_depBasePicture}, f.needsBuffer, f.wanted,
              f.m_temporalBuffer, b, f.outputPicture)
<1> DEFINE g == [f EXCEPT !.basePicture = b, !.baseDataValid = TRUE]
<1>1. Is(g, f.m_state, f.tasks, f.dependenciesMet, f.needsBuffer, f.wanted, f.m_temporalBuffer, b, f.outputPicture)
  BY DEF Is, FrameRecord
<1> HIDE DEF g
<1>2. m_depBasePicture \in Dependency
  BY ExternalIs
<1>3. setBase(f, b) = DependencyMet(g, m_depBasePicture)
  BY DEF setBase, g
<1> QED BY <1>1, <1>2, <1>3, DependencyMetIs DEF Is

LEMMA ReadyIs ==
    ASSUME NEW f \in FrameRecord
    PROVE  Is([f EXCEPT !.m_ready = TRUE], f.m_state, f.tasks, f.dependenciesMet, f.needsBuffer, f.wanted,
              f.m_temporalBuffer, f.basePicture, f.outputPicture)
BY DEF Is, FrameRecord

LEMMA SkipIs ==
    ASSUME NEW f \in FrameRecord, NEW skip \in BOOLEAN
    PROVE  Is([f EXCEPT !.m_skip = skip], f.m_state, f.tasks, f.dependenciesMet, f.needsBuffer, f.wanted,
              f.m_temporalBuffer, f.basePicture, f.outputPicture)
BY DEF Is, FrameRecord

LEMMA NoLevelsIs == NoLevels \in Payload
<1>1. PICK levels : levels = <<FALSE, FALSE>>
  OBVIOUS
<1>2. levels \in Seq(BOOLEAN) /\ Len(levels) = 2
  BY <1>1
<1>3. DOMAIN levels = 1 .. 2 /\ levels = [i \in DOMAIN levels |-> levels[i]]
  BY ONLY <1>2
<1>4. \A i \in 1 .. 2 : levels[i] \in BOOLEAN
  BY ONLY <1>2
<1>5. levels \in [1 .. 2 -> BOOLEAN]
  BY ONLY <1>3, <1>4
<1> QED BY <1>1, <1>5 DEF NoLevels, Payload

LEMMA NewFrameIs ==
    ASSUME NEW payload \in Payload
    PROVE  Is(FrameVulkan(payload), "Reorder", <<>>, {}, FALSE, 0, 0, Nothing, Nothing)
<1>1. <<>> \in Seq(Tasks)
  OBVIOUS
<1> QED BY <1>1, NoLevelsIs DEF Is, FrameVulkan, FrameRecord, kInvalidTimestamp

\* A frame that wants what it did and, if it was started, still is.
Like(f, g) ==
  /\ g.m_state = "Reorder" <=> f.m_state = "Reorder"
  /\ g.needsBuffer = f.needsBuffer /\ g.wanted = f.wanted /\ (Waiting(g) => Waiting(f))

\* Frame g will release its buffer if f would have.
ReleasesLike(f, g) == Has(f.tasks, "TemporalRelease") => Has(g.tasks, "TemporalRelease")

\* Frame f is h when its task k has run, and the anchors are others.
RanIn(f, h, k, task, anchors, left) ==
  /\ task.inputs \subseteq f.dependenciesMet
  /\ h.tasks = Lists!RemoveAt(f.tasks, k) /\ h.dependenciesMet = f.dependenciesMet \cup {task.output}
  /\ h.needsBuffer = f.needsBuffer /\ h.wanted = f.wanted
  /\ h.m_state = IF task.does = "OutputDone" THEN "Done" ELSE f.m_state
  /\ IF task.does = "TemporalRelease" THEN h.m_temporalBuffer = 0
     ELSE h.m_temporalBuffer = f.m_temporalBuffer /\ left = anchors
  /\ h.basePicture = IF task.does = "BaseDone" THEN Nothing ELSE f.basePicture

\* A frame that can release its buffer has one.
CanRelease(f) == m_depTemporalBuffer \in f.dependenciesMet /\ f.needsBuffer /\ f.m_temporalBuffer # 0

\* What a task leaves of its frame.
RunsTo(t, f, h, task, left, prudent, latest) ==
  /\ FrameOK(t, h, left, prudent, latest)
  /\ f.m_state # "Reorder" /\ Like(f, h)
  /\ task.does # "TemporalRelease" => ReleasesLike(f, h)
  /\ task.does = "TemporalRelease" => CanRelease(f)
  /\ task.does = "BaseDone" => f.basePicture # Nothing

(* A frame in which a task ran is as it must be. *)
LEMMA RunKeeps ==
    ASSUME NEW t, NEW f \in FrameRecord, NEW h \in FrameRecord, NEW anchors, NEW left, NEW prudent, NEW latest,
           FrameOK(t, f, anchors, prudent, latest),
           NEW k \in 1 .. Len(f.tasks), NEW task, task = f.tasks[k], RanIn(f, h, k, task, anchors, left)
    PROVE  RunsTo(t, f, h, task, left, prudent, latest)
<1>0. /\ task.inputs \subseteq f.dependenciesMet
      /\ h.tasks = Lists!RemoveAt(f.tasks, k) /\ h.dependenciesMet = f.dependenciesMet \cup {task.output}
      /\ h.needsBuffer = f.needsBuffer /\ h.wanted = f.wanted
      /\ h.m_state = (IF task.does = "OutputDone" THEN "Done" ELSE f.m_state)
      /\ IF task.does = "TemporalRelease" THEN h.m_temporalBuffer = 0
         ELSE h.m_temporalBuffer = f.m_temporalBuffer /\ left = anchors
      /\ h.basePicture = (IF task.does = "BaseDone" THEN Nothing ELSE f.basePicture)
  BY DEF RanIn
<1> USE <1>0
<1>1. PICK temporal, met, tasks, rest, now :
        /\ temporal = f.needsBuffer /\ met = f.dependenciesMet /\ tasks = f.tasks
        /\ rest = Lists!RemoveAt(tasks, k) /\ now = met \cup {tasks[k].output}
  OBVIOUS
<1>2. /\ temporal \in BOOLEAN /\ met \in SUBSET Dependency /\ tasks \in Seq(Tasks) /\ k \in 1 .. Len(tasks)
      /\ task = tasks[k] /\ tasks[k].inputs \subseteq met
  BY <1>1, FrameIs
<1>3. ListOK(temporal, met, tasks) /\ ClosedOK(temporal, met)
  BY <1>1 DEF FrameOK, TasksOK
<1>4. /\ rest \in Seq(Tasks) /\ ListOK(temporal, now, rest) /\ ClosedOK(temporal, now)
      /\ Due(temporal, task) \subseteq met /\ task.output \notin External(TRUE)
      /\ \A does : Has(rest, does) => Has(tasks, does)
      /\ \A does : task.does # does /\ Has(tasks, does) => Has(rest, does)
      /\ \A does \in {"TemporalRelease", "BaseDone"} : task.does = does => ~Has(rest, does)
  <2>1. /\ Ran(tasks, met, k, rest, now)
        /\ temporal \in BOOLEAN /\ met \in SUBSET Dependency /\ tasks \in Seq(Tasks) /\ k \in 1 .. Len(tasks)
        /\ ListOK(temporal, met, tasks) /\ ClosedOK(temporal, met)
    BY <1>1, <1>2, <1>3 DEF Ran
  <2>2. /\ rest \in Seq(Tasks) /\ ListOK(temporal, now, rest) /\ ClosedOK(temporal, now)
        /\ Due(temporal, tasks[k]) \subseteq met /\ tasks[k].output \notin External(TRUE)
    BY ONLY <2>1, ListRuns
  <2>3. HasLeft(tasks, k, rest)
    BY ONLY <2>1, ListRuns
  <2> QED BY <1>2, <2>2, <2>3 DEF HasLeft
<1>5. h.tasks = rest /\ h.dependenciesMet = now /\ h.needsBuffer = temporal
  BY <1>1
<1>6. f.m_state # "Reorder"
  <2>1. f.tasks # <<>>
    BY <1>1, <1>2
  <2> QED BY <2>1 DEF FrameOK, StateOK
<1>7. h.m_state # "Reorder"
  BY <1>6
<1>8. m_depBasePicture \in now <=> m_depBasePicture \in met
  BY <1>1, <1>2, <1>4, ExternalIs
<1>9. m_depTemporalBuffer \in now <=> m_depTemporalBuffer \in met
  BY <1>1, <1>2, <1>4, ExternalIs
<1>10. met \subseteq now
  BY <1>1
<1>11. StateOK(h)
  <2>1. ASSUME h.m_state = "Processing" PROVE Has(rest, "OutputDone")
    <3>1. f.m_state = "Processing" /\ task.does # "OutputDone"
      BY <2>1
    <3>2. Has(tasks, "OutputDone")
      BY <1>1, <3>1 DEF FrameOK, StateOK
    <3> QED BY <1>4, <3>1, <3>2
  <2>2. ASSUME h.m_state = "Done" PROVE External(temporal) \subseteq now
    <3>1. CASE task.does = "OutputDone"
      BY <1>4, <1>10, <3>1 DEF Due
    <3>2. CASE task.does # "OutputDone"
      <4>1. f.m_state = "Done"
        BY <2>2, <3>2
      <4> QED BY <1>1, <1>10, <4>1 DEF FrameOK, StateOK
    <3> QED BY <3>1, <3>2
  <2> QED BY <1>5, <1>7, <2>1, <2>2 DEF StateOK
<1>12. TasksOK(h)
  BY <1>4, <1>5 DEF TasksOK
<1>13. BufferOK(t, f, anchors) /\ BaseOK(t, f, prudent, latest)
  BY DEF FrameOK
<1>14. BufferOK(t, h, left)
  <2>1. CASE task.does = "TemporalRelease"
    BY <1>4, <1>5, <2>1 DEF BufferOK
  <2>2. CASE task.does # "TemporalRelease"
    <3>1. h.m_temporalBuffer = f.m_temporalBuffer /\ left = anchors
      BY <2>2
    <3> QED BY <1>1, <1>4, <1>5, <1>9, <1>13, <3>1 DEF BufferOK
  <2> QED BY <2>1, <2>2
<1>15. task.does = "BaseDone" => m_depBasePicture \in met /\ f.basePicture # Nothing
  <2> SUFFICES ASSUME task.does = "BaseDone" PROVE m_depBasePicture \in met /\ f.basePicture # Nothing
    OBVIOUS
  <2>1. m_depBasePicture \in met
    BY <1>4 DEF Due
  <2>2. Has(tasks, "BaseDone")
    BY <1>2 DEF Has
  <2> QED BY <1>1, <1>13, <2>1, <2>2 DEF BaseOK
<1>16. BaseOK(t, h, prudent, latest)
  <2>1. CASE task.does = "BaseDone"
    <3>1. ~Has(rest, "BaseDone") /\ h.basePicture = Nothing /\ m_depBasePicture \in now
      BY <1>4, <1>8, <1>15, <2>1
    <3> QED BY <1>1, <1>5, <1>7, <1>8, <1>13, <3>1 DEF BaseOK
  <2>2. CASE task.does # "BaseDone"
    <3>1. h.basePicture = f.basePicture /\ (Has(rest, "BaseDone") <=> Has(tasks, "BaseDone"))
      BY <1>4, <2>2
    <3> QED BY <1>1, <1>5, <1>6, <1>7, <1>8, <1>13, <3>1 DEF BaseOK
  <2> QED BY <2>1, <2>2
<1>17. task.does = "TemporalRelease" => CanRelease(f)
  <2> SUFFICES ASSUME task.does = "TemporalRelease"
               PROVE  m_depTemporalBuffer \in f.dependenciesMet /\ f.needsBuffer /\ f.m_temporalBuffer # 0
    BY DEF CanRelease
  <2>1. m_depTemporalBuffer \in met
    BY <1>4 DEF Due
  <2>2. Has(tasks, "TemporalRelease")
    BY <1>2 DEF Has
  <2>3. temporal
    BY <1>2, <1>3 DEF ListOK, TaskOK
  <2> QED BY <1>1, <1>13, <2>1, <2>2, <2>3 DEF BufferOK
<1>18. Waiting(h) => Waiting(f)
  BY <1>1, <1>5, <1>9 DEF Waiting
<1>19. task.does # "TemporalRelease" => ReleasesLike(f, h)
  BY <1>1, <1>4, <1>5 DEF ReleasesLike
<1>21. Like(f, h)
  BY <1>6, <1>7, <1>18 DEF Like
<1>20. FrameOK(t, h, left, prudent, latest)
  BY <1>11, <1>12, <1>14, <1>16 DEF FrameOK
<1> QED BY <1>6, <1>15, <1>17, <1>19, <1>20, <1>21 DEF RunsTo

(* An anchor that is not with this frame may change, and the latest base.  *)
LEMMA FrameStays ==
    ASSUME NEW t, NEW f \in FrameRecord, NEW anchors, NEW others, NEW prudent, NEW latest \in Nat, NEW later \in Nat,
           t \in Nat, FrameOK(t, f, anchors, prudent, latest), latest <= later,
           \A a \in Anchors : anchors[a].frame = t => others[a] = anchors[a]
    PROVE  FrameOK(t, f, others, prudent, later)
<1>1. BufferOK(t, f, others)
  BY DEF FrameOK, BufferOK
<1>2. BaseOK(t, f, prudent, later)
  <2>1. BaseOK(t, f, prudent, latest)
    BY DEF FrameOK
  <2>2. t <= latest => t <= later
    OBVIOUS
  <2> QED BY <2>1, <2>2 DEF BaseOK
<1> QED BY <1>1, <1>2 DEF FrameOK

\* Only what a view shows matters to a frame.
LEMMA FrameSame ==
    ASSUME NEW t, NEW f \in FrameRecord, NEW h, NEW anchors, NEW prudent, NEW latest,
           FrameOK(t, f, anchors, prudent, latest), NEW output,
           Is(h, f.m_state, f.tasks, f.dependenciesMet, f.needsBuffer, f.wanted, f.m_temporalBuffer,
              f.basePicture, output)
    PROVE  FrameOK(t, h, anchors, prudent, latest)
BY DEF FrameOK, StateOK, TasksOK, BufferOK, BaseOK, Is

(* The output picture, the temporal buffer or the base comes. *)
LEMMA OutputComes ==
    ASSUME NEW t, NEW f \in FrameRecord, NEW h, NEW anchors, NEW prudent, NEW latest,
           FrameOK(t, f, anchors, prudent, latest), f.m_state # "Reorder", NEW output,
           Is(h, f.m_state, f.tasks, f.dependenciesMet \cup {m_depOutputPicture}, f.needsBuffer, f.wanted,
              f.m_temporalBuffer, f.basePicture, output)
    PROVE  FrameOK(t, h, anchors, prudent, latest) /\ (Waiting(h) => Waiting(f))
<1>1. /\ h.m_state = f.m_state /\ h.tasks = f.tasks /\ h.needsBuffer = f.needsBuffer
      /\ h.dependenciesMet = f.dependenciesMet \cup {m_depOutputPicture}
      /\ h.m_temporalBuffer = f.m_temporalBuffer /\ h.basePicture = f.basePicture
  BY DEF Is
<1>2. /\ m_depBasePicture \in h.dependenciesMet <=> m_depBasePicture \in f.dependenciesMet
      /\ m_depTemporalBuffer \in h.dependenciesMet <=> m_depTemporalBuffer \in f.dependenciesMet
  BY <1>1, ExternalIs
<1>3. TasksOK(h)
  <2>1. ListOK(f.needsBuffer, f.dependenciesMet, f.tasks) /\ ClosedOK(f.needsBuffer, f.dependenciesMet)
    BY DEF FrameOK, TasksOK
  <2>2. f.dependenciesMet \subseteq f.dependenciesMet \cup {m_depOutputPicture} /\ m_depOutputPicture \in External(TRUE)
    BY ExternalIs
  <2>3. ListOK(f.needsBuffer, f.dependenciesMet \cup {m_depOutputPicture}, f.tasks)
    BY <2>1, <2>2, ListMeets
  <2>4. ClosedOK(f.needsBuffer, f.dependenciesMet \cup {m_depOutputPicture})
    BY <2>1, <2>2, ExternalMet
  <2> QED BY <1>1, <2>3, <2>4 DEF TasksOK
<1>4. StateOK(h)
  BY <1>1 DEF FrameOK, StateOK
<1>5. BufferOK(t, h, anchors)
  BY <1>1, <1>2 DEF FrameOK, BufferOK
<1>6. BaseOK(t, h, prudent, latest)
  BY <1>1, <1>2 DEF FrameOK, BaseOK
<1>7. Waiting(h) => Waiting(f)
  BY <1>1, <1>2 DEF Waiting
<1> QED BY <1>3, <1>4, <1>5, <1>6, <1>7 DEF FrameOK

LEMMA BufferComes ==
    ASSUME NEW t, NEW f \in FrameRecord, NEW h, NEW anchors, NEW others, NEW prudent, NEW latest,
           FrameOK(t, f, anchors, prudent, latest), f.m_state # "Reorder",
           NEW a \in Anchors, a # 0, others[a].frame = t,
           Is(h, f.m_state, f.tasks, f.dependenciesMet \cup {m_depTemporalBuffer}, f.needsBuffer, f.wanted,
              a, f.basePicture, f.outputPicture)
    PROVE  FrameOK(t, h, others, prudent, latest) /\ ~Waiting(h)
<1>1. /\ h.m_state = f.m_state /\ h.tasks = f.tasks /\ h.needsBuffer = f.needsBuffer
      /\ h.dependenciesMet = f.dependenciesMet \cup {m_depTemporalBuffer}
      /\ h.m_temporalBuffer = a /\ h.basePicture = f.basePicture
  BY DEF Is
<1>2. /\ m_depBasePicture \in h.dependenciesMet <=> m_depBasePicture \in f.dependenciesMet
      /\ m_depTemporalBuffer \in h.dependenciesMet
  BY <1>1, ExternalIs
<1>3. TasksOK(h)
  <2>1. ListOK(f.needsBuffer, f.dependenciesMet, f.tasks) /\ ClosedOK(f.needsBuffer, f.dependenciesMet)
    BY DEF FrameOK, TasksOK
  <2>2. f.dependenciesMet \subseteq f.dependenciesMet \cup {m_depTemporalBuffer} /\ m_depTemporalBuffer \in External(TRUE)
    BY ExternalIs
  <2>3. ListOK(f.needsBuffer, f.dependenciesMet \cup {m_depTemporalBuffer}, f.tasks)
    BY <2>1, <2>2, ListMeets
  <2>4. ClosedOK(f.needsBuffer, f.dependenciesMet \cup {m_depTemporalBuffer})
    BY <2>1, <2>2, ExternalMet
  <2> QED BY <1>1, <2>3, <2>4 DEF TasksOK
<1>4. StateOK(h)
  BY <1>1 DEF FrameOK, StateOK
<1>5. BufferOK(t, h, others)
  BY <1>1, <1>2 DEF BufferOK
<1>6. BaseOK(t, h, prudent, latest)
  BY <1>1, <1>2 DEF FrameOK, BaseOK
<1>7. ~Waiting(h)
  BY <1>2 DEF Waiting
<1> QED BY <1>3, <1>4, <1>5, <1>6, <1>7 DEF FrameOK

\* The base: of a frame in processing only when it had none.
LEMMA BaseComes ==
    ASSUME NEW t \in Nat, NEW f \in FrameRecord, NEW h, NEW anchors, NEW prudent, NEW latest \in Nat, NEW b \in Base,
           FrameOK(t, f, anchors, prudent, latest), t <= latest,
           prudent /\ f.m_state # "Reorder" => m_depBasePicture \notin f.dependenciesMet,
           Is(h, f.m_state, f.tasks, f.dependenciesMet \cup {m_depBasePicture}, f.needsBuffer, f.wanted,
              f.m_temporalBuffer, b, f.outputPicture)
    PROVE  FrameOK(t, h, anchors, prudent, latest) /\ (Waiting(h) => Waiting(f))
<1>1. /\ h.m_state = f.m_state /\ h.tasks = f.tasks /\ h.needsBuffer = f.needsBuffer
      /\ h.dependenciesMet = f.dependenciesMet \cup {m_depBasePicture}
      /\ h.m_temporalBuffer = f.m_temporalBuffer /\ h.basePicture = b
  BY DEF Is
<1>2. /\ m_depBasePicture \in h.dependenciesMet
      /\ m_depTemporalBuffer \in h.dependenciesMet <=> m_depTemporalBuffer \in f.dependenciesMet
  BY <1>1, ExternalIs
<1>3. TasksOK(h)
  <2>1. ListOK(f.needsBuffer, f.dependenciesMet, f.tasks) /\ ClosedOK(f.needsBuffer, f.dependenciesMet)
    BY DEF FrameOK, TasksOK
  <2>2. f.dependenciesMet \subseteq f.dependenciesMet \cup {m_depBasePicture} /\ m_depBasePicture \in External(TRUE)
    BY ExternalIs
  <2>3. ListOK(f.needsBuffer, f.dependenciesMet \cup {m_depBasePicture}, f.tasks)
    BY <2>1, <2>2, ListMeets
  <2>4. ClosedOK(f.needsBuffer, f.dependenciesMet \cup {m_depBasePicture})
    BY <2>1, <2>2, ExternalMet
  <2> QED BY <1>1, <2>3, <2>4 DEF TasksOK
<1>4. StateOK(h)
  BY <1>1 DEF FrameOK, StateOK
<1>5. BufferOK(t, h, anchors)
  BY <1>1, <1>2 DEF FrameOK, BufferOK
<1>6. b # Nothing
  BY VulkanAssumption
<1>7. BaseOK(t, h, prudent, latest)
  <2>1. prudent /\ f.m_state # "Reorder" => Has(f.tasks, "BaseDone")
    BY DEF FrameOK, BaseOK
  <2> QED BY <1>1, <1>6, <2>1 DEF BaseOK
<1>8. Waiting(h) => Waiting(f)
  BY <1>1, <1>2 DEF Waiting
<1> QED BY <1>3, <1>4, <1>5, <1>7, <1>8 DEF FrameOK

-----------------------------------------------------------------------------
(* All frames.                                                             *)

FrameMap == [FrameTime -> FrameRecord \cup {Nothing}]
Put(frames, t, g) == [frames EXCEPT ![t] = g]

LEMMA PutIs ==
    ASSUME NEW frames \in FrameMap, NEW t \in FrameTime, NEW g \in FrameRecord \cup {Nothing}
    PROVE  /\ Put(frames, t, g) \in FrameMap /\ Put(frames, t, g)[t] = g
           /\ \A s \in FrameTime : s # t => Put(frames, t, g)[s] = frames[s]
BY DEF Put, FrameMap

LEMMA FrameMapIs ==
    ASSUME NEW frames \in FrameMap, NEW s \in FrameTime
    PROVE  /\ frames[s] # Nothing => frames[s] \in FrameRecord
           /\ s \in Nat /\ s # 0
BY VulkanAssumption DEF FrameMap

\* Anchors that other frames have do not change.
OthersStay(t, anchors, others) ==
  \A a \in Anchors : anchors[a].frame \in FrameTime /\ anchors[a].frame # t => others[a] = anchors[a]

LEMMA OneChanges ==
    ASSUME NEW frames \in FrameMap, NEW t \in FrameTime, NEW g \in FrameRecord,
           NEW anchors, NEW others, NEW prudent, NEW latest \in Nat, NEW later \in Nat, latest <= later,
           FramesOK(frames, anchors, prudent, latest), FrameOK(t, g, others, prudent, later),
           OthersStay(t, anchors, others)
    PROVE  FramesOK(Put(frames, t, g), others, prudent, later)
<1> SUFFICES ASSUME NEW s \in FrameTime, Put(frames, t, g)[s] # Nothing
             PROVE  FrameOK(s, Put(frames, t, g)[s], others, prudent, later)
  BY DEF FramesOK
<1>1. CASE s = t
  BY <1>1, PutIs
<1>2. CASE s # t
  <2>1. Put(frames, t, g)[s] = frames[s]
    BY <1>2, PutIs
  <2>2. frames[s] \in FrameRecord /\ s \in Nat
    BY <2>1, FrameMapIs
  <2>3. FrameOK(s, frames[s], anchors, prudent, latest)
    BY <2>1 DEF FramesOK
  <2>4. \A a \in Anchors : anchors[a].frame = s => others[a] = anchors[a]
    BY <1>2 DEF OthersStay
  <2>5. FrameOK(s, frames[s], others, prudent, later)
    BY <2>2, <2>3, <2>4, FrameStays
  <2> QED BY <2>1, <2>5
<1> QED BY <1>1, <1>2

\* The same frames exist, and the same of them wait to be started.
Alike(frames, now) ==
  \A s \in FrameTime :
    /\ frames[s] = Nothing <=> now[s] = Nothing
    /\ frames[s] # Nothing => (now[s].m_state = "Reorder" <=> frames[s].m_state = "Reorder")

LEMMA IndexKept ==
    ASSUME NEW frames, NEW now, NEW reorder \in Seq(FrameTime), NEW processing \in Seq(FrameTime),
           IndexOK(frames, reorder, processing), Alike(frames, now)
    PROVE  IndexOK(now, reorder, processing)
<1>1. /\ \A i \in 1 .. Len(reorder) : reorder[i] \in FrameTime
      /\ \A i \in 1 .. Len(processing) : processing[i] \in FrameTime
  OBVIOUS
<1>2. \A i \in 1 .. Len(reorder) : now[reorder[i]] # Nothing /\ now[reorder[i]].m_state = "Reorder"
  BY <1>1 DEF IndexOK, Alike
<1>3. \A i \in 1 .. Len(processing) :
        now[processing[i]] # Nothing /\ now[processing[i]].m_state # "Reorder"
  BY <1>1 DEF IndexOK, Alike
<1>4. \A s \in FrameTime : now[s] # Nothing /\ now[s].m_state # "Reorder" =>
        \E i \in 1 .. Len(processing) : processing[i] = s
  BY DEF IndexOK, Alike
<1>5. Sorted(reorder) /\ \A i, j \in 1 .. Len(processing) : processing[i] = processing[j] => i = j
  BY DEF IndexOK
<1> QED BY <1>2, <1>3, <1>4, <1>5 DEF IndexOK

\* Frames want and release what they did before.
ChainAlike(frames, now, processing) ==
  /\ \A i \in 1 .. Len(processing) :
       /\ now[processing[i]].needsBuffer = frames[processing[i]].needsBuffer
       /\ now[processing[i]].wanted = frames[processing[i]].wanted
       /\ Waiting(now[processing[i]]) => Waiting(frames[processing[i]])
  /\ \A s : Pending(frames, s) => Pending(now, s)

LEMMA ChainKept ==
    ASSUME NEW frames, NEW now, NEW processing, NEW anchors, NEW lastGood, NEW temporalEnabled,
           ChainOK(frames, processing, anchors, lastGood, temporalEnabled),
           ChainAlike(frames, now, processing)
    PROVE  ChainOK(now, processing, anchors, lastGood, temporalEnabled)
<1>1. \A i \in 1 .. Len(processing) : now[processing[i]].needsBuffer =>
        now[processing[i]].wanted <= processing[i] /\ processing[i] <= lastGood
  BY DEF ChainOK, ChainAlike
<1>2. \A i, j \in 1 .. Len(processing) :
        i < j /\ now[processing[i]].needsBuffer /\ now[processing[j]].needsBuffer =>
          processing[i] <= now[processing[j]].wanted
  BY DEF ChainOK, ChainAlike
<1>3. lastGood = 0 => \A a \in Anchors : anchors[a].frame = Nothing /\ anchors[a].timestamp = 0
  BY DEF ChainOK
<1>4. lastGood # 0 /\ temporalEnabled => Available(anchors, lastGood) \/ Pending(now, lastGood)
  BY DEF ChainOK, ChainAlike
<1>5. \A i \in 1 .. Len(processing) : Waiting(now[processing[i]]) =>
        now[processing[i]].wanted # processing[i] /\ Pending(now, now[processing[i]].wanted)
  <2> SUFFICES ASSUME NEW i \in 1 .. Len(processing), Waiting(now[processing[i]])
               PROVE  now[processing[i]].wanted # processing[i] /\ Pending(now, now[processing[i]].wanted)
    OBVIOUS
  <2>1. Waiting(frames[processing[i]]) /\ now[processing[i]].wanted = frames[processing[i]].wanted
    BY DEF ChainAlike
  <2>2. frames[processing[i]].wanted # processing[i] /\ Pending(frames, frames[processing[i]].wanted)
    BY <2>1 DEF ChainOK
  <2> QED BY <2>1, <2>2 DEF ChainAlike
<1> QED BY <1>1, <1>2, <1>3, <1>4, <1>5 DEF ChainOK

LEMMA PutLike ==
    ASSUME NEW frames \in FrameMap, NEW t \in FrameTime, frames[t] # Nothing, NEW g \in FrameRecord,
           Like(frames[t], g), NEW processing \in Seq(FrameTime)
    PROVE  /\ Alike(frames, Put(frames, t, g))
           /\ ReleasesLike(frames[t], g) => ChainAlike(frames, Put(frames, t, g), processing)
<1>1. PICK now : now = Put(frames, t, g)
  OBVIOUS
<1>2. now[t] = g /\ \A s \in FrameTime : s # t => now[s] = frames[s]
  BY <1>1, PutIs
<1>3. g # Nothing
  BY FrameIs
<1>4. Alike(frames, now)
  BY <1>2, <1>3 DEF Alike, Like
<1>5. ASSUME NEW i \in 1 .. Len(processing)
      PROVE  /\ now[processing[i]].needsBuffer = frames[processing[i]].needsBuffer
             /\ now[processing[i]].wanted = frames[processing[i]].wanted
             /\ Waiting(now[processing[i]]) => Waiting(frames[processing[i]])
  <2>1. processing[i] \in FrameTime
    OBVIOUS
  <2> QED BY <1>2, <2>1 DEF Like
<1>6. ASSUME ReleasesLike(frames[t], g),
             NEW s, Pending(frames, s)
      PROVE  Pending(now, s)
  BY <1>2, <1>3, <1>6 DEF Pending, ReleasesLike
<1> QED BY <1>1, <1>4, <1>5, <1>6 DEF ChainAlike

\* Frames that differ in nothing that matters.
Same(f, h) ==
  Is(h, f.m_state, f.tasks, f.dependenciesMet, f.needsBuffer, f.wanted, f.m_temporalBuffer,
     f.basePicture, f.outputPicture)
Resembles(frames, now) ==
  \A s \in FrameTime : IF frames[s] = Nothing THEN now[s] = Nothing ELSE Same(frames[s], now[s])

LEMMA SameIs ==
    ASSUME NEW f, NEW h, Same(f, h)
    PROVE  /\ h \in FrameRecord /\ h # Nothing
           /\ h.m_state = f.m_state /\ h.tasks = f.tasks /\ h.dependenciesMet = f.dependenciesMet
           /\ h.needsBuffer = f.needsBuffer /\ h.wanted = f.wanted
           /\ h.basePicture = f.basePicture /\ h.outputPicture = f.outputPicture
           /\ Waiting(h) <=> Waiting(f)
BY FrameIs DEF Same, Is, Waiting

LEMMA ResemblesKeeps ==
    ASSUME NEW frames \in FrameMap, NEW now \in FrameMap, Resembles(frames, now),
           NEW processing \in Seq(FrameTime)
    PROVE  /\ Alike(frames, now) /\ ChainAlike(frames, now, processing)
           /\ OutputOf(now) = OutputOf(frames) /\ BaseOf(now) = BaseOf(frames)
           /\ \A anchors, prudent, latest :
                FramesOK(frames, anchors, prudent, latest) => FramesOK(now, anchors, prudent, latest)
<1>1. ASSUME NEW s \in FrameTime, frames[s] # Nothing
      PROVE  /\ frames[s] \in FrameRecord /\ now[s] # Nothing /\ Same(frames[s], now[s])
             /\ now[s].m_state = frames[s].m_state /\ now[s].tasks = frames[s].tasks
             /\ now[s].needsBuffer = frames[s].needsBuffer /\ now[s].wanted = frames[s].wanted
             /\ now[s].basePicture = frames[s].basePicture /\ now[s].outputPicture = frames[s].outputPicture
             /\ Waiting(now[s]) <=> Waiting(frames[s])
  <2>1. Same(frames[s], now[s]) /\ frames[s] \in FrameRecord
    BY <1>1, FrameMapIs DEF Resembles
  <2> QED BY <2>1, SameIs
<1>2. \A s \in FrameTime : frames[s] = Nothing => now[s] = Nothing
  BY DEF Resembles
<1>3. Alike(frames, now)
  BY <1>1, <1>2 DEF Alike
<1>4. ChainAlike(frames, now, processing)
  <2>1. ASSUME NEW i \in 1 .. Len(processing)
        PROVE  /\ now[processing[i]].needsBuffer = frames[processing[i]].needsBuffer
               /\ now[processing[i]].wanted = frames[processing[i]].wanted
               /\ Waiting(now[processing[i]]) => Waiting(frames[processing[i]])
    <3>1. processing[i] \in FrameTime
      OBVIOUS
    <3>2. CASE frames[processing[i]] = Nothing
      <4>1. now[processing[i]] = frames[processing[i]]
        BY <1>2, <3>1, <3>2
      <4> QED BY <4>1
    <3> QED BY <1>1, <3>1, <3>2
  <2>2. ASSUME NEW s, Pending(frames, s) PROVE Pending(now, s)
    <3>1. s \in FrameTime /\ frames[s] # Nothing /\ Has(frames[s].tasks, "TemporalRelease")
      BY <2>2 DEF Pending
    <3> QED BY <1>1, <3>1 DEF Pending
  <2> QED BY <2>1, <2>2 DEF ChainAlike
<1>5. OutputOf(now) = OutputOf(frames)
  <2>1. \A s \in FrameTime : (IF now[s] = Nothing THEN Nothing ELSE now[s].outputPicture)
                               = IF frames[s] = Nothing THEN Nothing ELSE frames[s].outputPicture
    BY <1>1, <1>2
  <2> QED BY <2>1 DEF OutputOf
<1>6. BaseOf(now) = BaseOf(frames)
  <2>1. \A s \in FrameTime : (IF now[s] = Nothing THEN Nothing ELSE now[s].basePicture)
                               = IF frames[s] = Nothing THEN Nothing ELSE frames[s].basePicture
    BY <1>1, <1>2
  <2> QED BY <2>1 DEF BaseOf
<1>7. ASSUME NEW anchors, NEW prudent, NEW latest, FramesOK(frames, anchors, prudent, latest)
      PROVE  FramesOK(now, anchors, prudent, latest)
  <2> SUFFICES ASSUME NEW s \in FrameTime, now[s] # Nothing
               PROVE  FrameOK(s, now[s], anchors, prudent, latest)
    BY DEF FramesOK
  <2>1. frames[s] # Nothing
    BY <1>2
  <2>2. FrameOK(s, frames[s], anchors, prudent, latest)
    BY <1>7, <2>1 DEF FramesOK
  <2>3. Is(now[s], frames[s].m_state, frames[s].tasks, frames[s].dependenciesMet, frames[s].needsBuffer,
           frames[s].wanted, frames[s].m_temporalBuffer, frames[s].basePicture, frames[s].outputPicture)
    BY <1>1, <2>1 DEF Same
  <2>4. frames[s] \in FrameRecord
    BY <1>1, <2>1
  <2> QED BY <2>2, <2>3, <2>4, FrameSame
<1> QED BY <1>3, <1>4, <1>5, <1>6, <1>7

(* Where pictures are when one frame changes. *)
LEMMA PutPictures ==
    ASSUME NEW frames \in FrameMap, NEW t \in FrameTime, NEW g \in FrameRecord \cup {Nothing}
    PROVE  /\ OutputOf(Put(frames, t, g)) =
                [OutputOf(frames) EXCEPT ![t] = IF g = Nothing THEN Nothing ELSE g.outputPicture]
           /\ BaseOf(Put(frames, t, g)) =
                [BaseOf(frames) EXCEPT ![t] = IF g = Nothing THEN Nothing ELSE g.basePicture]
<1>1. PICK now : now = Put(frames, t, g)
  OBVIOUS
<1>2. now[t] = g /\ \A s \in FrameTime : s # t => now[s] = frames[s]
  BY <1>1, PutIs
<1>3. OutputOf(now) = [OutputOf(frames) EXCEPT ![t] = IF g = Nothing THEN Nothing ELSE g.outputPicture]
  BY <1>2 DEF OutputOf
<1>4. BaseOf(now) = [BaseOf(frames) EXCEPT ![t] = IF g = Nothing THEN Nothing ELSE g.basePicture]
  BY <1>2 DEF BaseOf
<1> QED BY <1>1, <1>3, <1>4

-----------------------------------------------------------------------------
(* Where pictures are.                                                     *)

LEMMA AppendIs ==
    ASSUME NEW S, NEW queue \in Seq(S), NEW u \in S, NEW n, n = Len(queue), NEW longer, longer = Append(queue, u)
    PROVE  /\ longer \in Seq(S) /\ n \in Nat /\ Len(longer) = n + 1 /\ longer[n + 1] = u
           /\ \A i \in 1 .. n : i \in 1 .. n + 1 /\ longer[i] = queue[i]
           /\ \A i \in 1 .. n + 1 : i \in 1 .. n \/ i = n + 1
OBVIOUS

LEMMA TailIs ==
    ASSUME NEW S, NEW queue \in Seq(S), queue # <<>>, NEW n, n = Len(queue), NEW rest, rest = Tail(queue)
    PROVE  /\ rest \in Seq(S) /\ n \in Nat \ {0} /\ Len(rest) = n - 1 /\ queue[1] \in S /\ 1 \in 1 .. n
           /\ \A i \in 1 .. n - 1 : i + 1 \in 1 .. n /\ i + 1 # 1 /\ rest[i] = queue[i + 1]
           /\ \A i \in 1 .. n : i = 1 \/ (i - 1 \in 1 .. n - 1 /\ rest[i - 1] = queue[i])
<1>1. n \in Nat \ {0} /\ rest \in Seq(S) /\ Len(rest) = n - 1 /\ queue[1] \in S
  OBVIOUS
<1>2. \A i \in 1 .. n - 1 : rest[i] = queue[i + 1]
  OBVIOUS
<1>3. \A i \in 1 .. n - 1 : i + 1 \in 1 .. n /\ i + 1 # 1
  BY <1>1
<1>4. \A i \in 1 .. n : i = 1 \/ (i - 1 \in 1 .. n - 1 /\ (i - 1) + 1 = i)
  BY <1>1
<1>5. 1 \in 1 .. n
  BY <1>1
<1> QED BY ONLY <1>1, <1>2, <1>3, <1>4, <1>5

\* The client lends a picture, which waits in the queue.
LEMMA PlacesPush ==
    ASSUME NEW pictures, NEW has, NEW S, NEW queue \in Seq(S), NEW out, PlacesOK(pictures, has, queue, out),
           NEW u \in S, u \in pictures, u \notin out
    PROVE  PlacesOK(pictures, has, Append(queue, u), out \cup {u})
<1>1. PICK n, q : n = Len(queue) /\ q = Append(queue, u)
  OBVIOUS
<1>2. /\ n \in Nat /\ Len(q) = n + 1 /\ q[n + 1] = u
      /\ \A i \in 1 .. n : i \in 1 .. n + 1 /\ q[i] = queue[i]
      /\ \A i \in 1 .. n + 1 : i \in 1 .. n \/ i = n + 1
  BY <1>1, AppendIs
<1>3. (\A t \in FrameTime : has[t] # u) /\ (\A i \in 1 .. n : queue[i] # u)
  BY <1>1 DEF PlacesOK
<1>4. \A s, t \in FrameTime : has[s] \in pictures /\ has[s] = has[t] => s = t
  BY DEF PlacesOK
<1>5. \A i, j \in 1 .. n + 1 : q[i] \in pictures /\ q[i] = q[j] => i = j
  <2>1. \A i, j \in 1 .. n : queue[i] \in pictures /\ queue[i] = queue[j] => i = j
    BY <1>1 DEF PlacesOK
  <2> QED BY <1>2, <1>3, <2>1
<1>6. \A t \in FrameTime : \A i \in 1 .. n + 1 : has[t] \in pictures => has[t] # q[i]
  <2>1. \A t \in FrameTime : \A i \in 1 .. n : has[t] \in pictures => has[t] # queue[i]
    BY <1>1 DEF PlacesOK
  <2> QED BY <1>2, <1>3, <2>1
<1>7. n + 1 \in 1 .. n + 1
  BY <1>2
<1>8. ASSUME NEW v \in pictures
      PROVE  v \in out \cup {u} <=> (\E t \in FrameTime : has[t] = v) \/ (\E i \in 1 .. n + 1 : q[i] = v)
  <2>1. v \in out <=> (\E t \in FrameTime : has[t] = v) \/ (\E i \in 1 .. n : queue[i] = v)
    BY <1>1 DEF PlacesOK
  <2>2. (\E i \in 1 .. n + 1 : q[i] = v) <=> v = u \/ \E i \in 1 .. n : queue[i] = v
    BY <1>2, <1>7
  <2> QED BY <2>1, <2>2
<1> QED BY <1>1, <1>2, <1>4, <1>5, <1>6, <1>8 DEF PlacesOK

\* A frame gets the first picture of the queue.
LEMMA PlacesTake ==
    ASSUME NEW pictures, NEW has, DOMAIN has = FrameTime, NEW S, NEW queue \in Seq(S), queue # <<>>, NEW out,
           PlacesOK(pictures, has, queue, out),
           NEW t \in FrameTime, has[t] \notin pictures, NEW u, u = queue[1], u \in pictures
    PROVE  PlacesOK(pictures, [has EXCEPT ![t] = u], Tail(queue), out)
<1>1. PICK n, q, now : n = Len(queue) /\ q = Tail(queue) /\ now = [has EXCEPT ![t] = u]
  OBVIOUS
<1>2. /\ n \in Nat \ {0} /\ Len(q) = n - 1 /\ 1 \in 1 .. n
      /\ \A i \in 1 .. n - 1 : i + 1 \in 1 .. n /\ i + 1 # 1 /\ q[i] = queue[i + 1]
      /\ \A i \in 1 .. n : i = 1 \/ (i - 1 \in 1 .. n - 1 /\ q[i - 1] = queue[i])
  BY <1>1, TailIs
<1>3. now[t] = u /\ \A s \in FrameTime : s # t => now[s] = has[s]
  BY <1>1
<1>4. /\ \A s, r \in FrameTime : has[s] \in pictures /\ has[s] = has[r] => s = r
      /\ \A i, j \in 1 .. n : queue[i] \in pictures /\ queue[i] = queue[j] => i = j
      /\ \A s \in FrameTime : \A i \in 1 .. n : has[s] \in pictures => has[s] # queue[i]
      /\ \A v \in pictures :
           v \in out <=> (\E s \in FrameTime : has[s] = v) \/ (\E i \in 1 .. n : queue[i] = v)
  BY <1>1 DEF PlacesOK
<1>5. \A s \in FrameTime : has[s] # u
  BY <1>2, <1>4
<1>6. \A i \in 1 .. n - 1 : q[i] # u
  BY <1>2, <1>4
<1>7. \A s, r \in FrameTime : now[s] \in pictures /\ now[s] = now[r] => s = r
  BY <1>3, <1>4, <1>5
<1>8. \A i, j \in 1 .. n - 1 : q[i] \in pictures /\ q[i] = q[j] => i = j
  <2> SUFFICES ASSUME NEW i \in 1 .. n - 1, NEW j \in 1 .. n - 1, q[i] \in pictures, q[i] = q[j]
               PROVE  i = j
    OBVIOUS
  <2>1. PICK x, y : x = i + 1 /\ y = j + 1
    OBVIOUS
  <2>2. x \in 1 .. n /\ y \in 1 .. n /\ q[i] = queue[x] /\ q[j] = queue[y]
    BY <1>2, <2>1
  <2>3. queue[x] \in pictures /\ queue[x] = queue[y]
    BY <2>2
  <2>4. \A a, b \in 1 .. n : queue[a] \in pictures /\ queue[a] = queue[b] => a = b
    BY <1>4
  <2>5. x = y
    BY ONLY <2>2, <2>3, <2>4
  <2>6. i \in Int /\ j \in Int
    OBVIOUS
  <2> QED BY ONLY <2>1, <2>5, <2>6
<1>9. ASSUME NEW s \in FrameTime, NEW i \in 1 .. n - 1, now[s] \in pictures PROVE now[s] # q[i]
  <2>1. CASE s = t
    BY <1>3, <1>6, <2>1
  <2>2. CASE s # t
    <3>1. PICK x : x = i + 1
      OBVIOUS
    <3>2. x \in 1 .. n /\ q[i] = queue[x] /\ now[s] = has[s] /\ has[s] \in pictures
      BY <1>2, <1>3, <1>9, <2>2, <3>1
    <3>3. has[s] # queue[x]
      BY <1>4, <3>2
    <3> QED BY <3>2, <3>3
  <2> QED BY <2>1, <2>2
<1>10. ASSUME NEW v \in pictures
       PROVE  v \in out <=> (\E s \in FrameTime : now[s] = v) \/ (\E i \in 1 .. n - 1 : q[i] = v)
  <2>1. (\E i \in 1 .. n : queue[i] = v) <=> v = u \/ \E i \in 1 .. n - 1 : q[i] = v
    BY <1>2
  <2>2. (\E s \in FrameTime : now[s] = v) <=> v = u \/ \E s \in FrameTime : has[s] = v
    BY <1>3
  <2> QED BY <1>4, <2>1, <2>2
<1> QED BY <1>1, <1>2, <1>7, <1>8, <1>9, <1>10 DEF PlacesOK

\* The client gets the picture of a frame, which may have none.
LEMMA PlacesGone ==
    ASSUME NEW pictures, NEW has, DOMAIN has = FrameTime, NEW queue, NEW out, PlacesOK(pictures, has, queue, out),
           NEW t \in FrameTime, NEW none, none \notin pictures
    PROVE  PlacesOK(pictures, [has EXCEPT ![t] = none], queue, out \ {has[t]})
<1>1. PICK n, now : n = Len(queue) /\ now = [has EXCEPT ![t] = none]
  OBVIOUS
<1>2. now[t] = none /\ \A s \in FrameTime : s # t => now[s] = has[s]
  BY <1>1
<1>3. /\ \A s, r \in FrameTime : has[s] \in pictures /\ has[s] = has[r] => s = r
      /\ \A i, j \in 1 .. n : queue[i] \in pictures /\ queue[i] = queue[j] => i = j
      /\ \A s \in FrameTime : \A i \in 1 .. n : has[s] \in pictures => has[s] # queue[i]
      /\ \A v \in pictures :
           v \in out <=> (\E s \in FrameTime : has[s] = v) \/ (\E i \in 1 .. n : queue[i] = v)
  BY <1>1 DEF PlacesOK
<1>4. \A s, r \in FrameTime : now[s] \in pictures /\ now[s] = now[r] => s = r
  BY <1>2, <1>3
<1>5. \A s \in FrameTime : \A i \in 1 .. n : now[s] \in pictures => now[s] # queue[i]
  BY <1>2, <1>3
<1>6. ASSUME NEW v \in pictures
      PROVE  v \in out \ {has[t]} <=> (\E s \in FrameTime : now[s] = v) \/ (\E i \in 1 .. n : queue[i] = v)
  <2>1. CASE v = has[t]
    <3>1. \A s \in FrameTime : now[s] # v
      BY <1>2, <1>3, <2>1
    <3> QED BY <1>3, <2>1, <3>1
  <2>2. CASE v # has[t]
    <3>1. (\E s \in FrameTime : now[s] = v) <=> \E s \in FrameTime : has[s] = v
      BY <1>2, <2>2
    <3> QED BY <1>3, <2>2, <3>1
  <2> QED BY <2>1, <2>2
<1> QED BY <1>1, <1>3, <1>4, <1>5, <1>6 DEF PlacesOK

\* The client lends a picture to a frame that has none.
LEMMA PlacesGiven ==
    ASSUME NEW pictures, NEW has, DOMAIN has = FrameTime, NEW queue, NEW out, PlacesOK(pictures, has, queue, out),
           NEW t \in FrameTime, has[t] \notin pictures, NEW u, u \in pictures, u \notin out
    PROVE  PlacesOK(pictures, [has EXCEPT ![t] = u], queue, out \cup {u})
<1>1. PICK n, now : n = Len(queue) /\ now = [has EXCEPT ![t] = u]
  OBVIOUS
<1>2. now[t] = u /\ \A s \in FrameTime : s # t => now[s] = has[s]
  BY <1>1
<1>3. /\ \A s, r \in FrameTime : has[s] \in pictures /\ has[s] = has[r] => s = r
      /\ \A i, j \in 1 .. n : queue[i] \in pictures /\ queue[i] = queue[j] => i = j
      /\ \A s \in FrameTime : \A i \in 1 .. n : has[s] \in pictures => has[s] # queue[i]
      /\ \A v \in pictures :
           v \in out <=> (\E s \in FrameTime : has[s] = v) \/ (\E i \in 1 .. n : queue[i] = v)
  BY <1>1 DEF PlacesOK
<1>4. (\A s \in FrameTime : has[s] # u) /\ (\A i \in 1 .. n : queue[i] # u)
  BY <1>3
<1>5. \A s, r \in FrameTime : now[s] \in pictures /\ now[s] = now[r] => s = r
  BY <1>2, <1>3, <1>4
<1>6. \A s \in FrameTime : \A i \in 1 .. n : now[s] \in pictures => now[s] # queue[i]
  BY <1>2, <1>3, <1>4
<1>7. ASSUME NEW v \in pictures
      PROVE  v \in out \cup {u} <=> (\E s \in FrameTime : now[s] = v) \/ (\E i \in 1 .. n : queue[i] = v)
  <2>1. (\E s \in FrameTime : now[s] = v) <=> v = u \/ \E s \in FrameTime : has[s] = v
    BY <1>2
  <2> QED BY <1>3, <2>1
<1> QED BY <1>1, <1>3, <1>5, <1>6, <1>7 DEF PlacesOK

\* A frame gives its picture back, which waits to be received.
LEMMA PlacesBack ==
    ASSUME NEW pictures, NEW has, DOMAIN has = FrameTime, NEW S, NEW queue \in Seq(S), NEW out,
           PlacesOK(pictures, has, queue, out),
           NEW t \in FrameTime, NEW u \in S, u = has[t], u \in pictures, NEW none, none \notin pictures
    PROVE  PlacesOK(pictures, [has EXCEPT ![t] = none], Append(queue, u), out)
<1>1. PICK gone : gone = [has EXCEPT ![t] = none]
  OBVIOUS
<1>2. PlacesOK(pictures, gone, queue, out \ {u})
  BY <1>1, PlacesGone
<1>3. u \notin out \ {u}
  OBVIOUS
<1>4. PlacesOK(pictures, gone, Append(queue, u), (out \ {u}) \cup {u})
  BY <1>2, <1>3, PlacesPush
<1>5. u \in out
  BY DEF PlacesOK
<1>6. (out \ {u}) \cup {u} = out
  BY <1>5
<1> QED BY <1>1, <1>4, <1>6

\* The client receives the first picture of the queue.
LEMMA PlacesTaken ==
    ASSUME NEW pictures, NEW has, NEW S, NEW queue \in Seq(S), queue # <<>>, NEW out,
           PlacesOK(pictures, has, queue, out), NEW u, u = queue[1]
    PROVE  PlacesOK(pictures, has, Tail(queue), out \ {u})
<1>1. PICK n, q : n = Len(queue) /\ q = Tail(queue)
  OBVIOUS
<1>2. /\ n \in Nat \ {0} /\ Len(q) = n - 1 /\ 1 \in 1 .. n
      /\ \A i \in 1 .. n - 1 : i + 1 \in 1 .. n /\ i + 1 # 1 /\ q[i] = queue[i + 1]
      /\ \A i \in 1 .. n : i = 1 \/ (i - 1 \in 1 .. n - 1 /\ q[i - 1] = queue[i])
  BY <1>1, TailIs
<1>3. /\ \A s, r \in FrameTime : has[s] \in pictures /\ has[s] = has[r] => s = r
      /\ \A i, j \in 1 .. n : queue[i] \in pictures /\ queue[i] = queue[j] => i = j
      /\ \A s \in FrameTime : \A i \in 1 .. n : has[s] \in pictures => has[s] # queue[i]
      /\ \A v \in pictures :
           v \in out <=> (\E s \in FrameTime : has[s] = v) \/ (\E i \in 1 .. n : queue[i] = v)
  BY <1>1 DEF PlacesOK
<1>4. \A i, j \in 1 .. n - 1 : q[i] \in pictures /\ q[i] = q[j] => i = j
  <2> SUFFICES ASSUME NEW i \in 1 .. n - 1, NEW j \in 1 .. n - 1, q[i] \in pictures, q[i] = q[j]
               PROVE  i = j
    OBVIOUS
  <2>1. PICK x, y : x = i + 1 /\ y = j + 1
    OBVIOUS
  <2>2. x \in 1 .. n /\ y \in 1 .. n /\ q[i] = queue[x] /\ q[j] = queue[y]
    BY <1>2, <2>1
  <2>3. x = y
    BY <1>3, <2>2
  <2> QED BY <1>2, <2>1, <2>3
<1>5. \A s \in FrameTime : \A i \in 1 .. n - 1 : has[s] \in pictures => has[s] # q[i]
  BY <1>2, <1>3
<1>6. ASSUME NEW v \in pictures
      PROVE  v \in out \ {u} <=> (\E s \in FrameTime : has[s] = v) \/ (\E i \in 1 .. n - 1 : q[i] = v)
  <2>1. CASE v = u
    <3>1. (\A s \in FrameTime : has[s] # v) /\ (\A i \in 1 .. n - 1 : q[i] # v)
      BY <1>2, <1>3, <2>1
    <3> QED BY <2>1, <3>1
  <2>2. CASE v # u
    <3>1. (\E i \in 1 .. n : queue[i] = v) <=> \E i \in 1 .. n - 1 : q[i] = v
      BY <1>2, <2>2
    <3> QED BY <1>3, <2>2, <3>1
  <2> QED BY <2>1, <2>2
<1> QED BY <1>1, <1>2, <1>3, <1>4, <1>5, <1>6 DEF PlacesOK

\* Pictures of the other kind do not matter.
LEMMA PlacesOther ==
    ASSUME NEW pictures, NEW has, NEW queue, NEW out, NEW now, PlacesOK(pictures, has, queue, out),
           pictures \cap now = pictures \cap out
    PROVE  PlacesOK(pictures, has, queue, now)
<1>1. \A u \in pictures : u \in now <=> u \in out
  OBVIOUS
<1> QED BY <1>1 DEF PlacesOK

\* A picture is counted once if the client has lent it.
LEMMA PlacesCount ==
    ASSUME NEW pictures, NEW has, NEW queue, NEW out, PlacesOK(pictures, has, queue, out), NEW u \in pictures,
           NEW held, held = {t \in FrameTime : has[t] = u},
           NEW queued, queued = {i \in 1 .. Len(queue) : queue[i] = u}
    PROVE  Cardinality(held) + Cardinality(queued) = (IF u \in out THEN 1 ELSE 0)
<1>1. /\ \A s, r \in FrameTime : has[s] \in pictures /\ has[s] = has[r] => s = r
      /\ \A i, j \in 1 .. Len(queue) : queue[i] \in pictures /\ queue[i] = queue[j] => i = j
      /\ \A s \in FrameTime : \A i \in 1 .. Len(queue) : has[s] \in pictures => has[s] # queue[i]
      /\ u \in out <=> (\E s \in FrameTime : has[s] = u) \/ (\E i \in 1 .. Len(queue) : queue[i] = u)
  BY DEF PlacesOK
<1>2. Cardinality({}) = 0
  BY FS_EmptySet
<1>3. \A x : Cardinality({x}) = 1
  BY FS_Singleton
<1>4. CASE \E t \in FrameTime : has[t] = u
  <2>1. PICK t \in FrameTime : has[t] = u
    BY <1>4
  <2>2. held = {t} /\ queued = {}
    BY <1>1, <2>1
  <2>3. Cardinality(held) = 1 /\ Cardinality(queued) = 0
    BY <1>2, <1>3, <2>2
  <2>4. u \in out
    BY <1>1, <2>1
  <2> QED BY ONLY <2>3, <2>4
<1>5. CASE \E i \in 1 .. Len(queue) : queue[i] = u
  <2>1. PICK i \in 1 .. Len(queue) : queue[i] = u
    BY <1>5
  <2>2. queued = {i} /\ held = {}
    BY <1>1, <2>1
  <2>3. Cardinality(held) = 0 /\ Cardinality(queued) = 1
    BY <1>2, <1>3, <2>2
  <2>4. u \in out
    BY <1>1, <2>1
  <2> QED BY ONLY <2>3, <2>4
<1>6. CASE (\A t \in FrameTime : has[t] # u) /\ \A i \in 1 .. Len(queue) : queue[i] # u
  <2>1. held = {} /\ queued = {}
    BY <1>6
  <2>2. Cardinality(held) = 0 /\ Cardinality(queued) = 0
    BY <1>2, <2>1
  <2>3. u \notin out
    BY <1>1, <1>6
  <2> QED BY ONLY <2>2, <2>3
<1> QED BY <1>4, <1>5, <1>6

-----------------------------------------------------------------------------
(* Steps that change one frame.                                            *)

LEMMA FrameFacts ==
    ASSUME VulkanInvariant, NEW t \in Frames
    PROVE  /\ m_frames \in FrameMap /\ t \in FrameTime /\ t \in Nat /\ t # 0
           /\ m_frames[t] # Nothing /\ m_frames[t] \in FrameRecord
           /\ FrameOK(t, m_frames[t], m_temporalBuffers, stream.prudent, latestBase)
<1>1. m_frames \in FrameMap /\ t \in FrameTime /\ m_frames[t] # Nothing
  BY DEF VulkanInvariant, VulkanTypes, FrameMap, Frames
<1>2. FrameOK(t, m_frames[t], m_temporalBuffers, stream.prudent, latestBase)
  BY <1>1 DEF VulkanInvariant, FramesOK
<1> QED BY <1>1, <1>2, FrameMapIs

LEMMA OneFrame ==
    ASSUME VulkanInvariant, NEW t \in Frames, NEW g \in FrameRecord, m_frames' = Put(m_frames, t, g),
           Like(m_frames[t], g),
           ReleasesLike(m_frames[t], g),
           FrameOK(t, g, m_temporalBuffers, stream.prudent, latestBase),
           UNCHANGED <<indexVars, orderVars, m_temporalBuffers, stream, latestBase>>
    PROVE  /\ m_frames' \in FrameMap
           /\ FramesOK(m_frames, m_temporalBuffers, stream.prudent, latestBase)'
           /\ IndexOK(m_frames, m_reorderIndex, m_processingIndex)'
           /\ (goodInOrder => ChainOK(m_frames, m_processingIndex, m_temporalBuffers, m_lastGoodTimestamp,
                                      stream.settings.temporalEnabled))'
<1>1. /\ m_frames \in FrameMap /\ t \in FrameTime /\ m_frames[t] # Nothing
  BY FrameFacts
<1>2. /\ m_reorderIndex' = m_reorderIndex /\ m_processingIndex' = m_processingIndex
      /\ m_lastGoodTimestamp' = m_lastGoodTimestamp /\ goodInOrder' = goodInOrder
      /\ m_temporalBuffers' = m_temporalBuffers /\ stream' = stream /\ latestBase' = latestBase
  BY DEF indexVars, orderVars
<1>3. /\ m_reorderIndex \in Seq(FrameTime) /\ m_processingIndex \in Seq(FrameTime) /\ latestBase \in Nat
      /\ FramesOK(m_frames, m_temporalBuffers, stream.prudent, latestBase)
      /\ IndexOK(m_frames, m_reorderIndex, m_processingIndex)
      /\ goodInOrder => ChainOK(m_frames, m_processingIndex, m_temporalBuffers, m_lastGoodTimestamp,
                                stream.settings.temporalEnabled)
  BY DEF VulkanInvariant, VulkanTypes
<1>4. PICK now : now = Put(m_frames, t, g)
  OBVIOUS
<1>5. now \in FrameMap
  BY <1>1, <1>4, PutIs
<1>6. Alike(m_frames, now) /\ ChainAlike(m_frames, now, m_processingIndex)
  BY <1>1, <1>3, <1>4, PutLike
<1>7. OthersStay(t, m_temporalBuffers, m_temporalBuffers) /\ latestBase <= latestBase
  BY <1>3 DEF OthersStay
<1>8. FramesOK(now, m_temporalBuffers, stream.prudent, latestBase)
  BY <1>1, <1>3, <1>4, <1>7, OneChanges
<1>9. IndexOK(now, m_reorderIndex, m_processingIndex)
  BY <1>3, <1>6, IndexKept
<1>10. goodInOrder => ChainOK(now, m_processingIndex, m_temporalBuffers, m_lastGoodTimestamp,
                              stream.settings.temporalEnabled)
  BY <1>3, <1>6, ChainKept
<1> QED BY <1>2, <1>4, <1>5, <1>8, <1>9, <1>10

\* When nothing but frames and the pictures in queues change.
LEMMA TypesKept ==
    ASSUME VulkanTypes, m_frames' \in FrameMap,
           UNCHANGED <<indexVars, orderVars, m_temporalBuffers, clientVars, call, broken>>,
           m_temporalPicture' \in {Nothing} \cup SUBSET FrameTime,
           m_basePictureOutBuffer' \in Seq(Base \cup {Nothing}),
           m_outputPictureAvailableBuffer' \in Seq(Output)
    PROVE  VulkanTypes'
<1>1. /\ m_reorderIndex' = m_reorderIndex /\ m_processingIndex' = m_processingIndex
      /\ m_previousTimestamp' = m_previousTimestamp /\ m_lastGoodTimestamp' = m_lastGoodTimestamp
      /\ initialized' = initialized /\ chain' = chain /\ goodInOrder' = goodInOrder
      /\ m_temporalBuffers' = m_temporalBuffers
      /\ stream' = stream /\ lent' = lent /\ latestBase' = latestBase /\ call' = call /\ broken' = broken
  BY DEF indexVars, orderVars, clientVars
<1> QED BY <1>1 DEF VulkanTypes, FrameMap

(* Frame f is h when its task k has finished, less what is done by then.   *)
LEMMA TaskRuns ==
    ASSUME VulkanInvariant, NEW t \in Frames, NEW f, f = m_frames[t], NEW k \in DOMAIN f.tasks,
           NEW task, task = f.tasks[k], InputsMet(t, k),
           NEW h, NEW state, NEW buffer, NEW base, NEW left,
           Is(h, state, f.tasks, f.dependenciesMet, f.needsBuffer, f.wanted, buffer, base, f.outputPicture),
           state = IF task.does = "OutputDone" THEN "Done" ELSE f.m_state,
           base = IF task.does = "BaseDone" THEN Nothing ELSE f.basePicture,
           IF task.does = "TemporalRelease" THEN buffer = 0
           ELSE buffer = f.m_temporalBuffer /\ left = m_temporalBuffers
    PROVE  \E g \in FrameRecord :
             /\ Finished(t, k, h) = Put(m_frames, t, g) /\ Like(f, g)
             /\ FrameOK(t, g, left, stream.prudent, latestBase)
             /\ g.basePicture = base /\ g.outputPicture = f.outputPicture
             /\ task.does # "TemporalRelease" => ReleasesLike(f, g)
             /\ task.does = "TemporalRelease" => CanRelease(f)
             /\ task.does = "BaseDone" => f.basePicture # Nothing
             /\ f.m_state # "Reorder"
<1>1. /\ t \in FrameTime /\ f \in FrameRecord
      /\ FrameOK(t, f, m_temporalBuffers, stream.prudent, latestBase)
  BY FrameFacts
<1>2. f.tasks \in Seq(Tasks) /\ f.dependenciesMet \in SUBSET Dependency /\ f.needsBuffer \in BOOLEAN
  BY <1>1, FrameIs
<1>3. k \in 1 .. Len(f.tasks)
  BY <1>2
<1>4. task \in Tasks
  BY <1>2, <1>3
<1>5. task.output \in Dependency
  BY <1>4 DEF Tasks
<1>6. task.inputs \subseteq f.dependenciesMet
  BY DEF InputsMet, TaskOf
<1>7. PICK rest : rest = Lists!RemoveAt(f.tasks, k)
  OBVIOUS
<1>8. rest \in Seq(Tasks)
  BY <1>2, <1>3, <1>7, RemoveAtIs
<1>9. /\ h \in FrameRecord /\ h.tasks = f.tasks /\ h.dependenciesMet = f.dependenciesMet
      /\ h.m_state = state /\ h.needsBuffer = f.needsBuffer /\ h.wanted = f.wanted
      /\ h.m_temporalBuffer = buffer /\ h.basePicture = base /\ h.outputPicture = f.outputPicture
  BY DEF Is
<1>10. PICK mid : mid = [h EXCEPT !.tasks = rest]
  OBVIOUS
<1>11. /\ mid \in FrameRecord /\ mid.tasks = rest /\ mid.dependenciesMet = f.dependenciesMet
       /\ mid.m_state = state /\ mid.needsBuffer = f.needsBuffer /\ mid.wanted = f.wanted
       /\ mid.m_temporalBuffer = buffer /\ mid.basePicture = base /\ mid.outputPicture = f.outputPicture
  BY <1>8, <1>9, <1>10, TasksLeft DEF Is
<1>12. PICK g : g = DependencyMet(mid, task.output)
  OBVIOUS
<1>13. /\ g \in FrameRecord /\ g.tasks = rest /\ g.dependenciesMet = f.dependenciesMet \cup {task.output}
       /\ g.m_state = state /\ g.needsBuffer = f.needsBuffer /\ g.wanted = f.wanted
       /\ g.m_temporalBuffer = buffer /\ g.basePicture = base /\ g.outputPicture = f.outputPicture
  BY <1>5, <1>11, <1>12, DependencyMetIs DEF Is
<1>14. Finished(t, k, h) = Put(m_frames, t, g)
  <2>1. [h EXCEPT !.tasks = Lists!RemoveAt(@, k)] = mid
    BY <1>7, <1>9, <1>10
  <2>2. TaskOf(t, k) = task
    BY DEF TaskOf
  <2> QED BY <1>12, <2>1, <2>2 DEF Finished, Put
<1>15. /\ FrameOK(t, g, left, stream.prudent, latestBase)
       /\ f.m_state # "Reorder" /\ Like(f, g)
       /\ task.does # "TemporalRelease" => ReleasesLike(f, g)
       /\ task.does = "TemporalRelease" => CanRelease(f)
       /\ task.does = "BaseDone" => f.basePicture # Nothing
  <2>1. PICK anchors, prudent, latest :
          anchors = m_temporalBuffers /\ prudent = stream.prudent /\ latest = latestBase
    OBVIOUS
  <2>2. RanIn(f, g, k, task, anchors, left)
    BY <1>6, <1>7, <1>13, <2>1 DEF RanIn
  <2>3. /\ f \in FrameRecord /\ g \in FrameRecord /\ k \in 1 .. Len(f.tasks) /\ task = f.tasks[k]
        /\ FrameOK(t, f, anchors, prudent, latest)
    BY <1>1, <1>3, <1>13, <2>1
  <2>4. RunsTo(t, f, g, task, left, prudent, latest)
    BY ONLY <2>2, <2>3, RunKeeps
  <2> QED BY <2>1, <2>4 DEF RunsTo
<1> QED BY <1>13, <1>14, <1>15

\* A task runs only within a call.
LEMMA RunsInCall ==
    ASSUME VulkanInvariant, NEW t \in Frames, NEW k \in DOMAIN m_frames[t].tasks, CanRun(t, k)
    PROVE  call # "idle" /\ InputsMet(t, k)
BY DEF CanRun, VulkanInvariant, Runnable

LEMMA PlainTask ==
    ASSUME VulkanInvariant, NEW t \in Frames, NEW f, f = m_frames[t], NEW k \in DOMAIN f.tasks, CanRun(t, k),
           NEW task, task = f.tasks[k], task.does \notin {"TemporalRelease", "BaseDone"},
           NEW h, NEW state,
           Is(h, state, f.tasks, f.dependenciesMet, f.needsBuffer, f.wanted, f.m_temporalBuffer,
              f.basePicture, f.outputPicture),
           state = IF task.does = "OutputDone" THEN "Done" ELSE f.m_state,
           m_frames' = Finished(t, k, h), OnlyFrames, UNCHANGED m_temporalBuffers,
           m_temporalPicture' \in {Nothing} \cup SUBSET FrameTime
    PROVE  VulkanInvariant'
<1>1. call # "idle" /\ InputsMet(t, k)
  BY RunsInCall
<1>2. PICK g \in FrameRecord :
        /\ m_frames' = Put(m_frames, t, g) /\ Like(f, g)
        /\ FrameOK(t, g, m_temporalBuffers, stream.prudent, latestBase)
        /\ g.basePicture = f.basePicture /\ g.outputPicture = f.outputPicture
        /\ ReleasesLike(f, g)
  <2>1. PICK buffer, base, left :
           buffer = f.m_temporalBuffer /\ base = f.basePicture /\ left = m_temporalBuffers
    OBVIOUS
  <2>2. Is(h, state, f.tasks, f.dependenciesMet, f.needsBuffer, f.wanted, buffer, base, f.outputPicture)
    BY <2>1
  <2>3. base = IF task.does = "BaseDone" THEN Nothing ELSE f.basePicture
    BY <2>1
  <2>4. IF task.does = "TemporalRelease" THEN buffer = 0
        ELSE buffer = f.m_temporalBuffer /\ left = m_temporalBuffers
    BY <2>1
  <2> QED BY <1>1, <2>1, <2>2, <2>3, <2>4, TaskRuns
<1>3. UNCHANGED <<indexVars, orderVars, queueVars, clientVars, call, broken, m_temporalBuffers>>
  BY DEF OnlyFrames
<1>4. UNCHANGED <<indexVars, orderVars, m_temporalBuffers, stream, latestBase>>
  BY <1>3 DEF clientVars
<1>5. /\ m_frames' \in FrameMap
      /\ FramesOK(m_frames, m_temporalBuffers, stream.prudent, latestBase)'
      /\ IndexOK(m_frames, m_reorderIndex, m_processingIndex)'
      /\ (goodInOrder => ChainOK(m_frames, m_processingIndex, m_temporalBuffers, m_lastGoodTimestamp,
                                 stream.settings.temporalEnabled))'
  BY <1>2, <1>4, OneFrame
<1>6. UNCHANGED <<m_basePictureOutBuffer, m_outputPictureAvailableBuffer, stream, lent, call>>
  BY <1>3 DEF queueVars, clientVars
<1>7. VulkanTypes'
  <2>1. /\ VulkanTypes /\ m_basePictureOutBuffer \in Seq(Base \cup {Nothing})
        /\ m_outputPictureAvailableBuffer \in Seq(Output)
    BY DEF VulkanInvariant, VulkanTypes
  <2> QED BY <1>3, <1>5, <1>6, <2>1, TypesKept
<1>8. OutputOf(m_frames') = OutputOf(m_frames) /\ BaseOf(m_frames') = BaseOf(m_frames)
  <2>1. m_frames \in FrameMap /\ t \in FrameTime /\ f # Nothing
    BY FrameFacts
  <2>2. g # Nothing
    BY FrameIs
  <2>3. /\ OutputOf(m_frames') = [OutputOf(m_frames) EXCEPT ![t] = f.outputPicture]
        /\ BaseOf(m_frames') = [BaseOf(m_frames) EXCEPT ![t] = f.basePicture]
    BY <1>2, <2>1, <2>2, PutPictures
  <2>4. OutputOf(m_frames) = [OutputOf(m_frames) EXCEPT ![t] = f.outputPicture]
    BY <2>1 DEF OutputOf
  <2>5. BaseOf(m_frames) = [BaseOf(m_frames) EXCEPT ![t] = f.basePicture]
    BY <2>1 DEF BaseOf
  <2> QED BY <2>3, <2>4, <2>5
<1>9. PicturesOK'
  BY <1>6, <1>8 DEF VulkanInvariant, PicturesOK
<1>10. (call = "idle" /\ ~broken => ~Runnable)'
  BY <1>1, <1>6
<1> QED BY <1>5, <1>7, <1>9, <1>10 DEF VulkanInvariant

\* The base goes to the client, by the queue of finished bases.
LEMMA BaseDoneKeeps ==
    ASSUME VulkanInvariant, NEW t \in Frames, NEW k \in DOMAIN m_frames[t].tasks, BaseDone(t, k)
    PROVE  VulkanInvariant'
<1>1. PICK f, task : f = m_frames[t] /\ task = f.tasks[k]
  OBVIOUS
<1>2. /\ CanRun(t, k) /\ task.does = "BaseDone"
      /\ m_basePictureOutBuffer' = Append(m_basePictureOutBuffer, f.basePicture)
      /\ m_frames' = Finished(t, k, [f EXCEPT !.basePicture = Nothing])
      /\ UNCHANGED <<indexVars, orderVars, temporalVars, m_outputPictureAvailableBuffer, clientVars, call, broken>>
  BY <1>1 DEF BaseDone, Runs, TaskOf
<1>3. call # "idle" /\ InputsMet(t, k)
  BY <1>2, RunsInCall
<1>4. /\ f \in FrameRecord /\ t \in FrameTime /\ m_frames \in FrameMap /\ f # Nothing
  BY <1>1, FrameFacts
<1>5. PICK h : h = [f EXCEPT !.basePicture = Nothing]
  OBVIOUS
<1>6. PICK g \in FrameRecord :
        /\ m_frames' = Put(m_frames, t, g) /\ Like(f, g)
        /\ FrameOK(t, g, m_temporalBuffers, stream.prudent, latestBase)
        /\ g.basePicture = Nothing /\ g.outputPicture = f.outputPicture
        /\ ReleasesLike(f, g)
        /\ f.basePicture # Nothing
  <2>1. PICK state, buffer, base, left :
          /\ state = f.m_state /\ buffer = f.m_temporalBuffer /\ base = Nothing /\ left = m_temporalBuffers
    OBVIOUS
  <2>2. Is(h, state, f.tasks, f.dependenciesMet, f.needsBuffer, f.wanted, buffer, base, f.outputPicture)
    BY <1>4, <1>5, <2>1, BaseLeft
  <2>3. base = (IF task.does = "BaseDone" THEN Nothing ELSE f.basePicture)
    BY <1>2, <2>1
  <2>4. state = (IF task.does = "OutputDone" THEN "Done" ELSE f.m_state)
    BY <1>2, <2>1
  <2>5. IF task.does = "TemporalRelease" THEN buffer = 0
        ELSE buffer = f.m_temporalBuffer /\ left = m_temporalBuffers
    BY <1>2, <2>1
  <2>6. k \in DOMAIN f.tasks
    BY <1>1
  <2>7. PICK g \in FrameRecord :
          /\ Finished(t, k, h) = Put(m_frames, t, g) /\ Like(f, g)
          /\ FrameOK(t, g, left, stream.prudent, latestBase)
          /\ g.basePicture = base /\ g.outputPicture = f.outputPicture
          /\ task.does # "TemporalRelease" => ReleasesLike(f, g)
          /\ task.does = "BaseDone" => f.basePicture # Nothing
    BY <1>1, <1>3, <2>2, <2>3, <2>4, <2>5, <2>6, TaskRuns
  <2>8. task.does # "TemporalRelease"
    BY <1>2
  <2> QED BY <1>2, <1>5, <2>1, <2>7, <2>8
<1>7. UNCHANGED <<indexVars, orderVars, m_temporalBuffers, stream, latestBase>>
  BY <1>2 DEF temporalVars, clientVars
<1>8. /\ m_frames' \in FrameMap
      /\ FramesOK(m_frames, m_temporalBuffers, stream.prudent, latestBase)'
      /\ IndexOK(m_frames, m_reorderIndex, m_processingIndex)'
      /\ (goodInOrder => ChainOK(m_frames, m_processingIndex, m_temporalBuffers, m_lastGoodTimestamp,
                                 stream.settings.temporalEnabled))'
  BY <1>1, <1>6, <1>7, OneFrame
<1>9. /\ m_temporalPicture' = m_temporalPicture /\ m_temporalBuffers' = m_temporalBuffers
      /\ stream' = stream /\ lent' = lent /\ call' = call
      /\ m_outputPictureAvailableBuffer' = m_outputPictureAvailableBuffer
  BY <1>2 DEF temporalVars, clientVars
<1>10. /\ VulkanTypes /\ m_basePictureOutBuffer \in Seq(Base \cup {Nothing})
       /\ m_outputPictureAvailableBuffer \in Seq(Output) /\ m_temporalPicture \in {Nothing} \cup SUBSET FrameTime
  BY DEF VulkanInvariant, VulkanTypes
<1>11. f.basePicture \in Base /\ f.basePicture \in Base \cup {Nothing}
  BY <1>4, <1>6, FrameIs
<1>12. VulkanTypes'
  <2>1. m_basePictureOutBuffer' \in Seq(Base \cup {Nothing})
    BY <1>2, <1>10, <1>11
  <2>2. UNCHANGED <<indexVars, orderVars, m_temporalBuffers, clientVars, call, broken>>
    BY <1>2, <1>9
  <2>3. m_temporalPicture' \in {Nothing} \cup SUBSET FrameTime /\ m_outputPictureAvailableBuffer' \in Seq(Output)
    BY <1>9, <1>10
  <2> QED BY <1>8, <1>10, <2>1, <2>2, <2>3, TypesKept
<1>13. /\ OutputOf(m_frames') = OutputOf(m_frames)
       /\ BaseOf(m_frames') = [BaseOf(m_frames) EXCEPT ![t] = Nothing]
  <2>1. g # Nothing
    BY FrameIs
  <2>2. /\ OutputOf(m_frames') = [OutputOf(m_frames) EXCEPT ![t] = f.outputPicture]
        /\ BaseOf(m_frames') = [BaseOf(m_frames) EXCEPT ![t] = Nothing]
    BY <1>4, <1>6, <2>1, PutPictures
  <2>3. OutputOf(m_frames) = [OutputOf(m_frames) EXCEPT ![t] = f.outputPicture]
    BY <1>1, <1>4 DEF OutputOf
  <2> QED BY <2>2, <2>3
<1>14. PicturesOK'
  <2>1. ASSUME call # "destroyed", stream.prudent PROVE PlacesOK(Base, BaseOf(m_frames'), m_basePictureOutBuffer', lent')
    <3>1. PlacesOK(Base, BaseOf(m_frames), m_basePictureOutBuffer, lent)
      BY <2>1 DEF VulkanInvariant, PicturesOK
    <3>2. DOMAIN BaseOf(m_frames) = FrameTime /\ BaseOf(m_frames)[t] = f.basePicture
      BY <1>1, <1>4 DEF BaseOf
    <3>3. Nothing \notin Base
      BY VulkanAssumption
    <3>4. PICK b : b = f.basePicture
      OBVIOUS
    <3>5. b \in Base \cup {Nothing} /\ b = BaseOf(m_frames)[t] /\ b \in Base
      BY <1>11, <3>2, <3>4
    <3>6. PlacesOK(Base, [BaseOf(m_frames) EXCEPT ![t] = Nothing], Append(m_basePictureOutBuffer, b), lent)
      BY <1>4, <1>10, <3>1, <3>2, <3>3, <3>5, PlacesBack
    <3> QED BY <1>2, <1>9, <1>13, <3>4, <3>6
  <2>2. ASSUME call # "destroyed" PROVE PlacesOK(Output, OutputOf(m_frames'), m_outputPictureAvailableBuffer', lent')
    BY <1>9, <1>13, <2>2 DEF VulkanInvariant, PicturesOK
  <2> QED BY <1>9, <2>1, <2>2 DEF PicturesOK
<1>15. (call = "idle" /\ ~broken => ~Runnable)'
  BY <1>3, <1>9
<1> QED BY <1>8, <1>12, <1>14, <1>15 DEF VulkanInvariant

\* Tasks of other frames and of this one go on as they could.
LEMMA PlainTasks ==
    ASSUME VulkanInvariant, NEW t \in Frames, NEW k \in DOMAIN m_frames[t].tasks,
           \/ ConvertToInternal(t, k) \/ Upsample(t, k) \/ GenerateCmdBuffer(t, k)
           \/ ApplyCmdBufferDirect(t, k) \/ ApplyCmdBufferTemporal(t, k) \/ WaitForMany(t, k)
           \/ ConvertFromInternal(t, k) \/ Passthrough(t, k)
           \/ ApplyAddTemporal(t, k) \/ OutputDone(t, k)
    PROVE  VulkanInvariant'
<1>1. PICK f, task : f = m_frames[t] /\ task = f.tasks[k]
  OBVIOUS
<1>2. /\ f \in FrameRecord /\ t \in FrameTime /\ k \in DOMAIN f.tasks
      /\ m_temporalPicture \in {Nothing} \cup SUBSET FrameTime
  BY <1>1, FrameFacts DEF VulkanInvariant, VulkanTypes
<1>3. task.picture \in Int
  <2>1. f.tasks \in Seq(Tasks)
    BY <1>2, FrameIs
  <2>2. task \in Tasks
    BY <1>1, <1>2, <2>1
  <2> QED BY <2>2 DEF Tasks
<1>4. ASSUME Runs(t, k, {"ConvertToInternal", "Upsample", "GenerateCmdBuffer", "ApplyCmdBufferDirect",
                         "ApplyCmdBufferTemporal", "WaitForMany", "ConvertFromInternal", "Passthrough",
                         "ApplyAddTemporal"}),
             NEW h, Same(f, h),
             m_frames' = Finished(t, k, h), OnlyFrames, UNCHANGED m_temporalBuffers,
             m_temporalPicture' \in {Nothing} \cup SUBSET FrameTime
      PROVE  VulkanInvariant'
  <2>1. CanRun(t, k) /\ task.does \notin {"TemporalRelease", "BaseDone", "OutputDone"}
    BY <1>1, <1>4 DEF Runs, TaskOf
  <2>2. PICK state : state = f.m_state
    OBVIOUS
  <2>3. state = IF task.does = "OutputDone" THEN "Done" ELSE f.m_state
    BY <2>1, <2>2
  <2>4. Is(h, state, f.tasks, f.dependenciesMet, f.needsBuffer, f.wanted, f.m_temporalBuffer,
           f.basePicture, f.outputPicture)
    BY <1>4, <2>2 DEF Same
  <2>5. task.does \notin {"TemporalRelease", "BaseDone"}
    BY <2>1
  <2> QED BY <1>1, <1>2, <1>4, <2>1, <2>3, <2>4, <2>5, PlainTask
<1>5. Same(f, f)
  BY <1>2 DEF Same, Is
<1>6. CASE \/ GenerateCmdBuffer(t, k) \/ ApplyCmdBufferDirect(t, k) \/ WaitForMany(t, k)
           \/ ConvertFromInternal(t, k) \/ Passthrough(t, k)
  <2>1. \E does \in {"GenerateCmdBuffer", "ApplyCmdBufferDirect", "WaitForMany", "ConvertFromInternal", "Passthrough"} :
          JustRuns(t, k, does)
    BY <1>6 DEF GenerateCmdBuffer, ApplyCmdBufferDirect, WaitForMany, ConvertFromInternal, Passthrough
  <2>2. Runs(t, k, {"ConvertToInternal", "Upsample", "GenerateCmdBuffer", "ApplyCmdBufferDirect",
                    "ApplyCmdBufferTemporal", "WaitForMany", "ConvertFromInternal", "Passthrough",
                    "ApplyAddTemporal"})
    BY <2>1 DEF JustRuns, Runs
  <2>3. m_frames' = Finished(t, k, f) /\ OnlyFrames /\ UNCHANGED <<m_temporalBuffers, m_temporalPicture>>
    BY <1>1, <2>1 DEF JustRuns, temporalVars
  <2> QED BY <1>2, <1>4, <1>5, <2>2, <2>3
<1>7. CASE ConvertToInternal(t, k)
  <2>1. /\ Runs(t, k, {"ConvertToInternal", "Upsample", "GenerateCmdBuffer", "ApplyCmdBufferDirect",
                       "ApplyCmdBufferTemporal", "WaitForMany", "ConvertFromInternal", "Passthrough",
                       "ApplyAddTemporal"})
        /\ m_frames' = Finished(t, k, WithPicture(f, LOQ2))
        /\ OnlyFrames /\ UNCHANGED <<m_temporalBuffers, m_temporalPicture>>
    BY <1>1, <1>7 DEF ConvertToInternal, Runs, temporalVars
  <2>2. LOQ2 \in Int
    BY DEF LOQ2
  <2>3. Same(f, WithPicture(f, LOQ2))
    BY <1>2, <2>2, WithPictureIs DEF Same
  <2> QED BY <1>2, <1>4, <2>1, <2>3
<1>8. CASE Upsample(t, k)
  <2>1. /\ Runs(t, k, {"ConvertToInternal", "Upsample", "GenerateCmdBuffer", "ApplyCmdBufferDirect",
                       "ApplyCmdBufferTemporal", "WaitForMany", "ConvertFromInternal", "Passthrough",
                       "ApplyAddTemporal"})
        /\ m_frames' = Finished(t, k, WithPicture(f, task.picture - 1))
        /\ OnlyFrames /\ UNCHANGED <<m_temporalBuffers, m_temporalPicture>>
    BY <1>1, <1>8 DEF Upsample, Runs, TaskOf, temporalVars
  <2>2. task.picture - 1 \in Int
    BY <1>3
  <2>3. Same(f, WithPicture(f, task.picture - 1))
    BY <1>2, <2>2, WithPictureIs DEF Same
  <2> QED BY <1>2, <1>4, <2>1, <2>3
<1>9. CASE ApplyCmdBufferTemporal(t, k)
  <2>1. /\ Runs(t, k, {"ConvertToInternal", "Upsample", "GenerateCmdBuffer", "ApplyCmdBufferDirect",
                       "ApplyCmdBufferTemporal", "WaitForMany", "ConvertFromInternal", "Passthrough",
                       "ApplyAddTemporal"})
        /\ m_frames' = Finished(t, k, f) /\ OnlyFrames /\ UNCHANGED m_temporalBuffers
    BY <1>1, <1>9 DEF ApplyCmdBufferTemporal, Runs
  <2>2. m_temporalPicture' = (IF m_temporalPicture = Nothing THEN {} ELSE m_temporalPicture) \cup {t}
    BY <1>9 DEF ApplyCmdBufferTemporal
  <2>3. m_temporalPicture' \in SUBSET FrameTime
    BY <1>2, <2>2
  <2> QED BY <1>4, <1>5, <2>1, <2>3
<1>10. CASE ApplyAddTemporal(t, k)
  <2>1. PICK h : h = IF f.m_skip THEN f ELSE [f EXCEPT !.shown = m_temporalPicture]
    OBVIOUS
  <2>2. /\ Runs(t, k, {"ConvertToInternal", "Upsample", "GenerateCmdBuffer", "ApplyCmdBufferDirect",
                       "ApplyCmdBufferTemporal", "WaitForMany", "ConvertFromInternal", "Passthrough",
                       "ApplyAddTemporal"})
        /\ m_frames' = Finished(t, k, h)
        /\ OnlyFrames /\ UNCHANGED <<m_temporalBuffers, m_temporalPicture>>
    BY <1>1, <1>10, <2>1 DEF ApplyAddTemporal, Runs, temporalVars
  <2>3. Same(f, [f EXCEPT !.shown = m_temporalPicture])
    BY <1>2, ShownIs DEF Same
  <2>4. Same(f, h)
    BY <1>5, <2>1, <2>3
  <2> QED BY <1>2, <1>4, <2>2, <2>4
<1>11. CASE OutputDone(t, k)
  <2>1. /\ CanRun(t, k) /\ task.does = "OutputDone"
        /\ m_frames' = Finished(t, k, [f EXCEPT !.m_state = "Done"])
        /\ OnlyFrames /\ UNCHANGED <<m_temporalBuffers, m_temporalPicture>>
    BY <1>1, <1>11 DEF OutputDone, Runs, TaskOf, temporalVars
  <2>2. PICK h, state : h = [f EXCEPT !.m_state = "Done"] /\ state = "Done"
    OBVIOUS
  <2>3. Is(h, state, f.tasks, f.dependenciesMet, f.needsBuffer, f.wanted, f.m_temporalBuffer,
           f.basePicture, f.outputPicture)
    BY <1>2, <2>2, DoneIs
  <2>4. state = (IF task.does = "OutputDone" THEN "Done" ELSE f.m_state)
        /\ task.does \notin {"TemporalRelease", "BaseDone"}
    BY <2>1, <2>2
  <2>5. m_temporalPicture' \in {Nothing} \cup SUBSET FrameTime /\ UNCHANGED m_temporalBuffers
        /\ m_frames' = Finished(t, k, h)
    BY <1>2, <2>1, <2>2
  <2> QED BY <1>1, <1>2, <2>1, <2>3, <2>4, <2>5, PlainTask
<1> QED BY <1>6, <1>7, <1>8, <1>9, <1>10, <1>11

LEMMA UseNullKeeps ==
    ASSUME VulkanInvariant, NEW t \in Frames, NEW k \in DOMAIN m_frames[t].tasks, UseNull(t, k)
    PROVE  VulkanInvariant'
<1>1. /\ broken' = TRUE
      /\ UNCHANGED <<m_frames, indexVars, orderVars, temporalVars, queueVars, clientVars, call>>
  BY DEF UseNull
<1>2. /\ m_frames' = m_frames /\ m_reorderIndex' = m_reorderIndex /\ m_processingIndex' = m_processingIndex
      /\ m_previousTimestamp' = m_previousTimestamp /\ m_lastGoodTimestamp' = m_lastGoodTimestamp
      /\ initialized' = initialized /\ chain' = chain /\ goodInOrder' = goodInOrder
      /\ m_temporalBuffers' = m_temporalBuffers /\ m_temporalPicture' = m_temporalPicture
      /\ m_basePictureOutBuffer' = m_basePictureOutBuffer
      /\ m_outputPictureAvailableBuffer' = m_outputPictureAvailableBuffer
      /\ stream' = stream /\ lent' = lent /\ latestBase' = latestBase /\ call' = call
  BY <1>1 DEF indexVars, orderVars, temporalVars, queueVars, clientVars
<1>3. VulkanTypes'
  BY <1>1, <1>2 DEF VulkanInvariant, VulkanTypes
<1>4. PicturesOK'
  BY <1>2 DEF VulkanInvariant, PicturesOK
<1> QED BY <1>1, <1>2, <1>3, <1>4 DEF VulkanInvariant

-----------------------------------------------------------------------------
(* The release of a temporal buffer.                                       *)

\* What is known of frame t, which releases anchor a, when it is g.
Releases(frames, t, g, a, anchors, processing) ==
  /\ frames \in FrameMap /\ t \in FrameTime /\ g \in FrameRecord /\ frames[t] # Nothing
  /\ Like(frames[t], g) /\ frames[t].needsBuffer
  /\ ~Waiting(frames[t])
  /\ a \in Anchors /\ anchors[a].frame = t
  /\ anchors \in [Anchors -> [timestamp : Nat, frame : FrameTime \cup {Nothing}]]
  /\ processing \in Seq(FrameTime)
  /\ \E i \in 1 .. Len(processing) : processing[i] = t

\* Nobody waits for the buffer that is released, but the frame of place heir.
WaitsFor(frames, processing, t, heir) ==
  \A i \in 1 .. Len(processing) :
    Waiting(frames[processing[i]]) /\ frames[processing[i]].wanted = t => i = heir

LEMMA WaitingChain ==
    ASSUME NEW frames, NEW processing \in Seq(FrameTime), NEW anchors, NEW lastGood, NEW temporalEnabled,
           ChainOK(frames, processing, anchors, lastGood, temporalEnabled),
           NEW i \in 1 .. Len(processing), Waiting(frames[processing[i]])
    PROVE  /\ frames[processing[i]].wanted # processing[i]
           /\ Pending(frames, frames[processing[i]].wanted)
           /\ frames[processing[i]].wanted < processing[i]
<1>1. /\ frames[processing[i]].wanted # processing[i]
      /\ Pending(frames, frames[processing[i]].wanted)
  BY DEF ChainOK
<1>2. frames[processing[i]].needsBuffer
  BY DEF Waiting
<1>3. frames[processing[i]].wanted <= processing[i]
  BY <1>2 DEF ChainOK
<1>4. processing[i] \in FrameTime /\ frames[processing[i]].wanted \in FrameTime
  BY <1>1 DEF Pending
<1>5. processing[i] \in Nat /\ frames[processing[i]].wanted \in Nat
  BY <1>4, VulkanAssumption
<1> QED BY <1>1, <1>3, <1>5

(* The buffer is left for the next good frame, if this was the last.       *)
LEMMA ChainFreed ==
    ASSUME NEW frames, NEW t, NEW g, NEW a, NEW anchors, NEW processing, NEW lastGood \in Nat, NEW temporalEnabled,
           Releases(frames, t, g, a, anchors, processing),
           ChainOK(frames, processing, anchors, lastGood, temporalEnabled),
           WaitsFor(frames, processing, t, 0),
           NEW others, others = [anchors EXCEPT ![a] = [timestamp |-> t, frame |-> Nothing]]
    PROVE  ChainOK(Put(frames, t, g), processing, others, lastGood, temporalEnabled)
<1>1. /\ frames \in FrameMap /\ t \in FrameTime /\ g \in FrameRecord /\ frames[t] # Nothing
      /\ Like(frames[t], g) /\ frames[t].needsBuffer /\ ~Waiting(frames[t])
      /\ a \in Anchors /\ anchors[a].frame = t
      /\ anchors \in [Anchors -> [timestamp : Nat, frame : FrameTime \cup {Nothing}]]
      /\ processing \in Seq(FrameTime)
  BY DEF Releases
<1>2. PICK now : now = Put(frames, t, g)
  OBVIOUS
<1>3. now[t] = g /\ \A s \in FrameTime : s # t => now[s] = frames[s]
  BY <1>1, <1>2, PutIs
<1>4. \A i \in 1 .. Len(processing) : processing[i] \in FrameTime
  BY <1>1
<1>5. \A i \in 1 .. Len(processing) :
        /\ now[processing[i]].needsBuffer = frames[processing[i]].needsBuffer
        /\ now[processing[i]].wanted = frames[processing[i]].wanted
        /\ Waiting(now[processing[i]]) => Waiting(frames[processing[i]])
  BY <1>1, <1>3, <1>4 DEF Like
<1>6. t \in Nat /\ t # 0 /\ t # Nothing
  BY <1>1, VulkanAssumption
<1>7. others[a].timestamp = t /\ others[a].frame = Nothing
      /\ \A b \in Anchors : b # a => others[b] = anchors[b]
  BY <1>1
<1>8. \A s : Pending(frames, s) /\ s # t => Pending(now, s)
  BY <1>3 DEF Pending
<1>9. \A i \in 1 .. Len(processing) : now[processing[i]].needsBuffer =>
        now[processing[i]].wanted <= processing[i] /\ processing[i] <= lastGood
  BY <1>5 DEF ChainOK
<1>10. \A i, j \in 1 .. Len(processing) :
         i < j /\ now[processing[i]].needsBuffer /\ now[processing[j]].needsBuffer =>
           processing[i] <= now[processing[j]].wanted
  BY <1>5 DEF ChainOK
<1>11. lastGood # 0
  <2>1. PICK i \in 1 .. Len(processing) : processing[i] = t
    BY DEF Releases
  <2>2. t <= lastGood
    BY <1>1, <2>1 DEF ChainOK
  <2> QED BY <1>6, <2>2
<1>12. temporalEnabled => Available(others, lastGood) \/ Pending(now, lastGood)
  <2>1. CASE Available(anchors, lastGood)
    <3>1. PICK b \in Anchors : anchors[b].frame = Nothing /\ anchors[b].timestamp = lastGood
      BY <2>1 DEF Available
    <3>2. others[b] = anchors[b]
      BY <1>1, <1>6, <1>7, <3>1
    <3> QED BY <3>1, <3>2 DEF Available
  <2>2. CASE lastGood = t
    BY <1>1, <1>7, <2>2 DEF Available
  <2>3. CASE Pending(frames, lastGood) /\ lastGood # t
    BY <1>8, <2>3
  <2> QED BY <1>11, <2>1, <2>2, <2>3 DEF ChainOK
<1>13. ASSUME NEW i \in 1 .. Len(processing), Waiting(now[processing[i]])
       PROVE  now[processing[i]].wanted # processing[i] /\ Pending(now, now[processing[i]].wanted)
  <2>1. Waiting(frames[processing[i]]) /\ now[processing[i]].wanted = frames[processing[i]].wanted
    BY <1>5, <1>13
  <2>2. frames[processing[i]].wanted # processing[i] /\ Pending(frames, frames[processing[i]].wanted)
    BY <1>1, <2>1, WaitingChain
  <2>3. frames[processing[i]].wanted # t
    <3>1. i # 0
      OBVIOUS
    <3> QED BY <2>1, <3>1 DEF WaitsFor
  <2> QED BY <1>8, <2>1, <2>2, <2>3
<1> QED BY <1>2, <1>9, <1>10, <1>11, <1>12, <1>13 DEF ChainOK

(* The buffer goes to the frame that waits for it, which is then j.        *)
LEMMA ChainHanded ==
    ASSUME NEW frames, NEW t, NEW g, NEW a, NEW anchors, NEW processing, NEW lastGood \in Nat, NEW temporalEnabled,
           Releases(frames, t, g, a, anchors, processing),
           ChainOK(frames, processing, anchors, lastGood, temporalEnabled),
           NEW heir \in 1 .. Len(processing), NEW s, s = processing[heir], s # t,
           WaitsFor(frames, processing, t, heir),
           frames[s] # Nothing, frames[s].needsBuffer, frames[s].wanted = t, s > t,
           NEW j \in FrameRecord, Like(frames[s], j), ReleasesLike(frames[s], j), ~Waiting(j),
           NEW others, others = [anchors EXCEPT ![a] = [timestamp |-> t, frame |-> s]]
    PROVE  ChainOK(Put(Put(frames, t, g), s, j), processing, others, lastGood, temporalEnabled)
<1>1. /\ frames \in FrameMap /\ t \in FrameTime /\ g \in FrameRecord /\ frames[t] # Nothing
      /\ Like(frames[t], g) /\ frames[t].needsBuffer /\ ~Waiting(frames[t])
      /\ a \in Anchors /\ anchors[a].frame = t
      /\ anchors \in [Anchors -> [timestamp : Nat, frame : FrameTime \cup {Nothing}]]
      /\ processing \in Seq(FrameTime)
  BY DEF Releases
<1>2. s \in FrameTime /\ j # Nothing
  BY <1>1, FrameIs
<1>3. PICK mid, now : mid = Put(frames, t, g) /\ now = Put(mid, s, j)
  OBVIOUS
<1>4. mid \in FrameMap /\ mid[t] = g /\ \A r \in FrameTime : r # t => mid[r] = frames[r]
  <2>1. frames \in FrameMap /\ t \in FrameTime /\ g \in FrameRecord \cup {Nothing}
    BY <1>1
  <2>2. mid = Put(frames, t, g)
    BY <1>3
  <2> QED BY ONLY <2>1, <2>2, PutIs
<1>5. now[s] = j /\ \A r \in FrameTime : r # s => now[r] = mid[r]
  BY <1>2, <1>3, <1>4, PutIs
<1>6. now[t] = g /\ \A r \in FrameTime : r # t /\ r # s => now[r] = frames[r]
  BY <1>1, <1>4, <1>5
<1>7. \A i \in 1 .. Len(processing) : processing[i] \in FrameTime
  BY <1>1
<1>8. \A i \in 1 .. Len(processing) :
        /\ now[processing[i]].needsBuffer = frames[processing[i]].needsBuffer
        /\ now[processing[i]].wanted = frames[processing[i]].wanted
        /\ Waiting(now[processing[i]]) => Waiting(frames[processing[i]])
  BY <1>1, <1>5, <1>6, <1>7 DEF Like
<1>9. t \in Nat /\ t # 0 /\ t # Nothing /\ s \in Nat
  BY <1>1, <1>2, VulkanAssumption
<1>10. \A b \in Anchors : b # a => others[b] = anchors[b]
  BY <1>1
<1>11. \A r : Pending(frames, r) /\ r # t => Pending(now, r)
  BY <1>2, <1>5, <1>6 DEF Pending, ReleasesLike
<1>12. \A i \in 1 .. Len(processing) : now[processing[i]].needsBuffer =>
         now[processing[i]].wanted <= processing[i] /\ processing[i] <= lastGood
  BY <1>8 DEF ChainOK
<1>13. \A i, l \in 1 .. Len(processing) :
         i < l /\ now[processing[i]].needsBuffer /\ now[processing[l]].needsBuffer =>
           processing[i] <= now[processing[l]].wanted
  BY <1>8 DEF ChainOK
<1>14. s <= lastGood
  BY DEF ChainOK
<1>15. lastGood # 0 /\ lastGood # t
  BY <1>9, <1>14
<1>16. temporalEnabled => Available(others, lastGood) \/ Pending(now, lastGood)
  <2>1. CASE Available(anchors, lastGood)
    <3>1. PICK b \in Anchors : anchors[b].frame = Nothing /\ anchors[b].timestamp = lastGood
      BY <2>1 DEF Available
    <3>2. others[b] = anchors[b]
      BY <1>1, <1>9, <1>10, <3>1
    <3> QED BY <3>1, <3>2 DEF Available
  <2>2. CASE Pending(frames, lastGood)
    BY <1>11, <1>15, <2>2
  <2> QED BY <1>15, <2>1, <2>2 DEF ChainOK
<1>17. ASSUME NEW i \in 1 .. Len(processing), Waiting(now[processing[i]])
       PROVE  now[processing[i]].wanted # processing[i] /\ Pending(now, now[processing[i]].wanted)
  <2>1. Waiting(frames[processing[i]]) /\ now[processing[i]].wanted = frames[processing[i]].wanted
    BY <1>8, <1>17
  <2>2. frames[processing[i]].wanted # processing[i] /\ Pending(frames, frames[processing[i]].wanted)
    BY <1>1, <2>1, WaitingChain
  <2>3. processing[i] # s
    BY <1>5, <1>17
  <2>4. frames[processing[i]].wanted # t
    BY <2>1, <2>3 DEF WaitsFor
  <2> QED BY <1>11, <2>1, <2>2, <2>4
<1> QED BY <1>3, <1>12, <1>13, <1>15, <1>16, <1>17 DEF ChainOK

\* A frame that waits for t is an heir of t.
LEMMA HeirsIs ==
    ASSUME VulkanInvariant, goodInOrder, NEW t \in FrameTime, NEW i \in 1 .. Len(m_processingIndex),
           Waiting(m_frames[m_processingIndex[i]]), m_frames[m_processingIndex[i]].wanted = t
    PROVE  i \in Heirs(t)
<1>1. PICK s, f : s = m_processingIndex[i] /\ f = m_frames[s]
  OBVIOUS
<1>2. /\ m_processingIndex \in Seq(FrameTime)
      /\ ChainOK(m_frames, m_processingIndex, m_temporalBuffers, m_lastGoodTimestamp, stream.settings.temporalEnabled)
      /\ IndexOK(m_frames, m_reorderIndex, m_processingIndex)
  BY DEF VulkanInvariant, VulkanTypes
<1>3. t < s
  BY <1>1, <1>2, WaitingChain
<1>4. s \in Frames
  BY <1>1, <1>2 DEF IndexOK, Frames
<1>5. FrameOK(s, f, m_temporalBuffers, stream.prudent, latestBase) /\ f \in FrameRecord
  BY <1>1, <1>4, FrameFacts
<1>6. f.m_temporalBuffer = 0
  <2>1. m_depTemporalBuffer \notin f.dependenciesMet
    BY <1>1 DEF Waiting
  <2> QED BY <1>5, <2>1 DEF FrameOK, BufferOK
<1>7. f.needsBuffer /\ f.wanted = t /\ s > t
  <2>1. s \in Nat /\ t \in Nat
    BY <1>1, <1>2, VulkanAssumption
  <2> QED BY <1>1, <1>3, <2>1 DEF Waiting
<1>8. i \in DOMAIN m_processingIndex
  BY <1>2
<1> QED BY <1>1, <1>6, <1>7, <1>8 DEF Heirs

LEMMA TemporalReleaseKeeps ==
    ASSUME VulkanInvariant, NEW t \in Frames, NEW k \in DOMAIN m_frames[t].tasks, TemporalRelease(t, k)
    PROVE  VulkanInvariant'
<1>1. PICK f, task, a, h : /\ f = m_frames[t] /\ task = f.tasks[k] /\ a = f.m_temporalBuffer
                           /\ h = [f EXCEPT !.m_temporalBuffer = 0]
  OBVIOUS
<1>2. /\ CanRun(t, k) /\ task.does = "TemporalRelease"
      /\ releaseTemporalBuffer(t, k) /\ OnlyFrames /\ UNCHANGED m_temporalPicture
  BY <1>1 DEF TemporalRelease, Runs, TaskOf
<1>3. call # "idle" /\ InputsMet(t, k)
  BY <1>2, RunsInCall
<1>4. /\ f \in FrameRecord /\ t \in FrameTime /\ m_frames \in FrameMap /\ f # Nothing /\ t \in Nat /\ t # 0
      /\ FrameOK(t, f, m_temporalBuffers, stream.prudent, latestBase)
  BY <1>1, FrameFacts
<1>5. UNCHANGED <<indexVars, orderVars, queueVars, clientVars, call, broken>>
  BY <1>2 DEF OnlyFrames
<1>6. /\ m_reorderIndex' = m_reorderIndex /\ m_processingIndex' = m_processingIndex
      /\ m_previousTimestamp' = m_previousTimestamp /\ m_lastGoodTimestamp' = m_lastGoodTimestamp
      /\ initialized' = initialized /\ chain' = chain /\ goodInOrder' = goodInOrder
      /\ m_basePictureOutBuffer' = m_basePictureOutBuffer
      /\ m_outputPictureAvailableBuffer' = m_outputPictureAvailableBuffer
      /\ stream' = stream /\ lent' = lent /\ latestBase' = latestBase /\ call' = call /\ broken' = broken
      /\ m_temporalPicture' = m_temporalPicture
  BY <1>2, <1>5 DEF indexVars, orderVars, queueVars, clientVars
<1>7. PICK anchors, processing, reorder, prudent, latest :
        /\ anchors = m_temporalBuffers /\ processing = m_processingIndex /\ reorder = m_reorderIndex
        /\ prudent = stream.prudent /\ latest = latestBase
  OBVIOUS
<1>8. /\ processing \in Seq(FrameTime) /\ reorder \in Seq(FrameTime) /\ latest \in Nat
      /\ m_lastGoodTimestamp \in Nat
      /\ anchors \in [Anchors -> [timestamp : Nat, frame : FrameTime \cup {Nothing}]]
      /\ FramesOK(m_frames, anchors, prudent, latest) /\ IndexOK(m_frames, reorder, processing)
      /\ goodInOrder => ChainOK(m_frames, processing, anchors, m_lastGoodTimestamp, stream.settings.temporalEnabled)
  BY <1>7 DEF VulkanInvariant, VulkanTypes
\* Whatever becomes of the anchor.
<1>9. ASSUME NEW left
      PROVE  \E g \in FrameRecord :
               /\ Finished(t, k, h) = Put(m_frames, t, g) /\ Like(f, g)
               /\ FrameOK(t, g, left, prudent, latest)
               /\ g.basePicture = f.basePicture /\ g.outputPicture = f.outputPicture
               /\ CanRelease(f) /\ f.m_state # "Reorder"
  <2>1. PICK state, buffer, base : state = f.m_state /\ buffer = 0 /\ base = f.basePicture
    OBVIOUS
  <2>2. Is(h, state, f.tasks, f.dependenciesMet, f.needsBuffer, f.wanted, buffer, base, f.outputPicture)
    <3>1. buffer \in Nat
      BY <2>1
    <3> QED BY <1>1, <1>4, <2>1, <3>1, BufferLeft
  <2>3. base = (IF task.does = "BaseDone" THEN Nothing ELSE f.basePicture)
    BY <1>2, <2>1
  <2>4. state = (IF task.does = "OutputDone" THEN "Done" ELSE f.m_state)
    BY <1>2, <2>1
  <2>5. IF task.does = "TemporalRelease" THEN buffer = 0
        ELSE buffer = f.m_temporalBuffer /\ left = m_temporalBuffers
    BY <1>2, <2>1
  <2>6. k \in DOMAIN f.tasks
    BY <1>1
  <2>7. PICK g \in FrameRecord :
          /\ Finished(t, k, h) = Put(m_frames, t, g) /\ Like(f, g)
          /\ FrameOK(t, g, left, stream.prudent, latestBase)
          /\ g.basePicture = base /\ g.outputPicture = f.outputPicture
          /\ task.does = "TemporalRelease" => CanRelease(f)
          /\ f.m_state # "Reorder"
    BY <1>1, <1>3, <2>2, <2>3, <2>4, <2>5, <2>6, TaskRuns
  <2> QED BY <1>2, <1>7, <2>1, <2>7
<1>10. CanRelease(f) /\ f.m_state # "Reorder"
  BY <1>9
<1>11. a \in Anchors /\ anchors[a].frame = t /\ f.needsBuffer /\ ~Waiting(f)
  BY <1>1, <1>4, <1>7, <1>10 DEF CanRelease, FrameOK, BufferOK, Waiting
<1>12. \E i \in 1 .. Len(processing) : processing[i] = t
  BY <1>1, <1>4, <1>8, <1>10 DEF IndexOK
<1>13. t # Nothing
  BY <1>4, VulkanAssumption
\* The frames and the anchors decide the rest.
<1>14. ASSUME m_frames' \in FrameMap,
              m_temporalBuffers' \in [Anchors -> [timestamp : Nat, frame : FrameTime \cup {Nothing}]],
              FramesOK(m_frames', m_temporalBuffers', prudent, latest),
              IndexOK(m_frames', reorder, processing),
              goodInOrder => ChainOK(m_frames', processing, m_temporalBuffers', m_lastGoodTimestamp,
                                     stream.settings.temporalEnabled),
              OutputOf(m_frames') = OutputOf(m_frames), BaseOf(m_frames') = BaseOf(m_frames)
       PROVE  VulkanInvariant'
  <2>1. VulkanTypes'
    BY <1>6, <1>14 DEF VulkanInvariant, VulkanTypes, FrameMap
  <2>2. PicturesOK'
    BY <1>6, <1>14 DEF VulkanInvariant, PicturesOK
  <2>3. (call = "idle" /\ ~broken => ~Runnable)'
    BY <1>3, <1>6
  <2>4. (goodInOrder => ChainOK(m_frames, m_processingIndex, m_temporalBuffers, m_lastGoodTimestamp,
                                stream.settings.temporalEnabled))'
    BY <1>6, <1>7, <1>14
  <2>5. FramesOK(m_frames, m_temporalBuffers, stream.prudent, latestBase)'
        /\ IndexOK(m_frames, m_reorderIndex, m_processingIndex)'
    BY <1>6, <1>7, <1>14
  <2> QED BY <2>1, <2>2, <2>3, <2>4, <2>5 DEF VulkanInvariant
<1>15. latest <= latest
  BY <1>8
<1>16. CASE Heirs(t) = {}
  <2>1. PICK left : left = [anchors EXCEPT ![a] = [timestamp |-> t, frame |-> Nothing]]
    OBVIOUS
  <2>2. m_frames' = Finished(t, k, h) /\ m_temporalBuffers' = left
    BY <1>1, <1>2, <1>7, <1>16, <2>1 DEF releaseTemporalBuffer, LeftFree
  <2>3. PICK g \in FrameRecord :
          /\ Finished(t, k, h) = Put(m_frames, t, g) /\ Like(f, g)
          /\ FrameOK(t, g, left, prudent, latest)
          /\ g.basePicture = f.basePicture /\ g.outputPicture = f.outputPicture
    BY <1>9
  <2>4. m_frames' = Put(m_frames, t, g)
    BY <2>2, <2>3
  <2>5. OthersStay(t, anchors, left)
    BY <1>8, <1>11, <2>1 DEF OthersStay
  <2>6. FramesOK(m_frames', left, prudent, latest) /\ m_frames' \in FrameMap
    BY <1>4, <1>8, <1>15, <2>3, <2>4, <2>5, OneChanges, PutIs
  <2>7. Alike(m_frames, m_frames')
    BY <1>1, <1>4, <1>8, <2>3, <2>4, PutLike
  <2>8. IndexOK(m_frames', reorder, processing)
    BY <1>8, <2>7, IndexKept
  <2>9. goodInOrder => ChainOK(m_frames', processing, left, m_lastGoodTimestamp, stream.settings.temporalEnabled)
    <3> SUFFICES ASSUME goodInOrder
                 PROVE  ChainOK(m_frames', processing, left, m_lastGoodTimestamp, stream.settings.temporalEnabled)
      OBVIOUS
    <3>1. Releases(m_frames, t, g, a, anchors, processing)
      BY <1>1, <1>4, <1>8, <1>11, <1>12, <2>3 DEF Releases
    <3>2. WaitsFor(m_frames, processing, t, 0)
      BY <1>4, <1>7, <1>16, HeirsIs DEF WaitsFor
    <3> QED BY <1>8, <2>1, <2>4, <3>1, <3>2, ChainFreed
  <2>10. left \in [Anchors -> [timestamp : Nat, frame : FrameTime \cup {Nothing}]]
    BY <1>4, <1>8, <2>1
  <2>11. OutputOf(m_frames') = OutputOf(m_frames) /\ BaseOf(m_frames') = BaseOf(m_frames)
    <3>1. g # Nothing
      BY FrameIs
    <3>2. /\ OutputOf(m_frames') = [OutputOf(m_frames) EXCEPT ![t] = f.outputPicture]
          /\ BaseOf(m_frames') = [BaseOf(m_frames) EXCEPT ![t] = f.basePicture]
      BY <1>4, <2>3, <2>4, <3>1, PutPictures
    <3>3. OutputOf(m_frames) = [OutputOf(m_frames) EXCEPT ![t] = f.outputPicture]
      BY <1>1, <1>4 DEF OutputOf
    <3>4. BaseOf(m_frames) = [BaseOf(m_frames) EXCEPT ![t] = f.basePicture]
      BY <1>1, <1>4 DEF BaseOf
    <3> QED BY <3>2, <3>3, <3>4
  <2> QED BY <1>14, <2>2, <2>6, <2>8, <2>9, <2>10, <2>11
<1>17. CASE Heirs(t) # {}
  <2>1. Heirs(t) \subseteq 1 .. Len(processing)
    <3>1. DOMAIN processing = 1 .. Len(processing)
      BY <1>8
    <3> QED BY <1>7, <3>1 DEF Heirs
  <2>2. PICK i : i = Sets!Min(Heirs(t))
    OBVIOUS
  <2>3. i \in Heirs(t) /\ \A j \in Heirs(t) : i <= j
    <3>1. Heirs(t) \in SUBSET Nat
      BY <2>1
    <3> QED BY <1>17, <2>2, <3>1, MinIs
  <2>4. PICK s, e : s = processing[i] /\ e = m_frames[s]
    OBVIOUS
  <2>5. i \in 1 .. Len(processing) /\ s > t /\ e.needsBuffer /\ e.m_temporalBuffer = 0 /\ e.wanted = t
    BY <1>7, <2>1, <2>3, <2>4 DEF Heirs
  <2>6. s \in FrameTime /\ s \in Frames /\ e.m_state # "Reorder" /\ s # t
    <3>1. s \in FrameTime /\ e # Nothing /\ e.m_state # "Reorder"
      BY <1>8, <2>4, <2>5 DEF IndexOK
    <3> QED BY <1>4, <2>4, <2>5, <3>1 DEF Frames
  <2>7. e \in FrameRecord /\ e # Nothing /\ FrameOK(s, e, anchors, prudent, latest)
    BY <1>7, <2>4, <2>6, FrameFacts
  <2>8. PICK left : left = [anchors EXCEPT ![a] = [timestamp |-> t, frame |-> s]]
    OBVIOUS
  <2>9. PICK g \in FrameRecord :
          /\ Finished(t, k, h) = Put(m_frames, t, g) /\ Like(f, g)
          /\ FrameOK(t, g, left, prudent, latest)
          /\ g.basePicture = f.basePicture /\ g.outputPicture = f.outputPicture
    BY <1>9
  <2>10. PICK mid : mid = Put(m_frames, t, g)
    OBVIOUS
  <2>11. mid \in FrameMap /\ mid[t] = g /\ mid[s] = e /\ m_frames[s] = e
    <3>1. g \in FrameRecord \cup {Nothing}
      OBVIOUS
    <3>2. mid \in FrameMap /\ mid[t] = g /\ \A r \in FrameTime : r # t => mid[r] = m_frames[r]
      BY ONLY <1>4, <2>10, <3>1, PutIs
    <3> QED BY <2>4, <2>6, <3>2
  <2>12. PICK j : j = DependencyMet([e EXCEPT !.m_temporalBuffer = a], m_depTemporalBuffer)
    OBVIOUS
  <2>13. Is(j, e.m_state, e.tasks, e.dependenciesMet \cup {m_depTemporalBuffer}, e.needsBuffer, e.wanted,
            a, e.basePicture, e.outputPicture)
    <3>1. a \in Nat /\ m_depTemporalBuffer \in Dependency
      BY <1>1, <1>4, FrameIs, ExternalIs
    <3>2. PICK given : given = [e EXCEPT !.m_temporalBuffer = a]
      OBVIOUS
    <3>3. /\ given \in FrameRecord /\ given.m_state = e.m_state /\ given.tasks = e.tasks
          /\ given.dependenciesMet = e.dependenciesMet /\ given.needsBuffer = e.needsBuffer
          /\ given.wanted = e.wanted /\ given.m_temporalBuffer = a
          /\ given.basePicture = e.basePicture /\ given.outputPicture = e.outputPicture
      BY <2>7, <3>1, <3>2, BufferLeft DEF Is
    <3> QED BY <2>12, <3>1, <3>2, <3>3, DependencyMetIs
  <2>14. /\ j \in FrameRecord /\ j.m_state = e.m_state /\ j.tasks = e.tasks /\ j.needsBuffer = e.needsBuffer
         /\ j.wanted = e.wanted /\ j.basePicture = e.basePicture /\ j.outputPicture = e.outputPicture
    BY <2>13 DEF Is
  <2>15. m_frames' = Put(mid, s, j) /\ m_temporalBuffers' = left
    <3>1. HandedOn(t, k, s)
      BY <1>2, <1>7, <1>17, <2>2, <2>4 DEF releaseTemporalBuffer
    <3>2. Put(mid, s, j) = [mid EXCEPT ![s] =
                 DependencyMet([@ EXCEPT !.m_temporalBuffer = a], m_depTemporalBuffer)]
      BY <2>6, <2>11, <2>12 DEF Put, FrameMap
    <3>3. m_frames[s].wanted = t
      BY <2>5, <2>11
    <3>4. Finished(t, k, h) = mid
      BY <2>9, <2>10
    <3> QED BY <1>1, <1>7, <2>8, <3>1, <3>2, <3>3, <3>4 DEF HandedOn
  <2>16. FramesOK(mid, left, prudent, latest)
    <3>1. OthersStay(t, anchors, left)
      BY <1>8, <1>11, <2>8 DEF OthersStay
    <3> QED BY <1>4, <1>8, <1>15, <2>9, <2>10, <3>1, OneChanges
  <2>17. a # 0 /\ left[a].frame = s
    <3>1. a # 0
      BY <1>1, <1>10 DEF CanRelease
    <3>2. left[a].frame = s
      BY <1>8, <1>11, <2>8
    <3> QED BY <3>1, <3>2
  <2>18. FrameOK(s, j, left, prudent, latest) /\ ~Waiting(j)
    BY <1>11, <2>6, <2>7, <2>13, <2>17, BufferComes
  <2>19. FramesOK(m_frames', left, prudent, latest) /\ m_frames' \in FrameMap
    <3>1. OthersStay(s, left, left)
      BY DEF OthersStay
    <3>2. FramesOK(Put(mid, s, j), left, prudent, latest)
      BY <1>8, <1>15, <2>6, <2>11, <2>14, <2>16, <2>18, <3>1, OneChanges
    <3>3. Put(mid, s, j) \in FrameMap
      BY <2>6, <2>11, <2>14, PutIs
    <3> QED BY <2>15, <3>2, <3>3
  <2>20. Like(e, j) /\ ReleasesLike(e, j)
    BY <2>14, <2>18 DEF Like, ReleasesLike
  <2>21. IndexOK(m_frames', reorder, processing)
    <3>1. Alike(m_frames, mid)
      BY <1>1, <1>4, <1>8, <2>9, <2>10, PutLike
    <3>2. Alike(mid, m_frames')
      BY <1>8, <2>6, <2>7, <2>11, <2>14, <2>15, <2>20, PutLike
    <3> QED BY <1>8, <3>1, <3>2, IndexKept
  <2>22. goodInOrder => ChainOK(m_frames', processing, left, m_lastGoodTimestamp, stream.settings.temporalEnabled)
    <3> SUFFICES ASSUME goodInOrder
                 PROVE  ChainOK(m_frames', processing, left, m_lastGoodTimestamp, stream.settings.temporalEnabled)
      OBVIOUS
    <3>1. Releases(m_frames, t, g, a, anchors, processing)
      BY <1>1, <1>4, <1>8, <1>11, <1>12, <2>9 DEF Releases
    <3>2. WaitsFor(m_frames, processing, t, i)
      <4> SUFFICES ASSUME NEW l \in 1 .. Len(processing), Waiting(m_frames[processing[l]]),
                          m_frames[processing[l]].wanted = t, l # i
                   PROVE  FALSE
        BY DEF WaitsFor
      <4>1. l \in Heirs(t)
        BY <1>4, <1>7, HeirsIs
      <4>2. i < l
        BY <2>3, <2>5, <4>1
      <4>3. m_frames[processing[l]].needsBuffer
        BY DEF Waiting
      <4>4. s <= t
        BY <1>8, <2>4, <2>5, <4>2, <4>3 DEF ChainOK
      <4>5. s \in Nat
        BY <2>6, VulkanAssumption
      <4> QED BY <1>4, <2>5, <4>4, <4>5
    <3>3. ChainOK(m_frames, processing, anchors, m_lastGoodTimestamp, stream.settings.temporalEnabled)
      BY <1>8
    <3>4. m_frames[s] # Nothing /\ m_frames[s].needsBuffer /\ m_frames[s].wanted = t
      BY <2>5, <2>7, <2>11
    <3>5. Like(m_frames[s], j) /\ ReleasesLike(m_frames[s], j) /\ ~Waiting(j)
      BY <2>11, <2>18, <2>20
    <3>6. PICK lastGood, temporalEnabled :
            lastGood = m_lastGoodTimestamp /\ temporalEnabled = stream.settings.temporalEnabled
      OBVIOUS
    <3>7. lastGood \in Nat /\ ChainOK(m_frames, processing, anchors, lastGood, temporalEnabled)
      BY <1>8, <3>3, <3>6
    <3>8. ChainOK(Put(Put(m_frames, t, g), s, j), processing, left, lastGood, temporalEnabled)
      BY <2>4, <2>5, <2>6, <2>8, <2>14, <3>1, <3>2, <3>4, <3>5, <3>7, ChainHanded
    <3> QED BY <2>10, <2>15, <3>6, <3>8
  <2>23. left \in [Anchors -> [timestamp : Nat, frame : FrameTime \cup {Nothing}]]
    BY <1>4, <1>8, <2>6, <2>8
  <2>24. OutputOf(m_frames') = OutputOf(m_frames) /\ BaseOf(m_frames') = BaseOf(m_frames)
    <3>1. g # Nothing /\ j # Nothing
      BY <2>14, FrameIs
    <3>2. /\ OutputOf(mid) = [OutputOf(m_frames) EXCEPT ![t] = f.outputPicture]
          /\ BaseOf(mid) = [BaseOf(m_frames) EXCEPT ![t] = f.basePicture]
      BY <1>4, <2>9, <2>10, <3>1, PutPictures
    <3>3. /\ OutputOf(m_frames') = [OutputOf(mid) EXCEPT ![s] = e.outputPicture]
          /\ BaseOf(m_frames') = [BaseOf(mid) EXCEPT ![s] = e.basePicture]
      BY <2>6, <2>11, <2>14, <2>15, <3>1, PutPictures
    <3>4. /\ OutputOf(m_frames) = [OutputOf(m_frames) EXCEPT ![t] = f.outputPicture]
          /\ BaseOf(m_frames) = [BaseOf(m_frames) EXCEPT ![t] = f.basePicture]
      BY <1>1, <1>4 DEF OutputOf, BaseOf
    <3>5. /\ OutputOf(mid) = [OutputOf(mid) EXCEPT ![s] = e.outputPicture]
          /\ BaseOf(mid) = [BaseOf(mid) EXCEPT ![s] = e.basePicture]
      BY <2>6, <2>7, <2>11 DEF OutputOf, BaseOf
    <3> QED BY <3>2, <3>3, <3>4, <3>5
  <2> QED BY <1>14, <2>15, <2>19, <2>21, <2>22, <2>23, <2>24
<1> QED BY <1>16, <1>17

LEMMA RunTaskKeeps ==
    ASSUME VulkanInvariant, RunTask
    PROVE  VulkanInvariant'
BY PlainTasks, TemporalReleaseKeeps, BaseDoneKeeps, UseNullKeeps DEF RunTask

-----------------------------------------------------------------------------
(* Calls of the client.                                                    *)

LEMMA GoOnKeeps ==
    ASSUME VulkanInvariant, GoOn
    PROVE  VulkanInvariant'
<1>1. /\ ~Runnable /\ call' \in {"start", "connect", "idle"} /\ call # "destroyed"
      /\ UNCHANGED <<m_frames, indexVars, orderVars, temporalVars, queueVars, clientVars, broken>>
  BY DEF GoOn
<1>2. /\ m_frames' = m_frames /\ m_reorderIndex' = m_reorderIndex /\ m_processingIndex' = m_processingIndex
      /\ m_previousTimestamp' = m_previousTimestamp /\ m_lastGoodTimestamp' = m_lastGoodTimestamp
      /\ initialized' = initialized /\ chain' = chain /\ goodInOrder' = goodInOrder
      /\ m_temporalBuffers' = m_temporalBuffers /\ m_temporalPicture' = m_temporalPicture
      /\ m_basePictureOutBuffer' = m_basePictureOutBuffer
      /\ m_outputPictureAvailableBuffer' = m_outputPictureAvailableBuffer
      /\ stream' = stream /\ lent' = lent /\ latestBase' = latestBase /\ broken' = broken
  BY <1>1 DEF indexVars, orderVars, temporalVars, queueVars, clientVars
<1>3. VulkanTypes'
  BY <1>1, <1>2 DEF VulkanInvariant, VulkanTypes
<1>4. PicturesOK'
  BY <1>1, <1>2 DEF VulkanInvariant, PicturesOK
<1>5. ~Runnable'
  BY <1>1, <1>2 DEF Runnable, Frames, InputsMet, TaskOf
<1> QED BY <1>2, <1>3, <1>4, <1>5 DEF VulkanInvariant

LEMMA ConnectKeeps ==
    ASSUME VulkanInvariant, connectOutputPictures
    PROVE  VulkanInvariant'
<1>1. PICK i, t, f, u : /\ i = Sets!Min(Unconnected) /\ t = m_processingIndex[i] /\ f = m_frames[t]
                        /\ u = m_outputPictureAvailableBuffer[1]
  OBVIOUS
<1>2. /\ call # "idle" /\ call # "destroyed" /\ Unconnected # {} /\ m_outputPictureAvailableBuffer # <<>>
      /\ m_frames' = [m_frames EXCEPT ![t] = DependencyMet([@ EXCEPT !.outputPicture = u], m_depOutputPicture)]
      /\ m_outputPictureAvailableBuffer' = Tail(m_outputPictureAvailableBuffer)
      /\ UNCHANGED <<indexVars, orderVars, temporalVars, m_basePictureOutBuffer, clientVars, call, broken>>
  BY <1>1 DEF connectOutputPictures, CanConnect
<1>3. /\ VulkanTypes /\ m_processingIndex \in Seq(FrameTime) /\ m_outputPictureAvailableBuffer \in Seq(Output)
      /\ m_basePictureOutBuffer \in Seq(Base \cup {Nothing}) /\ m_temporalPicture \in {Nothing} \cup SUBSET FrameTime
      /\ IndexOK(m_frames, m_reorderIndex, m_processingIndex)
  BY DEF VulkanInvariant, VulkanTypes
<1>4. i \in Unconnected /\ i \in 1 .. Len(m_processingIndex)
  <2>1. Unconnected \subseteq 1 .. Len(m_processingIndex)
    BY <1>3 DEF Unconnected
  <2>2. Unconnected \in SUBSET Nat
    BY <2>1
  <2> QED BY <1>1, <1>2, <2>1, <2>2, MinIs
<1>5. t \in FrameTime /\ t \in Frames /\ f.m_state # "Reorder" /\ f.outputPicture = Nothing
  BY <1>1, <1>3, <1>4 DEF IndexOK, Frames, Unconnected
<1>6. /\ f \in FrameRecord /\ f # Nothing /\ m_frames \in FrameMap
      /\ FrameOK(t, f, m_temporalBuffers, stream.prudent, latestBase)
  BY <1>1, <1>5, FrameFacts
<1>7. u \in Output
  BY <1>1, <1>2, <1>3
<1>8. PICK h, g : h = [f EXCEPT !.outputPicture = u] /\ g = DependencyMet(h, m_depOutputPicture)
  OBVIOUS
<1>9. Is(g, f.m_state, f.tasks, f.dependenciesMet \cup {m_depOutputPicture}, f.needsBuffer, f.wanted,
         f.m_temporalBuffer, f.basePicture, u)
  <2>1. m_depOutputPicture \in Dependency
    BY ExternalIs
  <2>2. /\ h \in FrameRecord /\ h.m_state = f.m_state /\ h.tasks = f.tasks
        /\ h.dependenciesMet = f.dependenciesMet /\ h.needsBuffer = f.needsBuffer
        /\ h.wanted = f.wanted /\ h.m_temporalBuffer = f.m_temporalBuffer
        /\ h.basePicture = f.basePicture /\ h.outputPicture = u
    BY <1>6, <1>7, <1>8, OutputIs DEF Is
  <2> QED BY <1>8, <2>1, <2>2, DependencyMetIs
<1>10. /\ g \in FrameRecord /\ g.m_state = f.m_state /\ g.tasks = f.tasks /\ g.needsBuffer = f.needsBuffer
       /\ g.wanted = f.wanted /\ g.basePicture = f.basePicture /\ g.outputPicture = u
  BY <1>9 DEF Is
<1>11. FrameOK(t, g, m_temporalBuffers, stream.prudent, latestBase) /\ (Waiting(g) => Waiting(f))
  BY <1>5, <1>6, <1>9, OutputComes
<1>12. Like(f, g) /\ ReleasesLike(f, g)
  BY <1>10, <1>11 DEF Like, ReleasesLike
<1>13. m_frames' = Put(m_frames, t, g)
  BY <1>1, <1>2, <1>5, <1>6, <1>8 DEF Put, FrameMap
<1>14. /\ m_temporalPicture' = m_temporalPicture /\ m_temporalBuffers' = m_temporalBuffers
       /\ m_basePictureOutBuffer' = m_basePictureOutBuffer
       /\ stream' = stream /\ lent' = lent /\ latestBase' = latestBase /\ call' = call
  BY <1>2 DEF temporalVars, clientVars
<1>15. /\ m_frames' \in FrameMap
       /\ FramesOK(m_frames, m_temporalBuffers, stream.prudent, latestBase)'
       /\ IndexOK(m_frames, m_reorderIndex, m_processingIndex)'
       /\ (goodInOrder => ChainOK(m_frames, m_processingIndex, m_temporalBuffers, m_lastGoodTimestamp,
                                  stream.settings.temporalEnabled))'
  <2>1. UNCHANGED <<indexVars, orderVars, m_temporalBuffers, stream, latestBase>>
    BY <1>2, <1>14
  <2> QED BY <1>1, <1>5, <1>10, <1>11, <1>12, <1>13, <2>1, OneFrame
<1>16. VulkanTypes'
  <2>1. m_outputPictureAvailableBuffer' \in Seq(Output)
    BY <1>2, <1>3
  <2>2. UNCHANGED <<indexVars, orderVars, m_temporalBuffers, clientVars, call, broken>>
    BY <1>2, <1>14
  <2> QED BY <1>3, <1>14, <1>15, <2>1, <2>2, TypesKept
<1>17. /\ OutputOf(m_frames') = [OutputOf(m_frames) EXCEPT ![t] = u]
       /\ BaseOf(m_frames') = BaseOf(m_frames)
  <2>1. g # Nothing
    BY <1>10, FrameIs
  <2>2. /\ OutputOf(m_frames') = [OutputOf(m_frames) EXCEPT ![t] = u]
        /\ BaseOf(m_frames') = [BaseOf(m_frames) EXCEPT ![t] = f.basePicture]
    BY <1>5, <1>6, <1>10, <1>13, <2>1, PutPictures
  <2>3. BaseOf(m_frames) = [BaseOf(m_frames) EXCEPT ![t] = f.basePicture]
    BY <1>1, <1>5, <1>6 DEF BaseOf
  <2> QED BY <2>2, <2>3
<1>18. PicturesOK'
  <2>1. PlacesOK(Output, OutputOf(m_frames), m_outputPictureAvailableBuffer, lent)
    BY <1>2 DEF VulkanInvariant, PicturesOK
  <2>2. /\ DOMAIN OutputOf(m_frames) = FrameTime /\ OutputOf(m_frames)[t] = Nothing /\ Nothing \notin Output
    BY <1>1, <1>5, VulkanAssumption DEF OutputOf
  <2>3. PlacesOK(Output, [OutputOf(m_frames) EXCEPT ![t] = u], Tail(m_outputPictureAvailableBuffer), lent)
    BY <1>1, <1>2, <1>3, <1>5, <1>7, <2>1, <2>2, PlacesTake
  <2>4. PlacesOK(Output, OutputOf(m_frames'), m_outputPictureAvailableBuffer', lent')
    BY <1>2, <1>14, <1>17, <2>3
  <2>5. stream.prudent => PlacesOK(Base, BaseOf(m_frames'), m_basePictureOutBuffer', lent')
    BY <1>2, <1>14, <1>17 DEF VulkanInvariant, PicturesOK
  <2> QED BY <1>14, <2>4, <2>5 DEF PicturesOK
<1>19. (call = "idle" /\ ~broken => ~Runnable)'
  BY <1>2, <1>14
<1> QED BY <1>15, <1>16, <1>18, <1>19 DEF VulkanInvariant

\* Frames that wait need wait no longer, and the like.
LEMMA StartsToKeeps ==
    ASSUME VulkanInvariant, NEW frames \in FrameMap, Resembles(m_frames, frames), StartsTo(frames)
    PROVE  VulkanInvariant'
<1>1. /\ call' = "start" /\ call # "destroyed" /\ m_frames' = frames
      /\ UNCHANGED <<indexVars, orderVars, temporalVars, queueVars, clientVars, broken>>
  BY DEF StartsTo, Idle
<1>2. /\ m_reorderIndex' = m_reorderIndex /\ m_processingIndex' = m_processingIndex
      /\ m_previousTimestamp' = m_previousTimestamp /\ m_lastGoodTimestamp' = m_lastGoodTimestamp
      /\ initialized' = initialized /\ chain' = chain /\ goodInOrder' = goodInOrder
      /\ m_temporalBuffers' = m_temporalBuffers /\ m_temporalPicture' = m_temporalPicture
      /\ m_basePictureOutBuffer' = m_basePictureOutBuffer
      /\ m_outputPictureAvailableBuffer' = m_outputPictureAvailableBuffer
      /\ stream' = stream /\ lent' = lent /\ latestBase' = latestBase /\ broken' = broken
  BY <1>1 DEF indexVars, orderVars, temporalVars, queueVars, clientVars
<1>3. VulkanTypes'
  BY <1>1, <1>2 DEF VulkanInvariant, VulkanTypes, FrameMap
<1>4. /\ m_frames \in FrameMap /\ m_reorderIndex \in Seq(FrameTime) /\ m_processingIndex \in Seq(FrameTime)
      /\ FramesOK(m_frames, m_temporalBuffers, stream.prudent, latestBase)
      /\ IndexOK(m_frames, m_reorderIndex, m_processingIndex)
      /\ goodInOrder => ChainOK(m_frames, m_processingIndex, m_temporalBuffers, m_lastGoodTimestamp,
                                stream.settings.temporalEnabled)
  BY DEF VulkanInvariant, VulkanTypes, FrameMap
<1>5. /\ Alike(m_frames, frames) /\ ChainAlike(m_frames, frames, m_processingIndex)
      /\ OutputOf(frames) = OutputOf(m_frames) /\ BaseOf(frames) = BaseOf(m_frames)
  BY <1>4, ResemblesKeeps
<1>6. FramesOK(frames, m_temporalBuffers, stream.prudent, latestBase)
  BY <1>4, ResemblesKeeps
<1>7. IndexOK(frames, m_reorderIndex, m_processingIndex)
  BY <1>4, <1>5, IndexKept
<1>8. goodInOrder => ChainOK(frames, m_processingIndex, m_temporalBuffers, m_lastGoodTimestamp,
                             stream.settings.temporalEnabled)
  BY <1>4, <1>5, ChainKept
<1>9. PicturesOK'
  BY <1>1, <1>2, <1>5 DEF VulkanInvariant, PicturesOK
<1> QED BY <1>1, <1>2, <1>3, <1>6, <1>7, <1>8, <1>9 DEF VulkanInvariant

LEMMA MadeReadyIs ==
    ASSUME NEW frames \in FrameMap, NEW timestamp, IndexOK(m_frames, m_reorderIndex, m_processingIndex),
           m_reorderIndex \in Seq(FrameTime),
           \A s \in FrameTime : m_frames[s] # Nothing => frames[s] # Nothing
    PROVE  MadeReady(frames, timestamp) \in FrameMap /\ Resembles(frames, MadeReady(frames, timestamp))
<1>1. PICK now : now = MadeReady(frames, timestamp)
  OBVIOUS
<1>2. ASSUME NEW s \in FrameTime
      PROVE  /\ now[s] \in FrameRecord \cup {Nothing}
             /\ IF frames[s] = Nothing THEN now[s] = Nothing ELSE Same(frames[s], now[s])
  <2>1. CASE now[s] = frames[s]
    <3>1. frames[s] # Nothing => frames[s] \in FrameRecord
      BY FrameMapIs
    <3>2. frames[s] # Nothing => Same(frames[s], now[s])
      BY <2>1, <3>1 DEF Same, Is
    <3> QED BY <2>1, <3>1, <3>2
  <2>2. CASE now[s] # frames[s]
    <3>1. s \in Lists!Range(m_reorderIndex) /\ now[s] = [frames[s] EXCEPT !.m_ready = TRUE]
      BY <1>1, <2>2 DEF MadeReady
    <3>2. \E i \in 1 .. Len(m_reorderIndex) : m_reorderIndex[i] = s
      BY <3>1 DEF Lists!Range
    <3>3. frames[s] # Nothing
      BY <3>2 DEF IndexOK
    <3>4. frames[s] \in FrameRecord
      BY <3>3, FrameMapIs
    <3>5. Same(frames[s], now[s])
      BY <3>1, <3>4, ReadyIs DEF Same
    <3> QED BY <3>3, <3>5, SameIs
  <2> QED BY <2>1, <2>2
<1>3. now \in FrameMap
  BY <1>1, <1>2 DEF MadeReady, FrameMap
<1> QED BY <1>1, <1>2, <1>3 DEF Resembles

LEMMA StartProcessingKeeps ==
    ASSUME VulkanInvariant, NEW timestamp, StartProcessing(timestamp)
    PROVE  VulkanInvariant'
<1>1. /\ m_frames \in FrameMap /\ m_reorderIndex \in Seq(FrameTime)
      /\ IndexOK(m_frames, m_reorderIndex, m_processingIndex)
  BY DEF VulkanInvariant, VulkanTypes, FrameMap
<1>2. MadeReady(m_frames, timestamp) \in FrameMap /\ Resembles(m_frames, MadeReady(m_frames, timestamp))
  BY <1>1, MadeReadyIs
<1> QED BY <1>2, StartsToKeeps DEF StartProcessing

LEMMA SkipKeeps ==
    ASSUME VulkanInvariant, NEW timestamp, Skip(timestamp)
    PROVE  VulkanInvariant'
<1>1. PICK now : now = [t \in FrameTime |-> IF t \in Frames /\ t <= timestamp
                                            THEN [m_frames[t] EXCEPT !.m_skip = TRUE, !.m_ready = TRUE]
                                            ELSE m_frames[t]]
  OBVIOUS
<1>2. ASSUME NEW s \in FrameTime
      PROVE  /\ now[s] \in FrameRecord \cup {Nothing}
             /\ IF m_frames[s] = Nothing THEN now[s] = Nothing ELSE Same(m_frames[s], now[s])
  <2>1. CASE now[s] = m_frames[s]
    <3>1. m_frames[s] # Nothing => m_frames[s] \in FrameRecord
      BY DEF VulkanInvariant, VulkanTypes
    <3>2. m_frames[s] # Nothing => Same(m_frames[s], now[s])
      BY <2>1, <3>1 DEF Same, Is
    <3> QED BY <2>1, <3>1, <3>2
  <2>2. CASE now[s] # m_frames[s]
    <3>1. s \in Frames /\ now[s] = [m_frames[s] EXCEPT !.m_skip = TRUE, !.m_ready = TRUE]
      BY <1>1, <2>2
    <3>2. m_frames[s] \in FrameRecord /\ m_frames[s] # Nothing
      BY <3>1, FrameFacts
    <3>3. Same(m_frames[s], now[s])
      BY <3>1, <3>2 DEF Same, Is, FrameRecord
    <3> QED BY <3>2, <3>3, SameIs
  <2> QED BY <2>1, <2>2
<1>3. now \in FrameMap
  BY <1>1, <1>2 DEF FrameMap
<1>4. Resembles(m_frames, now)
  BY <1>2 DEF Resembles
<1> QED BY <1>1, <1>3, <1>4, StartsToKeeps DEF Skip

LEMMA SynchronizeKeeps ==
    ASSUME VulkanInvariant, NEW drop \in BOOLEAN, Synchronize(drop)
    PROVE  VulkanInvariant'
<1>1. PICK now : now = [t \in FrameTime |-> IF t \in Frames THEN [m_frames[t] EXCEPT !.m_skip = drop]
                                            ELSE m_frames[t]]
  OBVIOUS
<1>2. ASSUME NEW s \in FrameTime
      PROVE  /\ now[s] \in FrameRecord \cup {Nothing}
             /\ IF m_frames[s] = Nothing THEN now[s] = Nothing ELSE Same(m_frames[s], now[s])
  <2>1. CASE s \notin Frames
    BY <1>1, <2>1 DEF Frames
  <2>2. CASE s \in Frames
    <3>1. now[s] = [m_frames[s] EXCEPT !.m_skip = drop]
      BY <1>1, <2>2
    <3>2. m_frames[s] \in FrameRecord /\ m_frames[s] # Nothing
      BY <2>2, FrameFacts
    <3>3. Same(m_frames[s], now[s])
      BY <3>1, <3>2, SkipIs DEF Same
    <3> QED BY <3>2, <3>3, SameIs
  <2> QED BY <2>1, <2>2
<1>3. now \in FrameMap
  BY <1>1, <1>2 DEF FrameMap
<1>4. Resembles(m_frames, now)
  BY <1>2 DEF Resembles
<1> QED BY <1>1, <1>3, <1>4, StartsToKeeps DEF Synchronize

\* Steps that leave frames and anchors alone.
LEMMA FramesUnchanged ==
    ASSUME VulkanInvariant, UNCHANGED <<m_frames, indexVars, orderVars, m_temporalBuffers, stream, latestBase>>
    PROVE  /\ m_frames' \in FrameMap
           /\ FramesOK(m_frames, m_temporalBuffers, stream.prudent, latestBase)'
           /\ IndexOK(m_frames, m_reorderIndex, m_processingIndex)'
           /\ (goodInOrder => ChainOK(m_frames, m_processingIndex, m_temporalBuffers, m_lastGoodTimestamp,
                                      stream.settings.temporalEnabled))'
<1>1. /\ m_frames' = m_frames /\ m_reorderIndex' = m_reorderIndex /\ m_processingIndex' = m_processingIndex
      /\ m_lastGoodTimestamp' = m_lastGoodTimestamp /\ goodInOrder' = goodInOrder
      /\ m_temporalBuffers' = m_temporalBuffers /\ stream' = stream /\ latestBase' = latestBase
  BY DEF indexVars, orderVars
<1> QED BY <1>1 DEF VulkanInvariant, VulkanTypes, FrameMap

LEMMA SendOutputPictureKeeps ==
    ASSUME VulkanInvariant, NEW u \in Output, SendOutputPicture(u)
    PROVE  VulkanInvariant'
<1>1. /\ call = "idle" /\ call' = "connect first" /\ u \notin lent
      /\ m_outputPictureAvailableBuffer' = Append(m_outputPictureAvailableBuffer, u) /\ lent' = lent \cup {u}
      /\ UNCHANGED <<m_frames, indexVars, orderVars, temporalVars, m_basePictureOutBuffer, stream, latestBase, broken>>
  BY DEF SendOutputPicture, Idle
<1>2. /\ m_frames' = m_frames /\ m_reorderIndex' = m_reorderIndex /\ m_processingIndex' = m_processingIndex
      /\ m_previousTimestamp' = m_previousTimestamp /\ m_lastGoodTimestamp' = m_lastGoodTimestamp
      /\ initialized' = initialized /\ chain' = chain /\ goodInOrder' = goodInOrder
      /\ m_temporalBuffers' = m_temporalBuffers /\ m_temporalPicture' = m_temporalPicture
      /\ m_basePictureOutBuffer' = m_basePictureOutBuffer
      /\ stream' = stream /\ latestBase' = latestBase /\ broken' = broken
  BY <1>1 DEF indexVars, orderVars, temporalVars
<1>3. /\ VulkanTypes /\ m_outputPictureAvailableBuffer \in Seq(Output)
      /\ lent \in SUBSET (Base \cup Output) /\ lent \cup {u} \in SUBSET (Base \cup Output)
  BY DEF VulkanInvariant, VulkanTypes
<1>4. /\ m_frames' \in FrameMap
      /\ FramesOK(m_frames, m_temporalBuffers, stream.prudent, latestBase)'
      /\ IndexOK(m_frames, m_reorderIndex, m_processingIndex)'
      /\ (goodInOrder => ChainOK(m_frames, m_processingIndex, m_temporalBuffers, m_lastGoodTimestamp,
                                 stream.settings.temporalEnabled))'
  <2>1. UNCHANGED <<m_frames, indexVars, orderVars, m_temporalBuffers, stream, latestBase>>
    BY <1>1, <1>2
  <2> QED BY <2>1, FramesUnchanged
<1>5. VulkanTypes'
  <2>1. m_outputPictureAvailableBuffer' \in Seq(Output)
    BY <1>1, <1>3, AppendIs
  <2>2. lent' \in SUBSET (Base \cup Output)
    BY <1>1, <1>3
  <2> QED BY <1>1, <1>2, <1>3, <2>1, <2>2 DEF VulkanTypes
<1>6. PicturesOK'
  <2>1. PlacesOK(Output, OutputOf(m_frames), m_outputPictureAvailableBuffer, lent)
    BY <1>1 DEF VulkanInvariant, PicturesOK
  <2>2. PlacesOK(Output, OutputOf(m_frames), Append(m_outputPictureAvailableBuffer, u), lent \cup {u})
    BY <1>1, <1>3, <2>1, PlacesPush
  <2>3. ASSUME stream.prudent
        PROVE  PlacesOK(Base, BaseOf(m_frames), m_basePictureOutBuffer, lent \cup {u})
    <3>1. PlacesOK(Base, BaseOf(m_frames), m_basePictureOutBuffer, lent)
      BY <1>1, <2>3 DEF VulkanInvariant, PicturesOK
    <3>2. Base \cap (lent \cup {u}) = Base \cap lent
      BY VulkanAssumption
    <3> QED BY <3>1, <3>2, PlacesOther
  <2> QED BY <1>1, <1>2, <2>2, <2>3 DEF PicturesOK
<1>7. call' # "idle"
  BY <1>1
<1> QED BY <1>4, <1>5, <1>6, <1>7 DEF VulkanInvariant

LEMMA ReceiveFinishedBasePictureKeeps ==
    ASSUME VulkanInvariant, ReceiveFinishedBasePicture
    PROVE  VulkanInvariant'
<1>1. PICK b : b = m_basePictureOutBuffer[1]
  OBVIOUS
<1>2. /\ call = "idle" /\ m_basePictureOutBuffer # <<>> /\ ~broken
      /\ m_basePictureOutBuffer' = Tail(m_basePictureOutBuffer) /\ lent' = lent \ {b}
      /\ UNCHANGED <<m_frames, indexVars, orderVars, temporalVars, m_outputPictureAvailableBuffer,
                     stream, latestBase, call, broken>>
  BY <1>1 DEF ReceiveFinishedBasePicture, Idle
<1>3. /\ m_frames' = m_frames /\ m_reorderIndex' = m_reorderIndex /\ m_processingIndex' = m_processingIndex
      /\ m_previousTimestamp' = m_previousTimestamp /\ m_lastGoodTimestamp' = m_lastGoodTimestamp
      /\ initialized' = initialized /\ chain' = chain /\ goodInOrder' = goodInOrder
      /\ m_temporalBuffers' = m_temporalBuffers /\ m_temporalPicture' = m_temporalPicture
      /\ m_outputPictureAvailableBuffer' = m_outputPictureAvailableBuffer
      /\ stream' = stream /\ latestBase' = latestBase /\ broken' = broken /\ call' = call
  BY <1>2 DEF indexVars, orderVars, temporalVars
<1>4. /\ VulkanTypes /\ m_basePictureOutBuffer \in Seq(Base \cup {Nothing})
      /\ lent \in SUBSET (Base \cup Output)
  BY DEF VulkanInvariant, VulkanTypes
<1>5. /\ m_frames' \in FrameMap
      /\ FramesOK(m_frames, m_temporalBuffers, stream.prudent, latestBase)'
      /\ IndexOK(m_frames, m_reorderIndex, m_processingIndex)'
      /\ (goodInOrder => ChainOK(m_frames, m_processingIndex, m_temporalBuffers, m_lastGoodTimestamp,
                                 stream.settings.temporalEnabled))'
  <2>1. UNCHANGED <<m_frames, indexVars, orderVars, m_temporalBuffers, stream, latestBase>>
    BY <1>2, <1>3
  <2> QED BY <2>1, FramesUnchanged
<1>6. VulkanTypes'
  <2>1. m_basePictureOutBuffer' \in Seq(Base \cup {Nothing}) /\ lent' \in SUBSET (Base \cup Output)
    BY <1>2, <1>4
  <2> QED BY <1>3, <1>4, <2>1 DEF VulkanTypes
<1>7. b \in Base \cup {Nothing}
  BY <1>1, <1>2, <1>4
<1>8. PicturesOK'
  <2>1. PlacesOK(Output, OutputOf(m_frames), m_outputPictureAvailableBuffer, lent \ {b})
    <3>1. PlacesOK(Output, OutputOf(m_frames), m_outputPictureAvailableBuffer, lent)
      BY <1>2 DEF VulkanInvariant, PicturesOK
    <3>2. Output \cap (lent \ {b}) = Output \cap lent
      BY <1>7, VulkanAssumption
    <3> QED BY <3>1, <3>2, PlacesOther
  <2>2. ASSUME stream.prudent
        PROVE  PlacesOK(Base, BaseOf(m_frames), Tail(m_basePictureOutBuffer), lent \ {b})
    <3>1. PlacesOK(Base, BaseOf(m_frames), m_basePictureOutBuffer, lent)
      BY <1>2, <2>2 DEF VulkanInvariant, PicturesOK
    <3> QED BY <1>1, <1>2, <1>4, <3>1, PlacesTaken
  <2> QED BY <1>2, <1>3, <2>1, <2>2 DEF PicturesOK
<1>9. ~Runnable'
  BY <1>2, <1>3 DEF VulkanInvariant, Runnable, Frames, InputsMet, TaskOf
<1> QED BY <1>5, <1>6, <1>8, <1>9 DEF VulkanInvariant

\* What could be said of the anchors can be said when these frames are those in processing.
ChainStays(frames, processing, now, rest) ==
  \A anchors, lastGood, temporalEnabled :
    ChainOK(frames, processing, anchors, lastGood, temporalEnabled) =>
      ChainOK(now, rest, anchors, lastGood, temporalEnabled)

\* The first frame in processing is released: it has no tasks.
FirstLeft(frames, processing, now, rest) ==
  /\ processing # <<>> /\ frames[processing[1]].tasks = <<>>
  /\ now = Put(frames, processing[1], Nothing) /\ rest = Tail(processing)

LEMMA FirstLeaves ==
    ASSUME NEW frames \in FrameMap, NEW reorder \in Seq(FrameTime), NEW processing \in Seq(FrameTime),
           NEW now, NEW rest, FirstLeft(frames, processing, now, rest), IndexOK(frames, reorder, processing)
    PROVE  IndexOK(now, reorder, rest) /\ ChainStays(frames, processing, now, rest)
<1>0. PICK t : t = processing[1]
  OBVIOUS
<1> USE <1>0
<1>10. /\ processing # <<>> /\ frames[t].tasks = <<>> /\ now = Put(frames, t, Nothing) /\ rest = Tail(processing)
  BY DEF FirstLeft
<1> USE <1>10
<1>1. PICK n : n = Len(processing)
  OBVIOUS
<1>2. /\ rest \in Seq(FrameTime) /\ n \in Nat \ {0} /\ Len(rest) = n - 1 /\ t \in FrameTime /\ 1 \in 1 .. n
      /\ \A i \in 1 .. n - 1 : i + 1 \in 1 .. n /\ i + 1 # 1 /\ rest[i] = processing[i + 1]
      /\ \A i \in 1 .. n : i = 1 \/ (i - 1 \in 1 .. n - 1 /\ rest[i - 1] = processing[i])
  BY <1>1, TailIs
<1>3. now[t] = Nothing /\ \A s \in FrameTime : s # t => now[s] = frames[s]
  BY <1>2, PutIs
<1>4. /\ frames[t] # Nothing /\ frames[t].m_state # "Reorder"
      /\ \A i, j \in 1 .. n : processing[i] = processing[j] => i = j
      /\ \A i \in 1 .. n : processing[i] \in FrameTime
  BY <1>1, <1>2 DEF IndexOK
<1>5. \A i \in 1 .. n - 1 : rest[i] \in FrameTime /\ rest[i] # t /\ now[rest[i]] = frames[rest[i]]
  <2> TAKE i \in 1 .. n - 1
  <2>1. PICK x : x = i + 1
    OBVIOUS
  <2>2. x \in 1 .. n /\ x # 1 /\ rest[i] = processing[x]
    BY <1>2, <2>1
  <2>3. processing[x] # t /\ processing[x] \in FrameTime
    BY <1>2, <1>4, <2>2
  <2> QED BY <1>3, <2>2, <2>3
<1>6. ~Pending(frames, t)
  <2>1. Len(<<>>) = 0
    OBVIOUS
  <2> QED BY <2>1 DEF Pending, Has
<1>7. \A s : Pending(frames, s) => Pending(now, s)
  BY <1>3, <1>6 DEF Pending
<1>8. IndexOK(now, reorder, rest)
  <2>1. ASSUME NEW i \in 1 .. Len(reorder)
        PROVE  now[reorder[i]] # Nothing /\ now[reorder[i]].m_state = "Reorder"
    <3>1. reorder[i] \in FrameTime /\ frames[reorder[i]] # Nothing /\ frames[reorder[i]].m_state = "Reorder"
      BY DEF IndexOK
    <3>2. reorder[i] # t
      BY <1>4, <3>1
    <3> QED BY <1>3, <3>1, <3>2
  <2>2. ASSUME NEW i \in 1 .. n - 1
        PROVE  now[rest[i]] # Nothing /\ now[rest[i]].m_state # "Reorder"
    <3>1. PICK x : x = i + 1
      OBVIOUS
    <3>2. x \in 1 .. n /\ rest[i] = processing[x]
      BY <1>2, <3>1
    <3>3. frames[processing[x]] # Nothing /\ frames[processing[x]].m_state # "Reorder"
      BY <1>1, <3>2 DEF IndexOK
    <3> QED BY <1>5, <3>2, <3>3
  <2>3. ASSUME NEW i \in 1 .. n - 1, NEW j \in 1 .. n - 1, rest[i] = rest[j]
        PROVE  i = j
    <3>1. PICK x, y : x = i + 1 /\ y = j + 1
      OBVIOUS
    <3>2. x \in 1 .. n /\ y \in 1 .. n /\ processing[x] = processing[y]
      BY <1>2, <2>3, <3>1
    <3>3. x = y
      BY <1>4, <3>2
    <3> QED BY <1>2, <3>1, <3>3
  <2>4. ASSUME NEW s \in FrameTime, now[s] # Nothing, now[s].m_state # "Reorder"
        PROVE  \E i \in 1 .. n - 1 : rest[i] = s
    <3>1. s # t /\ frames[s] # Nothing /\ frames[s].m_state # "Reorder"
      BY <1>3, <2>4
    <3>2. PICK i \in 1 .. n : processing[i] = s
      BY <1>1, <3>1 DEF IndexOK
    <3>3. i # 1
      BY <3>1, <3>2
    <3> QED BY <1>2, <3>2, <3>3
  <2>5. Sorted(reorder)
    BY DEF IndexOK
  <2> QED BY <1>2, <2>1, <2>2, <2>3, <2>4, <2>5 DEF IndexOK
<1>9. ASSUME NEW anchors, NEW lastGood, NEW temporalEnabled,
             ChainOK(frames, processing, anchors, lastGood, temporalEnabled)
      PROVE  ChainOK(now, rest, anchors, lastGood, temporalEnabled)
  <2>1. ASSUME NEW i \in 1 .. n - 1
        PROVE  /\ now[rest[i]].needsBuffer => now[rest[i]].wanted <= rest[i] /\ rest[i] <= lastGood
               /\ Waiting(now[rest[i]]) =>
                    now[rest[i]].wanted # rest[i] /\ Pending(now, now[rest[i]].wanted)
    <3>1. PICK x : x = i + 1
      OBVIOUS
    <3>2. x \in 1 .. n /\ rest[i] = processing[x] /\ now[rest[i]] = frames[processing[x]]
      BY <1>2, <1>5, <3>1
    <3> QED BY <1>1, <1>7, <1>9, <3>2 DEF ChainOK
  <2>2. ASSUME NEW i \in 1 .. n - 1, NEW j \in 1 .. n - 1, i < j,
               now[rest[i]].needsBuffer, now[rest[j]].needsBuffer
        PROVE  rest[i] <= now[rest[j]].wanted
    <3>1. PICK x, y : x = i + 1 /\ y = j + 1
      OBVIOUS
    <3>2. /\ x \in 1 .. n /\ rest[i] = processing[x] /\ now[rest[i]] = frames[processing[x]]
          /\ y \in 1 .. n /\ rest[j] = processing[y] /\ now[rest[j]] = frames[processing[y]]
      BY <1>2, <1>5, <3>1
    <3>3. x < y
      BY <1>2, <2>2, <3>1
    <3> QED BY <1>1, <1>9, <2>2, <3>2, <3>3 DEF ChainOK
  <2>3. /\ lastGood = 0 => \A a \in Anchors : anchors[a].frame = Nothing /\ anchors[a].timestamp = 0
        /\ lastGood # 0 /\ temporalEnabled => Available(anchors, lastGood) \/ Pending(now, lastGood)
    BY <1>7, <1>9 DEF ChainOK
  <2> QED BY <1>2, <2>1, <2>2, <2>3 DEF ChainOK
<1> QED BY <1>8, <1>9 DEF ChainStays

LEMMA ReceiveOutputPictureKeeps ==
    ASSUME VulkanInvariant, ReceiveOutputPicture
    PROVE  VulkanInvariant'
<1>1. PICK t, f, u : t = m_processingIndex[1] /\ f = m_frames[t] /\ u = f.outputPicture
  OBVIOUS
<1>2. /\ call = "idle" /\ ~broken /\ m_processingIndex # <<>> /\ f.m_state = "Done" /\ f.tasks = <<>>
      /\ m_frames' = Put(m_frames, t, Nothing) /\ lent' = lent \ {u}
      /\ m_processingIndex' = Tail(m_processingIndex)
      /\ UNCHANGED <<m_reorderIndex, orderVars, temporalVars, queueVars, stream, latestBase, call, broken>>
  BY <1>1 DEF ReceiveOutputPicture, Idle, Put
<1>3. /\ m_reorderIndex' = m_reorderIndex
      /\ m_previousTimestamp' = m_previousTimestamp /\ m_lastGoodTimestamp' = m_lastGoodTimestamp
      /\ initialized' = initialized /\ chain' = chain /\ goodInOrder' = goodInOrder
      /\ m_temporalBuffers' = m_temporalBuffers /\ m_temporalPicture' = m_temporalPicture
      /\ m_basePictureOutBuffer' = m_basePictureOutBuffer
      /\ m_outputPictureAvailableBuffer' = m_outputPictureAvailableBuffer
      /\ stream' = stream /\ latestBase' = latestBase /\ broken' = broken /\ call' = call
  BY <1>2 DEF orderVars, temporalVars, queueVars
<1>4. /\ VulkanTypes /\ m_frames \in FrameMap /\ lent \in SUBSET (Base \cup Output)
      /\ m_reorderIndex \in Seq(FrameTime) /\ m_processingIndex \in Seq(FrameTime)
      /\ FramesOK(m_frames, m_temporalBuffers, stream.prudent, latestBase)
      /\ IndexOK(m_frames, m_reorderIndex, m_processingIndex)
      /\ goodInOrder => ChainOK(m_frames, m_processingIndex, m_temporalBuffers, m_lastGoodTimestamp,
                                stream.settings.temporalEnabled)
  BY DEF VulkanInvariant, VulkanTypes, FrameMap
<1>5. t \in FrameTime /\ m_processingIndex' \in Seq(FrameTime)
  BY <1>1, <1>2, <1>4, TailIs
<1>6. 1 \in 1 .. Len(m_processingIndex)
  BY <1>2, <1>4
<1>7. f # Nothing /\ t \in Frames
  BY <1>1, <1>4, <1>5, <1>6 DEF IndexOK, Frames
<1>8. f \in FrameRecord /\ FrameOK(t, f, m_temporalBuffers, stream.prudent, latestBase)
  BY <1>1, <1>7, FrameFacts
<1>9. PICK now : now = Put(m_frames, t, Nothing)
  OBVIOUS
<1>10. now \in FrameMap /\ now[t] = Nothing /\ \A s \in FrameTime : s # t => now[s] = m_frames[s]
  <2>1. Nothing \in FrameRecord \cup {Nothing}
    OBVIOUS
  <2> QED BY ONLY <1>4, <1>5, <1>9, <2>1, PutIs
<1>11. FramesOK(now, m_temporalBuffers, stream.prudent, latestBase)
  BY <1>4, <1>10 DEF FramesOK
<1>12. /\ IndexOK(now, m_reorderIndex, m_processingIndex')
       /\ goodInOrder => ChainOK(now, m_processingIndex', m_temporalBuffers, m_lastGoodTimestamp,
                                 stream.settings.temporalEnabled)
  <2>1. PICK frames, reorder, processing, rest :
          /\ frames = m_frames /\ reorder = m_reorderIndex /\ processing = m_processingIndex
          /\ rest = m_processingIndex'
    OBVIOUS
  <2>2. /\ frames \in FrameMap /\ reorder \in Seq(FrameTime) /\ processing \in Seq(FrameTime)
        /\ FirstLeft(frames, processing, now, rest) /\ IndexOK(frames, reorder, processing)
    BY <1>1, <1>2, <1>4, <1>9, <2>1 DEF FirstLeft
  <2>3. IndexOK(now, reorder, rest)
    BY ONLY <2>2, FirstLeaves
  <2>4. ChainStays(frames, processing, now, rest)
    BY ONLY <2>2, FirstLeaves
  <2> QED BY <1>4, <2>1, <2>3, <2>4 DEF ChainStays
<1>13. VulkanTypes'
  <2>1. lent' \in SUBSET (Base \cup Output) /\ m_frames' \in [FrameTime -> FrameRecord \cup {Nothing}]
    BY <1>2, <1>4, <1>9, <1>10 DEF FrameMap
  <2> QED BY <1>3, <1>4, <1>5, <2>1 DEF VulkanTypes
<1>14. /\ OutputOf(now) = [OutputOf(m_frames) EXCEPT ![t] = Nothing]
       /\ BaseOf(now) = [BaseOf(m_frames) EXCEPT ![t] = Nothing]
  BY <1>10 DEF OutputOf, BaseOf
<1>15. u \in Output \cup {Nothing} /\ u = OutputOf(m_frames)[t] /\ DOMAIN OutputOf(m_frames) = FrameTime
  BY <1>1, <1>5, <1>7, <1>8, FrameIs DEF OutputOf
<1>16. PicturesOK'
  <2>1. PlacesOK(Output, OutputOf(now), m_outputPictureAvailableBuffer, lent \ {u})
    <3>1. PlacesOK(Output, OutputOf(m_frames), m_outputPictureAvailableBuffer, lent) /\ Nothing \notin Output
      BY <1>2, VulkanAssumption DEF VulkanInvariant, PicturesOK
    <3>2. PICK has, none : has = OutputOf(m_frames) /\ none = Nothing
      OBVIOUS
    <3>3. DOMAIN has = FrameTime /\ has[t] = u /\ none \notin Output
      BY <1>15, <3>1, <3>2
    <3>4. PlacesOK(Output, has, m_outputPictureAvailableBuffer, lent)
      BY <3>1, <3>2
    <3>5. PlacesOK(Output, [has EXCEPT ![t] = none], m_outputPictureAvailableBuffer, lent \ {has[t]})
      BY ONLY <1>5, <3>3, <3>4, PlacesGone
    <3> QED BY <1>14, <3>2, <3>3, <3>5
  <2>2. ASSUME stream.prudent
        PROVE  PlacesOK(Base, BaseOf(now), m_basePictureOutBuffer, lent \ {u})
    <3>1. PlacesOK(Base, BaseOf(m_frames), m_basePictureOutBuffer, lent)
      BY <1>2, <2>2 DEF VulkanInvariant, PicturesOK
    <3>2. f.basePicture = Nothing
      <4>1. Len(<<>>) = 0
        OBVIOUS
      <4>2. ~Has(f.tasks, "BaseDone") /\ f.m_state # "Reorder"
        BY <1>2, <4>1 DEF Has
      <4> QED BY <1>8, <2>2, <4>2 DEF FrameOK, BaseOK
    <3>3. BaseOf(now) = BaseOf(m_frames)
      BY <1>1, <1>7, <1>14, <3>2 DEF BaseOf
    <3>4. Base \cap (lent \ {u}) = Base \cap lent
      BY <1>15, VulkanAssumption
    <3> QED BY <3>1, <3>3, <3>4, PlacesOther
  <2> QED BY <1>2, <1>3, <1>9, <2>1, <2>2 DEF PicturesOK
<1>17. ~Runnable'
  <2>1. ~Runnable
    BY <1>2 DEF VulkanInvariant
  <2> SUFFICES ASSUME Runnable' PROVE FALSE
    OBVIOUS
  <2>2. PICK s \in FrameTime : /\ now[s] # Nothing
                               /\ \E k \in DOMAIN now[s].tasks : now[s].tasks[k].inputs \subseteq now[s].dependenciesMet
    BY <1>2, <1>9 DEF Runnable, Frames, InputsMet, TaskOf
  <2>3. now[s] = m_frames[s]
    BY <1>10, <2>2
  <2> QED BY <2>1, <2>2, <2>3 DEF Runnable, Frames, InputsMet, TaskOf
<1> QED BY <1>2, <1>3, <1>9, <1>11, <1>12, <1>13, <1>16, <1>17 DEF VulkanInvariant

LEMMA DestroyPipelineKeeps ==
    ASSUME VulkanInvariant, DestroyPipeline
    PROVE  VulkanInvariant'
<1>1. PICK now : now = [t \in FrameTime |-> Nothing]
  OBVIOUS
<1>2. /\ \A t \in Frames : m_frames[t].tasks = <<>>
      /\ call' = "destroyed" /\ m_frames' = now /\ m_reorderIndex' = <<>> /\ m_processingIndex' = <<>>
      /\ UNCHANGED <<orderVars, temporalVars, queueVars, clientVars, broken>>
  BY <1>1 DEF DestroyPipeline
<1>3. /\ m_previousTimestamp' = m_previousTimestamp /\ m_lastGoodTimestamp' = m_lastGoodTimestamp
      /\ initialized' = initialized /\ chain' = chain /\ goodInOrder' = goodInOrder
      /\ m_temporalBuffers' = m_temporalBuffers /\ m_temporalPicture' = m_temporalPicture
      /\ m_basePictureOutBuffer' = m_basePictureOutBuffer
      /\ m_outputPictureAvailableBuffer' = m_outputPictureAvailableBuffer
      /\ stream' = stream /\ lent' = lent /\ latestBase' = latestBase /\ broken' = broken
  BY <1>2 DEF orderVars, temporalVars, queueVars, clientVars
<1>4. VulkanTypes'
  <2>1. now \in [FrameTime -> FrameRecord \cup {Nothing}] /\ <<>> \in Seq(FrameTime)
    BY <1>1
  <2> QED BY <1>2, <1>3, <2>1 DEF VulkanInvariant, VulkanTypes
<1>5. PICK none : none = <<>>
  OBVIOUS
<1>6. Len(none) = 0
  BY <1>5
<1>7. FramesOK(now, m_temporalBuffers, stream.prudent, latestBase) /\ IndexOK(now, none, none)
  BY <1>1, <1>6 DEF FramesOK, IndexOK, Sorted
<1>8. goodInOrder => ChainOK(now, none, m_temporalBuffers, m_lastGoodTimestamp, stream.settings.temporalEnabled)
  <2> SUFFICES ASSUME goodInOrder
               PROVE  ChainOK(now, none, m_temporalBuffers, m_lastGoodTimestamp, stream.settings.temporalEnabled)
    OBVIOUS
  <2>1. ~Pending(m_frames, m_lastGoodTimestamp)
    <3>1. Len(<<>>) = 0
      OBVIOUS
    <3> QED BY <1>2, <3>1 DEF Pending, Has, Frames
  <2>2. /\ m_lastGoodTimestamp = 0 =>
             \A a \in Anchors : m_temporalBuffers[a].frame = Nothing /\ m_temporalBuffers[a].timestamp = 0
        /\ m_lastGoodTimestamp # 0 /\ stream.settings.temporalEnabled =>
             Available(m_temporalBuffers, m_lastGoodTimestamp)
    BY <2>1 DEF VulkanInvariant, ChainOK
  <2> QED BY <1>6, <2>2 DEF ChainOK
<1>9. PicturesOK' /\ (call = "idle" /\ ~broken => ~Runnable)'
  BY <1>2 DEF PicturesOK
<1> QED BY <1>2, <1>3, <1>4, <1>5, <1>7, <1>8, <1>9 DEF VulkanInvariant

LEMMA SendsIs ==
    ASSUME VulkanInvariant, Sends
    PROVE  /\ stream' \in [prudent : BOOLEAN, settings : Settings, sends : Nat]
           /\ stream'.prudent = stream.prudent /\ stream'.settings = stream.settings
<1>1. /\ stream \in [prudent : BOOLEAN, settings : Settings, sends : Nat]
      /\ stream.sends > 0 /\ stream' = [stream EXCEPT !.sends = stream.sends - 1]
  BY DEF VulkanInvariant, VulkanTypes, Sends
<1>2. stream.sends - 1 \in Nat
  BY <1>1
<1> QED BY <1>1, <1>2

\* A frame that was only created, with its base or without.
LEMMA CreatedOK ==
    ASSUME NEW t \in Nat, NEW g \in FrameRecord, NEW anchors, NEW prudent, NEW latest \in Nat,
           g.m_state = "Reorder", g.tasks = <<>>, ~g.needsBuffer, g.m_temporalBuffer = 0,
           g.dependenciesMet \subseteq {m_depBasePicture},
           m_depBasePicture \in g.dependenciesMet => g.basePicture # Nothing /\ t <= latest
    PROVE  FrameOK(t, g, anchors, prudent, latest)
<1>1. PICK met, tasks : met = g.dependenciesMet /\ tasks = g.tasks
  OBVIOUS
<1>2. Len(tasks) = 0 /\ \A does : ~Has(tasks, does)
  <2>1. Len(<<>>) = 0
    OBVIOUS
  <2> QED BY <1>1, <2>1 DEF Has
<1>3. g.needsBuffer = FALSE
  BY FrameIs
<1>4. TasksOK(g)
  <2>1. ListOK(FALSE, met, tasks)
    BY <1>2 DEF ListOK, Follows, Once
  <2>2. ClosedOK(FALSE, met)
    <3>1. m_depBasePicture \in External(TRUE)
      BY ExternalIs
    <3>2. \A temporal : Implies(temporal, m_depBasePicture) = {m_depBasePicture}
      BY <3>1, ImpliesExternal
    <3> QED BY <1>1, <3>2 DEF ClosedOK
  <2> QED BY <1>1, <1>3, <2>1, <2>2 DEF TasksOK
<1>5. StateOK(g)
  BY <1>1 DEF StateOK
<1>6. BufferOK(t, g, anchors)
  BY <1>1, <1>2 DEF BufferOK
<1>7. BaseOK(t, g, prudent, latest)
  BY <1>1, <1>2 DEF BaseOK
<1> QED BY <1>4, <1>5, <1>6, <1>7 DEF FrameOK

LEMMA NewFrame ==
    ASSUME VulkanInvariant, NEW t \in FrameTime, m_frames[t] = Nothing, NEW g \in FrameRecord,
           g.m_state = "Reorder", NEW later \in Nat, latestBase <= later,
           FrameOK(t, g, m_temporalBuffers, stream.prudent, later),
           NEW now, now = Put(m_frames, t, g), NEW index, index = Inserted(m_reorderIndex, t)
    PROVE  /\ now \in FrameMap /\ index \in Seq(FrameTime)
           /\ FramesOK(now, m_temporalBuffers, stream.prudent, later)
           /\ IndexOK(now, index, m_processingIndex)
           /\ goodInOrder => ChainOK(now, m_processingIndex, m_temporalBuffers, m_lastGoodTimestamp,
                                     stream.settings.temporalEnabled)
           /\ OutputOf(now) = [OutputOf(m_frames) EXCEPT ![t] = g.outputPicture]
           /\ BaseOf(now) = [BaseOf(m_frames) EXCEPT ![t] = g.basePicture]
<1>1. PICK reorder, processing, anchors, prudent, latest :
        /\ reorder = m_reorderIndex /\ processing = m_processingIndex /\ anchors = m_temporalBuffers
        /\ prudent = stream.prudent /\ latest = latestBase
  OBVIOUS
<1>2. /\ m_frames \in FrameMap /\ reorder \in Seq(FrameTime) /\ processing \in Seq(FrameTime) /\ latest \in Nat
      /\ FramesOK(m_frames, anchors, prudent, latest) /\ IndexOK(m_frames, reorder, processing)
      /\ goodInOrder => ChainOK(m_frames, processing, anchors, m_lastGoodTimestamp, stream.settings.temporalEnabled)
  BY <1>1 DEF VulkanInvariant, VulkanTypes, FrameMap
<1>3. g \in FrameRecord \cup {Nothing} /\ g # Nothing
  BY FrameIs
<1>4. now \in FrameMap /\ now[t] = g /\ \A s \in FrameTime : s # t => now[s] = m_frames[s]
  BY ONLY <1>2, <1>3, now = Put(m_frames, t, g), t \in FrameTime, PutIs
<1>5. FramesOK(now, anchors, prudent, later)
  <2>1. OthersStay(t, anchors, anchors) /\ latest <= later /\ FrameOK(t, g, anchors, prudent, later)
    BY <1>1 DEF OthersStay
  <2> QED BY <1>2, <2>1, OneChanges
<1>6. \A i \in 1 .. Len(reorder) : /\ reorder[i] \in FrameTime /\ reorder[i] # t
                                   /\ now[reorder[i]] # Nothing /\ now[reorder[i]].m_state = "Reorder"
  BY <1>2, <1>4 DEF IndexOK
<1>7. \A i \in 1 .. Len(processing) : /\ processing[i] \in FrameTime /\ now[processing[i]] = m_frames[processing[i]]
                                      /\ now[processing[i]] # Nothing /\ now[processing[i]].m_state # "Reorder"
  BY <1>2, <1>4 DEF IndexOK
<1>8. /\ index \in Seq(FrameTime) /\ Sorted(index)
      /\ \A i \in 1 .. Len(index) : index[i] = t \/ \E j \in 1 .. Len(reorder) : index[i] = reorder[j]
  <2>1. FrameTime \in SUBSET Nat /\ Sorted(reorder) /\ index = Inserted(reorder, t)
    BY <1>1, <1>2, VulkanAssumption DEF IndexOK
  <2> QED BY <1>2, <1>6, <2>1, InsertedIs
<1>9. IndexOK(now, index, processing)
  <2>1. \A i \in 1 .. Len(index) : now[index[i]] # Nothing /\ now[index[i]].m_state = "Reorder"
    BY <1>3, <1>4, <1>6, <1>8
  <2>2. \A s \in FrameTime : now[s] # Nothing /\ now[s].m_state # "Reorder" =>
          \E i \in 1 .. Len(processing) : processing[i] = s
    BY <1>2, <1>4 DEF IndexOK
  <2>3. \A i, j \in 1 .. Len(processing) : processing[i] = processing[j] => i = j
    BY <1>2 DEF IndexOK
  <2> QED BY <1>7, <1>8, <2>1, <2>2, <2>3 DEF IndexOK
<1>10. ChainAlike(m_frames, now, processing)
  <2>1. \A s : Pending(m_frames, s) => Pending(now, s)
    BY <1>4 DEF Pending
  <2> QED BY <1>7, <2>1 DEF ChainAlike
<1>11. goodInOrder => ChainOK(now, processing, anchors, m_lastGoodTimestamp, stream.settings.temporalEnabled)
  BY <1>2, <1>10, ChainKept
<1>12. /\ OutputOf(now) = [OutputOf(m_frames) EXCEPT ![t] = g.outputPicture]
       /\ BaseOf(now) = [BaseOf(m_frames) EXCEPT ![t] = g.basePicture]
  BY <1>3, <1>4 DEF OutputOf, BaseOf
<1> QED BY <1>1, <1>4, <1>5, <1>8, <1>9, <1>11, <1>12

LEMMA SendEnhancementDataKeeps ==
    ASSUME VulkanInvariant, NEW t \in FrameTime, NEW payload \in Enhancement, SendEnhancementData(t, payload)
    PROVE  VulkanInvariant'
<1>1. PICK g : g = FrameVulkan(payload)
  OBVIOUS
<1>2. /\ call = "idle" /\ call' = "start" /\ Sends /\ m_frames[t] = Nothing
      /\ m_frames' = Put(m_frames, t, g) /\ m_reorderIndex' = Inserted(m_reorderIndex, t)
      /\ UNCHANGED <<m_processingIndex, orderVars, temporalVars, queueVars, lent, latestBase, broken>>
  BY <1>1 DEF SendEnhancementData, Idle, Put
<1>3. /\ m_processingIndex' = m_processingIndex
      /\ m_previousTimestamp' = m_previousTimestamp /\ m_lastGoodTimestamp' = m_lastGoodTimestamp
      /\ initialized' = initialized /\ chain' = chain /\ goodInOrder' = goodInOrder
      /\ m_temporalBuffers' = m_temporalBuffers /\ m_temporalPicture' = m_temporalPicture
      /\ m_basePictureOutBuffer' = m_basePictureOutBuffer
      /\ m_outputPictureAvailableBuffer' = m_outputPictureAvailableBuffer
      /\ lent' = lent /\ latestBase' = latestBase /\ broken' = broken
  BY <1>2 DEF orderVars, temporalVars, queueVars
<1>4. /\ stream' \in [prudent : BOOLEAN, settings : Settings, sends : Nat]
      /\ stream'.prudent = stream.prudent /\ stream'.settings = stream.settings
  BY <1>2, SendsIs
<1>5. VulkanTypes /\ latestBase \in Nat /\ latestBase <= latestBase /\ t \in Nat
  <2>1. VulkanTypes /\ latestBase \in Nat
    BY DEF VulkanInvariant, VulkanTypes
  <2>2. t \in Nat
    BY VulkanAssumption
  <2> QED BY <2>1, <2>2
<1>6. /\ g \in FrameRecord /\ g.m_state = "Reorder" /\ g.tasks = <<>> /\ ~g.needsBuffer /\ g.m_temporalBuffer = 0
      /\ g.dependenciesMet = {} /\ g.basePicture = Nothing /\ g.outputPicture = Nothing
  <2>1. payload \in Payload
    BY VulkanAssumption
  <2> QED BY <1>1, <2>1, NewFrameIs DEF Is
<1>7. FrameOK(t, g, m_temporalBuffers, stream.prudent, latestBase)
  <2>1. g.dependenciesMet \subseteq {m_depBasePicture} /\ m_depBasePicture \notin g.dependenciesMet
    BY <1>6
  <2> QED BY <1>5, <1>6, <2>1, CreatedOK
<1>8. /\ m_frames' \in FrameMap /\ m_reorderIndex' \in Seq(FrameTime)
      /\ FramesOK(m_frames', m_temporalBuffers, stream.prudent, latestBase)
      /\ IndexOK(m_frames', m_reorderIndex', m_processingIndex)
      /\ goodInOrder => ChainOK(m_frames', m_processingIndex, m_temporalBuffers, m_lastGoodTimestamp,
                                stream.settings.temporalEnabled)
      /\ OutputOf(m_frames') = [OutputOf(m_frames) EXCEPT ![t] = g.outputPicture]
      /\ BaseOf(m_frames') = [BaseOf(m_frames) EXCEPT ![t] = g.basePicture]
  BY <1>2, <1>5, <1>6, <1>7, NewFrame
<1>9. VulkanTypes'
  BY <1>2, <1>3, <1>4, <1>5, <1>8 DEF VulkanTypes, FrameMap
<1>10. OutputOf(m_frames') = OutputOf(m_frames) /\ BaseOf(m_frames') = BaseOf(m_frames)
  <2>1. /\ OutputOf(m_frames)[t] = Nothing /\ BaseOf(m_frames)[t] = Nothing
        /\ g.outputPicture = Nothing /\ g.basePicture = Nothing
    BY <1>2, <1>6 DEF OutputOf, BaseOf
  <2>2. PICK outputs, bases : outputs = OutputOf(m_frames) /\ bases = BaseOf(m_frames)
    OBVIOUS
  <2>3. outputs = [s \in FrameTime |-> outputs[s]] /\ bases = [s \in FrameTime |-> bases[s]]
    BY <2>2 DEF OutputOf, BaseOf
  <2>4. outputs = [outputs EXCEPT ![t] = g.outputPicture] /\ bases = [bases EXCEPT ![t] = g.basePicture]
    BY ONLY <2>1, <2>2, <2>3
  <2> QED BY <1>8, <2>2, <2>4
<1>11. PicturesOK'
  BY <1>2, <1>3, <1>4, <1>10 DEF VulkanInvariant, PicturesOK
<1>12. call' # "idle"
  BY <1>2
<1> QED BY <1>3, <1>4, <1>8, <1>9, <1>11, <1>12 DEF VulkanInvariant

\* What a step that lends a base changes, whatever becomes of the frame.
LEMMA SendsBaseIs ==
    ASSUME VulkanInvariant, NEW t \in FrameTime, NEW b \in Base, SendsBase(t, b)
    PROVE  /\ call = "idle" /\ call' = "start" /\ b \notin lent /\ lent' = lent \cup {b}
           /\ lent' \in SUBSET (Base \cup Output)
           /\ stream.prudent => t > latestBase
           /\ latestBase' \in Nat /\ latestBase <= latestBase' /\ t <= latestBase' /\ t \in Nat
           /\ m_processingIndex' = m_processingIndex
           /\ m_previousTimestamp' = m_previousTimestamp /\ m_lastGoodTimestamp' = m_lastGoodTimestamp
           /\ initialized' = initialized /\ chain' = chain /\ goodInOrder' = goodInOrder
           /\ m_temporalBuffers' = m_temporalBuffers /\ m_temporalPicture' = m_temporalPicture
           /\ m_basePictureOutBuffer' = m_basePictureOutBuffer
           /\ m_outputPictureAvailableBuffer' = m_outputPictureAvailableBuffer /\ broken' = broken
           /\ stream' \in [prudent : BOOLEAN, settings : Settings, sends : Nat]
           /\ stream'.prudent = stream.prudent /\ stream'.settings = stream.settings
<1>1. /\ call = "idle" /\ call' = "start" /\ Sends /\ b \notin lent /\ lent' = lent \cup {b}
      /\ stream.prudent => t > latestBase
      /\ latestBase' = (IF t > latestBase THEN t ELSE latestBase)
      /\ UNCHANGED <<m_processingIndex, orderVars, temporalVars, queueVars, broken>>
  BY DEF SendsBase, Idle, PrudentBase
<1>2. latestBase \in Nat /\ t \in Nat /\ lent \in SUBSET (Base \cup Output)
  BY VulkanAssumption DEF VulkanInvariant, VulkanTypes
<1>3. latestBase' \in Nat /\ latestBase <= latestBase' /\ t <= latestBase'
  BY <1>1, <1>2
<1>4. lent' \in SUBSET (Base \cup Output)
  BY <1>1, <1>2
<1>5. /\ m_processingIndex' = m_processingIndex
      /\ m_previousTimestamp' = m_previousTimestamp /\ m_lastGoodTimestamp' = m_lastGoodTimestamp
      /\ initialized' = initialized /\ chain' = chain /\ goodInOrder' = goodInOrder
      /\ m_temporalBuffers' = m_temporalBuffers /\ m_temporalPicture' = m_temporalPicture
      /\ m_basePictureOutBuffer' = m_basePictureOutBuffer
      /\ m_outputPictureAvailableBuffer' = m_outputPictureAvailableBuffer /\ broken' = broken
  BY <1>1 DEF orderVars, temporalVars, queueVars
<1> QED BY <1>1, <1>2, <1>3, <1>4, <1>5, SendsIs

\* Of the pictures, only the base of frame t is new.
LEMMA BaseGivenPictures ==
    ASSUME VulkanInvariant, call # "destroyed", NEW t \in FrameTime, NEW b \in Base, b \notin lent,
           BaseOf(m_frames)[t] = Nothing, lent' = lent \cup {b}, stream'.prudent = stream.prudent,
           OutputOf(m_frames') = OutputOf(m_frames),
           BaseOf(m_frames') = [BaseOf(m_frames) EXCEPT ![t] = b],
           m_basePictureOutBuffer' = m_basePictureOutBuffer,
           m_outputPictureAvailableBuffer' = m_outputPictureAvailableBuffer
    PROVE  PicturesOK'
<1>1. PlacesOK(Output, OutputOf(m_frames), m_outputPictureAvailableBuffer, lent \cup {b})
  <2>1. PlacesOK(Output, OutputOf(m_frames), m_outputPictureAvailableBuffer, lent)
    BY DEF VulkanInvariant, PicturesOK
  <2>2. Output \cap (lent \cup {b}) = Output \cap lent
    BY VulkanAssumption
  <2> QED BY <2>1, <2>2, PlacesOther
<1>2. ASSUME stream.prudent
      PROVE  PlacesOK(Base, [BaseOf(m_frames) EXCEPT ![t] = b], m_basePictureOutBuffer, lent \cup {b})
  <2>1. PlacesOK(Base, BaseOf(m_frames), m_basePictureOutBuffer, lent)
    BY <1>2 DEF VulkanInvariant, PicturesOK
  <2>2. DOMAIN BaseOf(m_frames) = FrameTime /\ BaseOf(m_frames)[t] \notin Base
    BY VulkanAssumption DEF BaseOf
  <2> QED BY <2>1, <2>2, PlacesGiven
<1> QED BY <1>1, <1>2 DEF PicturesOK

LEMMA SendBaseAloneKeeps ==
    ASSUME VulkanInvariant, NEW t \in FrameTime, NEW b \in Base, sendBaseAlone(t, b)
    PROVE  VulkanInvariant'
<1>1. PICK e, h, g : /\ e = FrameVulkan(NoLevels) /\ h = [e EXCEPT !.m_ready = TRUE, !.m_passthrough = TRUE]
                     /\ g = setBase(h, b)
  OBVIOUS
<1>2. /\ m_frames[t] = Nothing /\ SendsBase(t, b)
      /\ m_frames' = Put(m_frames, t, g) /\ m_reorderIndex' = Inserted(m_reorderIndex, t)
  BY <1>1 DEF sendBaseAlone, Put
<1>3. /\ call = "idle" /\ call' = "start" /\ b \notin lent /\ lent' = lent \cup {b}
      /\ lent' \in SUBSET (Base \cup Output)
      /\ latestBase' \in Nat /\ latestBase <= latestBase' /\ t <= latestBase' /\ t \in Nat
      /\ m_processingIndex' = m_processingIndex
      /\ m_previousTimestamp' = m_previousTimestamp /\ m_lastGoodTimestamp' = m_lastGoodTimestamp
      /\ initialized' = initialized /\ chain' = chain /\ goodInOrder' = goodInOrder
      /\ m_temporalBuffers' = m_temporalBuffers /\ m_temporalPicture' = m_temporalPicture
      /\ m_basePictureOutBuffer' = m_basePictureOutBuffer
      /\ m_outputPictureAvailableBuffer' = m_outputPictureAvailableBuffer /\ broken' = broken
      /\ stream' \in [prudent : BOOLEAN, settings : Settings, sends : Nat]
      /\ stream'.prudent = stream.prudent /\ stream'.settings = stream.settings
  BY <1>2, SendsBaseIs
<1>4. /\ h \in FrameRecord /\ h.m_state = "Reorder" /\ h.tasks = <<>> /\ h.needsBuffer = FALSE
      /\ h.m_temporalBuffer = 0 /\ h.dependenciesMet = {} /\ h.outputPicture = Nothing
  <2>1. NoLevels \in Payload
    BY NoLevelsIs
  <2>2. /\ e \in FrameRecord /\ e.m_state = "Reorder" /\ e.tasks = <<>> /\ e.needsBuffer = FALSE
        /\ e.m_temporalBuffer = 0 /\ e.dependenciesMet = {} /\ e.outputPicture = Nothing
    BY <1>1, <2>1, NewFrameIs DEF Is
  <2> QED BY <1>1, <2>2 DEF FrameRecord
<1>5. /\ g \in FrameRecord /\ g.m_state = "Reorder" /\ g.tasks = <<>> /\ ~g.needsBuffer
      /\ g.m_temporalBuffer = 0 /\ g.dependenciesMet = {m_depBasePicture}
      /\ g.basePicture = b /\ g.outputPicture = Nothing
  <2>1. Is(g, h.m_state, h.tasks, h.dependenciesMet \cup {m_depBasePicture}, h.needsBuffer, h.wanted,
           h.m_temporalBuffer, b, h.outputPicture)
    BY <1>1, <1>4, SetBaseIs
  <2> QED BY <1>4, <2>1 DEF Is
<1>6. FrameOK(t, g, m_temporalBuffers, stream.prudent, latestBase')
  <2>1. b # Nothing
    BY VulkanAssumption
  <2> QED BY <1>3, <1>5, <2>1, CreatedOK
<1>7. /\ m_frames' \in FrameMap /\ m_reorderIndex' \in Seq(FrameTime)
      /\ FramesOK(m_frames', m_temporalBuffers, stream.prudent, latestBase')
      /\ IndexOK(m_frames', m_reorderIndex', m_processingIndex)
      /\ goodInOrder => ChainOK(m_frames', m_processingIndex, m_temporalBuffers, m_lastGoodTimestamp,
                                stream.settings.temporalEnabled)
      /\ OutputOf(m_frames') = [OutputOf(m_frames) EXCEPT ![t] = g.outputPicture]
      /\ BaseOf(m_frames') = [BaseOf(m_frames) EXCEPT ![t] = g.basePicture]
  BY <1>2, <1>3, <1>5, <1>6, NewFrame
<1>8. VulkanTypes'
  <2>1. VulkanTypes
    BY DEF VulkanInvariant
  <2> QED BY <1>3, <1>7, <2>1 DEF VulkanTypes, FrameMap
<1>9. PicturesOK'
  <2>1. OutputOf(m_frames') = OutputOf(m_frames) /\ BaseOf(m_frames)[t] = Nothing
    BY <1>2, <1>5, <1>7 DEF OutputOf, BaseOf
  <2>2. BaseOf(m_frames') = [BaseOf(m_frames) EXCEPT ![t] = b] /\ call # "destroyed"
    BY <1>3, <1>5, <1>7
  <2> QED BY <1>3, <2>1, <2>2, BaseGivenPictures
<1>10. call' # "idle"
  BY <1>3
<1> QED BY <1>3, <1>7, <1>8, <1>9, <1>10 DEF VulkanInvariant

LEMMA SendBaseOfFrameKeeps ==
    ASSUME VulkanInvariant, NEW t \in FrameTime, NEW b \in Base, sendBaseOfFrame(t, b)
    PROVE  VulkanInvariant'
<1>1. PICK f, g, mid, now : /\ f = m_frames[t] /\ g = setBase(f, b)
                            /\ mid = Put(m_frames, t, g) /\ now = MadeReady(mid, t)
  OBVIOUS
<1>2. /\ f # Nothing /\ f.basePicture = Nothing /\ SendsBase(t, b) /\ m_reorderIndex' = m_reorderIndex
  BY <1>1 DEF sendBaseOfFrame
<1>3. /\ call = "idle" /\ call' = "start" /\ b \notin lent /\ lent' = lent \cup {b}
      /\ lent' \in SUBSET (Base \cup Output)
      /\ stream.prudent => t > latestBase
      /\ latestBase' \in Nat /\ latestBase <= latestBase' /\ t <= latestBase' /\ t \in Nat
      /\ m_processingIndex' = m_processingIndex
      /\ m_previousTimestamp' = m_previousTimestamp /\ m_lastGoodTimestamp' = m_lastGoodTimestamp
      /\ initialized' = initialized /\ chain' = chain /\ goodInOrder' = goodInOrder
      /\ m_temporalBuffers' = m_temporalBuffers /\ m_temporalPicture' = m_temporalPicture
      /\ m_basePictureOutBuffer' = m_basePictureOutBuffer
      /\ m_outputPictureAvailableBuffer' = m_outputPictureAvailableBuffer /\ broken' = broken
      /\ stream' \in [prudent : BOOLEAN, settings : Settings, sends : Nat]
      /\ stream'.prudent = stream.prudent /\ stream'.settings = stream.settings
  BY <1>2, SendsBaseIs
<1>4. PICK reorder, processing, anchors, prudent, latest, later :
        /\ reorder = m_reorderIndex /\ processing = m_processingIndex /\ anchors = m_temporalBuffers
        /\ prudent = stream.prudent /\ latest = latestBase /\ later = latestBase'
  OBVIOUS
<1>5. /\ m_frames \in FrameMap /\ reorder \in Seq(FrameTime) /\ processing \in Seq(FrameTime)
      /\ latest \in Nat /\ later \in Nat /\ latest <= later /\ t <= later
      /\ FramesOK(m_frames, anchors, prudent, latest) /\ IndexOK(m_frames, reorder, processing)
      /\ goodInOrder => ChainOK(m_frames, processing, anchors, m_lastGoodTimestamp, stream.settings.temporalEnabled)
  BY <1>3, <1>4 DEF VulkanInvariant, VulkanTypes, FrameMap
<1>6. f \in FrameRecord /\ FrameOK(t, f, anchors, prudent, latest)
  BY <1>1, <1>2, <1>5, FrameMapIs DEF FramesOK
<1>7. m_frames' = now
  <2>1. [m_frames EXCEPT ![t] = setBase(@, b)] = mid
    BY <1>1, <1>5 DEF Put, FrameMap
  <2> QED BY <1>1, <2>1 DEF sendBaseOfFrame
<1>8. Is(g, f.m_state, f.tasks, f.dependenciesMet \cup {m_depBasePicture}, f.needsBuffer, f.wanted,
         f.m_temporalBuffer, b, f.outputPicture)
  BY <1>1, <1>6, SetBaseIs
<1>9. /\ g \in FrameRecord /\ g.m_state = f.m_state /\ g.tasks = f.tasks /\ g.needsBuffer = f.needsBuffer
      /\ g.wanted = f.wanted /\ g.basePicture = b /\ g.outputPicture = f.outputPicture
  BY <1>8 DEF Is
<1>10. FrameOK(t, g, anchors, prudent, later) /\ (Waiting(g) => Waiting(f))
  <2>1. FrameOK(t, f, anchors, prudent, later)
    <3>1. \A a \in Anchors : anchors[a].frame = t => anchors[a] = anchors[a]
      OBVIOUS
    <3> QED BY <1>3, <1>5, <1>6, <3>1, FrameStays
  <2>2. prudent /\ f.m_state # "Reorder" => m_depBasePicture \notin f.dependenciesMet
    <3>1. prudent => (m_depBasePicture \in f.dependenciesMet => t <= latest)
      BY <1>6 DEF FrameOK, BaseOK
    <3>2. prudent => t > latest
      BY <1>3, <1>4
    <3> QED BY <1>3, <1>5, <3>1, <3>2
  <2> QED BY <1>3, <1>5, <1>6, <1>8, <2>1, <2>2, BaseComes
<1>11. Like(f, g) /\ ReleasesLike(f, g)
  BY <1>9, <1>10 DEF Like, ReleasesLike
<1>12. mid \in FrameMap /\ mid[t] = g /\ \A s \in FrameTime : s # t => mid[s] = m_frames[s]
  <2>1. g \in FrameRecord \cup {Nothing}
    BY <1>9
  <2> QED BY <1>1, <1>5, <2>1, PutIs
<1>13. now \in FrameMap /\ Resembles(mid, now)
  <2>1. \A s \in FrameTime : m_frames[s] # Nothing => mid[s] # Nothing
    BY <1>9, <1>12, FrameIs
  <2> QED BY <1>1, <1>4, <1>5, <1>12, <2>1, MadeReadyIs
<1>14. Alike(m_frames, mid) /\ ChainAlike(m_frames, mid, processing)
  BY <1>1, <1>2, <1>5, <1>9, <1>11, PutLike
<1>15. /\ Alike(mid, now) /\ ChainAlike(mid, now, processing)
       /\ OutputOf(now) = OutputOf(mid) /\ BaseOf(now) = BaseOf(mid)
  BY <1>5, <1>12, <1>13, ResemblesKeeps
<1>16. FramesOK(now, anchors, prudent, later)
  <2>1. OthersStay(t, anchors, anchors)
    BY DEF OthersStay
  <2>2. FramesOK(mid, anchors, prudent, later)
    BY <1>1, <1>5, <1>9, <1>10, <2>1, OneChanges
  <2> QED BY <1>5, <1>12, <1>13, <2>2, ResemblesKeeps
<1>17. IndexOK(now, reorder, processing)
  <2>1. IndexOK(mid, reorder, processing)
    BY <1>5, <1>14, IndexKept
  <2> QED BY <1>5, <1>15, <2>1, IndexKept
<1>18. goodInOrder => ChainOK(now, processing, anchors, m_lastGoodTimestamp, stream.settings.temporalEnabled)
  BY <1>5, <1>14, <1>15, ChainKept
<1>19. VulkanTypes'
  <2>1. VulkanTypes
    BY DEF VulkanInvariant
  <2> QED BY <1>2, <1>3, <1>7, <1>13, <2>1 DEF VulkanTypes, FrameMap
<1>20. PicturesOK'
  <2>1. g # Nothing
    BY <1>9, FrameIs
  <2>2. /\ OutputOf(mid) = [OutputOf(m_frames) EXCEPT ![t] = f.outputPicture]
        /\ BaseOf(mid) = [BaseOf(m_frames) EXCEPT ![t] = b]
    BY <1>1, <1>5, <1>9, <2>1, PutPictures
  <2>3. [OutputOf(m_frames) EXCEPT ![t] = f.outputPicture] = OutputOf(m_frames) /\ BaseOf(m_frames)[t] = Nothing
    BY <1>1, <1>2 DEF OutputOf, BaseOf
  <2>4. /\ OutputOf(m_frames') = OutputOf(m_frames) /\ BaseOf(m_frames') = [BaseOf(m_frames) EXCEPT ![t] = b]
        /\ call # "destroyed"
    BY <1>3, <1>7, <1>15, <2>2, <2>3
  <2> QED BY <1>3, <2>3, <2>4, BaseGivenPictures
<1>21. call' # "idle"
  BY <1>3
<1> QED BY <1>2, <1>3, <1>4, <1>7, <1>16, <1>17, <1>18, <1>19, <1>20, <1>21 DEF VulkanInvariant

-----------------------------------------------------------------------------
(* A frame is started.                                                     *)

MovesOn(frames, reorder, processing, t, g, now, left, more) ==
  /\ reorder # <<>> /\ t = reorder[1] /\ g.m_state # "Reorder"
  /\ now = Put(frames, t, g) /\ left = Tail(reorder) /\ more = Append(processing, t)

WaitsFirst(frames, processing, t) ==
  /\ t \in FrameTime /\ frames[t] # Nothing /\ frames[t].m_state = "Reorder"
  /\ \A i \in 1 .. Len(processing) : processing[i] # t

LEMMA StartIndex ==
    ASSUME NEW frames \in FrameMap, NEW reorder \in Seq(FrameTime), NEW processing \in Seq(FrameTime),
           IndexOK(frames, reorder, processing), NEW t, NEW g \in FrameRecord, NEW now, NEW left, NEW more,
           MovesOn(frames, reorder, processing, t, g, now, left, more)
    PROVE  /\ IndexOK(now, left, more) /\ left \in Seq(FrameTime) /\ more \in Seq(FrameTime)
           /\ WaitsFirst(frames, processing, t)
<1>0. /\ reorder # <<>> /\ t = reorder[1] /\ g.m_state # "Reorder"
      /\ now = Put(frames, t, g) /\ left = Tail(reorder) /\ more = Append(processing, t)
  BY DEF MovesOn
<1>1. PICK m, n : m = Len(reorder) /\ n = Len(processing)
  OBVIOUS
<1>2. /\ left \in Seq(FrameTime) /\ m \in Nat \ {0} /\ Len(left) = m - 1 /\ t \in FrameTime /\ 1 \in 1 .. m
      /\ \A i \in 1 .. m - 1 : i + 1 \in 1 .. m /\ i + 1 # 1 /\ left[i] = reorder[i + 1]
  BY <1>0, <1>1, TailIs
<1>3. /\ more \in Seq(FrameTime) /\ n \in Nat /\ Len(more) = n + 1 /\ more[n + 1] = t
      /\ \A i \in 1 .. n : i \in 1 .. n + 1 /\ more[i] = processing[i]
      /\ \A i \in 1 .. n + 1 : i \in 1 .. n \/ i = n + 1
  BY <1>0, <1>1, <1>2, AppendIs
<1>4. now[t] = g /\ g # Nothing /\ \A s \in FrameTime : s # t => now[s] = frames[s]
  BY <1>0, <1>2, PutIs, FrameIs
<1>5. /\ Sorted(reorder)
      /\ \A i \in 1 .. m : /\ reorder[i] \in FrameTime /\ frames[reorder[i]] # Nothing
                           /\ frames[reorder[i]].m_state = "Reorder"
      /\ \A i \in 1 .. n : /\ processing[i] \in FrameTime /\ frames[processing[i]] # Nothing
                           /\ frames[processing[i]].m_state # "Reorder"
      /\ \A i, j \in 1 .. n : processing[i] = processing[j] => i = j
  BY <1>1 DEF IndexOK
<1>6. frames[t] # Nothing /\ frames[t].m_state = "Reorder"
  BY <1>0, <1>1, <1>2, <1>5
<1>7. \A i \in 1 .. n : processing[i] # t
  BY <1>5, <1>6
<1>8. Sorted(left)
  <2> SUFFICES ASSUME NEW i \in 1 .. m - 1, NEW j \in 1 .. m - 1, i < j PROVE left[i] < left[j]
    BY <1>2 DEF Sorted
  <2>1. PICK x, y : x = i + 1 /\ y = j + 1
    OBVIOUS
  <2>2. x \in 1 .. m /\ y \in 1 .. m /\ x < y /\ left[i] = reorder[x] /\ left[j] = reorder[y]
    BY <1>2, <2>1
  <2> QED BY <1>1, <1>5, <2>2 DEF Sorted
<1>9. ASSUME NEW i \in 1 .. m - 1 PROVE now[left[i]] # Nothing /\ now[left[i]].m_state = "Reorder"
  <2>1. PICK x, one : x = i + 1 /\ one = 1
    OBVIOUS
  <2>2. x \in 1 .. m /\ one \in 1 .. m /\ one < x /\ left[i] = reorder[x] /\ t = reorder[one]
    BY <1>0, <1>2, <2>1
  <2>3. reorder[one] < reorder[x] /\ reorder[x] \in FrameTime
    BY <1>1, <1>5, <2>2 DEF Sorted
  <2>4. reorder[x] \in Nat /\ t \in Nat
    BY <1>2, <2>3, VulkanAssumption
  <2>5. left[i] # t /\ left[i] \in FrameTime
    <3>1. PICK y : y = reorder[x]
      OBVIOUS
    <3>2. y \in Nat /\ t \in Nat /\ t < y /\ left[i] = y /\ y \in FrameTime
      BY <2>2, <2>3, <2>4, <3>1
    <3> QED BY ONLY <3>2
  <2> QED BY <1>4, <1>5, <2>2, <2>5
<1>10. \A i \in 1 .. n + 1 : now[more[i]] # Nothing /\ now[more[i]].m_state # "Reorder"
  <2> TAKE i \in 1 .. n + 1
  <2>1. CASE i \in 1 .. n
    <3>1. more[i] = processing[i] /\ processing[i] # t /\ processing[i] \in FrameTime
      BY <1>3, <1>5, <1>7, <2>1
    <3> QED BY <1>4, <1>5, <2>1, <3>1
  <2>2. CASE i = n + 1
    BY <1>0, <1>3, <1>4, <2>2
  <2> QED BY <1>3, <2>1, <2>2
<1>11. \A i, j \in 1 .. n + 1 : more[i] = more[j] => i = j
  BY <1>3, <1>5, <1>7
<1>12. ASSUME NEW s \in FrameTime, now[s] # Nothing, now[s].m_state # "Reorder"
       PROVE  \E i \in 1 .. n + 1 : more[i] = s
  <2>1. CASE s = t
    <3>1. n + 1 \in 1 .. n + 1
      BY <1>3
    <3> QED BY <1>3, <2>1, <3>1
  <2>2. CASE s # t
    <3>1. PICK i \in 1 .. n : processing[i] = s
      BY <1>1, <1>4, <1>12, <2>2 DEF IndexOK
    <3> QED BY <1>3, <3>1
  <2> QED BY <2>1, <2>2
<1> QED BY <1>1, <1>2, <1>3, <1>6, <1>7, <1>8, <1>9, <1>10, <1>11, <1>12 DEF IndexOK, WaitsFirst

\* A good frame of a stream with temporal residuals wants the buffer of the last good one.
StartsAs(frames, t, g, anchors, others, lastGood, next, temporalEnabled) ==
  /\ lastGood <= next
  /\ IF g.needsBuffer
     THEN g.wanted = lastGood /\ next = t /\ Has(g.tasks, "TemporalRelease")
     ELSE others = anchors /\ (temporalEnabled => next = lastGood)
  /\ Waiting(g) => lastGood # t /\ Pending(frames, lastGood)

LEMMA StartChain ==
    ASSUME NEW frames \in FrameMap, NEW processing \in Seq(FrameTime), NEW anchors, NEW others,
           NEW lastGood \in Nat, NEW next \in Nat, NEW temporalEnabled,
           ChainOK(frames, processing, anchors, lastGood, temporalEnabled),
           NEW t \in FrameTime, t \in Nat, t # 0, frames[t].tasks = <<>>,
           \A i \in 1 .. Len(processing) : processing[i] # t, NEW g \in FrameRecord,
           StartsAs(frames, t, g, anchors, others, lastGood, next, temporalEnabled),
           NEW now, now = Put(frames, t, g), NEW more, more = Append(processing, t)
    PROVE  ChainOK(now, more, others, next, temporalEnabled)
<1>1. PICK n : n = Len(processing)
  OBVIOUS
<1>2. /\ n \in Nat /\ Len(more) = n + 1 /\ more[n + 1] = t
      /\ \A i \in 1 .. n : i \in 1 .. n + 1 /\ more[i] = processing[i]
      /\ \A i \in 1 .. n + 1 : i \in 1 .. n \/ i = n + 1
  BY <1>1, AppendIs
<1>3. now[t] = g /\ g # Nothing /\ \A s \in FrameTime : s # t => now[s] = frames[s]
  <2>1. g \in FrameRecord \cup {Nothing} /\ g # Nothing
    BY FrameIs
  <2>2. frames \in FrameMap /\ t \in FrameTime /\ now = Put(frames, t, g)
    OBVIOUS
  <2> QED BY ONLY <2>1, <2>2, PutIs
<1>4. \A i \in 1 .. n : /\ processing[i] \in FrameTime /\ processing[i] \in Nat
                        /\ now[processing[i]] = frames[processing[i]]
  <2> TAKE i \in 1 .. n
  <2>1. processing[i] \in FrameTime /\ processing[i] # t
    BY <1>1
  <2>2. processing[i] \in Nat
    BY <2>1, VulkanAssumption
  <2> QED BY <1>3, <2>1, <2>2
<1>5. g.needsBuffer \in BOOLEAN /\ now[more[n + 1]] = g
  BY <1>2, <1>3, FrameIs
<1>6. /\ lastGood <= next
      /\ g.needsBuffer => g.wanted = lastGood /\ next = t /\ Has(g.tasks, "TemporalRelease")
      /\ ~g.needsBuffer => others = anchors /\ (temporalEnabled => next = lastGood)
      /\ Waiting(g) => lastGood # t /\ Pending(frames, lastGood)
  BY <1>5 DEF StartsAs
<1>7. \A s : Pending(frames, s) => Pending(now, s)
  <2>1. Len(<<>>) = 0
    OBVIOUS
  <2>2. ~Pending(frames, t)
    BY <2>1 DEF Pending, Has
  <2> QED BY <1>3, <2>2 DEF Pending
<1>8. ASSUME NEW i \in 1 .. n, frames[processing[i]].needsBuffer
      PROVE  frames[processing[i]].wanted <= processing[i] /\ processing[i] <= lastGood
  BY <1>1, <1>8 DEF ChainOK
<1>9. ASSUME NEW i \in 1 .. n + 1, now[more[i]].needsBuffer
      PROVE  now[more[i]].wanted <= more[i] /\ more[i] <= next
  <2>1. CASE i \in 1 .. n
    <3>1. more[i] = processing[i] /\ now[more[i]] = frames[processing[i]] /\ processing[i] \in Nat
      BY <1>2, <1>4, <2>1
    <3>2. processing[i] <= lastGood => processing[i] <= next
      BY <1>6, <3>1
    <3> QED BY <1>8, <1>9, <2>1, <3>1, <3>2
  <2>2. CASE i = n + 1
    BY <1>2, <1>5, <1>6, <1>9, <2>2
  <2> QED BY <1>2, <2>1, <2>2
<1>10. ASSUME NEW i \in 1 .. n + 1, NEW j \in 1 .. n + 1, i < j, now[more[i]].needsBuffer, now[more[j]].needsBuffer
       PROVE  more[i] <= now[more[j]].wanted
  <2>1. i \in 1 .. n /\ more[i] = processing[i] /\ now[more[i]] = frames[processing[i]]
    <3>1. i \in 1 .. n
      BY <1>2, <1>10
    <3> QED BY <1>2, <1>4, <3>1
  <2>2. CASE j \in 1 .. n
    <3>1. more[j] = processing[j] /\ now[more[j]] = frames[processing[j]]
      BY <1>2, <1>4, <2>2
    <3> QED BY <1>1, <1>10, <2>1, <2>2, <3>1 DEF ChainOK
  <2>3. CASE j = n + 1
    BY <1>5, <1>6, <1>8, <1>10, <2>1, <2>3
  <2> QED BY <1>2, <2>2, <2>3
<1>11. next = 0 => \A a \in Anchors : others[a].frame = Nothing /\ others[a].timestamp = 0
  <2> SUFFICES ASSUME next = 0 PROVE \A a \in Anchors : others[a].frame = Nothing /\ others[a].timestamp = 0
    OBVIOUS
  <2>1. lastGood = 0 /\ others = anchors
    BY <1>5, <1>6
  <2> QED BY <2>1 DEF ChainOK
<1>12. next # 0 /\ temporalEnabled => Available(others, next) \/ Pending(now, next)
  <2>1. CASE g.needsBuffer
    BY <1>3, <1>6, <2>1 DEF Pending
  <2>2. CASE ~g.needsBuffer
    BY <1>6, <1>7, <2>2 DEF ChainOK
  <2> QED BY <1>5, <2>1, <2>2
<1>13. ASSUME NEW i \in 1 .. n + 1, Waiting(now[more[i]])
       PROVE  now[more[i]].wanted # more[i] /\ Pending(now, now[more[i]].wanted)
  <2>1. CASE i \in 1 .. n
    <3>1. more[i] = processing[i] /\ now[more[i]] = frames[processing[i]]
      BY <1>2, <1>4, <2>1
    <3>2. frames[processing[i]].wanted # processing[i] /\ Pending(frames, frames[processing[i]].wanted)
      BY <1>1, <1>13, <2>1, <3>1 DEF ChainOK
    <3> QED BY <1>7, <3>1, <3>2
  <2>2. CASE i = n + 1
    <3>1. Waiting(g) /\ more[i] = t
      BY <1>2, <1>5, <1>13, <2>2
    <3>2. g.needsBuffer
      BY <3>1 DEF Waiting
    <3> QED BY <1>2, <1>5, <1>6, <1>7, <2>2, <3>1, <3>2
  <2> QED BY <1>2, <2>1, <2>2
<1> QED BY <1>2, <1>9, <1>10, <1>11, <1>12, <1>13 DEF ChainOK

\* A frame with the tasks that were generated for it.
LEMMA StartOK ==
    ASSUME NEW t, NEW f \in FrameRecord, f.m_state = "Reorder", NEW anchors, NEW prudent, NEW latest,
           FrameOK(t, f, anchors, prudent, latest), NEW temporal \in BOOLEAN, NEW tasks, Generated(temporal, tasks),
           NEW g, NEW state, state = "Processing", NEW wanted, NEW buffer, buffer = 0,
           Is(g, state, tasks, f.dependenciesMet, temporal, wanted, buffer, f.basePicture, f.outputPicture)
    PROVE  FrameOK(t, g, anchors, prudent, latest)
<1>1. /\ g \in FrameRecord /\ g.m_state = "Processing" /\ g.tasks = tasks /\ g.dependenciesMet = f.dependenciesMet
      /\ g.needsBuffer = temporal /\ g.m_temporalBuffer = 0 /\ g.basePicture = f.basePicture
  BY DEF Is
<1>2. PICK met : met = f.dependenciesMet
  OBVIOUS
<1>3. met \subseteq {m_depBasePicture} /\ m_depTemporalBuffer \notin met
  BY <1>2, ExternalIs DEF FrameOK, StateOK
<1>4. TasksOK(g)
  <2>1. ListOK(temporal, {}, tasks) /\ {} \subseteq met
    BY DEF Generated
  <2>2. ListOK(temporal, met, tasks)
    BY <2>1, ListMeets
  <2>3. ClosedOK(temporal, met)
    <3>1. Implies(temporal, m_depBasePicture) = {m_depBasePicture}
      BY ExternalIs, ImpliesExternal
    <3> QED BY <1>3, <3>1 DEF ClosedOK
  <2> QED BY <1>1, <1>2, <2>2, <2>3 DEF TasksOK
<1>5. StateOK(g)
  BY <1>1 DEF StateOK, Generated
<1>6. BufferOK(t, g, anchors)
  BY <1>1, <1>2, <1>3 DEF BufferOK
<1>7. BaseOK(t, g, prudent, latest)
  <2>1. Has(tasks, "BaseDone")
    BY DEF Generated
  <2> QED BY <1>1, <2>1 DEF FrameOK, BaseOK
<1> QED BY <1>4, <1>5, <1>6, <1>7 DEF FrameOK

\* Frame g is what has become of the first frame that waited.
Started(g, others, next) ==
  LET t == m_reorderIndex[1]
  IN  /\ g \in FrameRecord /\ g.m_state # "Reorder"
      /\ FrameOK(t, g, others, stream.prudent, latestBase)
      /\ g.outputPicture = m_frames[t].outputPicture /\ g.basePicture = m_frames[t].basePicture
      /\ others \in [Anchors -> [timestamp : Nat, frame : FrameTime \cup {Nothing}]]
      /\ OthersStay(t, m_temporalBuffers, others)
      /\ goodInOrder' => StartsAs(m_frames, t, g, m_temporalBuffers, others, m_lastGoodTimestamp, next,
                                  stream.settings.temporalEnabled)

LEMMA StartedKeeps ==
    ASSUME VulkanInvariant, call = "start", m_reorderIndex # <<>>, NEW g, NEW others, NEW next \in Nat,
           Started(g, others, next), goodInOrder' \in BOOLEAN, goodInOrder' => goodInOrder,
           m_frames' = Put(m_frames, m_reorderIndex[1], g), m_temporalBuffers' = others, m_lastGoodTimestamp' = next,
           m_previousTimestamp' = m_reorderIndex[1], m_reorderIndex' = Tail(m_reorderIndex),
           m_processingIndex' = Append(m_processingIndex, m_reorderIndex[1]),
           m_temporalPicture' \in {Nothing} \cup SUBSET FrameTime, chain' \in SUBSET FrameTime,
           initialized' \in BOOLEAN, UNCHANGED <<queueVars, clientVars, call, broken>>
    PROVE  VulkanInvariant'
<1>1. PICK t, f : t = m_reorderIndex[1] /\ f = m_frames[t]
  OBVIOUS
<1>2. /\ m_basePictureOutBuffer' = m_basePictureOutBuffer
      /\ m_outputPictureAvailableBuffer' = m_outputPictureAvailableBuffer
      /\ stream' = stream /\ lent' = lent /\ latestBase' = latestBase /\ broken' = broken /\ call' = call
  BY DEF queueVars, clientVars
<1>3. PICK reorder, processing, anchors, prudent, latest, lastGood, temporalEnabled :
        /\ reorder = m_reorderIndex /\ processing = m_processingIndex /\ anchors = m_temporalBuffers
        /\ prudent = stream.prudent /\ latest = latestBase /\ lastGood = m_lastGoodTimestamp
        /\ temporalEnabled = stream.settings.temporalEnabled
  OBVIOUS
<1>4. /\ VulkanTypes /\ m_frames \in FrameMap /\ reorder \in Seq(FrameTime) /\ processing \in Seq(FrameTime)
      /\ latest \in Nat /\ latest <= latest /\ lastGood \in Nat
      /\ FramesOK(m_frames, anchors, prudent, latest) /\ IndexOK(m_frames, reorder, processing)
      /\ goodInOrder => ChainOK(m_frames, processing, anchors, lastGood, temporalEnabled)
  BY <1>3 DEF VulkanInvariant, VulkanTypes, FrameMap
<1>5. /\ g \in FrameRecord /\ g.m_state # "Reorder" /\ FrameOK(t, g, others, prudent, latest)
      /\ g.outputPicture = f.outputPicture /\ g.basePicture = f.basePicture
      /\ others \in [Anchors -> [timestamp : Nat, frame : FrameTime \cup {Nothing}]]
      /\ OthersStay(t, anchors, others)
      /\ goodInOrder' => StartsAs(m_frames, t, g, anchors, others, lastGood, next, temporalEnabled)
  BY <1>1, <1>3 DEF Started
<1>6. PICK now, left, more : now = Put(m_frames, t, g) /\ left = Tail(reorder) /\ more = Append(processing, t)
  OBVIOUS
<1>7. m_frames' = now /\ m_reorderIndex' = left /\ m_processingIndex' = more /\ m_previousTimestamp' = t
  BY <1>1, <1>3, <1>6
<1>8. /\ IndexOK(now, left, more) /\ left \in Seq(FrameTime) /\ more \in Seq(FrameTime)
      /\ t \in FrameTime /\ f # Nothing /\ f.m_state = "Reorder"
      /\ \A i \in 1 .. Len(processing) : processing[i] # t
  <2>1. /\ m_frames \in FrameMap /\ reorder \in Seq(FrameTime) /\ processing \in Seq(FrameTime)
        /\ IndexOK(m_frames, reorder, processing) /\ g \in FrameRecord
        /\ MovesOn(m_frames, reorder, processing, t, g, now, left, more)
    BY <1>1, <1>3, <1>4, <1>5, <1>6 DEF MovesOn
  <2>2. /\ IndexOK(now, left, more) /\ left \in Seq(FrameTime) /\ more \in Seq(FrameTime)
        /\ WaitsFirst(m_frames, processing, t)
    BY ONLY <2>1, StartIndex
  <2> QED BY <1>1, <2>2 DEF WaitsFirst
<1>9. t \in Nat /\ t # 0 /\ t \in Frames
  BY <1>1, <1>8, VulkanAssumption DEF Frames
<1>10. f.tasks = <<>>
  <2>1. FrameOK(t, f, m_temporalBuffers, stream.prudent, latestBase)
    BY <1>1, <1>9, FrameFacts
  <2> QED BY <1>8, <2>1 DEF FrameOK, StateOK
<1>11. now \in FrameMap
  <2>1. g \in FrameRecord \cup {Nothing}
    BY <1>5
  <2> QED BY <1>4, <1>6, <1>8, <2>1, PutIs
<1>12. FramesOK(now, others, prudent, latest)
  BY <1>4, <1>5, <1>6, <1>8, OneChanges
<1>13. goodInOrder' => ChainOK(now, more, others, next, temporalEnabled)
  <2> SUFFICES ASSUME goodInOrder' PROVE ChainOK(now, more, others, next, temporalEnabled)
    OBVIOUS
  <2>1. /\ ChainOK(m_frames, processing, anchors, lastGood, temporalEnabled)
        /\ StartsAs(m_frames, t, g, anchors, others, lastGood, next, temporalEnabled)
        /\ m_frames[t].tasks = <<>>
    BY <1>1, <1>4, <1>5, <1>10
  <2> QED BY <1>4, <1>5, <1>6, <1>8, <1>9, <2>1, StartChain
<1>14. VulkanTypes'
  BY <1>2, <1>4, <1>5, <1>7, <1>8, <1>9, <1>11 DEF VulkanTypes, FrameMap
<1>15. OutputOf(now) = OutputOf(m_frames) /\ BaseOf(now) = BaseOf(m_frames)
  <2>1. g # Nothing
    BY <1>5, FrameIs
  <2>2. /\ OutputOf(now) = [OutputOf(m_frames) EXCEPT ![t] = f.outputPicture]
        /\ BaseOf(now) = [BaseOf(m_frames) EXCEPT ![t] = f.basePicture]
    BY <1>4, <1>5, <1>6, <1>8, <2>1, PutPictures
  <2>3. /\ OutputOf(m_frames) = [OutputOf(m_frames) EXCEPT ![t] = f.outputPicture]
        /\ BaseOf(m_frames) = [BaseOf(m_frames) EXCEPT ![t] = f.basePicture]
    BY <1>1, <1>8 DEF OutputOf, BaseOf
  <2> QED BY <2>2, <2>3
<1>16. PicturesOK'
  BY <1>2, <1>7, <1>15 DEF VulkanInvariant, PicturesOK
<1>17. call' # "idle"
  BY <1>2
<1> QED BY <1>2, <1>3, <1>7, <1>8, <1>12, <1>13, <1>14, <1>16, <1>17 DEF VulkanInvariant

\* What is generated for a frame.
Readied(f, good, config, known, builds, base, tasks, ready) ==
  /\ base = [f EXCEPT !.m_state = "Processing", !.m_passthrough = ~good, !.config = config]
  /\ tasks = IF known THEN generateTasksEnhancement(base) ELSE generateTasksPassthrough
  /\ ready = [base EXCEPT !.tasks = tasks, !.expected = builds]
  /\ good => known

LEMMA ReadyStarts ==
    ASSUME stream.settings \in Settings, NEW f \in FrameRecord, NEW good \in BOOLEAN, NEW config \in Payload,
           NEW known \in BOOLEAN, NEW builds \in SUBSET FrameTime, NEW base, NEW tasks, NEW ready,
           Readied(f, good, config, known, builds, base, tasks, ready)
    PROVE  \E temporal \in BOOLEAN :
             /\ Generated(temporal, tasks)
             /\ temporal <=> known /\ usesTemporal(base)
             /\ temporal <=> good /\ stream.settings.temporalEnabled
             /\ ready.config = config
             /\ Is(ready, "Processing", tasks, f.dependenciesMet, f.needsBuffer, f.wanted, f.m_temporalBuffer,
                   f.basePicture, f.outputPicture)
<1>0. /\ base = [f EXCEPT !.m_state = "Processing", !.m_passthrough = ~good, !.config = config]
      /\ tasks = IF known THEN generateTasksEnhancement(base) ELSE generateTasksPassthrough
      /\ ready = [base EXCEPT !.tasks = tasks, !.expected = builds]
      /\ good => known
  BY DEF Readied
<1>1. PICK pass \in BOOLEAN : pass = ~good
  OBVIOUS
<1>2. base = [f EXCEPT !.m_state = "Processing", !.m_passthrough = pass, !.config = config]
  BY <1>0, <1>1
<1>3. /\ base \in FrameRecord /\ base.m_state = "Processing" /\ base.m_passthrough = pass /\ base.config = config
      /\ base.dependenciesMet = f.dependenciesMet /\ base.needsBuffer = f.needsBuffer /\ base.wanted = f.wanted
      /\ base.m_temporalBuffer = f.m_temporalBuffer /\ base.basePicture = f.basePicture
      /\ base.outputPicture = f.outputPicture
  BY <1>2 DEF FrameRecord
<1>4. PICK temporal \in BOOLEAN : temporal <=> known /\ usesTemporal(base)
  OBVIOUS
<1>5. usesTemporal(base) <=> good /\ stream.settings.temporalEnabled
  BY <1>1, <1>3 DEF usesTemporal
<1>6. temporal <=> good /\ stream.settings.temporalEnabled
  BY <1>0, <1>4, <1>5
<1>7. Generated(temporal, tasks)
  <2>1. CASE temporal
    <3>1. temporal = TRUE /\ usesTemporal(base) /\ tasks = generateTasksEnhancement(base)
      BY <1>0, <1>4, <2>1
    <3>2. Generated(TRUE, generateTasksEnhancement(base))
      BY <3>1, TemporalGenerated
    <3> QED BY <3>1, <3>2
  <2>2. CASE ~temporal /\ known
    <3>1. temporal = FALSE /\ ~usesTemporal(base) /\ tasks = generateTasksEnhancement(base)
      BY <1>0, <1>4, <2>2
    <3>2. Generated(FALSE, generateTasksEnhancement(base))
      BY <3>1, DirectGenerated
    <3> QED BY <3>1, <3>2
  <2>3. CASE ~temporal /\ ~known
    <3>1. temporal = FALSE /\ tasks = generateTasksPassthrough
      BY <1>0, <2>3
    <3> QED BY <3>1, PassthroughGenerated
  <2> QED BY <2>1, <2>2, <2>3
<1>8. tasks \in Seq(Tasks)
  BY <1>7 DEF Generated
<1>9. /\ ready.config = config
      /\ Is(ready, "Processing", tasks, f.dependenciesMet, f.needsBuffer, f.wanted, f.m_temporalBuffer,
            f.basePicture, f.outputPicture)
  <2>1. /\ base \in FrameRecord /\ builds \in SUBSET FrameTime /\ tasks \in Seq(Tasks)
        /\ ready = [base EXCEPT !.tasks = tasks, !.expected = builds]
    BY <1>0, <1>3, <1>8
  <2>2. ready \in FrameRecord
    BY ONLY <2>1 DEF FrameRecord
  <2>3. /\ ready.m_state = base.m_state /\ ready.config = base.config /\ ready.tasks = tasks
        /\ ready.dependenciesMet = base.dependenciesMet /\ ready.needsBuffer = base.needsBuffer
        /\ ready.wanted = base.wanted /\ ready.m_temporalBuffer = base.m_temporalBuffer
        /\ ready.basePicture = base.basePicture /\ ready.outputPicture = base.outputPicture
    BY ONLY <2>1 DEF FrameRecord
  <2> QED BY <1>3, <2>2, <2>3 DEF Is
<1> QED BY <1>4, <1>6, <1>7, <1>9

\* A frame that goes without temporal residuals takes no buffer.
LEMMA StartsDirect ==
    ASSUME VulkanInvariant, NEW t, t = m_reorderIndex[1], NEW g \in FrameRecord, g.m_state = "Processing",
           ~g.needsBuffer, FrameOK(t, g, m_temporalBuffers, stream.prudent, latestBase),
           g.outputPicture = m_frames[t].outputPicture, g.basePicture = m_frames[t].basePicture,
           NEW next \in Nat, goodInOrder' => m_lastGoodTimestamp <= next,
           stream.settings.temporalEnabled => next = m_lastGoodTimestamp
    PROVE  Started(g, m_temporalBuffers, next)
<1>1. m_temporalBuffers \in [Anchors -> [timestamp : Nat, frame : FrameTime \cup {Nothing}]]
  BY DEF VulkanInvariant, VulkanTypes
<1>2. OthersStay(t, m_temporalBuffers, m_temporalBuffers)
  BY DEF OthersStay
<1>3. g.m_state # "Reorder"
  OBVIOUS
<1>4. goodInOrder' => StartsAs(m_frames, t, g, m_temporalBuffers, m_temporalBuffers, m_lastGoodTimestamp, next,
                               stream.settings.temporalEnabled)
  BY DEF StartsAs, Waiting
<1> QED BY <1>1, <1>2, <1>3, <1>4 DEF Started

\* The anchor of the last good frame is free or will be.
LEMMA NoneSuitable ==
    ASSUME VulkanInvariant, goodInOrder, stream.settings.temporalEnabled, NEW config, Suitable(config) = {}
    PROVE  m_lastGoodTimestamp # 0 /\ Pending(m_frames, m_lastGoodTimestamp)
<1>1. PICK anchors, lastGood, zero : anchors = m_temporalBuffers /\ lastGood = m_lastGoodTimestamp /\ zero = 0
  OBVIOUS
<1>2. /\ lastGood = zero => \A a \in Anchors : anchors[a].frame = Nothing /\ anchors[a].timestamp = zero
      /\ lastGood # zero => Available(anchors, lastGood) \/ Pending(m_frames, lastGood)
  BY <1>1 DEF VulkanInvariant, ChainOK
<1>3. \A a \in Anchors : ~(anchors[a].frame = Nothing /\ anchors[a].timestamp = lastGood)
  BY <1>1 DEF Suitable
<1>4. 1 \in Anchors
  <2>1. numTemporalBuffers \in Nat \ {0}
    BY VulkanAssumption
  <2>2. RCMaxPlanes = 3
    BY DEF RCMaxPlanes
  <2> QED BY <2>1, <2>2 DEF Anchors
<1>5. lastGood # zero
  BY <1>2, <1>3, <1>4
<1>6. ~Available(anchors, lastGood)
  BY <1>3 DEF Available
<1> QED BY <1>1, <1>2, <1>5, <1>6

\* A frame that has temporal residuals asks for a buffer.
LEMMA StartsAsking ==
    ASSUME VulkanInvariant, NEW t \in FrameTime, t = m_reorderIndex[1], m_frames[t].tasks = <<>>,
           NEW g \in FrameRecord, g.m_state = "Processing", g.needsBuffer, g.wanted = m_lastGoodTimestamp,
           Has(g.tasks, "TemporalRelease"), FrameOK(t, g, m_temporalBuffers, stream.prudent, latestBase),
           g.outputPicture = m_frames[t].outputPicture, g.basePicture = m_frames[t].basePicture,
           goodInOrder' => goodInOrder /\ m_lastGoodTimestamp <= t,
           stream.settings.temporalEnabled, NEW config, Suitable(config) = {}
    PROVE  Started(g, m_temporalBuffers, t)
<1>1. m_temporalBuffers \in [Anchors -> [timestamp : Nat, frame : FrameTime \cup {Nothing}]]
  BY DEF VulkanInvariant, VulkanTypes
<1>2. OthersStay(t, m_temporalBuffers, m_temporalBuffers)
  BY DEF OthersStay
<1>3. g.m_state # "Reorder"
  OBVIOUS
<1>4. ASSUME goodInOrder'
      PROVE  StartsAs(m_frames, t, g, m_temporalBuffers, m_temporalBuffers, m_lastGoodTimestamp, t,
                      stream.settings.temporalEnabled)
  <2>1. Pending(m_frames, m_lastGoodTimestamp)
    BY <1>4, NoneSuitable
  <2>2. Len(<<>>) = 0
    OBVIOUS
  <2>3. m_lastGoodTimestamp # t
    BY <2>1, <2>2 DEF Pending, Has
  <2> QED BY <1>4, <2>1, <2>3 DEF StartsAs
<1> QED BY <1>1, <1>2, <1>3, <1>4 DEF Started

\* It gets the first anchor that suits it.
LEMMA StartsWithBuffer ==
    ASSUME VulkanInvariant, NEW t \in FrameTime, t = m_reorderIndex[1],
           NEW f \in FrameRecord, f.m_state = "Processing", f.needsBuffer, f.wanted = m_lastGoodTimestamp,
           Has(f.tasks, "TemporalRelease"), FrameOK(t, f, m_temporalBuffers, stream.prudent, latestBase),
           f.outputPicture = m_frames[t].outputPicture, f.basePicture = m_frames[t].basePicture,
           goodInOrder' => goodInOrder /\ m_lastGoodTimestamp <= t,
           NEW config, NEW a, a = Sets!Min(Suitable(config)), Suitable(config) # {},
           NEW g, g = DependencyMet([f EXCEPT !.m_temporalBuffer = a], m_depTemporalBuffer),
           NEW others,
           others = [m_temporalBuffers EXCEPT ![a] = [timestamp |-> m_lastGoodTimestamp, frame |-> t]]
    PROVE  Started(g, others, t)
<1>1. PICK anchors, lastGood, entry : /\ anchors = m_temporalBuffers /\ lastGood = m_lastGoodTimestamp
                                      /\ entry = [timestamp |-> lastGood, frame |-> t]
  OBVIOUS
<1>2. /\ anchors \in [Anchors -> [timestamp : Nat, frame : FrameTime \cup {Nothing}]] /\ lastGood \in Nat
      /\ Nothing \notin FrameTime
  BY <1>1, VulkanAssumption DEF VulkanInvariant, VulkanTypes
<1>3. a \in Anchors /\ a \in Nat /\ a # 0 /\ anchors[a].frame = Nothing
  <2>1. numTemporalBuffers * RCMaxPlanes \in Nat
    BY VulkanAssumption DEF RCMaxPlanes
  <2>2. \A i \in Anchors : i \in Nat /\ i # 0
    BY <2>1 DEF Anchors
  <2>3. Suitable(config) \in SUBSET Nat /\ \A i \in Suitable(config) : i \in Anchors /\ anchors[i].frame = Nothing
    BY <1>1, <2>2 DEF Suitable
  <2>4. a \in Suitable(config)
    BY <2>3, MinIs
  <2> QED BY <2>2, <2>3, <2>4
<1>4. /\ entry \in [timestamp : Nat, frame : FrameTime \cup {Nothing}] /\ entry.frame = t
      /\ others = [anchors EXCEPT ![a] = entry]
  BY <1>1, <1>2
<1>5. /\ others \in [Anchors -> [timestamp : Nat, frame : FrameTime \cup {Nothing}]]
      /\ others[a] = entry /\ others[a].frame = t /\ \A i \in Anchors : i # a => others[i] = anchors[i]
  <2>1. PICK E : E = [timestamp : Nat, frame : FrameTime \cup {Nothing}]
    OBVIOUS
  <2>2. anchors \in [Anchors -> E] /\ a \in Anchors /\ entry \in E /\ others = [anchors EXCEPT ![a] = entry]
    BY <1>2, <1>3, <1>4, <2>1
  <2>3. /\ others \in [Anchors -> E] /\ others[a] = entry
        /\ \A i \in Anchors : i # a => others[i] = anchors[i]
    BY ONLY <2>2
  <2> QED BY <1>4, <2>1, <2>3
<1>6. OthersStay(t, anchors, others)
  BY <1>2, <1>3, <1>5 DEF OthersStay
<1>7. Is(g, f.m_state, f.tasks, f.dependenciesMet \cup {m_depTemporalBuffer}, f.needsBuffer, f.wanted, a,
         f.basePicture, f.outputPicture)
  <2>1. PICK h : h = [f EXCEPT !.m_temporalBuffer = a]
    OBVIOUS
  <2>2. Is(h, f.m_state, f.tasks, f.dependenciesMet, f.needsBuffer, f.wanted, a, f.basePicture, f.outputPicture)
    BY <1>3, <2>1, BufferLeft
  <2>3. h \in FrameRecord /\ m_depTemporalBuffer \in Dependency
    BY <2>2, ExternalIs DEF Is
  <2>4. Is(g, h.m_state, h.tasks, h.dependenciesMet \cup {m_depTemporalBuffer}, h.needsBuffer, h.wanted,
           h.m_temporalBuffer, h.basePicture, h.outputPicture)
    BY <2>1, <2>3, DependencyMetIs
  <2> QED BY <2>2, <2>4 DEF Is
<1>8. FrameOK(t, g, others, stream.prudent, latestBase) /\ ~Waiting(g)
  <2>1. PICK prudent, latest : prudent = stream.prudent /\ latest = latestBase
    OBVIOUS
  <2>2. /\ f \in FrameRecord /\ FrameOK(t, f, anchors, prudent, latest) /\ f.m_state # "Reorder"
        /\ a \in Anchors /\ a # 0 /\ others[a].frame = t
        /\ Is(g, f.m_state, f.tasks, f.dependenciesMet \cup {m_depTemporalBuffer}, f.needsBuffer, f.wanted, a,
              f.basePicture, f.outputPicture)
    BY <1>1, <1>3, <1>5, <1>7, <2>1
  <2>3. FrameOK(t, g, others, prudent, latest) /\ ~Waiting(g)
    BY ONLY <2>2, BufferComes
  <2> QED BY <2>1, <2>3
<1>9. /\ g \in FrameRecord /\ g.m_state # "Reorder" /\ g.needsBuffer /\ g.wanted = lastGood /\ g.tasks = f.tasks
      /\ g.outputPicture = f.outputPicture /\ g.basePicture = f.basePicture
  BY <1>1, <1>7 DEF Is
<1>10. goodInOrder' => StartsAs(m_frames, t, g, anchors, others, lastGood, t, stream.settings.temporalEnabled)
  BY <1>1, <1>8, <1>9 DEF StartsAs
<1> QED BY <1>1, <1>5, <1>6, <1>8, <1>9, <1>10 DEF Started

LEMMA StartFrameKeeps ==
    ASSUME VulkanInvariant, StartFrame
    PROVE  VulkanInvariant'
<1> DEFINE t      == m_reorderIndex[1]
           f      == m_frames[t]
           late   == m_previousTimestamp # kInvalidTimestamp /\ m_previousTimestamp > t
           good   == ~f.m_passthrough /\ ~late /\ ConfigGood(f.payload)
           config == IF good THEN f.payload ELSE NoLevels
           known  == initialized \/ config.global
           base   == [f EXCEPT !.m_state = "Processing", !.m_passthrough = ~good, !.config = config]
           builds == (IF Clears(config) THEN {} ELSE chain) \cup (IF config.loqEnabled[1] THEN {t} ELSE {})
           tasks  == IF known THEN generateTasksEnhancement(base) ELSE generateTasksPassthrough
           ready  == [base EXCEPT !.tasks = tasks, !.expected = builds]
           next   == IF good THEN t ELSE m_lastGoodTimestamp
<1>1. /\ call = "start" /\ m_reorderIndex # <<>>
      /\ IF known /\ usesTemporal(base) THEN requireTemporalBuffer(t, ready)
         ELSE m_frames' = Put(m_frames, t, ready) /\ UNCHANGED temporalVars
      /\ m_processingIndex' = Append(m_processingIndex, t) /\ m_previousTimestamp' = t
      /\ m_lastGoodTimestamp' = next /\ initialized' = known /\ chain' = IF good THEN builds ELSE chain
      /\ goodInOrder' = (goodInOrder /\ (good => m_lastGoodTimestamp <= t))
      /\ m_reorderIndex' = Tail(m_reorderIndex)
      /\ UNCHANGED <<queueVars, clientVars, call, broken>>
  BY DEF StartFrame, NextReordered, Put
<1>2. /\ good \in BOOLEAN /\ known \in BOOLEAN
      /\ good => ConfigGood(f.payload) /\ config = f.payload
      /\ ~good => config = NoLevels
      /\ config.global => known
      /\ initialized => known
      /\ good => next = t
      /\ ~good => next = m_lastGoodTimestamp
  <2> HIDE DEF t, f, late
  <2> QED OBVIOUS
<1>3. /\ base = [f EXCEPT !.m_state = "Processing", !.m_passthrough = ~good, !.config = config]
      /\ tasks = IF known THEN generateTasksEnhancement(base) ELSE generateTasksPassthrough
      /\ ready = [base EXCEPT !.tasks = tasks, !.expected = builds]
  OBVIOUS
<1>4. chain \in SUBSET FrameTime /\ t \in FrameTime => builds \in SUBSET FrameTime
  <2> HIDE DEF t, config
  <2> QED OBVIOUS
<1>5. t = m_reorderIndex[1] /\ f = m_frames[t]
  OBVIOUS
<1> HIDE DEF t, f, late, good, config, known, base, builds, tasks, ready, next
<1>6. /\ m_reorderIndex \in Seq(FrameTime) /\ chain \in SUBSET FrameTime /\ m_lastGoodTimestamp \in Nat
      /\ stream.settings \in Settings /\ goodInOrder \in BOOLEAN
      /\ m_temporalPicture \in {Nothing} \cup SUBSET FrameTime
      /\ IndexOK(m_frames, m_reorderIndex, m_processingIndex)
  BY DEF VulkanInvariant, VulkanTypes
<1>7. t \in FrameTime /\ f # Nothing /\ f.m_state = "Reorder"
  <2>1. PICK one : one = 1
    OBVIOUS
  <2>2. one \in 1 .. Len(m_reorderIndex) /\ m_reorderIndex[one] \in FrameTime
    BY <1>1, <1>6, <2>1
  <2> QED BY <1>5, <1>6, <2>1, <2>2 DEF IndexOK
<1>8. t \in Nat /\ f \in FrameRecord /\ FrameOK(t, f, m_temporalBuffers, stream.prudent, latestBase)
  <2>1. t \in Frames
    BY <1>5, <1>7 DEF Frames
  <2> QED BY <1>5, <2>1, FrameFacts
<1>9. /\ f.tasks = <<>> /\ ~f.needsBuffer /\ f.m_temporalBuffer = 0 /\ f.wanted \in Nat
      /\ f.needsBuffer \in BOOLEAN /\ f.payload \in Payload
  BY <1>7, <1>8, FrameIs DEF FrameOK, StateOK
<1>10. config \in Payload
  BY <1>2, <1>9, NoLevelsIs
<1>11. good => known
  <2>1. config.global \in BOOLEAN /\ initialized \in BOOLEAN
    BY <1>10 DEF Payload, VulkanInvariant, VulkanTypes
  <2> QED BY <1>2, <2>1 DEF ConfigGood
<1>12. builds \in SUBSET FrameTime
  BY <1>4, <1>6, <1>7
<1>13. PICK temporal \in BOOLEAN :
         /\ Generated(temporal, tasks)
         /\ temporal <=> known /\ usesTemporal(base)
         /\ temporal <=> good /\ stream.settings.temporalEnabled
         /\ ready.config = config
         /\ Is(ready, "Processing", tasks, f.dependenciesMet, f.needsBuffer, f.wanted, f.m_temporalBuffer,
               f.basePicture, f.outputPicture)
  <2>1. Readied(f, good, config, known, builds, base, tasks, ready)
    BY <1>3, <1>11 DEF Readied
  <2> QED BY <1>2, <1>6, <1>8, <1>10, <1>12, <2>1, ReadyStarts
<1>14. next \in Nat /\ (goodInOrder' => goodInOrder /\ m_lastGoodTimestamp <= next)
  <2>1. m_lastGoodTimestamp <= m_lastGoodTimestamp
    BY <1>6
  <2> QED BY <1>1, <1>2, <1>6, <1>8, <2>1
<1>15. goodInOrder' \in BOOLEAN /\ chain' \in SUBSET FrameTime /\ initialized' \in BOOLEAN
  BY <1>1, <1>2, <1>6, <1>12
<1>16. /\ ready \in FrameRecord /\ ready.m_state = "Processing" /\ ready.tasks = tasks
       /\ ready.dependenciesMet = f.dependenciesMet /\ ~ready.needsBuffer /\ ready.wanted = f.wanted
       /\ ready.m_temporalBuffer = 0 /\ ready.basePicture = f.basePicture /\ ready.outputPicture = f.outputPicture
  BY <1>9, <1>13 DEF Is
<1>17. CASE ~temporal
  <2>1. m_frames' = Put(m_frames, t, ready) /\ UNCHANGED temporalVars
    BY <1>1, <1>13, <1>17
  <2>2. FrameOK(t, ready, m_temporalBuffers, stream.prudent, latestBase)
    <3>1. Is(ready, "Processing", tasks, f.dependenciesMet, temporal, f.wanted, 0, f.basePicture, f.outputPicture)
      BY <1>9, <1>13, <1>16, <1>17 DEF Is
    <3> QED BY <1>7, <1>8, <1>13, <3>1, StartOK
  <2>3. stream.settings.temporalEnabled => next = m_lastGoodTimestamp
    BY <1>2, <1>13, <1>17
  <2>4. Started(ready, m_temporalBuffers, next)
    BY <1>5, <1>14, <1>16, <2>2, <2>3, StartsDirect
  <2>5. m_temporalBuffers' = m_temporalBuffers /\ m_temporalPicture' = m_temporalPicture
    BY <2>1 DEF temporalVars
  <2>6. m_temporalPicture' \in {Nothing} \cup SUBSET FrameTime
    BY <1>6, <2>5
  <2> QED BY <1>1, <1>5, <1>14, <1>15, <2>1, <2>4, <2>5, <2>6, StartedKeeps
<1>18. CASE temporal
  <2> DEFINE asked == [ready EXCEPT !.needsBuffer = TRUE, !.wanted = m_lastGoodTimestamp]
             a     == Sets!Min(Suitable(config))
             g     == DependencyMet([asked EXCEPT !.m_temporalBuffer = a], m_depTemporalBuffer)
             given == [m_temporalBuffers EXCEPT ![a] = [timestamp |-> m_lastGoodTimestamp, frame |-> t]]
  <2>1. /\ m_temporalPicture' = Cleared(config)
        /\ IF Suitable(config) = {} THEN m_frames' = Put(m_frames, t, asked) /\ m_temporalBuffers' = m_temporalBuffers
           ELSE m_frames' = Put(m_frames, t, g) /\ m_temporalBuffers' = given
    BY <1>1, <1>13, <1>18 DEF requireTemporalBuffer, Put
  <2>2. asked = [ready EXCEPT !.needsBuffer = TRUE, !.wanted = m_lastGoodTimestamp]
    OBVIOUS
  <2>3. /\ a = Sets!Min(Suitable(config))
        /\ g = DependencyMet([asked EXCEPT !.m_temporalBuffer = a], m_depTemporalBuffer)
        /\ given = [m_temporalBuffers EXCEPT ![a] = [timestamp |-> m_lastGoodTimestamp, frame |-> t]]
    OBVIOUS
  <2> HIDE DEF asked, a, g, given
  <2>4. m_temporalPicture' \in {Nothing} \cup SUBSET FrameTime
    BY <1>6, <2>1 DEF Cleared
  <2>5. Is(asked, "Processing", tasks, f.dependenciesMet, temporal, m_lastGoodTimestamp, 0, f.basePicture, f.outputPicture)
    BY <1>6, <1>16, <1>18, <2>2 DEF Is, FrameRecord
  <2>6. FrameOK(t, asked, m_temporalBuffers, stream.prudent, latestBase)
    BY <1>7, <1>8, <1>13, <2>5, StartOK
  <2>7. /\ asked \in FrameRecord /\ asked.m_state = "Processing" /\ asked.needsBuffer
        /\ asked.wanted = m_lastGoodTimestamp /\ asked.tasks = tasks
        /\ asked.outputPicture = f.outputPicture /\ asked.basePicture = f.basePicture
    BY <1>18, <2>5 DEF Is
  <2>8. Has(asked.tasks, "TemporalRelease")
    BY <1>13, <1>18, <2>7 DEF Generated
  <2>9. next = t /\ stream.settings.temporalEnabled
    BY <1>2, <1>13, <1>18
  <2>10. goodInOrder' => goodInOrder /\ m_lastGoodTimestamp <= t
    BY <1>14, <2>9
  <2>11. CASE Suitable(config) = {}
    <3>1. Started(asked, m_temporalBuffers, t)
      BY <1>5, <1>7, <1>9, <2>6, <2>7, <2>8, <2>9, <2>10, <2>11, StartsAsking
    <3>2. m_frames' = Put(m_frames, t, asked) /\ m_temporalBuffers' = m_temporalBuffers
      BY <2>1, <2>11
    <3> QED BY <1>1, <1>5, <1>8, <1>14, <1>15, <2>4, <2>9, <3>1, <3>2, StartedKeeps
  <2>12. CASE Suitable(config) # {}
    <3>1. Started(g, given, t)
      BY <1>5, <1>7, <2>3, <2>6, <2>7, <2>8, <2>10, <2>12, StartsWithBuffer
    <3>2. m_frames' = Put(m_frames, t, g) /\ m_temporalBuffers' = given
      BY <2>1, <2>12
    <3> QED BY <1>1, <1>5, <1>8, <1>14, <1>15, <2>4, <2>9, <3>1, <3>2, StartedKeeps
  <2> QED BY <2>11, <2>12
<1> QED BY <1>17, <1>18

-----------------------------------------------------------------------------
(* The invariant holds.                                                    *)

LEMMA VulkanInitOK ==
    ASSUME VulkanInit
    PROVE  VulkanInvariant
<1>1. \A t \in FrameTime : m_frames[t] = Nothing
  BY DEF VulkanInit
<1>2. PICK none, zero : none = <<>> /\ zero = 0
  OBVIOUS
<1>3. Len(none) = zero /\ none \in Seq(FrameTime) /\ none \in Seq(Base \cup {Nothing}) /\ none \in Seq(Output)
  BY <1>2
<1>4. 1 .. zero = {}
  BY <1>2
<1>5. /\ m_reorderIndex = none /\ m_processingIndex = none
      /\ m_basePictureOutBuffer = none /\ m_outputPictureAvailableBuffer = none
  BY <1>2 DEF VulkanInit
<1>6. stream \in [prudent : BOOLEAN, settings : Settings, sends : Nat]
  BY VulkanAssumption DEF VulkanInit
<1>7. \A a \in Anchors : m_temporalBuffers[a] = [timestamp |-> 0, frame |-> Nothing]
  BY DEF VulkanInit, kInvalidTimestamp
<1>8. m_temporalBuffers \in [Anchors -> [timestamp : Nat, frame : FrameTime \cup {Nothing}]]
  BY DEF VulkanInit, kInvalidTimestamp
<1>9. VulkanTypes
  BY <1>3, <1>5, <1>6, <1>8 DEF VulkanTypes, VulkanInit, kInvalidTimestamp
<1>10. FramesOK(m_frames, m_temporalBuffers, stream.prudent, latestBase)
  BY <1>1 DEF FramesOK
<1>11. IndexOK(m_frames, m_reorderIndex, m_processingIndex)
  BY <1>1, <1>3, <1>4, <1>5 DEF IndexOK, Sorted
<1>12. ChainOK(m_frames, m_processingIndex, m_temporalBuffers, m_lastGoodTimestamp, stream.settings.temporalEnabled)
  <2>1. m_lastGoodTimestamp = 0
    BY DEF VulkanInit, kInvalidTimestamp
  <2>2. \A a \in Anchors : m_temporalBuffers[a].frame = Nothing /\ m_temporalBuffers[a].timestamp = 0
    BY <1>7
  <2> QED BY <1>3, <1>4, <1>5, <2>1, <2>2 DEF ChainOK
<1>13. /\ PlacesOK(Output, OutputOf(m_frames), m_outputPictureAvailableBuffer, lent)
       /\ PlacesOK(Base, BaseOf(m_frames), m_basePictureOutBuffer, lent)
  <2>1. \A t \in FrameTime : OutputOf(m_frames)[t] = Nothing /\ BaseOf(m_frames)[t] = Nothing
    BY <1>1 DEF OutputOf, BaseOf
  <2>2. Nothing \notin Output /\ Nothing \notin Base /\ lent = {}
    BY VulkanAssumption DEF VulkanInit
  <2> QED BY <1>3, <1>4, <1>5, <2>1, <2>2 DEF PlacesOK
<1>14. ~Runnable
  BY <1>1 DEF Runnable, Frames
<1> QED BY <1>9, <1>10, <1>11, <1>12, <1>13, <1>14 DEF VulkanInvariant, PicturesOK

LEMMA VulkanStutters ==
    ASSUME VulkanInvariant, UNCHANGED vulkanVars
    PROVE  VulkanInvariant'
BY DEF VulkanInvariant, VulkanTypes, PicturesOK, Runnable, Frames, InputsMet, TaskOf, vulkanVars, indexVars, orderVars,
       temporalVars, queueVars, clientVars

LEMMA VulkanCallKeeps ==
    ASSUME VulkanInvariant, VulkanCall
    PROVE  VulkanInvariant'
<1>1. CASE \E t \in FrameTime : \E p \in Enhancement : SendEnhancementData(t, p)
  BY <1>1, SendEnhancementDataKeeps
<1>2. CASE \E t \in FrameTime : \E b \in Base : sendBaseOfFrame(t, b) \/ sendBaseAlone(t, b)
  BY <1>2, SendBaseOfFrameKeeps, SendBaseAloneKeeps
<1>3. CASE \E t \in FrameTime : StartProcessing(t) \/ Skip(t)
  BY <1>3, StartProcessingKeeps, SkipKeeps
<1>4. CASE \E u \in Output : SendOutputPicture(u)
  BY <1>4, SendOutputPictureKeeps
<1>5. CASE ReceiveOutputPicture \/ ReceiveFinishedBasePicture \/ DestroyPipeline
  BY <1>5, ReceiveOutputPictureKeeps, ReceiveFinishedBasePictureKeeps, DestroyPipelineKeeps
<1>6. CASE \E drop \in BOOLEAN : Synchronize(drop)
  BY <1>6, SynchronizeKeeps
<1> QED BY <1>1, <1>2, <1>3, <1>4, <1>5, <1>6 DEF VulkanCall

(* What every call, task, start and connection of the Vulkan pipeline      *)
(* keeps: each frame's tasks can be run in turn once its pictures and its  *)
(* buffer have come, a buffer that is held belongs to one frame and goes   *)
(* on to the next good one, every picture the client has lent is in one    *)
(* place, and between calls no task could run: startReadyFrames(),         *)
(* releaseTemporalBuffer() and connectOutputPictures() of                  *)
(* pipeline_vulkan.cpp.                                                    *)
THEOREM VulkanInvariantHolds == VulkanSpec => []VulkanInvariant
<1>1. VulkanInit => VulkanInvariant
  BY VulkanInitOK
<1>2. ASSUME VulkanInvariant, [VulkanNext]_vulkanVars PROVE VulkanInvariant'
  BY <1>2, VulkanCallKeeps, StartFrameKeeps, ConnectKeeps, GoOnKeeps, RunTaskKeeps, VulkanStutters DEF VulkanNext
<1> QED BY <1>1, <1>2, PTL DEF VulkanSpec

-----------------------------------------------------------------------------
(* Between calls.                                                          *)

LEMMA PicturesPlaced ==
    ASSUME VulkanInvariant, call # "destroyed"
    PROVE  PicturesInPlace
<1>1. /\ m_frames \in FrameMap /\ m_basePictureOutBuffer \in Seq(Base \cup {Nothing})
      /\ m_outputPictureAvailableBuffer \in Seq(Output)
      /\ PlacesOK(Output, OutputOf(m_frames), m_outputPictureAvailableBuffer, lent)
      /\ stream.prudent => PlacesOK(Base, BaseOf(m_frames), m_basePictureOutBuffer, lent)
  BY DEF VulkanInvariant, VulkanTypes, FrameMap, PicturesOK
<1>2. Base \cap Output = {} /\ Nothing \notin Base /\ Nothing \notin Output
  BY VulkanAssumption
<1>3. PICK bases, outputs : bases = m_basePictureOutBuffer /\ outputs = m_outputPictureAvailableBuffer
  OBVIOUS
<1>4. /\ DOMAIN bases = 1 .. Len(bases) /\ DOMAIN outputs = 1 .. Len(outputs)
      /\ \A i \in 1 .. Len(bases) : bases[i] \in Base \cup {Nothing}
      /\ \A i \in 1 .. Len(outputs) : outputs[i] \in Output
  BY <1>1, <1>3
<1>5. ASSUME NEW t \in FrameTime
      PROVE  /\ t \in Frames => m_frames[t].outputPicture \in Output \cup {Nothing}
             /\ t \in Frames => m_frames[t].basePicture \in Base \cup {Nothing}
             /\ t \in Frames => OutputOf(m_frames)[t] = m_frames[t].outputPicture
             /\ t \in Frames => BaseOf(m_frames)[t] = m_frames[t].basePicture
             /\ t \notin Frames => OutputOf(m_frames)[t] = Nothing /\ BaseOf(m_frames)[t] = Nothing
  BY <1>1, FrameMapIs, FrameIs DEF Frames, OutputOf, BaseOf
<1>6. \A t \in Frames : t \in FrameTime
  BY DEF Frames
<1> SUFFICES ASSUME NEW u \in (IF stream.prudent THEN Base \cup Output ELSE Output), NEW held, NEW queued,
                    held = {t \in Frames : m_frames[t].outputPicture = u \/ m_frames[t].basePicture = u},
                    queued = {i \in DOMAIN outputs : outputs[i] = u} \cup {i \in DOMAIN bases : bases[i] = u}
             PROVE  Cardinality(held) + Cardinality(queued) = (IF u \in lent THEN 1 ELSE 0)
  BY <1>3 DEF PicturesInPlace
<1>7. CASE u \in Output
  <2>1. u \notin Base /\ u # Nothing
    BY <1>2, <1>7
  <2>2. held = {t \in FrameTime : OutputOf(m_frames)[t] = u}
    BY <1>5, <1>6, <2>1
  <2>3. queued = {i \in 1 .. Len(outputs) : outputs[i] = u}
    BY <1>4, <2>1
  <2> QED BY <1>1, <1>3, <1>7, <2>2, <2>3, PlacesCount
<1>8. CASE u \in Base /\ stream.prudent
  <2>1. u \notin Output /\ u # Nothing
    BY <1>2, <1>8
  <2>2. held = {t \in FrameTime : BaseOf(m_frames)[t] = u}
    BY <1>5, <1>6, <2>1
  <2>3. queued = {i \in 1 .. Len(bases) : bases[i] = u}
    BY <1>4, <2>1
  <2> QED BY <1>1, <1>3, <1>8, <2>2, <2>3, PlacesCount
<1> QED BY <1>7, <1>8

LEMMA PendingIs ==
    ASSUME VulkanInvariant, NEW t, Pending(m_frames, t)
    PROVE  /\ t \in Frames /\ m_frames[t].needsBuffer /\ m_frames[t].tasks # <<>>
           /\ \E j \in 1 .. Len(m_processingIndex) : m_processingIndex[j] = t
<1>1. PICK f : f = m_frames[t]
  OBVIOUS
<1>2. t \in Frames /\ t \in FrameTime /\ f # Nothing /\ Has(f.tasks, "TemporalRelease")
  BY <1>1 DEF Pending, Frames
<1>3. PICK k \in 1 .. Len(f.tasks) : f.tasks[k].does = "TemporalRelease"
  BY <1>2 DEF Has
<1>4. FrameOK(t, f, m_temporalBuffers, stream.prudent, latestBase)
  BY <1>1, <1>2, FrameFacts
<1>5. f.needsBuffer
  BY <1>3, <1>4 DEF FrameOK, TasksOK, ListOK, TaskOK
<1>6. f.tasks # <<>>
  <2>1. Len(<<>>) = 0
    OBVIOUS
  <2> QED BY <1>3, <2>1
<1>7. f.m_state # "Reorder"
  BY <1>4, <1>6 DEF FrameOK, StateOK
<1>8. IndexOK(m_frames, m_reorderIndex, m_processingIndex)
  BY DEF VulkanInvariant
<1>9. \E j \in 1 .. Len(m_processingIndex) : m_processingIndex[j] = t
  BY <1>1, <1>2, <1>7, <1>8 DEF IndexOK
<1> QED BY <1>1, <1>2, <1>5, <1>6, <1>9

\* A frame that has no buffer waits for one that was started before it.
LEMMA WaitsBehind ==
    ASSUME VulkanInvariant, goodInOrder, NEW i \in 1 .. Len(m_processingIndex),
           Waiting(m_frames[m_processingIndex[i]])
    PROVE  \E j \in 1 .. i - 1 : j \in 1 .. Len(m_processingIndex) /\ Pending(m_frames, m_processingIndex[j])
<1>1. PICK processing, anchors, lastGood, temporalEnabled, t, f :
        /\ processing = m_processingIndex /\ anchors = m_temporalBuffers /\ lastGood = m_lastGoodTimestamp
        /\ temporalEnabled = stream.settings.temporalEnabled /\ t = processing[i] /\ f = m_frames[t]
  OBVIOUS
<1>2. processing \in Seq(FrameTime) /\ ChainOK(m_frames, processing, anchors, lastGood, temporalEnabled)
  BY <1>1 DEF VulkanInvariant, VulkanTypes
<1>3. i \in 1 .. Len(processing) /\ Waiting(m_frames[processing[i]]) /\ f.needsBuffer
  BY <1>1 DEF Waiting
<1>4. f.wanted # t /\ Pending(m_frames, f.wanted) /\ f.wanted < t
  BY <1>1, <1>2, <1>3, WaitingChain
<1>5. PICK w : w = f.wanted
  OBVIOUS
<1>6. PICK j \in 1 .. Len(processing) : processing[j] = w
  BY <1>1, <1>4, <1>5, PendingIs
<1>7. m_frames[w].needsBuffer /\ w \in Frames
  BY <1>4, <1>5, PendingIs
<1>8. w \in Nat /\ t \in Nat /\ m_frames[w].wanted \in Nat
  <2>1. w \in FrameTime /\ t \in FrameTime /\ m_frames[w] \in FrameRecord
    BY <1>1, <1>2, <1>3, <1>7, FrameFacts
  <2> QED BY <2>1, VulkanAssumption, FrameIs
<1>9. ~(i < j)
  <2> SUFFICES ASSUME i < j PROVE FALSE
    OBVIOUS
  <2>1. t <= m_frames[w].wanted /\ m_frames[w].wanted <= w
    BY <1>1, <1>2, <1>3, <1>6, <1>7 DEF ChainOK
  <2> QED BY <1>4, <1>5, <1>8, <2>1
<1>10. i # j
  BY <1>1, <1>4, <1>5, <1>6
<1>11. j \in 1 .. i - 1
  <2>1. i \in Nat /\ j \in Nat /\ j >= 1
    BY <1>3, <1>6
  <2> QED BY <1>9, <1>10, <2>1
<1> QED BY <1>1, <1>4, <1>5, <1>6, <1>11

LEMMA SettledFrame ==
    ASSUME VulkanInvariant, ~Runnable, NEW t \in Frames, NEW f, f = m_frames[t], f.tasks # <<>>
    PROVE  /\ ~(External(f.needsBuffer) \subseteq f.dependenciesMet)
           /\ ~(Has(f.tasks, "TemporalRelease") /\ External(f.needsBuffer) \ {m_depOutputPicture} \subseteq f.dependenciesMet)
<1> SUFFICES ASSUME \/ External(f.needsBuffer) \subseteq f.dependenciesMet
                    \/ /\ Has(f.tasks, "TemporalRelease")
                       /\ External(f.needsBuffer) \ {m_depOutputPicture} \subseteq f.dependenciesMet
             PROVE  FALSE
  OBVIOUS
<1>1. f \in FrameRecord /\ FrameOK(t, f, m_temporalBuffers, stream.prudent, latestBase)
  BY FrameFacts
<1>2. /\ f.tasks \in Seq(Tasks) /\ f.needsBuffer \in BOOLEAN
      /\ ListOK(f.needsBuffer, f.dependenciesMet, f.tasks)
  BY <1>1, FrameIs DEF FrameOK, TasksOK
<1>3. 1 \in DOMAIN f.tasks /\ f.tasks[1].inputs \subseteq f.dependenciesMet
  <2>1. PICK temporal, met, tasks : temporal = f.needsBuffer /\ met = f.dependenciesMet /\ tasks = f.tasks
    OBVIOUS
  <2>2. /\ temporal \in BOOLEAN /\ tasks \in Seq(Tasks) /\ tasks # <<>> /\ ListOK(temporal, met, tasks)
        /\ \/ External(temporal) \subseteq met
           \/ Has(tasks, "TemporalRelease") /\ External(temporal) \ {m_depOutputPicture} \subseteq met
    BY <1>2, <2>1
  <2>3. 1 \in DOMAIN tasks /\ tasks[1].inputs \subseteq met
    BY ONLY <2>2, FirstRuns
  <2> QED BY <2>1, <2>3
<1> QED BY <1>3 DEF Runnable, InputsMet, TaskOf

(* Between calls every task that could run has run: no frame that can      *)
(* complete is left, a frame that is done holds no task, a frame that      *)
(* lacks only its temporal buffer has an earlier one in processing that    *)
(* lacks its base, and every picture the client has lent is in one place.  *)
(* For every number of frames, tiles and buffers, and every client:        *)
(* runTasks(), releaseTemporalBuffer() and receiveOutputPicture() of       *)
(* pipeline_vulkan.cpp.                                                    *)
THEOREM FramesAlwaysSettle == VulkanSpec => []FramesSettle
<1>1. VulkanInvariant => FramesSettle
  <2> SUFFICES ASSUME VulkanInvariant, call = "idle", ~broken PROVE FramesSettle
    BY DEF FramesSettle
  <2>1. ~Runnable /\ call # "destroyed"
    BY DEF VulkanInvariant
  <2>2. PicturesInPlace
    BY <2>1, PicturesPlaced
  <2>3. m_processingIndex \in Seq(FrameTime) /\ IndexOK(m_frames, m_reorderIndex, m_processingIndex)
    BY DEF VulkanInvariant, VulkanTypes
  <2>4. DOMAIN m_processingIndex = 1 .. Len(m_processingIndex)
    BY <2>3
  <2>5. ASSUME NEW i \in 1 .. Len(m_processingIndex), NEW f, f = m_frames[m_processingIndex[i]]
        PROVE  /\ ~canComplete(f) /\ (f.m_state = "Done" => f.tasks = <<>>)
               /\ WaitsOnlyForBuffer(f) /\ goodInOrder =>
                    \E j \in 1 .. i - 1 : m_depBasePicture \notin m_frames[m_processingIndex[j]].dependenciesMet
    <3>1. PICK t : t = m_processingIndex[i]
      OBVIOUS
    <3>2. t \in Frames /\ f = m_frames[t]
      BY <2>3, <2>5, <3>1 DEF IndexOK, Frames
    <3>3. f \in FrameRecord /\ StateOK(f)
      BY <3>2, FrameFacts DEF FrameOK
    <3>4. ~canComplete(f)
      <4> SUFFICES ASSUME canComplete(f) PROVE FALSE
        OBVIOUS
      <4>1. External(f.needsBuffer) \subseteq f.dependenciesMet /\ Has(f.tasks, "OutputDone")
        BY <3>3 DEF canComplete, External, StateOK
      <4>2. f.tasks # <<>>
        <5>1. Len(<<>>) = 0
          OBVIOUS
        <5> QED BY <4>1, <5>1 DEF Has
      <4> QED BY <2>1, <3>2, <4>1, <4>2, SettledFrame
    <3>5. f.m_state = "Done" => f.tasks = <<>>
      BY <2>1, <3>2, <3>3, SettledFrame DEF StateOK
    <3>6. ASSUME WaitsOnlyForBuffer(f), goodInOrder
          PROVE  \E j \in 1 .. i - 1 : m_depBasePicture \notin m_frames[m_processingIndex[j]].dependenciesMet
      <4> DEFINE U == {j \in 1 .. Len(m_processingIndex) : Pending(m_frames, m_processingIndex[j])}
      <4>1. Waiting(m_frames[m_processingIndex[i]])
        BY <2>5, <3>6 DEF WaitsOnlyForBuffer, Waiting
      <4>2. PICK l \in 1 .. i - 1 : l \in U
        BY <3>6, <4>1, WaitsBehind
      <4>3. U \in SUBSET Nat /\ U # {}
        BY <4>2
      <4>4. PICK j \in U : \A m \in U : j <= m
        <5> HIDE DEF U
        <5> QED BY <4>3, LeastNumber
      <4>5. j \in 1 .. i - 1 /\ j \in 1 .. Len(m_processingIndex) /\ j \in Nat
        BY <4>2, <4>4
      <4>6. ~Waiting(m_frames[m_processingIndex[j]])
        <5> SUFFICES ASSUME Waiting(m_frames[m_processingIndex[j]]) PROVE FALSE
          OBVIOUS
        <5>1. PICK m \in 1 .. j - 1 : m \in U
          BY <3>6, <4>5, WaitsBehind
        <5>2. m < j /\ j <= m /\ m \in Nat
          BY <4>4, <4>5, <5>1
        <5> QED BY <4>5, <5>2
      <4>7. PICK s, g : s = m_processingIndex[j] /\ g = m_frames[s]
        OBVIOUS
      <4>8. Pending(m_frames, s)
        BY <4>4, <4>7
      <4>9. s \in Frames /\ g.needsBuffer /\ g.tasks # <<>>
        BY <4>7, <4>8, PendingIs
      <4>10. Has(g.tasks, "TemporalRelease")
        BY <4>7, <4>8 DEF Pending
      <4>11. m_depTemporalBuffer \in g.dependenciesMet
        BY <4>6, <4>7, <4>9 DEF Waiting
      <4>12. ~(External(g.needsBuffer) \ {m_depOutputPicture} \subseteq g.dependenciesMet)
        BY <2>1, <4>7, <4>9, <4>10, SettledFrame
      <4>13. m_depBasePicture \notin g.dependenciesMet
        BY <4>9, <4>11, <4>12 DEF External
      <4> QED BY <4>5, <4>7, <4>13
    <3> QED BY <3>4, <3>5, <3>6
  <2> QED BY <2>2, <2>4, <2>5 DEF FramesSettle
<1> QED BY <1>1, VulkanInvariantHolds, PTL
=============================================================================
