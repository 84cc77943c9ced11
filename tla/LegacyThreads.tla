---------------------------- MODULE LegacyThreads ----------------------------
(***************************************************************************)
(* The threads of the legacy decoder: each has a mutex and one condition   *)
(* variable, on which it sleeps for work and its user for the work's end.  *)
(* A user shares out a call's jobs, runs one itself and waits for the      *)
(* others.  What is done with the mutex held is one step, since it is let  *)
(* go only by waiting; dead, the job and its result are also read without  *)
(* it, in steps of their own.  legacy/decoder/src/common/threading.c       *)
(***************************************************************************)
EXTENDS Integers

CONSTANTS NumThreads,
          Request,      \* calls: size jobs, or a range of that size in slices
          MaxRequests   \* bound: calls made before the release

ThreadsAssumption ==
  /\ NumThreads \in Nat /\ MaxRequests \in Nat
  /\ Request \subseteq [sliced : BOOLEAN, size : Nat, postRun : BOOLEAN]

VARIABLES busy, waited, dead, retval, job,   \* of each thread; waited is its wait
          loopAt,                            \* where each thread is in its loop
          callerAt, request, nextOffset,     \* what the user of the threads does
          threadIdx, joining, res,
          requests,
          ran,                               \* history: how often each part was run
          anyFailed                          \* history: a part of the request failed

threadVars == <<busy, waited, dead, retval, job, loopAt, callerAt, request, nextOffset,
                threadIdx, joining, res, requests, ran, anyFailed>>

Worker == 0 .. NumThreads - 1
Parts == 0 .. request.size - 1
NoRequest == [sliced |-> FALSE, size |-> 0, postRun |-> FALSE]

\* threadingInitialise()
ThreadsInit ==
  /\ busy = [i \in Worker |-> FALSE] /\ waited = [i \in Worker |-> FALSE]
  /\ dead = [i \in Worker |-> FALSE] /\ retval = [i \in Worker |-> 0]
  /\ job = [i \in Worker |-> [offset |-> 0, count |-> 0]]
  /\ loopAt = [i \in Worker |-> "test"]
  /\ callerAt = "idle" /\ request = NoRequest /\ nextOffset = 0
  /\ threadIdx = 0 /\ joining = 0 /\ res = TRUE /\ requests = 0
  /\ ran = [e \in Parts |-> 0] /\ anyFailed = FALSE

-----------------------------------------------------------------------------
(* The loop of thread i.                                                   *)

ranVars == <<ran, anyFailed>>
callVars == <<callerAt, request, nextOffset, threadIdx, joining, res, requests>>
sharedVars == <<busy, waited, dead, job>>

\* while (!thread->dead), which is read without the mutex
TestDead(i) ==
  /\ loopAt[i] = "test"
  /\ loopAt' = [loopAt EXCEPT ![i] = IF dead[i] THEN "exited" ELSE "lock"]
  /\ UNCHANGED <<sharedVars, retval, callVars, ranVars>>

AwaitWork(i) ==
  /\ loopAt[i] = "lock"
  /\ loopAt' = [loopAt EXCEPT ![i] = IF ~busy[i] /\ ~dead[i] THEN "asleep" ELSE "awake"]
  /\ UNCHANGED <<sharedVars, retval, callVars, ranVars>>

\* A wait of half a second, or one that ends unasked.
WaitEnds(i) ==
  /\ loopAt[i] = "asleep"
  /\ loopAt' = [loopAt EXCEPT ![i] = "lock"]
  /\ UNCHANGED <<sharedVars, retval, callVars, ranVars>>

StartJob(i) ==
  /\ loopAt[i] = "awake"
  /\ loopAt' = [loopAt EXCEPT ![i] = IF dead[i] THEN "test" ELSE "run"]
  /\ UNCHANGED <<sharedVars, retval, callVars, ranVars>>

\* A function that runs on some parts returns result.
RunsPart(j, result) ==
  /\ ran' = [e \in Parts |-> IF e \in j.offset .. j.offset + j.count - 1 THEN ran[e] + 1 ELSE ran[e]]
  /\ anyFailed' = (anyFailed \/ result # 0)

Results == {0, -1}

executeThreadJob(i) ==
  /\ loopAt[i] = "run"
  /\ \E result \in Results : RunsPart(job[i], result) /\ retval' = [retval EXCEPT ![i] = result]
  /\ loopAt' = [loopAt EXCEPT ![i] = "ran"]
  /\ UNCHANGED <<sharedVars, callVars>>

\* The user is told if it waits for this thread.
FinishJob(i) ==
  /\ loopAt[i] = "ran"
  /\ loopAt' = [loopAt EXCEPT ![i] = "test"]
  /\ busy' = [busy EXCEPT ![i] = FALSE]
  /\ waited' = [waited EXCEPT ![i] = FALSE]
  /\ callerAt' = IF waited[i] /\ callerAt = "asleep" /\ joining = i THEN "await" ELSE callerAt
  /\ UNCHANGED <<dead, retval, job, request, nextOffset, threadIdx, joining, res, requests, ranVars>>

-----------------------------------------------------------------------------
(* threadingExecuteJobs(), threadingExecuteSlicedJobsWithPostRun()         *)

loopVars == <<busy, waited, dead, retval, job, loopAt>>

\* The remainder of a division by no threads is left undefined: an assertion.
Execute(r) ==
  /\ callerAt = "idle" /\ requests < MaxRequests
  /\ r.sliced => NumThreads > 0
  /\ callerAt' = "submit" /\ request' = r /\ requests' = requests + 1
  /\ nextOffset' = 0 /\ threadIdx' = 0 /\ joining' = 0 /\ res' = TRUE
  /\ ran' = [e \in 0 .. r.size - 1 |-> 0] /\ anyFailed' = FALSE
  /\ UNCHANGED loopVars

\* A single job is run by the caller; of the slices, that is the last.
MoreToSubmit ==
  /\ threadIdx < NumThreads
  /\ IF request.sliced THEN NumThreads - threadIdx > 1
     ELSE request.size # 1 /\ nextOffset < request.size

perSliceCount == request.size \div NumThreads
JobSize == IF request.sliced THEN perSliceCount ELSE 1

\* A thread that sleeps is woken.
Notified(i) == [loopAt EXCEPT ![i] = IF @ = "asleep" THEN "lock" ELSE @]

\* The answer of a submission to a busy thread is not looked at.
SubmitJob ==
  /\ callerAt = "submit" /\ MoreToSubmit
  /\ IF busy[threadIdx] THEN UNCHANGED <<busy, job, loopAt>>
     ELSE /\ busy' = [busy EXCEPT ![threadIdx] = TRUE]
          /\ job' = [job EXCEPT ![threadIdx] = [offset |-> nextOffset, count |-> JobSize]]
          /\ loopAt' = Notified(threadIdx)
  /\ nextOffset' = nextOffset + JobSize
  /\ threadIdx' = threadIdx + 1
  /\ UNCHANGED <<waited, dead, retval, callerAt, request, joining, res, requests, ranVars>>

RunRemainder ==
  /\ callerAt = "submit" /\ ~MoreToSubmit
  /\ request.sliced \/ nextOffset < request.size
  /\ LET count == IF request.sliced THEN request.size - nextOffset ELSE 1
     IN  /\ \E result \in Results :
              RunsPart([offset |-> nextOffset, count |-> count], result) /\ res' = (res /\ result = 0)
         /\ nextOffset' = nextOffset + count
  /\ callerAt' = "await"
  /\ UNCHANGED <<loopVars, request, threadIdx, joining, requests>>

NoRemainder ==
  /\ callerAt = "submit" /\ ~MoreToSubmit
  /\ ~request.sliced /\ nextOffset = request.size
  /\ callerAt' = "await"
  /\ UNCHANGED <<loopVars, request, nextOffset, threadIdx, joining, res, requests, ranVars>>

\* Mutant: a wait that ends is taken for the end of the work.
AwaitOnce ==
  /\ callerAt \in {"await", "asleep"} /\ joining < threadIdx
  /\ waited' = [waited EXCEPT ![joining] = TRUE]
  /\ callerAt' = IF callerAt = "await" /\ busy[joining] THEN "asleep" ELSE "await"
  /\ IF callerAt' = "asleep" THEN UNCHANGED <<joining, res>>
     ELSE joining' = joining + 1 /\ res' = (res /\ retval[joining] = 0)
  /\ UNCHANGED <<busy, dead, retval, job, loopAt, request, nextOffset, threadIdx, requests, ranVars>>

\* The user looks at the thread, and again whenever its wait ends.
threadingWaitJob ==
  /\ callerAt \in {"await", "asleep"} /\ joining < threadIdx
  /\ IF busy[joining]
     THEN /\ waited' = [waited EXCEPT ![joining] = TRUE]
          /\ callerAt' = "asleep"
          /\ UNCHANGED <<joining, res>>
     ELSE /\ callerAt' = "await"
          /\ joining' = joining + 1
          /\ res' = (res /\ retval[joining] = 0)
          /\ UNCHANGED waited
  /\ UNCHANGED <<busy, dead, retval, job, loopAt, request, nextOffset, threadIdx, requests, ranVars>>

\* Jobs that are left are another round for all threads.
EndRound ==
  /\ callerAt = "await" /\ joining = threadIdx
  /\ callerAt' = IF ~request.sliced /\ nextOffset < request.size THEN "submit"
                 ELSE IF request.sliced /\ request.postRun THEN "post" ELSE "returned"
  /\ nextOffset' = IF callerAt' = "post" THEN 0 ELSE nextOffset
  /\ threadIdx' = 0 /\ joining' = 0
  /\ UNCHANGED <<loopVars, request, res, requests, ranVars>>

\* The function that follows is run for each slice by the caller.
PostRun ==
  /\ callerAt = "post"
  /\ LET last == threadIdx = NumThreads - 1
         count == IF last THEN request.size - nextOffset ELSE perSliceCount
     IN  /\ \E result \in Results :
              RunsPart([offset |-> nextOffset, count |-> count], result) /\ res' = (res /\ result = 0)
         /\ nextOffset' = nextOffset + count
         /\ threadIdx' = IF last THEN 0 ELSE threadIdx + 1
         /\ callerAt' = IF last THEN "returned" ELSE "post"
  /\ UNCHANGED <<loopVars, request, joining, requests>>

Return ==
  /\ callerAt = "returned"
  /\ callerAt' = "idle"
  /\ UNCHANGED <<loopVars, request, nextOffset, threadIdx, joining, res, requests, ranVars>>

\* threadingRelease(): every thread is told, then every one is joined.
threadingRelease ==
  /\ callerAt \in {"idle", "release"}
  /\ IF threadIdx < NumThreads
     THEN /\ dead' = [dead EXCEPT ![threadIdx] = TRUE]
          /\ loopAt' = Notified(threadIdx)
          /\ threadIdx' = threadIdx + 1
          /\ callerAt' = "release"
     ELSE callerAt' = "join" /\ UNCHANGED <<dead, loopAt, threadIdx>>
  /\ UNCHANGED <<busy, waited, retval, job, request, nextOffset, joining, res, requests, ranVars>>

threadStop ==
  /\ callerAt = "join"
  /\ IF joining < NumThreads
     THEN loopAt[joining] = "exited" /\ joining' = joining + 1 /\ UNCHANGED callerAt
     ELSE callerAt' = "released" /\ UNCHANGED joining
  /\ UNCHANGED <<loopVars, request, nextOffset, threadIdx, res, requests, ranVars>>

ThreadsNext ==
  \/ \E i \in Worker : \/ TestDead(i) \/ AwaitWork(i) \/ WaitEnds(i) \/ StartJob(i)
                       \/ executeThreadJob(i) \/ FinishJob(i)
  \/ \E r \in Request : Execute(r)
  \/ SubmitJob \/ RunRemainder \/ NoRemainder \/ threadingWaitJob \/ EndRound \/ PostRun \/ Return
  \/ threadingRelease \/ threadStop

ThreadsSpec == ThreadsInit /\ [][ThreadsNext]_threadVars

-----------------------------------------------------------------------------
\* A call has run each job, or given each part of its range to one slice, once
\* before it returns, and again for the function that follows; what it returns
\* says whether one of them failed.
EachRanOnce ==
  callerAt = "returned" =>
    /\ \A e \in Parts : ran[e] = IF request.sliced /\ request.postRun THEN 2 ELSE 1
    /\ res = ~anyFailed

\* No thread has work, and none uses the data of a call, when the call is over.
NoneRunsLate ==
  callerAt \notin {"submit", "await", "asleep"} =>
    \A i \in Worker : ~busy[i] /\ loopAt[i] \notin {"run", "ran"}

\* Nobody sleeps whom nobody will wake: not a thread that has work or is to end,
\* nor the user unless the thread it waits for knows, and still has to answer.
SleepersAreTold ==
  /\ \A i \in Worker : loopAt[i] = "asleep" => ~busy[i] /\ ~dead[i]
  /\ callerAt = "asleep" => busy[joining] /\ waited[joining]

\* What a user of the threads relies on, however they and the waits interleave.
JobsAccounted == EachRanOnce /\ NoneRunsLate /\ SleepersAreTold
=============================================================================
