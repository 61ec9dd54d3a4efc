-------------------------- MODULE FilterThreadPool --------------------------
(***************************************************************************)
(* The pool of threads that evaluates filters on columns                   *)
(* (src/include/inner_column.h, FilterThreadPool).                         *)
(*                                                                         *)
(* The caller of run and every worker share one mutex and ONE condition    *)
(* variable per worker: run signals the worker on it, the worker signals   *)
(* its end on it, and so does the destructor.  Each side checks its        *)
(* predicate under the mutex before it waits and after it wakes; wake-ups  *)
(* may be spurious.  A worker applies the function while it holds its      *)
(* mutex; function and num_tasks themselves are protected by nothing.      *)
(*                                                                         *)
(* The lock_guard blocks of run and of the destructor touch nothing but    *)
(* what the mutex protects, so each is one step taken when the mutex is    *)
(* free.  The caller is one thread: it calls run any number of times, up   *)
(* to MaxRuns, and destroys the pool.                                      *)
(***************************************************************************)
EXTENDS Integers, FiniteSets

CONSTANTS
    NumThreads,     \* threads.size()
    TaskCounts,     \* the num_tasks callers pass
    MaxRuns,        \* BOUND: calls of run
    MaxSpurious     \* BOUND: spurious wake-ups

ASSUME PoolConstants ==
    /\ NumThreads \in Nat \ {0}
    /\ TaskCounts \subseteq Nat
    /\ MaxRuns \in Nat
    /\ MaxSpurious \in Nat

Worker == 0 .. (NumThreads - 1)

VARIABLES
    main,           \* where the caller is
    place,          \* i: loop index of run and of the destructor
    pc,             \* where every worker is
    owner,          \* owner[w]: who holds mtxes[w]
    has_function, finished, destructed,
    num_tasks,
    applied,        \* history: how often a task was applied in this call
    runs,           \* history: calls of run
    spurious        \* history: spurious wake-ups

flagVars == <<has_function, finished, destructed>>
poolVars == <<main, place, pc, owner, flagVars, num_tasks, applied, runs, spurious>>

PoolInit ==
    /\ main = "idle"
    /\ place = 0
    /\ pc = [w \in Worker |-> "lock"]
    /\ owner = [w \in Worker |-> "free"]
    /\ has_function = [w \in Worker |-> FALSE]
    /\ finished = [w \in Worker |-> FALSE]
    /\ destructed = [w \in Worker |-> FALSE]
    /\ num_tasks = 0
    /\ applied = [k \in {} |-> 0]
    /\ runs = 0
    /\ spurious = 0

\* begin_idx: worker w gets the tasks BeginIdx(w) .. BeginIdx(w + 1) - 1
BeginIdx(w) ==
    LET base == num_tasks \div NumThreads
        rem == num_tasks % NumThreads
    IN  w * base + (IF w < rem THEN w ELSE rem)

\* The predicate a worker waits for.
Called(w) == destructed[w] \/ (has_function[w] /\ ~finished[w])

-----------------------------------------------------------------------------
(* run_loop *)

WorkerLock(w) ==
    /\ pc[w] = "lock"
    /\ owner[w] = "free"
    /\ owner' = [owner EXCEPT ![w] = "worker"]
    /\ pc' = [pc EXCEPT ![w] = "check"]
    /\ UNCHANGED <<main, place, flagVars, num_tasks, applied, runs, spurious>>

\* MUTANT: the mutex is released before the worker is in the wait set.
WorkerWaitGap(w) ==
    /\ pc[w] \in {"check", "gap"}
    /\ pc[w] = "check" => ~Called(w)
    /\ owner' = [owner EXCEPT ![w] = IF pc[w] = "check" THEN "free" ELSE @]
    /\ pc' = [pc EXCEPT ![w] = IF @ = "check" THEN "gap" ELSE "wait"]
    /\ UNCHANGED <<main, place, flagVars, num_tasks, applied, runs, spurious>>

\* cv.wait: the mutex is released and the wait begins in one step
WorkerWait(w) ==
    /\ pc[w] = "check"
    /\ ~Called(w)
    /\ owner' = [owner EXCEPT ![w] = "free"]
    /\ pc' = [pc EXCEPT ![w] = "wait"]
    /\ UNCHANGED <<main, place, flagVars, num_tasks, applied, runs, spurious>>

\* MUTANT: the loop is left with the mutex held.
WorkerExitHolds(w) ==
    /\ pc[w] = "check"
    /\ destructed[w]
    /\ pc' = [pc EXCEPT ![w] = "exited"]
    /\ UNCHANGED <<main, place, owner, flagVars, num_tasks, applied, runs, spurious>>

\* if (destructed[thread_id]) break;
WorkerExit(w) ==
    /\ pc[w] = "check"
    /\ destructed[w]
    /\ owner' = [owner EXCEPT ![w] = "free"]
    /\ pc' = [pc EXCEPT ![w] = "exited"]
    /\ UNCHANGED <<main, place, flagVars, num_tasks, applied, runs, spurious>>

\* function(begin, end), under the mutex
WorkerApply(w) ==
    /\ pc[w] = "check"
    /\ Called(w)
    /\ ~destructed[w]
    /\ applied' = [k \in DOMAIN applied |->
                     IF k \in BeginIdx(w) .. (BeginIdx(w + 1) - 1) THEN applied[k] + 1
                                                                   ELSE applied[k]]
    /\ pc' = [pc EXCEPT ![w] = "finish"]
    /\ UNCHANGED <<main, place, owner, flagVars, num_tasks, runs, spurious>>

\* finished[thread_id] = true; lk.unlock();
WorkerFinish(w) ==
    /\ pc[w] = "finish"
    /\ finished' = [finished EXCEPT ![w] = TRUE]
    /\ owner' = [owner EXCEPT ![w] = "free"]
    /\ pc' = [pc EXCEPT ![w] = "notify"]
    /\ UNCHANGED <<main, place, has_function, destructed, num_tasks, applied, runs,
                   spurious>>

\* cv.notify_one(), after the mutex is released: the caller may be waiting for
\* this worker, or have gone on, even to the next call of run
WorkerNotify(w) ==
    /\ pc[w] = "notify"
    /\ pc' = [pc EXCEPT ![w] = "lock"]
    /\ main' = IF main = "wait" /\ place = w THEN "relock" ELSE main
    /\ UNCHANGED <<place, owner, flagVars, num_tasks, applied, runs, spurious>>

-----------------------------------------------------------------------------
(* run *)

\* this->function = ...; this->num_tasks = num_tasks;
Run ==
    /\ main = "idle"
    /\ runs < MaxRuns
    /\ \E n \in TaskCounts :
          /\ num_tasks' = n
          /\ applied' = [k \in 0 .. (n - 1) |-> 0]
    /\ runs' = runs + 1
    /\ main' = "arm"
    /\ place' = 0
    /\ UNCHANGED <<pc, owner, flagVars, spurious>>

\* The next worker, or the next loop.
Advance(loop) ==
    /\ place' = IF place + 1 < NumThreads THEN place + 1 ELSE 0
    /\ main' = IF place + 1 < NumThreads THEN main ELSE loop

\* MUTANT: finished keeps its value from the previous call.
ArmStale ==
    /\ main = "arm"
    /\ owner[place] = "free"
    /\ has_function' = [has_function EXCEPT ![place] = TRUE]
    /\ Advance("notify")
    /\ UNCHANGED <<pc, owner, finished, destructed, num_tasks, applied, runs, spurious>>

\* The first loop, under lock_guard.
Arm ==
    /\ main = "arm"
    /\ owner[place] = "free"
    /\ has_function' = [has_function EXCEPT ![place] = TRUE]
    /\ finished' = [finished EXCEPT ![place] = FALSE]
    /\ Advance("notify")
    /\ UNCHANGED <<pc, owner, destructed, num_tasks, applied, runs, spurious>>

\* The second loop: cv.notify_one() without the mutex.
Notify ==
    /\ main = "notify"
    /\ pc' = IF pc[place] = "wait" THEN [pc EXCEPT ![place] = "lock"] ELSE pc
    /\ Advance("await")
    /\ UNCHANGED <<owner, flagVars, num_tasks, applied, runs, spurious>>

\* The third loop: unique_lock and cv.wait.
AwaitLock ==
    /\ main \in {"await", "relock"}
    /\ owner[place] = "free"
    /\ owner' = [owner EXCEPT ![place] = "main"]
    /\ main' = "check"
    /\ UNCHANGED <<place, pc, flagVars, num_tasks, applied, runs, spurious>>

AwaitWait ==
    /\ main = "check"
    /\ ~finished[place]
    /\ owner' = [owner EXCEPT ![place] = "free"]
    /\ main' = "wait"
    /\ UNCHANGED <<place, pc, flagVars, num_tasks, applied, runs, spurious>>

\* MUTANT: run returns when one worker is done.
AwaitFirst ==
    /\ main = "check"
    /\ finished[place]
    /\ owner' = [owner EXCEPT ![place] = "free"]
    /\ main' = "idle"
    /\ place' = 0
    /\ UNCHANGED <<pc, flagVars, num_tasks, applied, runs, spurious>>

\* The worker is done; after the last one run returns.
AwaitNext ==
    /\ main = "check"
    /\ finished[place]
    /\ owner' = [owner EXCEPT ![place] = "free"]
    /\ main' = IF place + 1 < NumThreads THEN "await" ELSE "idle"
    /\ place' = IF place + 1 < NumThreads THEN place + 1 ELSE 0
    /\ UNCHANGED <<pc, flagVars, num_tasks, applied, runs, spurious>>

-----------------------------------------------------------------------------
(* ~FilterThreadPool *)

Destroy ==
    /\ main = "idle"
    /\ main' = "flag"
    /\ place' = 0
    /\ UNCHANGED <<pc, owner, flagVars, num_tasks, applied, runs, spurious>>

Flag ==
    /\ main = "flag"
    /\ owner[place] = "free"
    /\ destructed' = [destructed EXCEPT ![place] = TRUE]
    /\ Advance("wake")
    /\ UNCHANGED <<pc, owner, has_function, finished, num_tasks, applied, runs, spurious>>

\* MUTANT: one worker is woken for all.
WakeFirst ==
    /\ main = "wake"
    /\ pc' = IF place = 0 /\ pc[place] = "wait" THEN [pc EXCEPT ![place] = "lock"] ELSE pc
    /\ Advance("join")
    /\ UNCHANGED <<owner, flagVars, num_tasks, applied, runs, spurious>>

Wake ==
    /\ main = "wake"
    /\ pc' = IF pc[place] = "wait" THEN [pc EXCEPT ![place] = "lock"] ELSE pc
    /\ Advance("join")
    /\ UNCHANGED <<owner, flagVars, num_tasks, applied, runs, spurious>>

Join ==
    /\ main = "join"
    /\ pc[place] = "exited"
    /\ Advance("destroyed")
    /\ UNCHANGED <<pc, owner, flagVars, num_tasks, applied, runs, spurious>>

-----------------------------------------------------------------------------
\* A wait may end without a notification.
SpuriousWake ==
    /\ spurious < MaxSpurious
    /\ spurious' = spurious + 1
    /\ \/ \E w \in Worker : pc[w] = "wait" /\ pc' = [pc EXCEPT ![w] = "lock"] /\ UNCHANGED main
       \/ main = "wait" /\ main' = "relock" /\ UNCHANGED pc
    /\ UNCHANGED <<place, owner, flagVars, num_tasks, applied, runs>>

WorkerStep(w) ==
    \/ WorkerLock(w)
    \/ WorkerWait(w)
    \/ WorkerExit(w)
    \/ WorkerApply(w)
    \/ WorkerFinish(w)
    \/ WorkerNotify(w)

RunStep == Arm \/ Notify \/ AwaitLock \/ AwaitWait \/ AwaitNext

DestroyStep == Flag \/ Wake \/ Join

Destroyed == main = "destroyed" /\ UNCHANGED poolVars

PoolNext ==
    \/ \E w \in Worker : WorkerStep(w)
    \/ Run
    \/ RunStep
    \/ Destroy
    \/ DestroyStep
    \/ SpuriousWake
    \/ Destroyed

PoolSpec == PoolInit /\ [][PoolNext]_poolVars

\* Every thread that can go on does; nothing makes the caller call or destroy.
PoolFairSpec ==
    /\ PoolSpec
    /\ \A w \in Worker : WF_poolVars(WorkerStep(w))
    /\ WF_poolVars(RunStep)
    /\ WF_poolVars(DestroyStep)

-----------------------------------------------------------------------------
(* Properties. *)

Running == main \in {"arm", "notify", "await", "check", "wait", "relock"}

\* Program counters, flags and mutexes; a mutex is held where the code holds it.
PoolTypeOK ==
    /\ main \in {"idle", "arm", "notify", "await", "check", "wait", "relock",
                 "flag", "wake", "join", "destroyed"}
    /\ place \in Worker
    /\ pc \in [Worker -> {"lock", "check", "wait", "finish", "notify", "exited"}]
    /\ owner = [w \in Worker |->
                  IF pc[w] \in {"check", "finish"} THEN "worker"
                  ELSE IF main = "check" /\ place = w THEN "main" ELSE "free"]
    /\ has_function \in [Worker -> BOOLEAN]
    /\ finished \in [Worker -> BOOLEAN]
    /\ destructed \in [Worker -> BOOLEAN]
    /\ num_tasks \in Nat
    /\ DOMAIN applied = 0 .. (num_tasks - 1)
    /\ runs \in 0 .. MaxRuns
    /\ spurious \in 0 .. MaxSpurious

\* Whenever the caller may write function and num_tasks or destroy the pool, no
\* worker is applying the function or about to: the two are read unprotected.
CallerOwnsFunction ==
    ~Running => \A w \in Worker :
        /\ pc[w] # "finish"
        /\ ~(has_function[w] /\ ~finished[w])

\* No wake-up is lost.  A worker that sleeps through its call still has the
\* notification of run or of the destructor before it, and the caller that
\* sleeps though the worker has finished still has the worker's.  They never
\* sleep on one condition variable together, so notify_one wakes the right one.
NoLostWakeup ==
    /\ \A w \in Worker : pc[w] = "wait" /\ Called(w) =>
          main \in {"arm", "flag"} \/ (main \in {"notify", "wake"} /\ place <= w)
    /\ main = "wait" => pc[place] # "wait" /\ (finished[place] => pc[place] = "notify")

\* run applies the function to every task once, and all of it before it returns.
Abstract == INSTANCE ParallelFor WITH running <- Running

ImplementsParallelFor == Abstract!Safety

\* Every call of run returns, though the caller and the worker it waits for sleep on
\* the same condition variable and wake each other with notify_one.  So does the
\* destructor: every worker leaves its loop, wherever it was, and is joined.
CallerReturns ==
    /\ []<>~Running
    /\ main = "flag" ~> main = "destroyed"
=============================================================================
