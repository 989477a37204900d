----------------------------- MODULE ThreadPool -----------------------------
(***************************************************************************)
(* The thread pool of Source Code/src/ThreadPool.cpp.                      *)
(*                                                                         *)
(* A section executed under ThreadPoolMutex is one action; what the code   *)
(* does outside the mutex is an action of its own: the notify_one that     *)
(* Submit issues after unlocking, the decrement of ThreadPoolActiveJobs    *)
(* after the job, and the two unlocked reads of Join.  A thread blocked in *)
(* ThreadPool_CV.wait is a member of `waiting'; leaving that set (by a     *)
(* notification or spuriously) makes it evaluate the wait's predicate      *)
(* again.                                                                  *)
(*                                                                         *)
(* Jobs.empty() in Join is a data race with push and pop.  It compares two *)
(* pointers, of which a concurrent push or pop writes one, so what the     *)
(* build can return is the value before or after: the interleavings of     *)
(* JoinSeesEmpty with the other actions give both.                         *)
(***************************************************************************)
EXTENDS Naturals, Sequences, FiniteSets

CONSTANTS Worker, Job, NoJob

ASSUME PoolAssumption ==
  /\ IsFiniteSet(Worker)
  /\ Worker # {}          \* ConfigParser refuses a count of zero
  /\ NoJob \notin Job

VARIABLES
  jobs,      \* Jobs
  active,    \* ThreadPoolActiveJobs
  stop,      \* ThreadPoolStop
  wpc,       \* wpc[w]: where worker w is in WorkerThread
  running,   \* running[w]: the job w popped and has not finished, or NoJob
  waiting,   \* the workers blocked in ThreadPool_CV.wait
  unnotified,\* Submit calls that have unlocked and not yet notified
  joinPc,    \* where the owner is in Join
  dtorPc,    \* where the owner is in ~ThreadPool
  submitted, \* history: the jobs ever submitted
  finished,  \* history: the jobs that ran to their end
  joinDebt   \* history: what was submitted before the latest call of Join

vars == <<jobs, active, stop, wpc, running, waiting, unnotified, joinPc, dtorPc,
          submitted, finished, joinDebt>>

workerVars == <<wpc, running>>
ownerVars == <<joinPc, dtorPc, joinDebt>>

Init ==
  /\ jobs = <<>>
  /\ active = 0
  /\ stop = FALSE
  /\ wpc = [w \in Worker |-> "loop"]
  /\ running = [w \in Worker |-> NoJob]
  /\ waiting = {}
  /\ unnotified = 0
  /\ joinPc = "out"
  /\ dtorPc = "live"
  /\ submitted = {}
  /\ finished = {}
  /\ joinDebt = {}

-----------------------------------------------------------------------------
(* Submit: push and count under the mutex, notify after it. *)
Submit(j) ==
  /\ dtorPc = "live"
  /\ j \notin submitted
  /\ jobs' = Append(jobs, j)
  /\ active' = active + 1
  /\ unnotified' = unnotified + 1
  /\ submitted' = submitted \cup {j}
  /\ UNCHANGED <<stop, waiting, finished, workerVars, ownerVars>>

MutNotifyNobody ==
  /\ unnotified > 0
  /\ unnotified' = unnotified - 1
  /\ UNCHANGED <<jobs, active, stop, waiting, submitted, finished, workerVars, ownerVars>>

NotifyOne ==
  /\ unnotified > 0
  /\ unnotified' = unnotified - 1
  /\ IF waiting = {} THEN UNCHANGED waiting
     ELSE \E w \in waiting : waiting' = waiting \ {w}
  /\ UNCHANGED <<jobs, active, stop, submitted, finished, workerVars, ownerVars>>

-----------------------------------------------------------------------------
(* WorkerThread: one pass of its loop is Sleep*, then Take, RunJob and     *)
(* CountDown, or Exit.                                                     *)
AtLoop(w) == wpc[w] = "loop" /\ w \notin waiting

Sleep(w) ==
  /\ AtLoop(w)
  /\ ~stop /\ jobs = <<>>
  /\ waiting' = waiting \cup {w}
  /\ UNCHANGED <<jobs, active, stop, unnotified, submitted, finished, workerVars, ownerVars>>

SpuriousWake(w) ==
  /\ w \in waiting
  /\ waiting' = waiting \ {w}
  /\ UNCHANGED <<jobs, active, stop, unnotified, submitted, finished, workerVars, ownerVars>>

MutTakeCounts(w) ==
  /\ AtLoop(w)
  /\ jobs # <<>>
  /\ running' = [running EXCEPT ![w] = Head(jobs)]
  /\ jobs' = Tail(jobs)
  /\ active' = active - 1
  /\ wpc' = [wpc EXCEPT ![w] = "run"]
  /\ UNCHANGED <<stop, waiting, unnotified, submitted, finished, ownerVars>>

MutTakeKeepsJob(w) ==
  /\ AtLoop(w)
  /\ jobs # <<>>
  /\ running' = [running EXCEPT ![w] = Head(jobs)]
  /\ wpc' = [wpc EXCEPT ![w] = "run"]
  /\ UNCHANGED <<jobs, active, stop, waiting, unnotified, submitted, finished, ownerVars>>

Take(w) ==
  /\ AtLoop(w)
  /\ jobs # <<>>
  /\ running' = [running EXCEPT ![w] = Head(jobs)]
  /\ jobs' = Tail(jobs)
  /\ wpc' = [wpc EXCEPT ![w] = "run"]
  /\ UNCHANGED <<active, stop, waiting, unnotified, submitted, finished, ownerVars>>

MutExitOnStop(w) ==
  /\ AtLoop(w)
  /\ stop
  /\ wpc' = [wpc EXCEPT ![w] = "exited"]
  /\ UNCHANGED <<jobs, active, stop, running, waiting, unnotified, submitted, finished, ownerVars>>

Exit(w) ==
  /\ AtLoop(w)
  /\ stop /\ jobs = <<>>
  /\ wpc' = [wpc EXCEPT ![w] = "exited"]
  /\ UNCHANGED <<jobs, active, stop, running, waiting, unnotified, submitted, finished, ownerVars>>

RunJob(w) ==
  /\ wpc[w] = "run"
  /\ finished' = finished \cup {running[w]}
  /\ running' = [running EXCEPT ![w] = NoJob]
  /\ wpc' = [wpc EXCEPT ![w] = "count"]
  /\ UNCHANGED <<jobs, active, stop, waiting, unnotified, submitted, ownerVars>>

CountDown(w) ==
  /\ wpc[w] = "count"
  /\ active' = active - 1
  /\ wpc' = [wpc EXCEPT ![w] = "loop"]
  /\ UNCHANGED <<jobs, stop, running, waiting, unnotified, submitted, finished, ownerVars>>

-----------------------------------------------------------------------------
(* Join: polls Jobs.empty() and then the counter, neither under the mutex. *)
(* A poll that fails changes nothing but the time.                         *)
JoinCall ==
  /\ joinPc \in {"out", "returned"}
  /\ dtorPc = "live"
  /\ joinPc' = "empty"
  /\ joinDebt' = submitted
  /\ UNCHANGED <<jobs, active, stop, waiting, unnotified, dtorPc, submitted, finished, workerVars>>

JoinSeesEmpty ==
  /\ joinPc = "empty"
  /\ jobs = <<>>
  /\ joinPc' = "count"
  /\ UNCHANGED <<jobs, active, stop, waiting, unnotified, dtorPc, joinDebt, submitted, finished,
                 workerVars>>

MutJoinIgnoresCount ==
  /\ joinPc = "count"
  /\ joinPc' = "returned"
  /\ UNCHANGED <<jobs, active, stop, waiting, unnotified, dtorPc, joinDebt, submitted, finished,
                 workerVars>>

JoinSeesCount ==
  /\ joinPc = "count"
  /\ joinPc' = IF active = 0 THEN "returned" ELSE "empty"
  /\ UNCHANGED <<jobs, active, stop, waiting, unnotified, dtorPc, joinDebt, submitted, finished,
                 workerVars>>

-----------------------------------------------------------------------------
(* ~ThreadPool: the owner calls it outside Join, when no thread is inside  *)
(* Submit any more.                                                        *)
DtorStop ==
  /\ dtorPc = "live"
  /\ joinPc \in {"out", "returned"}
  /\ unnotified = 0
  /\ stop' = TRUE
  /\ dtorPc' = "notify"
  /\ UNCHANGED <<jobs, active, waiting, unnotified, joinPc, joinDebt, submitted, finished, workerVars>>

MutDtorNotifyOne ==
  /\ dtorPc = "notify"
  /\ IF waiting = {} THEN UNCHANGED waiting
     ELSE \E w \in waiting : waiting' = waiting \ {w}
  /\ dtorPc' = "join"
  /\ UNCHANGED <<jobs, active, stop, unnotified, joinPc, joinDebt, submitted, finished, workerVars>>

DtorNotifyAll ==
  /\ dtorPc = "notify"
  /\ waiting' = {}
  /\ dtorPc' = "join"
  /\ UNCHANGED <<jobs, active, stop, unnotified, joinPc, joinDebt, submitted, finished, workerVars>>

DtorJoinThreads ==
  /\ dtorPc = "join"
  /\ \A w \in Worker : wpc[w] = "exited"
  /\ dtorPc' = "gone"
  /\ UNCHANGED <<jobs, active, stop, waiting, unnotified, joinPc, joinDebt, submitted, finished,
                 workerVars>>

-----------------------------------------------------------------------------
WorkerStep(w) == Sleep(w) \/ Take(w) \/ Exit(w) \/ RunJob(w) \/ CountDown(w)

JoinStep == JoinSeesEmpty \/ JoinSeesCount

DtorStep == DtorNotifyAll \/ DtorJoinThreads

Next ==
  \/ \E j \in Job : Submit(j)
  \/ NotifyOne
  \/ \E w \in Worker : WorkerStep(w) \/ SpuriousWake(w)
  \/ JoinCall \/ JoinStep
  \/ DtorStop \/ DtorStep

(* Every started thread keeps running and a job ends; nobody has to submit, *)
(* join or destroy.                                                         *)
Fairness ==
  /\ WF_vars(NotifyOne)
  /\ \A w \in Worker : WF_vars(WorkerStep(w))
  /\ WF_vars(JoinStep)
  /\ WF_vars(DtorStep)

Spec == Init /\ [][Next]_vars /\ Fairness

-----------------------------------------------------------------------------
(* Every variable has the values the code gives it; the pool's counter     *)
(* never goes below zero.                                                  *)
TypeOK ==
  /\ jobs \in Seq(Job)
  /\ active \in Nat
  /\ stop \in BOOLEAN
  /\ wpc \in [Worker -> {"loop", "run", "count", "exited"}]
  /\ running \in [Worker -> Job \cup {NoJob}]
  /\ waiting \in SUBSET Worker
  /\ unnotified \in Nat
  /\ joinPc \in {"out", "empty", "count", "returned"}
  /\ dtorPc \in {"live", "notify", "join", "gone"}
  /\ submitted \in SUBSET Job
  /\ finished \in SUBSET Job
  /\ joinDebt \in SUBSET Job

Busy == {w \in Worker : wpc[w] \in {"run", "count"}}

(* The counter Join relies on is exact at every instant: what is queued    *)
(* plus the workers between their pop and their decrement.                 *)
CounterExact == active = Len(jobs) + Cardinality(Busy)

(* When Join returns, every job submitted before it was called has run to  *)
(* its end, although Join takes no lock (ThreadPool.cpp, Join).            *)
JoinSound == joinPc = "returned" => joinDebt \subseteq finished

(* ~ThreadPool runs what is still queued: when the pool is gone no job was *)
(* dropped (ThreadPool.cpp, WorkerThread's exit test).                     *)
DestructorDrains == dtorPc = "gone" => submitted = finished

(* A job is executed once: it is never handed to a second worker, nor kept *)
(* in the queue once a worker has it (WorkerThread's pop).                 *)
JobsRunOnce ==
  /\ \A i, k \in DOMAIN jobs : jobs[i] = jobs[k] => i = k
  /\ \A i \in DOMAIN jobs : jobs[i] \notin finished /\ \A w \in Worker : running[w] # jobs[i]
  /\ \A v, w \in Worker : running[v] = running[w] /\ running[v] # NoJob => v = w
  /\ \A w \in Worker : running[w] \notin finished

(* No wakeup is lost between Submit's unlock and its notify_one: every     *)
(* submitted job eventually runs, without any help from later submissions. *)
EveryJobRuns == \A j \in Job : j \in submitted ~> j \in finished

(* The destructor terminates: no worker stays blocked after notify_all.    *)
DestructorReturns == dtorPc = "notify" ~> dtorPc = "gone"

(* The pool implements the lock-free contract of WorkPool, with Join       *)
(* returning at an instant when the pool is idle.                          *)
Pool == INSTANCE WorkPool
          WITH queue <- jobs, joining <- joinPc \in {"empty", "count"}

ImplementsWorkPool == Pool!Spec
=============================================================================
