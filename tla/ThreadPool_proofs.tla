-------------------------- MODULE ThreadPool_proofs --------------------------
(***************************************************************************)
(* Proofs about ThreadPool for every finite set of workers and every set   *)
(* of jobs.  Join takes no lock, so its soundness rests on the counter:    *)
(* CounterExact makes a zero mean that nothing is queued and nobody is     *)
(* between a pop and a decrement, and Accounting makes that mean that      *)
(* every submitted job has finished.  The last sections are about waiting: *)
(* no wakeup is lost (NoLostWakeup), so that somebody can move as long as  *)
(* somebody waits (NeverStuck), and the work is finite (WorkIsFinite).     *)
(***************************************************************************)
EXTENDS ThreadPool, FiniteSetTheorems, TLAPS

Queued == {jobs[i] : i \in DOMAIN jobs}

(* Where a submitted job can be, and what the program counters say of it.  *)
Accounting ==
  /\ finished \subseteq submitted
  /\ Queued \subseteq submitted
  /\ \A w \in Worker : running[w] # NoJob <=> wpc[w] = "run"
  /\ \A w \in Worker : running[w] # NoJob => running[w] \in submitted
  /\ submitted \subseteq finished \cup Queued \cup {running[w] : w \in Worker}
  /\ joinDebt \subseteq submitted

(* The destructor's phases: nobody exits, and nobody submits again, before *)
(* stop is set.                                                            *)
Shutdown ==
  /\ stop <=> dtorPc # "live"
  /\ \A w \in Worker : wpc[w] = "exited" => stop /\ jobs = <<>>
  /\ dtorPc = "gone" => \A w \in Worker : wpc[w] = "exited"

IInv == TypeOK /\ CounterExact /\ Accounting /\ Shutdown /\ JoinSound

-----------------------------------------------------------------------------
LEMMA BusyFinite == Busy \subseteq Worker /\ IsFiniteSet(Busy) /\ Cardinality(Busy) \in Nat
  BY PoolAssumption, FS_Subset, FS_CardinalityType DEF Busy

(* The counter is zero only when the pool is idle. *)
LEMMA ZeroMeansIdle ==
  ASSUME TypeOK, CounterExact, active = 0
  PROVE  jobs = <<>> /\ Busy = {}
  <1>1. Len(jobs) \in Nat BY DEF TypeOK
  <1>2. Len(jobs) = 0 /\ Cardinality(Busy) = 0
    BY <1>1, BusyFinite DEF CounterExact
  <1>3. jobs = <<>> BY <1>2 DEF TypeOK
  <1>4. Busy = {} BY <1>2, BusyFinite, FS_EmptySet
  <1> QED BY <1>3, <1>4

-----------------------------------------------------------------------------
(* Type correctness of ThreadPool, inductive on its own but for the        *)
(* counter, which needs CounterExact to stay a natural number.             *)
LEMMA TypeInit == Init => TypeOK
  <1> SUFFICES ASSUME Init PROVE TypeOK OBVIOUS
  <1>1. jobs \in Seq(Job) /\ active \in Nat /\ unnotified \in Nat BY DEF Init
  <1>2. wpc \in [Worker -> {"loop", "run", "count", "exited"}] BY DEF Init
  <1>3. running \in [Worker -> Job \cup {NoJob}] BY DEF Init
  <1> QED BY <1>1, <1>2, <1>3 DEF Init, TypeOK

LEMMA TypeStep == TypeOK /\ CounterExact /\ Accounting /\ [Next]_vars => TypeOK'
  <1> SUFFICES ASSUME TypeOK, CounterExact, Accounting, [Next]_vars PROVE TypeOK'
    OBVIOUS
  <1> USE DEF TypeOK, workerVars, ownerVars
  <1>1. ASSUME NEW j \in Job, Submit(j) PROVE TypeOK' BY <1>1 DEF Submit
  <1>2. CASE NotifyOne BY <1>2 DEF NotifyOne
  <1>3. ASSUME NEW w \in Worker, Sleep(w) \/ SpuriousWake(w) PROVE TypeOK'
    BY <1>3 DEF Sleep, SpuriousWake, AtLoop
  <1>4. ASSUME NEW w \in Worker, Take(w) PROVE TypeOK'
    <2>1. Head(jobs) \in Job /\ Tail(jobs) \in Seq(Job) BY <1>4 DEF Take
    <2> QED BY <1>4, <2>1 DEF Take
  <1>5. ASSUME NEW w \in Worker, Exit(w) PROVE TypeOK' BY <1>5 DEF Exit
  <1>6. ASSUME NEW w \in Worker, RunJob(w) PROVE TypeOK'
    <2>1. running[w] \in Job BY <1>6 DEF RunJob, Accounting
    <2> QED BY <1>6, <2>1 DEF RunJob
  <1>7. ASSUME NEW w \in Worker, CountDown(w) PROVE TypeOK'
    <2>1. w \in Busy BY <1>7 DEF CountDown, Busy
    <2>2. Cardinality(Busy) # 0 BY <2>1, BusyFinite, FS_EmptySet
    <2>3. active - 1 \in Nat BY <2>2, BusyFinite DEF CounterExact
    <2> QED BY <1>7, <2>3 DEF CountDown
  <1>8. CASE JoinCall \/ JoinStep BY <1>8 DEF JoinCall, JoinStep, JoinSeesEmpty, JoinSeesCount
  <1>9. CASE DtorStop \/ DtorStep BY <1>9 DEF DtorStop, DtorStep, DtorNotifyAll, DtorJoinThreads
  <1>10. CASE UNCHANGED vars BY <1>10 DEF vars
  <1> QED BY <1>1, <1>2, <1>3, <1>4, <1>5, <1>6, <1>7, <1>8, <1>9, <1>10 DEF Next, WorkerStep

-----------------------------------------------------------------------------
(* CounterExact: Submit adds one to both sides, Take moves one unit from   *)
(* the queue to Busy, CountDown takes one from both.                       *)
LEMMA CounterInit == Init => CounterExact
  <1> SUFFICES ASSUME Init PROVE CounterExact OBVIOUS
  <1>1. Busy = {} BY DEF Init, Busy
  <1>2. Cardinality(Busy) = 0 BY <1>1, FS_EmptySet
  <1> QED BY <1>2 DEF Init, CounterExact

(* Steps that move no program counter in or out of the busy states.        *)
LEMMA CounterKept ==
  ASSUME TypeOK, CounterExact, active' = active, jobs' = jobs, Busy' = Busy
  PROVE  CounterExact'
  BY DEF CounterExact

LEMMA CounterStep == TypeOK /\ CounterExact /\ [Next]_vars => CounterExact'
  <1> SUFFICES ASSUME TypeOK, CounterExact, [Next]_vars PROVE CounterExact' OBVIOUS
  <1> USE DEF workerVars, ownerVars
  <1>1. ASSUME NEW j \in Job, Submit(j) PROVE CounterExact'
    <2>1. Busy' = Busy BY <1>1 DEF Submit, Busy
    <2>2. Len(jobs') = Len(jobs) + 1 BY <1>1 DEF Submit, TypeOK
    <2>3. active' = active + 1 BY <1>1 DEF Submit
    <2>4. Len(jobs) \in Nat BY DEF TypeOK
    <2> QED BY <2>1, <2>2, <2>3, <2>4, BusyFinite DEF CounterExact
  <1>2. ASSUME NEW w \in Worker, Take(w) PROVE CounterExact'
    <2>1. w \notin Busy BY <1>2 DEF Take, AtLoop, Busy
    <2>2. Busy' = Busy \cup {w} BY <1>2 DEF Take, Busy, TypeOK
    <2>3. Cardinality(Busy') = Cardinality(Busy) + 1 BY <2>1, <2>2, BusyFinite, FS_AddElement
    <2>4. Len(jobs') = Len(jobs) - 1 /\ Len(jobs) \in Nat BY <1>2 DEF Take, TypeOK
    <2>5. active' = active BY <1>2 DEF Take
    <2> QED BY <2>3, <2>4, <2>5, BusyFinite DEF CounterExact
  <1>3. ASSUME NEW w \in Worker, CountDown(w) PROVE CounterExact'
    <2>1. w \in Busy BY <1>3 DEF CountDown, Busy
    <2>2. Busy' = Busy \ {w} BY <1>3 DEF CountDown, Busy, TypeOK
    <2>3. Cardinality(Busy') = Cardinality(Busy) - 1
      BY <2>1, <2>2, BusyFinite, FS_RemoveElement
    <2>4. Len(jobs') = Len(jobs) /\ Len(jobs) \in Nat BY <1>3 DEF CountDown, TypeOK
    <2>5. active' = active - 1 BY <1>3 DEF CountDown
    <2> QED BY <2>3, <2>4, <2>5, BusyFinite DEF CounterExact
  <1>4. ASSUME NEW w \in Worker, Sleep(w) \/ SpuriousWake(w) PROVE CounterExact'
    BY <1>4, CounterKept DEF Sleep, SpuriousWake, Busy
  <1>5. ASSUME NEW w \in Worker, Exit(w) PROVE CounterExact'
    <2>1. Busy' = Busy BY <1>5 DEF Exit, AtLoop, Busy, TypeOK
    <2> QED BY <1>5, <2>1, CounterKept DEF Exit
  <1>6. ASSUME NEW w \in Worker, RunJob(w) PROVE CounterExact'
    <2>1. Busy' = Busy BY <1>6 DEF RunJob, Busy, TypeOK
    <2> QED BY <1>6, <2>1, CounterKept DEF RunJob
  <1>7. CASE NotifyOne BY <1>7, CounterKept DEF NotifyOne, Busy
  <1>8. CASE JoinCall \/ JoinStep
    BY <1>8, CounterKept DEF JoinCall, JoinStep, JoinSeesEmpty, JoinSeesCount, Busy
  <1>9. CASE DtorStop \/ DtorStep
    BY <1>9, CounterKept DEF DtorStop, DtorStep, DtorNotifyAll, DtorJoinThreads, Busy
  <1>10. CASE UNCHANGED vars BY <1>10, CounterKept DEF vars, Busy
  <1> QED BY <1>1, <1>2, <1>3, <1>4, <1>5, <1>6, <1>7, <1>8, <1>9, <1>10 DEF Next, WorkerStep

-----------------------------------------------------------------------------
(* Accounting: a job moves from the queue to a worker and from there to    *)
(* the finished ones, and is never in none of the three.                   *)
LEMMA AccountingInit == Init => Accounting
  BY DEF Init, Accounting, Queued

(* What Append, Head and Tail do to the set of queued jobs. *)
LEMMA QueuedAppend ==
  ASSUME TypeOK, NEW j \in Job, jobs' = Append(jobs, j)
  PROVE  Queued' = Queued \cup {j}
  <1>1. DOMAIN jobs = 1 .. Len(jobs) /\ DOMAIN jobs' = 1 .. (Len(jobs) + 1) /\ Len(jobs) \in Nat
    BY DEF TypeOK
  <1>2. \A i \in DOMAIN jobs : jobs'[i] = jobs[i] BY <1>1 DEF TypeOK
  <1>3. jobs'[Len(jobs) + 1] = j BY DEF TypeOK
  <1> QED BY <1>1, <1>2, <1>3 DEF Queued

LEMMA QueuedTail ==
  ASSUME TypeOK, jobs # <<>>
  PROVE  /\ Head(jobs) \in Queued
         /\ Queued = {Head(jobs)} \cup {Tail(jobs)[i] : i \in DOMAIN Tail(jobs)}
  <1>1. DOMAIN jobs = 1 .. Len(jobs) /\ Len(jobs) \in Nat /\ Len(jobs) > 0
    BY DEF TypeOK
  <1>2. DOMAIN Tail(jobs) = 1 .. (Len(jobs) - 1) BY <1>1 DEF TypeOK
  <1>3. Head(jobs) = jobs[1] BY <1>1 DEF TypeOK
  <1>4. \A i \in DOMAIN Tail(jobs) : Tail(jobs)[i] = jobs[i + 1] BY <1>1, <1>2 DEF TypeOK
  <1>5. \A i \in DOMAIN jobs : i = 1 \/ (i - 1 \in DOMAIN Tail(jobs) /\ (i - 1) + 1 = i)
    BY <1>1, <1>2
  <1>6. \A i \in DOMAIN jobs : i = 1 \/ jobs[i] = Tail(jobs)[i - 1]
    BY <1>4, <1>5
  <1>7. 1 \in DOMAIN jobs /\ \A i \in DOMAIN Tail(jobs) : i + 1 \in DOMAIN jobs
    BY <1>1, <1>2
  <1> QED BY <1>3, <1>4, <1>5, <1>6, <1>7 DEF Queued

LEMMA AccountingStep == TypeOK /\ Accounting /\ [Next]_vars => Accounting'
  <1> SUFFICES ASSUME TypeOK, Accounting, [Next]_vars PROVE Accounting' OBVIOUS
  <1> USE DEF workerVars, ownerVars
  <1>1. ASSUME NEW j \in Job, Submit(j) PROVE Accounting'
    <2>1. Queued' = Queued \cup {j} BY <1>1, QueuedAppend DEF Submit
    <2> QED BY <1>1, <2>1 DEF Submit, Accounting
  <1>2. ASSUME NEW w \in Worker, Take(w) PROVE Accounting'
    <2>1. Head(jobs) \in Queued /\ Queued = {Head(jobs)} \cup Queued'
      BY <1>2, QueuedTail DEF Take, Queued
    <2>2. Head(jobs) # NoJob BY <1>2, PoolAssumption DEF Take, TypeOK
    <2>3. running[w] = NoJob BY <1>2 DEF Take, AtLoop, Accounting
    <2>4. running'[w] = Head(jobs) /\ \A v \in Worker \ {w} : running'[v] = running[v]
      BY <1>2 DEF Take, TypeOK
    <2>5. wpc'[w] = "run" /\ \A v \in Worker \ {w} : wpc'[v] = wpc[v]
      BY <1>2 DEF Take, TypeOK
    <2>6. submitted \subseteq finished \cup Queued' \cup {running'[v] : v \in Worker}
      <3> SUFFICES ASSUME NEW j \in submitted, j \notin finished, j \notin Queued'
                   PROVE  \E v \in Worker : j = running'[v]
        OBVIOUS
      <3>1. CASE j = Head(jobs) BY <3>1, <2>4
      <3>2. CASE j # Head(jobs)
        <4>1. j \in Job BY DEF TypeOK
        <4>2. j \notin Queued BY <3>2, <2>1
        <4>3. PICK v \in Worker : j = running[v] BY <4>2 DEF Accounting
        <4>4. v # w BY <4>1, <4>3, <2>3, PoolAssumption
        <4> QED BY <4>3, <4>4, <2>4
      <3> QED BY <3>1, <3>2
    <2>7. UNCHANGED <<submitted, finished, joinDebt>> BY <1>2 DEF Take
    <2>8. \A v \in Worker : running'[v] # NoJob <=> wpc'[v] = "run"
      BY <2>2, <2>4, <2>5 DEF Accounting
    <2>9. \A v \in Worker : running'[v] # NoJob => running'[v] \in submitted
      BY <2>1, <2>4 DEF Accounting
    <2> QED BY <2>1, <2>6, <2>7, <2>8, <2>9 DEF Accounting
  <1>3. ASSUME NEW w \in Worker, RunJob(w) PROVE Accounting'
    <2>1. Queued' = Queued BY <1>3 DEF RunJob, Queued
    <2>2. running[w] \in submitted BY <1>3 DEF RunJob, Accounting
    <2>3. running'[w] = NoJob /\ \A v \in Worker \ {w} : running'[v] = running[v]
      BY <1>3 DEF RunJob, TypeOK
    <2>4. wpc'[w] = "count" /\ \A v \in Worker \ {w} : wpc'[v] = wpc[v]
      BY <1>3 DEF RunJob, TypeOK
    <2>5. finished' = finished \cup {running[w]} /\ UNCHANGED <<submitted, joinDebt>>
      BY <1>3 DEF RunJob
    <2>6. submitted \subseteq finished' \cup Queued \cup {running'[v] : v \in Worker}
      <3> SUFFICES ASSUME NEW j \in submitted, j \notin finished', j \notin Queued
                   PROVE  \E v \in Worker : j = running'[v]
        OBVIOUS
      <3>1. PICK v \in Worker : j = running[v] BY <2>5 DEF Accounting
      <3>2. v # w BY <3>1, <2>5
      <3> QED BY <3>1, <3>2, <2>3
    <2>7. \A v \in Worker : running'[v] # NoJob <=> wpc'[v] = "run"
      BY <2>3, <2>4 DEF Accounting
    <2> QED BY <2>1, <2>2, <2>3, <2>5, <2>6, <2>7 DEF Accounting
  <1>4. ASSUME NEW w \in Worker, Sleep(w) \/ SpuriousWake(w) PROVE Accounting'
    BY <1>4 DEF Sleep, SpuriousWake, Accounting, Queued
  <1>5. ASSUME NEW w \in Worker, Exit(w) \/ CountDown(w) PROVE Accounting'
    <2>1. \A v \in Worker : wpc'[v] = "run" <=> wpc[v] = "run"
      BY <1>5 DEF Exit, CountDown, AtLoop, TypeOK
    <2>2. UNCHANGED <<jobs, running, submitted, finished, joinDebt>>
      BY <1>5 DEF Exit, CountDown
    <2> QED BY <2>1, <2>2 DEF Accounting, Queued
  <1>6. CASE NotifyOne BY <1>6 DEF NotifyOne, Accounting, Queued
  <1>7. CASE JoinCall \/ JoinStep
    BY <1>7 DEF JoinCall, JoinStep, JoinSeesEmpty, JoinSeesCount, Accounting, Queued
  <1>8. CASE DtorStop \/ DtorStep
    BY <1>8 DEF DtorStop, DtorStep, DtorNotifyAll, DtorJoinThreads, Accounting, Queued
  <1>9. CASE UNCHANGED vars BY <1>9 DEF vars, Accounting, Queued
  <1> QED BY <1>1, <1>2, <1>3, <1>4, <1>5, <1>6, <1>7, <1>8, <1>9 DEF Next, WorkerStep

-----------------------------------------------------------------------------
LEMMA ShutdownInit == Init => Shutdown
  BY DEF Init, Shutdown

LEMMA ShutdownStep == TypeOK /\ Shutdown /\ [Next]_vars => Shutdown'
  <1> SUFFICES ASSUME TypeOK, Shutdown, [Next]_vars PROVE Shutdown' OBVIOUS
  <1> USE DEF workerVars, ownerVars, Shutdown
  <1>1. ASSUME NEW j \in Job, Submit(j) PROVE Shutdown'
    <2>1. ~stop /\ \A w \in Worker : wpc[w] # "exited" BY <1>1 DEF Submit
    <2> QED BY <1>1, <2>1 DEF Submit
  <1>2. CASE NotifyOne BY <1>2 DEF NotifyOne
  <1>3. ASSUME NEW w \in Worker, Sleep(w) \/ SpuriousWake(w) PROVE Shutdown'
    BY <1>3 DEF Sleep, SpuriousWake
  <1>4. ASSUME NEW w \in Worker, Take(w) PROVE Shutdown'
    <2>1. \A v \in Worker : wpc[v] # "exited" BY <1>4 DEF Take
    <2>2. \A v \in Worker : wpc'[v] # "exited" BY <1>4, <2>1 DEF Take, TypeOK
    <2>3. dtorPc # "gone" BY <1>4, <2>1
    <2> QED BY <1>4, <2>2, <2>3 DEF Take
  <1>5. ASSUME NEW w \in Worker, Exit(w) PROVE Shutdown'
    BY <1>5 DEF Exit, TypeOK
  <1>6. ASSUME NEW w \in Worker, RunJob(w) \/ CountDown(w) PROVE Shutdown'
    <2>1. wpc[w] # "exited" BY <1>6 DEF RunJob, CountDown
    <2>2. dtorPc # "gone" BY <2>1
    <2>3. \A v \in Worker : wpc'[v] = "exited" => wpc[v] = "exited"
      BY <1>6 DEF RunJob, CountDown, TypeOK
    <2> QED BY <1>6, <2>2, <2>3 DEF RunJob, CountDown
  <1>7. CASE JoinCall \/ JoinStep BY <1>7 DEF JoinCall, JoinStep, JoinSeesEmpty, JoinSeesCount
  <1>8. CASE DtorStop \/ DtorStep BY <1>8 DEF DtorStop, DtorStep, DtorNotifyAll, DtorJoinThreads
  <1>9. CASE UNCHANGED vars BY <1>9 DEF vars
  <1> QED BY <1>1, <1>2, <1>3, <1>4, <1>5, <1>6, <1>7, <1>8, <1>9 DEF Next, WorkerStep

-----------------------------------------------------------------------------
(* The poll of the counter is the only step that lets Join return. *)
LEMMA JoinSoundStep ==
  TypeOK /\ CounterExact /\ Accounting /\ JoinSound /\ [Next]_vars => JoinSound'
  <1> SUFFICES ASSUME TypeOK, CounterExact, Accounting, JoinSound, [Next]_vars
               PROVE  JoinSound'
    OBVIOUS
  <1> USE DEF workerVars, ownerVars, JoinSound
  <1>1. CASE JoinSeesCount
    <2>1. CASE active # 0 BY <1>1, <2>1 DEF JoinSeesCount
    <2>2. CASE active = 0
      <3>1. jobs = <<>> /\ Busy = {} BY <2>2, ZeroMeansIdle
      <3>2. Queued = {} BY <3>1 DEF Queued
      <3>3. \A w \in Worker : running[w] = NoJob BY <3>1 DEF Busy, Accounting
      <3>4. submitted \subseteq finished
        BY <3>2, <3>3, PoolAssumption DEF Accounting, TypeOK
      <3> QED BY <1>1, <3>4 DEF JoinSeesCount, Accounting
    <2> QED BY <2>1, <2>2
  <1>2. CASE JoinSeesEmpty \/ JoinCall BY <1>2 DEF JoinSeesEmpty, JoinCall
  <1>3. ASSUME NEW j \in Job, Submit(j) PROVE JoinSound' BY <1>3 DEF Submit
  <1>4. CASE NotifyOne BY <1>4 DEF NotifyOne
  <1>5. ASSUME NEW w \in Worker, WorkerStep(w) \/ SpuriousWake(w) PROVE JoinSound'
    BY <1>5 DEF WorkerStep, SpuriousWake, Sleep, Take, Exit, RunJob, CountDown
  <1>6. CASE DtorStop \/ DtorStep BY <1>6 DEF DtorStop, DtorStep, DtorNotifyAll, DtorJoinThreads
  <1>7. CASE UNCHANGED vars BY <1>7 DEF vars
  <1> QED BY <1>1, <1>2, <1>3, <1>4, <1>5, <1>6, <1>7 DEF Next, JoinStep

-----------------------------------------------------------------------------
(* The inductive invariant of the pool. *)
THEOREM Invariance == Spec => []IInv
  <1>1. Init => IInv
    BY TypeInit, CounterInit, AccountingInit, ShutdownInit DEF IInv, Init, JoinSound
  <1>2. IInv /\ [Next]_vars => IInv'
    BY TypeStep, CounterStep, AccountingStep, ShutdownStep, JoinSoundStep DEF IInv
  <1> QED BY <1>1, <1>2, PTL DEF Spec

(* Type correctness of the pool; the unsigned counter never wraps below    *)
(* zero (ThreadPool.cpp, WorkerThread's decrement).                        *)
THEOREM TypeCorrect == Spec => []TypeOK
  <1>1. IInv => TypeOK BY DEF IInv
  <1> QED BY <1>1, Invariance, PTL

(* When Join returns, everything submitted before the call has finished,   *)
(* for any number of workers and jobs (ThreadPool.cpp, Join).              *)
THEOREM JoinIsSound == Spec => []JoinSound
  <1>1. IInv => JoinSound BY DEF IInv
  <1> QED BY <1>1, Invariance, PTL

(* The counter polled by Join is exact at every instant (ThreadPool.cpp,   *)
(* Submit and WorkerThread).                                               *)
THEOREM CounterIsExact == Spec => []CounterExact
  <1>1. IInv => CounterExact BY DEF IInv
  <1> QED BY <1>1, Invariance, PTL

(* ~ThreadPool drops no job (ThreadPool.cpp, WorkerThread's exit test).    *)
THEOREM DestructorDrainsQueue == Spec => []DestructorDrains
  <1>1. IInv => DestructorDrains
    <2> SUFFICES ASSUME IInv, dtorPc = "gone" PROVE submitted = finished
      BY DEF DestructorDrains
    <2> USE DEF IInv
    <2>1. \A w \in Worker : wpc[w] = "exited" BY DEF Shutdown
    <2>2. jobs = <<>> BY <2>1, PoolAssumption DEF Shutdown
    <2>3. Queued = {} BY <2>2 DEF Queued
    <2>4. \A w \in Worker : running[w] = NoJob BY <2>1 DEF Accounting
    <2>5. submitted \subseteq finished
      BY <2>3, <2>4, PoolAssumption DEF Accounting, TypeOK
    <2> QED BY <2>5 DEF Accounting
  <1> QED BY <1>1, Invariance, PTL

-----------------------------------------------------------------------------
(* Every step of the pool is a step of WorkPool or a stutter, and the      *)
(* counter poll that returns is WorkPool's JoinReturn: the safety part of  *)
(* ImplementsWorkPool, for all workers and jobs.                           *)
THEOREM ImplementsWorkPoolSafety == Spec => Pool!Init /\ [][Pool!Next]_(Pool!vars)
  <1> USE DEF Pool!vars
  <1>1. Init => Pool!Init BY DEF Init, Pool!Init
  <1>2. IInv /\ [Next]_vars => [Pool!Next]_(Pool!vars)
    <2> SUFFICES ASSUME IInv, [Next]_vars PROVE [Pool!Next]_(Pool!vars) OBVIOUS
    <2> USE DEF IInv, workerVars, ownerVars
    <2>1. ASSUME NEW j \in Job, Submit(j) PROVE Pool!Submit(j)
      BY <2>1 DEF Submit, Pool!Submit
    <2>2. ASSUME NEW w \in Worker, Take(w) PROVE Pool!Take(w)
      BY <2>2 DEF Take, AtLoop, Accounting, Pool!Take
    <2>3. ASSUME NEW w \in Worker, RunJob(w) PROVE Pool!Finish(w)
      BY <2>3 DEF RunJob, Accounting, Pool!Finish
    <2>4. ASSUME NEW w \in Worker, Sleep(w) \/ Exit(w) \/ CountDown(w) \/ SpuriousWake(w)
          PROVE  UNCHANGED Pool!vars
      BY <2>4 DEF Sleep, Exit, CountDown, SpuriousWake
    <2>5. CASE NotifyOne \/ JoinSeesEmpty \/ DtorStop \/ DtorStep
      BY <2>5 DEF NotifyOne, JoinSeesEmpty, DtorStop, DtorStep, DtorNotifyAll, DtorJoinThreads
    <2>6. CASE JoinCall BY <2>6 DEF JoinCall, Pool!JoinCall, Pool!Next
    <2>7. CASE JoinSeesCount
      <3>1. CASE active # 0 BY <2>7, <3>1 DEF JoinSeesCount
      <3>2. CASE active = 0
        <4>1. jobs = <<>> /\ Busy = {} BY <3>2, ZeroMeansIdle
        <4>2. Pool!Idle BY <4>1 DEF Busy, Accounting, Pool!Idle
        <4>3. Pool!JoinReturn BY <2>7, <3>2, <4>2 DEF JoinSeesCount, Pool!JoinReturn
        <4> QED BY <4>3 DEF Pool!Next
      <3> QED BY <3>1, <3>2
    <2>8. CASE UNCHANGED vars BY <2>8 DEF vars
    <2> QED BY <2>1, <2>2, <2>3, <2>4, <2>5, <2>6, <2>7, <2>8
            DEF Next, WorkerStep, JoinStep, Pool!Next
  <1> QED BY <1>1, <1>2, Invariance, PTL DEF Spec

-----------------------------------------------------------------------------
(* JobsRunOnce is inductive with Accounting: a job is fresh when it is     *)
(* submitted, and Take removes from the queue what it gives to a worker.   *)
LEMMA JobsRunOnceStep == TypeOK /\ Accounting /\ JobsRunOnce /\ [Next]_vars => JobsRunOnce'
  <1> SUFFICES ASSUME TypeOK, Accounting, JobsRunOnce, [Next]_vars PROVE JobsRunOnce'
    OBVIOUS
  <1> USE DEF workerVars, ownerVars
  <1>1. ASSUME NEW j \in Job, Submit(j) PROVE JobsRunOnce'
    <2>1. DOMAIN jobs' = DOMAIN jobs \cup {Len(jobs) + 1} /\ Len(jobs) + 1 \notin DOMAIN jobs
      BY <1>1 DEF Submit, TypeOK
    <2>2. \A i \in DOMAIN jobs : jobs'[i] = jobs[i] /\ jobs[i] # j
      BY <1>1 DEF Submit, TypeOK, Accounting, Queued
    <2>3. jobs'[Len(jobs) + 1] = j BY <1>1 DEF Submit, TypeOK
    <2>4. j \notin finished /\ \A w \in Worker : running[w] # j
      BY <1>1, PoolAssumption DEF Submit, Accounting, TypeOK
    <2>5. UNCHANGED <<running, finished>> BY <1>1 DEF Submit
    <2> QED BY <2>1, <2>2, <2>3, <2>4, <2>5 DEF JobsRunOnce
  <1>2. ASSUME NEW w \in Worker, Take(w) PROVE JobsRunOnce'
    <2>1. /\ DOMAIN jobs = 1 .. Len(jobs) /\ DOMAIN jobs' = 1 .. (Len(jobs) - 1)
          /\ Len(jobs) \in Nat /\ Len(jobs) > 0
      BY <1>2 DEF Take, TypeOK
    <2>2. \A i \in DOMAIN jobs' : jobs'[i] = jobs[i + 1] BY <1>2, <2>1 DEF Take, TypeOK
    <2>3. Head(jobs) = jobs[1] BY <2>1 DEF TypeOK
    <2>4. \A i \in DOMAIN jobs' : i + 1 \in DOMAIN jobs /\ i + 1 # 1 /\ i \in Nat BY <2>1
    <2>5. 1 \in DOMAIN jobs BY <2>1
    <2>6. running'[w] = jobs[1] /\ \A v \in Worker \ {w} : running'[v] = running[v]
      BY <1>2, <2>3 DEF Take, TypeOK
    <2>7. finished' = finished BY <1>2 DEF Take
    <2>8. ASSUME NEW i \in DOMAIN jobs', NEW k \in DOMAIN jobs', jobs'[i] = jobs'[k]
          PROVE  i = k
      <3>1. i + 1 = k + 1 BY <2>2, <2>4, <2>8 DEF JobsRunOnce
      <3> QED BY <3>1, <2>4
    <2>9. \A i \in DOMAIN jobs' : jobs'[i] \notin finished /\ \A v \in Worker : running'[v] # jobs'[i]
      BY <2>2, <2>4, <2>5, <2>6 DEF JobsRunOnce
    <2>10. \A u, v \in Worker : running'[u] = running'[v] /\ running'[u] # NoJob => u = v
      BY <2>5, <2>6 DEF JobsRunOnce
    <2>11. \A v \in Worker : running'[v] \notin finished BY <2>5, <2>6 DEF JobsRunOnce
    <2> QED BY <2>7, <2>8, <2>9, <2>10, <2>11 DEF JobsRunOnce
  <1>3. ASSUME NEW w \in Worker, RunJob(w) PROVE JobsRunOnce'
    <2>1. running[w] # NoJob BY <1>3 DEF RunJob, Accounting
    <2>2. running'[w] = NoJob /\ \A v \in Worker \ {w} : running'[v] = running[v]
      BY <1>3 DEF RunJob, TypeOK
    <2>3. jobs' = jobs /\ finished' = finished \cup {running[w]} BY <1>3 DEF RunJob
    <2>4. \A i \in DOMAIN jobs : jobs[i] # NoJob
      BY PoolAssumption DEF TypeOK
    <2>5. NoJob \notin finished' BY <2>1, <2>3, PoolAssumption DEF TypeOK
    <2>6. \A v \in Worker : running'[v] \notin finished'
      BY <2>1, <2>2, <2>3, <2>5 DEF JobsRunOnce
    <2> QED BY <2>1, <2>2, <2>3, <2>4, <2>6 DEF JobsRunOnce
  <1>4. ASSUME NEW w \in Worker, Sleep(w) \/ Exit(w) \/ CountDown(w) \/ SpuriousWake(w)
        PROVE  JobsRunOnce'
    BY <1>4 DEF Sleep, Exit, CountDown, SpuriousWake, JobsRunOnce
  <1>5. CASE NotifyOne BY <1>5 DEF NotifyOne, JobsRunOnce
  <1>6. CASE JoinCall \/ JoinStep
    BY <1>6 DEF JoinCall, JoinStep, JoinSeesEmpty, JoinSeesCount, JobsRunOnce
  <1>7. CASE DtorStop \/ DtorStep
    BY <1>7 DEF DtorStop, DtorStep, DtorNotifyAll, DtorJoinThreads, JobsRunOnce
  <1>8. CASE UNCHANGED vars BY <1>8 DEF vars, JobsRunOnce
  <1> QED BY <1>1, <1>2, <1>3, <1>4, <1>5, <1>6, <1>7, <1>8 DEF Next, WorkerStep

(* No job is handed to two workers or run twice (ThreadPool.cpp,           *)
(* WorkerThread's front and pop under one lock).                           *)
THEOREM NoJobRunsTwice == Spec => []JobsRunOnce
  <1>1. Init => JobsRunOnce BY DEF Init, JobsRunOnce
  <1>2. IInv /\ JobsRunOnce /\ [Next]_vars => JobsRunOnce'
    BY JobsRunOnceStep DEF IInv
  <1> QED BY <1>1, <1>2, Invariance, PTL DEF Spec

-----------------------------------------------------------------------------
(* Why EveryJobRuns and DestructorReturns can hold: no wakeup is lost.     *)
(* The workers that will look at the queue again before they block.        *)
Awake == {w \in Worker \ waiting : wpc[w] # "exited"}

(* Submit unlocks before it notifies, and notify_one may pick nobody or be *)
(* spent on a worker that finds the queue empty.  Still, while somebody is *)
(* blocked, each queued job has a notification under way or an awake       *)
(* worker of its own; and nobody is blocked once notify_all was called,    *)
(* because stop is set before it and looked at under the mutex.            *)
NoLostWakeup ==
  /\ \A w \in waiting : wpc[w] = "loop"
  /\ waiting # {} => Len(jobs) <= unnotified + Cardinality(Awake)
  /\ dtorPc \in {"join", "gone"} => waiting = {}

LEMMA AwakeFinite == IsFiniteSet(Awake) /\ Cardinality(Awake) \in Nat
  <1>1. Awake \subseteq Worker BY DEF Awake
  <1> QED BY <1>1, PoolAssumption, FS_Subset, FS_CardinalityType

LEMMA WakeupInit == Init => NoLostWakeup
  BY DEF Init, NoLostWakeup

(* Steps that wake or block nobody, and leave the queue and the owner.     *)
LEMMA WakeupKept ==
  ASSUME NoLostWakeup, UNCHANGED <<jobs, unnotified, waiting, dtorPc>>, Awake' = Awake,
         \A w \in waiting : wpc'[w] = wpc[w]
  PROVE  NoLostWakeup'
  BY DEF NoLostWakeup

(* A blocked worker that is woken adds one to the awake ones.              *)
LEMMA WokenIsAwake ==
  ASSUME TypeOK, NoLostWakeup, NEW w \in waiting, waiting' = waiting \ {w}, wpc' = wpc
  PROVE  Cardinality(Awake') = Cardinality(Awake) + 1
  <1>1. w \in Worker /\ w \notin Awake /\ wpc[w] # "exited" BY DEF TypeOK, NoLostWakeup, Awake
  <1>2. Awake' = Awake \cup {w} BY <1>1 DEF Awake
  <1> QED BY <1>1, <1>2, AwakeFinite, FS_AddElement

LEMMA WakeupStep == TypeOK /\ Shutdown /\ NoLostWakeup /\ [Next]_vars => NoLostWakeup'
  <1> SUFFICES ASSUME TypeOK, Shutdown, NoLostWakeup, [Next]_vars PROVE NoLostWakeup'
    OBVIOUS
  <1> USE DEF workerVars, ownerVars
  <1>0. Len(jobs) \in Nat /\ unnotified \in Nat BY DEF TypeOK
  <1>1. ASSUME NEW j \in Job, Submit(j) PROVE NoLostWakeup'
    <2>1. Awake' = Awake BY <1>1 DEF Submit, Awake
    <2>2. Len(jobs') = Len(jobs) + 1 BY <1>1 DEF Submit, TypeOK
    <2>3. unnotified' = unnotified + 1 /\ UNCHANGED <<waiting, wpc, dtorPc>> BY <1>1 DEF Submit
    <2> QED BY <1>0, <2>1, <2>2, <2>3, AwakeFinite DEF NoLostWakeup
  <1>2. CASE NotifyOne
    <2>1. CASE waiting = {} BY <1>2, <2>1 DEF NotifyOne, NoLostWakeup
    <2>2. CASE waiting # {}
      <3>1. PICK w \in waiting : waiting' = waiting \ {w} BY <1>2, <2>2 DEF NotifyOne
      <3>2. UNCHANGED <<jobs, wpc, dtorPc>> /\ unnotified' = unnotified - 1
        BY <1>2 DEF NotifyOne
      <3>3. Cardinality(Awake') = Cardinality(Awake) + 1 BY <3>1, <3>2, WokenIsAwake
      <3> QED BY <1>0, <2>2, <3>1, <3>2, <3>3, AwakeFinite DEF NoLostWakeup
    <2> QED BY <2>1, <2>2
  <1>3. ASSUME NEW w \in Worker, Sleep(w) PROVE NoLostWakeup'
    <2>1. UNCHANGED <<jobs, unnotified, wpc, dtorPc>> /\ waiting' = waiting \cup {w}
      BY <1>3 DEF Sleep
    <2>2. Len(jobs') = 0 BY <1>3, <2>1 DEF Sleep
    <2>3. dtorPc = "live" BY <1>3 DEF Sleep, Shutdown
    <2>4. IsFiniteSet(Awake') /\ Cardinality(Awake') \in Nat
      <3>1. Awake' \subseteq Worker BY DEF Awake
      <3> QED BY <3>1, PoolAssumption, FS_Subset, FS_CardinalityType
    <2>5. wpc[w] = "loop" BY <1>3 DEF Sleep, AtLoop
    <2> QED BY <1>0, <2>1, <2>2, <2>3, <2>4, <2>5 DEF NoLostWakeup
  <1>4. ASSUME NEW w \in Worker, SpuriousWake(w) PROVE NoLostWakeup'
    <2>1. w \in waiting /\ waiting' = waiting \ {w} /\ UNCHANGED <<jobs, unnotified, wpc, dtorPc>>
      BY <1>4 DEF SpuriousWake
    <2>2. Cardinality(Awake') = Cardinality(Awake) + 1 BY <2>1, WokenIsAwake
    <2> QED BY <1>0, <2>1, <2>2, AwakeFinite DEF NoLostWakeup
  <1>5. ASSUME NEW w \in Worker, Take(w) PROVE NoLostWakeup'
    <2>1. w \notin waiting /\ wpc[w] = "loop" /\ UNCHANGED <<unnotified, waiting, dtorPc>>
      BY <1>5 DEF Take, AtLoop
    <2>2. wpc' = [wpc EXCEPT ![w] = "run"] BY <1>5 DEF Take
    <2>3. Awake' = Awake BY <2>1, <2>2 DEF Awake, TypeOK
    <2>4. Len(jobs') = Len(jobs) - 1 BY <1>5 DEF Take, TypeOK
    <2>5. \A v \in waiting : wpc'[v] = wpc[v] BY <2>1, <2>2 DEF TypeOK
    <2> QED BY <1>0, <2>1, <2>3, <2>4, <2>5, AwakeFinite DEF NoLostWakeup
  <1>6. ASSUME NEW w \in Worker, Exit(w) PROVE NoLostWakeup'
    <2>1. w \notin waiting /\ Len(jobs') = 0 /\ UNCHANGED <<unnotified, waiting, dtorPc>>
      BY <1>6 DEF Exit, AtLoop
    <2>2. \A v \in waiting : wpc'[v] = wpc[v] BY <1>6, <2>1 DEF Exit, TypeOK
    <2>3. IsFiniteSet(Awake') /\ Cardinality(Awake') \in Nat
      <3>1. Awake' \subseteq Worker BY DEF Awake
      <3> QED BY <3>1, PoolAssumption, FS_Subset, FS_CardinalityType
    <2> QED BY <1>0, <2>1, <2>2, <2>3 DEF NoLostWakeup
  <1>7. ASSUME NEW w \in Worker, RunJob(w) \/ CountDown(w) PROVE NoLostWakeup'
    <2>1. wpc[w] \in {"run", "count"} /\ w \notin waiting
      BY <1>7 DEF RunJob, CountDown, NoLostWakeup
    <2>2. Awake' = Awake BY <1>7, <2>1 DEF RunJob, CountDown, Awake, TypeOK
    <2>3. \A v \in waiting : wpc'[v] = wpc[v] BY <1>7, <2>1 DEF RunJob, CountDown, TypeOK
    <2> QED BY <1>7, <2>2, <2>3, WakeupKept DEF RunJob, CountDown
  <1>8. CASE JoinCall \/ JoinStep
    BY <1>8, WakeupKept DEF JoinCall, JoinStep, JoinSeesEmpty, JoinSeesCount, Awake
  <1>9. CASE DtorStop BY <1>9 DEF DtorStop, NoLostWakeup, Awake
  <1>10. CASE DtorNotifyAll BY <1>10 DEF DtorNotifyAll, NoLostWakeup
  <1>11. CASE DtorJoinThreads BY <1>11 DEF DtorJoinThreads, NoLostWakeup
  <1>12. CASE UNCHANGED vars BY <1>12, WakeupKept DEF vars, Awake
  <1> QED BY <1>1, <1>2, <1>3, <1>4, <1>5, <1>6, <1>7, <1>8, <1>9, <1>10, <1>11, <1>12
          DEF Next, WorkerStep, DtorStep

(* No wakeup is lost between Submit's unlock and its notify_one, nor       *)
(* between the destructor's store to stop and its notify_all, for any      *)
(* number of workers and jobs (ThreadPool.cpp, Submit and ~ThreadPool).    *)
THEOREM NoWakeupIsLost == Spec => []NoLostWakeup
  <1>1. IInv /\ NoLostWakeup /\ [Next]_vars => NoLostWakeup' BY WakeupStep DEF IInv
  <1> QED BY <1>1, WakeupInit, Invariance, PTL DEF Spec

(* Somebody can take a step that brings the pool nearer to idle: a notify  *)
(* that is due, a worker with a job, or one that is not blocked and finds  *)
(* a job or stop.                                                          *)
Moving ==
  \/ unnotified > 0
  \/ \E w \in Worker :
       \/ wpc[w] \in {"run", "count"}
       \/ AtLoop(w) /\ (stop \/ jobs # <<>>)

(* Neither the owner polling in Join nor the one joining the threads in    *)
(* ~ThreadPool waits for workers that are all blocked.                     *)
NeverStuck ==
  /\ active > 0 => Moving
  /\ dtorPc = "join" => Moving \/ \A w \in Worker : wpc[w] = "exited"

(* The pool never deadlocks on its condition variable: whoever waits for   *)
(* it in Join or in ~ThreadPool waits for a thread that can move           *)
(* (ThreadPool.cpp, Join, WorkerThread and ~ThreadPool).                   *)
THEOREM PoolNeverStuck == Spec => []NeverStuck
  <1>1. IInv /\ NoLostWakeup => NeverStuck
    <2> SUFFICES ASSUME IInv, NoLostWakeup PROVE NeverStuck OBVIOUS
    <2> USE DEF IInv
    <2>1. ASSUME active > 0 PROVE Moving
      <3>1. CASE Busy # {} BY <3>1 DEF Busy, Moving
      <3>2. CASE Busy = {}
        <4>1. Cardinality(Busy) = 0 BY <3>2, FS_EmptySet
        <4>2. Len(jobs) > 0 /\ Len(jobs) \in Nat BY <2>1, <4>1 DEF CounterExact, TypeOK
        <4>3. jobs # <<>> BY <4>2
        <4>4. \A w \in Worker : wpc[w] = "loop" BY <3>2, <4>3 DEF Busy, Shutdown, TypeOK
        <4>5. CASE waiting = {} BY <4>3, <4>4, <4>5, PoolAssumption DEF Moving, AtLoop
        <4>6. CASE waiting # {}
          <5>1. CASE unnotified > 0 BY <5>1 DEF Moving
          <5>2. CASE ~(unnotified > 0)
            <6>1. unnotified = 0 BY <5>2 DEF TypeOK
            <6>2. Cardinality(Awake) # 0
              BY <4>2, <4>6, <6>1, AwakeFinite DEF NoLostWakeup
            <6>3. PICK w \in Awake : TRUE BY <6>2, FS_EmptySet
            <6> QED BY <4>3, <4>4, <6>3 DEF Awake, Moving, AtLoop
          <5> QED BY <5>1, <5>2
        <4> QED BY <4>5, <4>6
      <3> QED BY <3>1, <3>2
    <2>2. ASSUME dtorPc = "join", NEW w \in Worker, wpc[w] # "exited" PROVE Moving
      <3>1. stop /\ waiting = {} BY <2>2 DEF Shutdown, NoLostWakeup
      <3>2. wpc[w] \in {"run", "count", "loop"} BY <2>2 DEF TypeOK
      <3> QED BY <3>1, <3>2 DEF Moving, AtLoop
    <2> QED BY <2>1, <2>2 DEF NeverStuck
  <1> QED BY <1>1, Invariance, NoWakeupIsLost, PTL


-----------------------------------------------------------------------------
(* A job costs the pool finitely many steps.  What is left to do is given  *)
(* by the phase of the destructor, then the queue, then where each worker  *)
(* is, then the notifications due, then the Join under way; each step of   *)
(* the pool goes down in this lexicographic order of numbers, or only      *)
(* blocks or wakes a worker or polls once more.                            *)
DtorRank(pc) == CASE pc = "live" -> 3 [] pc = "notify" -> 2 [] pc = "join" -> 1 [] OTHER -> 0

WorkerRank(pc) == CASE pc = "run" -> 3 [] pc = "count" -> 2 [] pc = "loop" -> 1 [] OTHER -> 0

Polling == {"empty", "count"}

SignalsAdvance ==
  \/ unnotified' < unnotified
  \/ unnotified' = unnotified /\ joinPc \in Polling /\ joinPc' = "returned"

WorkersAdvance ==
  \/ \E w \in Worker : /\ WorkerRank(wpc'[w]) < WorkerRank(wpc[w])
                       /\ \A v \in Worker \ {w} : wpc'[v] = wpc[v]
  \/ wpc' = wpc /\ SignalsAdvance

Advances ==
  \/ DtorRank(dtorPc') < DtorRank(dtorPc)
  \/ dtorPc' = dtorPc /\ (\/ Len(jobs') < Len(jobs)
                          \/ jobs' = jobs /\ WorkersAdvance)

NothingDone ==
  /\ UNCHANGED <<jobs, active, stop, wpc, running, unnotified, dtorPc, submitted, finished, joinDebt>>
  /\ joinPc' = joinPc \/ {joinPc, joinPc'} \subseteq Polling

WorkIsFinite == [][(\E j \in Job : Submit(j)) \/ JoinCall \/ Advances \/ NothingDone]_vars

LEMMA WorkerGoesDown ==
  ASSUME TypeOK, NEW w \in Worker, WorkerStep(w) PROVE Advances \/ NothingDone
  <1> USE DEF workerVars, ownerVars
  <1>1. CASE Sleep(w) BY <1>1 DEF Sleep, NothingDone
  <1>2. CASE Take(w)
    <2>1. dtorPc' = dtorPc /\ jobs # <<>> /\ jobs' = Tail(jobs) BY <1>2 DEF Take
    <2>2. Len(jobs') < Len(jobs) BY <2>1 DEF TypeOK
    <2> QED BY <2>1, <2>2 DEF Advances
  <1>3. CASE Exit(w) \/ RunJob(w) \/ CountDown(w)
    <2>1. dtorPc' = dtorPc /\ jobs' = jobs BY <1>3 DEF Exit, RunJob, CountDown
    <2>2. /\ WorkerRank(wpc'[w]) < WorkerRank(wpc[w])
          /\ \A v \in Worker \ {w} : wpc'[v] = wpc[v]
      BY <1>3 DEF Exit, RunJob, CountDown, AtLoop, WorkerRank, TypeOK
    <2> QED BY <2>1, <2>2 DEF Advances, WorkersAdvance
  <1> QED BY <1>1, <1>2, <1>3 DEF WorkerStep

(* The pool does not go in circles: between one call of its owner and the  *)
(* next it takes finitely many steps besides blocking, waking and polling, *)
(* and with NeverStuck it does not stop before the work is done            *)
(* (ThreadPool.cpp, WorkerThread, Join and ~ThreadPool).                   *)
THEOREM PoolStepsAreFinite == Spec => WorkIsFinite
  <1>1. TypeOK /\ [Next]_vars =>
          [(\E j \in Job : Submit(j)) \/ JoinCall \/ Advances \/ NothingDone]_vars
    <2> SUFFICES ASSUME TypeOK, Next
                 PROVE  (\E j \in Job : Submit(j)) \/ JoinCall \/ Advances \/ NothingDone
      OBVIOUS
    <2> USE DEF workerVars, ownerVars
    <2>1. CASE NotifyOne
      <3>1. UNCHANGED <<dtorPc, jobs, wpc>> /\ unnotified' < unnotified
        BY <2>1 DEF NotifyOne, TypeOK
      <3> QED BY <3>1 DEF Advances, WorkersAdvance, SignalsAdvance
    <2>2. ASSUME NEW w \in Worker, SpuriousWake(w) PROVE NothingDone
      BY <2>2 DEF SpuriousWake, NothingDone
    <2>3. CASE JoinStep
      <3>1. UNCHANGED <<dtorPc, jobs, wpc, unnotified>> BY <2>3 DEF JoinStep, JoinSeesEmpty, JoinSeesCount
      <3>2. \/ joinPc \in Polling /\ joinPc' = "returned"
            \/ {joinPc, joinPc'} \subseteq Polling
        BY <2>3 DEF JoinStep, JoinSeesEmpty, JoinSeesCount, Polling
      <3>3. UNCHANGED <<active, stop, running, submitted, finished, joinDebt>>
        BY <2>3 DEF JoinStep, JoinSeesEmpty, JoinSeesCount
      <3> QED BY <3>1, <3>2, <3>3 DEF Advances, WorkersAdvance, SignalsAdvance, NothingDone
    <2>4. CASE DtorStop \/ DtorStep
      BY <2>4 DEF DtorStop, DtorStep, DtorNotifyAll, DtorJoinThreads, Advances, DtorRank
    <2> QED BY <2>1, <2>2, <2>3, <2>4, WorkerGoesDown DEF Next
  <1> QED BY <1>1, TypeCorrect, PTL DEF Spec, WorkIsFinite
=============================================================================
