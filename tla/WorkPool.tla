------------------------------ MODULE WorkPool ------------------------------
(***************************************************************************)
(* What ThreadPool promises its callers, without its locks: a FIFO of      *)
(* submitted jobs, a fixed set of workers that each run one job at a time, *)
(* and a Join that returns only at a moment when nothing is queued and     *)
(* nothing is running.  ThreadPool is shown to implement this module, and  *)
(* HDDSync is built on it.                                                 *)
(***************************************************************************)
EXTENDS Sequences

CONSTANTS Worker, \* the pool's threads
          Job,    \* everything that may ever be submitted
          NoJob   \* what an idle worker is running; not a job

VARIABLES queue,   \* the jobs waiting for a worker, in submission order
          running, \* running[w] is the job w is executing, or NoJob
          joining  \* is the owner inside Join?

vars == <<queue, running, joining>>

Init ==
  /\ queue = <<>>
  /\ running = [w \in Worker |-> NoJob]
  /\ joining = FALSE

Submit(j) ==
  /\ queue' = Append(queue, j)
  /\ UNCHANGED <<running, joining>>

Take(w) ==
  /\ running[w] = NoJob
  /\ queue # <<>>
  /\ running' = [running EXCEPT ![w] = Head(queue)]
  /\ queue' = Tail(queue)
  /\ UNCHANGED joining

Finish(w) ==
  /\ running[w] # NoJob
  /\ running' = [running EXCEPT ![w] = NoJob]
  /\ UNCHANGED <<queue, joining>>

Idle == queue = <<>> /\ \A w \in Worker : running[w] = NoJob

JoinCall ==
  /\ ~joining
  /\ joining' = TRUE
  /\ UNCHANGED <<queue, running>>

JoinReturn ==
  /\ joining
  /\ Idle
  /\ joining' = FALSE
  /\ UNCHANGED <<queue, running>>

Next ==
  \/ \E j \in Job : Submit(j)
  \/ \E w \in Worker : Take(w) \/ Finish(w)
  \/ JoinCall
  \/ JoinReturn

Fairness ==
  /\ WF_vars(\E w \in Worker : Take(w))
  /\ \A w \in Worker : WF_vars(Finish(w))
  /\ WF_vars(JoinReturn)

Spec == Init /\ [][Next]_vars /\ Fairness
=============================================================================
