----------------------------- MODULE JobDispatch -----------------------------
(***************************************************************************)
(* What thpool.h promises the users of the pool, without threads, locks or *)
(* semaphores:                                                             *)
(*                                                                         *)
(*   "Jobs are added to the job queue. Once a thread in the pool is idle,  *)
(*    it is assigned with the first job from the queue (and erased from    *)
(*    the queue)."                                       (thpool.h, 39-41) *)
(*                                                                         *)
(*   "If threads are active when [thpool_destroy] is called, they will     *)
(*    finish what they are doing and then they will get destroyied."       *)
(*                                                     (thpool.h, 148-149) *)
(*                                                                         *)
(* ThreadPool.tla implements this specification.                           *)
(***************************************************************************)
EXTENDS Naturals, Sequences, FiniteSets

CONSTANTS
  Jobs,       \* the jobs that may be submitted
  PoolSize    \* the number of threads that run jobs

VARIABLES
  pending,    \* jobs submitted and not yet started, the oldest first
  running,    \* jobs some thread is executing
  done,       \* jobs that ran to their end
  discarded,  \* jobs released at shutdown without having run
  closed      \* the pool was told to stop

dvars == <<pending, running, done, discarded, closed>>

Queued == {pending[i] : i \in 1..Len(pending)}

\* A job enters the system once.
Fresh(j) == j \notin Queued \cup running \cup done \cup discarded

Init ==
  /\ pending = <<>>
  /\ running = {}
  /\ done = {}
  /\ discarded = {}
  /\ closed = FALSE

Submit(j) ==
  /\ Fresh(j)
  /\ pending' = Append(pending, j)
  /\ UNCHANGED <<running, done, discarded, closed>>

\* An idle thread takes the oldest job. After the first discard nothing starts.
Start ==
  /\ pending # <<>>
  /\ Cardinality(running) < PoolSize
  /\ discarded = {}
  /\ running' = running \cup {Head(pending)}
  /\ pending' = Tail(pending)
  /\ UNCHANGED <<done, discarded, closed>>

Finish(j) ==
  /\ j \in running
  /\ running' = running \ {j}
  /\ done' = done \cup {j}
  /\ UNCHANGED <<pending, discarded, closed>>

Close ==
  /\ ~closed
  /\ closed' = TRUE
  /\ UNCHANGED <<pending, running, done, discarded>>

\* Only when the active jobs have finished are the waiting ones thrown away.
Discard ==
  /\ closed
  /\ running = {}
  /\ pending # <<>>
  /\ discarded' = discarded \cup {Head(pending)}
  /\ pending' = Tail(pending)
  /\ UNCHANGED <<running, done, closed>>

Next ==
  \/ \E j \in Jobs : Submit(j) \/ Finish(j)
  \/ Start
  \/ Close
  \/ Discard

Spec == Init /\ [][Next]_dvars
==============================================================================
