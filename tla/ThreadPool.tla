----------------------------- MODULE ThreadPool ------------------------------
(***************************************************************************)
(* The server's thread pool: P2PFileServer/thpool.c.                       *)
(*                                                                         *)
(* Three kinds of threads share one pool:                                  *)
(*   - the workers thpool_init creates, which run thpool_thread_do;        *)
(*   - the threads that call thpool_add_work (the server has one, the      *)
(*     accept loop);                                                       *)
(*   - the thread that calls thpool_destroy (the server's console thread). *)
(*                                                                         *)
(* Every read or write of shared state (thpool_keepalive, the semaphore,   *)
(* the mutex, the job queue) is a step of its own, so the model has every  *)
(* interleaving of those accesses. The queue is the sequence of its jobs,  *)
(* the tail of the linked list first; JobQueue.tla models the list itself. *)
(***************************************************************************)
EXTENDS Integers, Sequences, FiniteSets

CONSTANTS
  Workers,   \* the threads of the pool (threadsN of them, at least one)
  Adders,    \* the threads that call thpool_add_work
  Jobs,      \* the jobs that may be added: a bound on the number of calls
  NoThread,  \* the mutex is free
  NoJob      \* no job held

ASSUME PoolAssumption ==
  /\ IsFiniteSet(Workers)
  /\ Workers # {}
  /\ IsFiniteSet(Adders)
  /\ Workers \cap Adders = {}
  /\ NoThread \notin Workers \cup Adders
  /\ NoJob \notin Jobs

VARIABLES
  keepalive,  \* thpool_keepalive
  mutex,      \* the thread that holds the global mutex
  jobqueue,   \* the jobs in the queue, the next one to run first
  queueSem,   \* the value of the semaphore
  semLive,    \* the semaphore has not been destroyed
  pc,         \* where each worker is in thpool_thread_do
  job_p,      \* the job each worker has read from the queue
  apc,        \* where each adder is in thpool_add_work
  newJob,     \* the job each adder has allocated
  dpc,        \* where the destroying thread is in thpool_destroy
  t,          \* its loop counter: the posts it has made
  finished,   \* jobs whose function returned and that the worker has freed
  emptied,    \* jobs freed by thpool_jobqueue_empty
  process     \* "up", or what ended the process

vars == <<keepalive, mutex, jobqueue, queueSem, semLive, pc, job_p, apc, newJob,
          dpc, t, finished, emptied, process>>

queueVars == <<jobqueue, queueSem, semLive>>
workerVars == <<pc, job_p>>
adderVars == <<apc, newJob>>
destroyVars == <<keepalive, dpc, t>>
freeVars == <<finished, emptied>>

\* Mutant: the pool counts one thread too few.
threadsNOneLess == Cardinality(Workers) - 1

threadsN == Cardinality(Workers)

Blocked == {w \in Workers : pc[w] = "blocked"}

\* The jobs in the queue.
Queued == {jobqueue[i] : i \in 1..Len(jobqueue)}

\* The workers that have taken a job off the queue, and the jobs they hold.
Holders == {w \in Workers : pc[w] \in {"unlock", "run"}}
Taken == {job_p[w] : w \in Holders}

\* The jobs the adders have allocated and not linked yet.
Allocated == {newJob[a] : a \in {b \in Adders : newJob[b] # NoJob}}

Init ==
  /\ keepalive = TRUE
  /\ mutex = NoThread
  /\ jobqueue = <<>>
  /\ queueSem = 0
  /\ semLive = TRUE
  /\ pc = [w \in Workers |-> "loop"]
  /\ job_p = [w \in Workers |-> NoJob]
  /\ apc = [a \in Adders |-> "idle"]
  /\ newJob = [a \in Adders |-> NoJob]
  /\ dpc = "idle"
  /\ t = 0
  /\ finished = {}
  /\ emptied = {}
  /\ process = "up"

-----------------------------------------------------------------------------
(* The semaphore, from how thpool.c uses it. A post goes to a thread that  *)
(* is blocked in sem_wait if there is one (any of them), otherwise it      *)
(* raises the value; on a destroyed semaphore it reports an error and      *)
(* changes nothing. Each caller of SemPost says what else changes.         *)

SemPost ==
  IF semLive /\ Blocked # {}
  THEN /\ \E w \in Blocked : pc' = [pc EXCEPT ![w] = "woken"]
       /\ UNCHANGED queueSem
  ELSE /\ queueSem' = IF semLive THEN queueSem + 1 ELSE queueSem
       /\ UNCHANGED pc

-----------------------------------------------------------------------------
(* thpool_thread_do *)

\* while (thpool_keepalive)
LoopTest(w) ==
  /\ process = "up"
  /\ pc[w] = "loop"
  /\ pc' = [pc EXCEPT ![w] = IF keepalive THEN "enter" ELSE "done"]
  /\ UNCHANGED <<mutex, job_p, process, queueVars, adderVars, destroyVars, freeVars>>

\* The call of sem_wait, on a semaphore that may have been destroyed since the
\* loop test: then sem_wait fails and the worker calls exit(1).
SemWait(w) ==
  /\ process = "up"
  /\ pc[w] = "enter"
  /\ IF semLive
     THEN /\ pc' = [pc EXCEPT ![w] = IF queueSem > 0 THEN "woken" ELSE "blocked"]
          /\ queueSem' = IF queueSem > 0 THEN queueSem - 1 ELSE queueSem
          /\ UNCHANGED process
     ELSE /\ process' = "sem_wait failed"
          /\ UNCHANGED <<pc, queueSem>>
  /\ UNCHANGED <<mutex, jobqueue, semLive, job_p, adderVars, destroyVars, freeVars>>

\* Mutant: thpool_keepalive is not tested again after sem_wait.
RecheckSkipped(w) ==
  /\ process = "up"
  /\ pc[w] = "woken"
  /\ pc' = [pc EXCEPT ![w] = "lock"]
  /\ UNCHANGED <<mutex, job_p, process, queueVars, adderVars, destroyVars, freeVars>>

\* if (thpool_keepalive), tested again after sem_wait.
Recheck(w) ==
  /\ process = "up"
  /\ pc[w] = "woken"
  /\ pc' = [pc EXCEPT ![w] = IF keepalive THEN "lock" ELSE "done"]
  /\ UNCHANGED <<mutex, job_p, process, queueVars, adderVars, destroyVars, freeVars>>

\* Mutant: the worker reads the queue without waiting for the mutex.
LockQueueUnguarded(w) ==
  /\ process = "up"
  /\ pc[w] = "lock"
  /\ mutex' = w
  /\ pc' = [pc EXCEPT ![w] = "peek"]
  /\ UNCHANGED <<job_p, process, queueVars, adderVars, destroyVars, freeVars>>

LockQueue(w) ==
  /\ process = "up"
  /\ pc[w] = "lock"
  /\ mutex = NoThread
  /\ mutex' = w
  /\ pc' = [pc EXCEPT ![w] = "peek"]
  /\ UNCHANGED <<job_p, process, queueVars, adderVars, destroyVars, freeVars>>

\* Mutant: peek returns the head of the list, the job added last.
PeekNewest(w) ==
  /\ process = "up"
  /\ pc[w] = "peek"
  /\ IF jobqueue = <<>>
     THEN /\ process' = "null job"
          /\ UNCHANGED <<pc, job_p>>
     ELSE /\ job_p' = [job_p EXCEPT ![w] = jobqueue[Len(jobqueue)]]
          /\ pc' = [pc EXCEPT ![w] = "remove"]
          /\ UNCHANGED process
  /\ UNCHANGED <<mutex, queueVars, adderVars, destroyVars, freeVars>>

\* thpool_jobqueue_peek and the reads of the job's fields. On an empty queue peek
\* returns NULL and the read of job_p->function ends the process.
PeekJob(w) ==
  /\ process = "up"
  /\ pc[w] = "peek"
  /\ IF jobqueue = <<>>
     THEN /\ process' = "null job"
          /\ UNCHANGED <<pc, job_p>>
     ELSE /\ job_p' = [job_p EXCEPT ![w] = Head(jobqueue)]
          /\ pc' = [pc EXCEPT ![w] = "remove"]
          /\ UNCHANGED process
  /\ UNCHANGED <<mutex, queueVars, adderVars, destroyVars, freeVars>>

\* thpool_jobqueue_removelast
RemoveLast(w) ==
  /\ process = "up"
  /\ pc[w] = "remove"
  /\ jobqueue' = IF jobqueue = <<>> THEN <<>> ELSE Tail(jobqueue)
  /\ pc' = [pc EXCEPT ![w] = "unlock"]
  /\ UNCHANGED <<mutex, queueSem, semLive, job_p, process, adderVars, destroyVars, freeVars>>

UnlockQueue(w) ==
  /\ process = "up"
  /\ pc[w] = "unlock"
  /\ mutex' = NoThread
  /\ pc' = [pc EXCEPT ![w] = "run"]
  /\ UNCHANGED <<job_p, process, queueVars, adderVars, destroyVars, freeVars>>

\* The job's function returns and the worker frees the job.
FinishJob(w) ==
  /\ process = "up"
  /\ pc[w] = "run"
  /\ finished' = finished \cup {job_p[w]}
  /\ job_p' = [job_p EXCEPT ![w] = NoJob]
  /\ pc' = [pc EXCEPT ![w] = "loop"]
  /\ UNCHANGED <<mutex, process, emptied, queueVars, adderVars, destroyVars>>

Worker(w) ==
  \/ LoopTest(w)
  \/ SemWait(w)
  \/ Recheck(w)
  \/ LockQueue(w)
  \/ PeekJob(w)
  \/ RemoveLast(w)
  \/ UnlockQueue(w)
  \/ FinishJob(w)

-----------------------------------------------------------------------------
(* thpool_add_work *)

\* malloc of the new job. Jobs are told apart by the call that adds them.
AllocJob(a, j) ==
  /\ process = "up"
  /\ apc[a] = "idle"
  /\ j \notin Queued \cup Taken \cup Allocated \cup finished \cup emptied
  /\ newJob' = [newJob EXCEPT ![a] = j]
  /\ apc' = [apc EXCEPT ![a] = "lock"]
  /\ UNCHANGED <<mutex, process, queueVars, workerVars, destroyVars, freeVars>>

\* malloc returned NULL: exit(1). It can happen while there is a job to add.
AllocFails(a) ==
  /\ process = "up"
  /\ apc[a] = "idle"
  /\ \E j \in Jobs : j \notin Queued \cup Taken \cup Allocated \cup finished \cup emptied
  /\ process' = "no memory"
  /\ UNCHANGED <<mutex, queueVars, workerVars, adderVars, destroyVars, freeVars>>

LockForAdd(a) ==
  /\ process = "up"
  /\ apc[a] = "lock"
  /\ mutex = NoThread
  /\ mutex' = a
  /\ apc' = [apc EXCEPT ![a] = "link"]
  /\ UNCHANGED <<newJob, process, queueVars, workerVars, destroyVars, freeVars>>

\* thpool_jobqueue_add: links the job at the head of the queue. If thpool_destroy
\* has already freed the pool this dereferences freed memory.
LinkJob(a) ==
  /\ process = "up"
  /\ apc[a] = "link"
  /\ IF dpc = "freed"
     THEN /\ process' = "use after free"
          /\ UNCHANGED <<apc, newJob, jobqueue>>
     ELSE /\ jobqueue' = Append(jobqueue, newJob[a])
          /\ newJob' = [newJob EXCEPT ![a] = NoJob]
          /\ apc' = [apc EXCEPT ![a] = "post"]
          /\ UNCHANGED process
  /\ UNCHANGED <<mutex, queueSem, semLive, workerVars, destroyVars, freeVars>>

\* Mutant: only a job that finds the queue empty is announced to the workers.
PostFirstOnly(a) ==
  /\ process = "up"
  /\ apc[a] = "post"
  /\ IF dpc = "freed"
     THEN /\ process' = "use after free"
          /\ UNCHANGED <<apc, pc, queueSem>>
     ELSE /\ IF Len(jobqueue) = 1 THEN SemPost ELSE UNCHANGED <<pc, queueSem>>
          /\ apc' = [apc EXCEPT ![a] = "unlock"]
          /\ UNCHANGED process
  /\ UNCHANGED <<mutex, jobqueue, semLive, job_p, newJob, destroyVars, freeVars>>

\* thpool_jobqueue_add: sem_post, still under the mutex.
PostJob(a) ==
  /\ process = "up"
  /\ apc[a] = "post"
  /\ IF dpc = "freed"
     THEN /\ process' = "use after free"
          /\ UNCHANGED <<apc, pc, queueSem>>
     ELSE /\ SemPost
          /\ apc' = [apc EXCEPT ![a] = "unlock"]
          /\ UNCHANGED process
  /\ UNCHANGED <<mutex, jobqueue, semLive, job_p, newJob, destroyVars, freeVars>>

\* thpool_jobqueue_empty takes no mutex: an adder that links its job just when the
\* destroying thread has freed the head of the list writes to freed memory. The
\* other outcome of the race is LinkJob.
AddRaces(a) ==
  /\ process = "up"
  /\ apc[a] = "link"
  /\ dpc = "empty"
  /\ jobqueue # <<>>
  /\ process' = "use after free"
  /\ UNCHANGED <<mutex, queueVars, workerVars, adderVars, destroyVars, freeVars>>

UnlockAfterAdd(a) ==
  /\ process = "up"
  /\ apc[a] = "unlock"
  /\ mutex' = NoThread
  /\ apc' = [apc EXCEPT ![a] = "idle"]
  /\ UNCHANGED <<newJob, process, queueVars, workerVars, destroyVars, freeVars>>

Adder(a) ==
  \/ \E j \in Jobs : AllocJob(a, j)
  \/ AllocFails(a)
  \/ LockForAdd(a)
  \/ LinkJob(a)
  \/ AddRaces(a)
  \/ PostJob(a)
  \/ UnlockAfterAdd(a)

-----------------------------------------------------------------------------
(* thpool_destroy *)

\* thpool_keepalive = 0
StopKeepalive ==
  /\ process = "up"
  /\ dpc = "idle"
  /\ keepalive' = FALSE
  /\ dpc' = "post"
  /\ UNCHANGED <<t, mutex, process, queueVars, workerVars, adderVars, freeVars>>

\* Mutant: the loop of thpool_destroy runs once too often.
PostOnceMore ==
  /\ process = "up"
  /\ dpc = "post"
  /\ t <= threadsN
  /\ SemPost
  /\ t' = t + 1
  /\ UNCHANGED <<keepalive, dpc, mutex, job_p, jobqueue, semLive, process, adderVars, freeVars>>

\* One iteration of the loop that posts the semaphore threadsN times.
PostOnce ==
  /\ process = "up"
  /\ dpc = "post"
  /\ t < threadsN
  /\ SemPost
  /\ t' = t + 1
  /\ UNCHANGED <<keepalive, dpc, mutex, job_p, jobqueue, semLive, process, adderVars, freeVars>>

\* sem_destroy, which refuses while a thread is blocked on the semaphore.
SemDestroy ==
  /\ process = "up"
  /\ dpc = "post"
  /\ t = threadsN
  /\ semLive' = (Blocked # {})
  /\ dpc' = "join"
  /\ UNCHANGED <<keepalive, t, mutex, jobqueue, queueSem, process, workerVars, adderVars, freeVars>>

\* The pthread_join loop ends when every worker has returned, and
\* thpool_jobqueue_empty takes the tail of the queue for curjob.
JoinAll ==
  /\ process = "up"
  /\ dpc = "join"
  /\ \A w \in Workers : pc[w] = "done"
  /\ dpc' = IF jobqueue = <<>> THEN "emptied" ELSE "empty"
  /\ UNCHANGED <<keepalive, t, mutex, process, queueVars, workerVars, adderVars, freeVars>>

\* thpool_jobqueue_empty, one iteration: frees the next job. It takes no lock. When
\* that was the last job curjob is NULL.
EmptyOne ==
  /\ process = "up"
  /\ dpc = "empty"
  /\ jobqueue # <<>>
  /\ emptied' = emptied \cup {Head(jobqueue)}
  /\ jobqueue' = Tail(jobqueue)
  /\ dpc' = IF Len(jobqueue) = 1 THEN "emptied" ELSE "empty"
  /\ UNCHANGED <<keepalive, t, mutex, queueSem, semLive, process, finished, workerVars, adderVars>>

\* The queue is empty: the pool and its parts are freed. When a job has been added
\* since curjob became NULL the loop goes on and reads curjob->prev.
FreePool ==
  /\ process = "up"
  /\ dpc = "emptied"
  /\ IF jobqueue = <<>>
     THEN dpc' = "freed" /\ UNCHANGED process
     ELSE process' = "null curjob" /\ UNCHANGED dpc
  /\ UNCHANGED <<keepalive, t, mutex, queueVars, workerVars, adderVars, freeVars>>

Destroyer ==
  \/ StopKeepalive
  \/ PostOnce
  \/ SemDestroy
  \/ JoinAll
  \/ EmptyOne
  \/ FreePool

-----------------------------------------------------------------------------

\* The process has ended, or the pool is freed and no adder is at work.
Over ==
  /\ \/ process # "up"
     \/ dpc = "freed" /\ \A a \in Adders : apc[a] = "idle"
  /\ UNCHANGED vars

Next ==
  \/ \E w \in Workers : Worker(w)
  \/ \E a \in Adders : Adder(a)
  \/ Destroyer
  \/ Over

Spec == Init /\ [][Next]_vars

(***************************************************************************)
(* Every thread is scheduled, and the function of a job returns. Nothing   *)
(* makes the server start or stop: AllocJob, AllocFails and StopKeepalive  *)
(* have no fairness.                                                       *)
(***************************************************************************)
Fairness ==
  /\ \A w \in Workers : WF_vars(Worker(w))
  /\ \A a \in Adders :
       WF_vars(LockForAdd(a) \/ LinkJob(a) \/ PostJob(a) \/ UnlockAfterAdd(a))
  /\ WF_vars(PostOnce \/ SemDestroy \/ JoinAll \/ EmptyOne \/ FreePool)

FairSpec == Spec /\ Fairness

-----------------------------------------------------------------------------
(* Properties *)

WorkerPCs == {"loop", "enter", "blocked", "woken", "lock", "peek", "remove",
              "unlock", "run", "done"}
AdderPCs == {"idle", "lock", "link", "post", "unlock"}
DestroyPCs == {"idle", "post", "join", "empty", "emptied", "freed"}
Ends == {"up", "null job", "null curjob", "sem_wait failed", "no memory", "use after free"}

\* The types of the variables of thpool.c and of its callers.
TypeOK ==
  /\ keepalive \in BOOLEAN
  /\ mutex \in Workers \cup Adders \cup {NoThread}
  /\ jobqueue \in Seq(Jobs)
  /\ queueSem \in Nat
  /\ semLive \in BOOLEAN
  /\ pc \in [Workers -> WorkerPCs]
  /\ job_p \in [Workers -> Jobs \cup {NoJob}]
  /\ apc \in [Adders -> AdderPCs]
  /\ newJob \in [Adders -> Jobs \cup {NoJob}]
  /\ dpc \in DestroyPCs
  /\ t \in 0..threadsN
  /\ finished \in SUBSET Jobs
  /\ emptied \in SUBSET Jobs
  /\ process \in Ends

\* The workers a post has let through sem_wait and that have not taken a job yet.
Ticketed == {w \in Workers : pc[w] \in {"woken", "lock", "peek", "remove"}}

\* Those of them that will take a job without looking at keepalive again.
Committed == {w \in Workers : pc[w] \in {"lock", "peek", "remove"}}

\* The adders that have linked a job and not posted the semaphore for it yet.
Posting == {a \in Adders : apc[a] = "post"}

\* The semaphore and the queue agree: until shutdown each queued job has exactly
\* one token, in the semaphore, with a worker that sem_wait has released, or still
\* to be posted; and there is always a job for every worker about to take one.
TokensMatchJobs ==
  /\ keepalive =>
       Len(jobqueue) = queueSem + Cardinality(Ticketed) + Cardinality(Posting)
  /\ Cardinality(Committed) <= Len(jobqueue)

\* A worker never finds the queue empty: the posts thpool_destroy makes wake
\* workers for which there is no job, and none of them may reach the queue.
NeverNullJob == process # "null job"

\* A job is in one place: one position of the queue, one worker, one adder, or one
\* of the two ways it can have been freed. So no job is run or freed twice.
JobsInOnePlace ==
  /\ \A i, j \in 1..Len(jobqueue) : jobqueue[i] = jobqueue[j] => i = j
  /\ \A v, w \in Holders : job_p[v] = job_p[w] => v = w
  /\ \A a, b \in Adders : newJob[a] = newJob[b] /\ newJob[a] # NoJob => a = b
  /\ Queued \cap (Taken \cup Allocated \cup finished \cup emptied) = {}
  /\ Taken \cap (Allocated \cup finished \cup emptied) = {}
  /\ Allocated \cap (finished \cup emptied) = {}
  /\ finished \cap emptied = {}

\* When thpool_destroy destroys the semaphore no worker is blocked on it or will
\* block again, so the joins that follow wait only for running jobs.
NobodyLeftAsleep == dpc \in {"join", "empty", "emptied", "freed"} => Blocked = {} /\ ~semLive

\* thpool.h, 148-149: the threads that are active when thpool_destroy is called
\* finish what they are doing. The process does not end under a running job.
ActiveJobsFinish ==
  process = "sem_wait failed" => \A w \in Workers : pc[w] # "run"

\* A job that was added is run, unless the pool is stopped or the process ends.
EveryJobRuns ==
  \A j \in Jobs :
    j \in Queued ~> (j \in finished \/ ~keepalive \/ process # "up")

\* thpool_destroy returns, if the running jobs return and the process lives.
DestroyReturns == dpc = "post" ~> (dpc = "freed" \/ process # "up")

(***************************************************************************)
(* The pool implements JobDispatch: a job is pending while it is in the    *)
(* queue, running from the step that takes it until its function returns,  *)
(* discarded once thpool_jobqueue_empty has freed it.                      *)
(***************************************************************************)
Dispatch == INSTANCE JobDispatch WITH
  PoolSize <- threadsN,
  pending <- jobqueue,
  running <- Taken,
  done <- finished,
  discarded <- emptied,
  closed <- ~keepalive

\* Jobs start oldest first, once each, never more at a time than there are
\* threads; waiting jobs are thrown away only at shutdown, after the last
\* running job has ended, and nothing starts after that (thpool.h, 39-43).
ImplementsDispatch == Dispatch!Spec
==============================================================================
