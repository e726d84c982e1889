-------------------------- MODULE ThreadPoolProofs ---------------------------
(***************************************************************************)
(* Theorems about ThreadPool for every finite set of workers and adders    *)
(* and every set of jobs. The invariant that is inductive is IInv.         *)
(***************************************************************************)
EXTENDS ThreadPool, FiniteSetTheorems, TLAPS

-----------------------------------------------------------------------------
(* The inductive invariant behind the safety properties. *)

\* A post is never lost: no worker is blocked while the semaphore has a token.
NoLostWakeup == queueSem > 0 => Blocked = {}

\* The phases of thpool_destroy.
DestroyPhases ==
  /\ keepalive <=> dpc = "idle"
  /\ semLive <=> dpc \in {"idle", "post"}
  /\ dpc \in {"join", "empty", "emptied", "freed"} => Blocked = {}
  /\ dpc \in {"empty", "emptied", "freed"} => \A w \in Workers : pc[w] = "done"

\* The workers the shutdown has reached: they leave without another sem_wait.
Gone == {w \in Workers : pc[w] \in {"woken", "done"}}

\* Each post of thpool_destroy is still in the semaphore or has released a
\* worker for good. Once threadsN posts are made nobody can be left blocked.
PostsReachWorkers ==
  /\ keepalive => t = 0
  /\ ~keepalive => t <= queueSem + Cardinality(Gone)

\* The critical sections of the mutex.
MutexHeld ==
  /\ \A w \in Workers : pc[w] \in {"peek", "remove", "unlock"} => mutex = w
  /\ \A a \in Adders : apc[a] \in {"link", "post", "unlock"} => mutex = a

\* Between its peek and its removelast a worker holds the job it will remove.
PeekedFirst ==
  \A w \in Workers :
    pc[w] = "remove" => jobqueue # <<>> /\ job_p[w] = Head(jobqueue)

\* Who holds a job and who does not.
HandsFull ==
  /\ \A w \in Workers : job_p[w] # NoJob <=> pc[w] \in {"remove", "unlock", "run"}
  /\ \A a \in Adders : newJob[a] # NoJob <=> apc[a] \in {"lock", "link"}

\* Nothing is freed unrun before every worker has returned.
EmptiedLast == emptied # {} => dpc \in {"empty", "emptied", "freed"}

IInv ==
  /\ TypeOK
  /\ TokensMatchJobs
  /\ NeverNullJob
  /\ NoLostWakeup
  /\ DestroyPhases
  /\ PostsReachWorkers
  /\ MutexHeld
  /\ PeekedFirst
  /\ HandsFull
  /\ JobsInOnePlace
  /\ EmptiedLast

-----------------------------------------------------------------------------
(* Lemmas on the operators the model is built from. *)

\* The threads of S that are at one of the places P.
At(S, f, P) == {x \in S : f[x] \in P}

\* How many threads are at the places P when one of them, w, moves.
LEMMA MoveOne ==
  ASSUME NEW S, IsFiniteSet(S), NEW f, NEW g, NEW P, NEW w \in S,
         \A x \in S \ {w} : g[x] = f[x]
  PROVE  /\ Cardinality(At(S, f, P)) \in Nat
         /\ Cardinality(At(S, g, P)) \in Nat
         /\ f[w] \in P /\ g[w] \in P => Cardinality(At(S, g, P)) = Cardinality(At(S, f, P))
         /\ f[w] \notin P /\ g[w] \notin P => Cardinality(At(S, g, P)) = Cardinality(At(S, f, P))
         /\ f[w] \notin P /\ g[w] \in P => Cardinality(At(S, g, P)) = Cardinality(At(S, f, P)) + 1
         /\ f[w] \in P /\ g[w] \notin P => Cardinality(At(S, f, P)) = Cardinality(At(S, g, P)) + 1
<1> DEFINE A == At(S, f, P)
           B == At(S, g, P)
<1>1. IsFiniteSet(A) /\ IsFiniteSet(B)
  <2>1. A \subseteq S /\ B \subseteq S
    BY DEF At
  <2> QED
    BY <2>1, FS_Subset
<1>2. Cardinality(A) \in Nat /\ Cardinality(B) \in Nat
  BY <1>1, FS_CardinalityType
<1>3. ASSUME f[w] \in P <=> g[w] \in P
      PROVE  A = B
  BY <1>3 DEF At
<1>4. ASSUME f[w] \notin P, g[w] \in P
      PROVE  Cardinality(B) = Cardinality(A) + 1
  <2>1. B = A \cup {w} /\ w \notin A
    BY <1>4 DEF At
  <2> QED
    BY <2>1, <1>1, FS_AddElement
<1>5. ASSUME f[w] \in P, g[w] \notin P
      PROVE  Cardinality(A) = Cardinality(B) + 1
  <2>1. A = B \cup {w} /\ w \notin B
    BY <1>5 DEF At
  <2> QED
    BY <2>1, <1>1, FS_AddElement
<1> QED
  BY <1>2, <1>3, <1>4, <1>5

\* The jobs of a sequence.
Elems(s) == {s[i] : i \in 1..Len(s)}

\* No job stands twice in a sequence.
Distinct(s) == \A i, j \in 1..Len(s) : s[i] = s[j] => i = j

\* Linking a job puts it in the queue, behind the others.
LEMMA AppendElems ==
  ASSUME NEW J, NEW s \in Seq(J), NEW j \in J
  PROVE  /\ Append(s, j) \in Seq(J)
         /\ Append(s, j) # <<>>
         /\ Len(Append(s, j)) = Len(s) + 1
         /\ Elems(Append(s, j)) = Elems(s) \cup {j}
         /\ Distinct(s) /\ j \notin Elems(s) => Distinct(Append(s, j))
         /\ s # <<>> => Head(Append(s, j)) = Head(s)
<1>1. /\ Append(s, j) \in Seq(J)
      /\ Append(s, j) # <<>>
      /\ Len(Append(s, j)) = Len(s) + 1
      /\ s # <<>> => Head(Append(s, j)) = Head(s)
  <2>1. Append(s, j) \in Seq(J) /\ Len(Append(s, j)) = Len(s) + 1 /\ Len(s) \in Nat
    OBVIOUS
  <2>2. Append(s, j) # <<>>
    BY <2>1
  <2>3. ASSUME s # <<>>
        PROVE  Head(Append(s, j)) = Head(s)
    <3>1. Len(s) >= 1
      BY <2>3
    <3>2. Append(s, j)[1] = s[1]
      BY <3>1
    <3> QED
      BY <3>2, <2>1, <2>2, <2>3
  <2> QED
    BY <2>1, <2>2, <2>3
<1>2. Elems(Append(s, j)) = Elems(s) \cup {j}
  <2>1. \A i \in 1..Len(s) : Append(s, j)[i] = s[i]
    OBVIOUS
  <2>2. Append(s, j)[Len(s) + 1] = j
    OBVIOUS
  <2>3. 1..Len(Append(s, j)) = (1..Len(s)) \cup {Len(s) + 1}
    BY <1>1
  <2> QED
    BY <2>1, <2>2, <2>3 DEF Elems
<1>3. Distinct(s) /\ j \notin Elems(s) => Distinct(Append(s, j))
  BY <1>1 DEF Distinct, Elems
<1> QED
  BY <1>1, <1>2, <1>3

\* Removing the oldest job takes it, and only it, off the queue.
LEMMA TailElems ==
  ASSUME NEW J, NEW s \in Seq(J), s # <<>>
  PROVE  /\ Head(s) \in J
         /\ Tail(s) \in Seq(J)
         /\ Len(Tail(s)) = Len(s) - 1
         /\ Len(s) >= 1
         /\ Head(s) \in Elems(s)
         /\ Elems(s) = Elems(Tail(s)) \cup {Head(s)}
         /\ Distinct(s) => Distinct(Tail(s)) /\ Head(s) \notin Elems(Tail(s))
<1>1. /\ Len(s) \in Nat
      /\ Len(s) >= 1
      /\ Head(s) \in J
      /\ Head(s) = s[1]
      /\ Tail(s) \in Seq(J)
      /\ Len(Tail(s)) = Len(s) - 1
  OBVIOUS
<1>2. \A i \in 1..Len(s) - 1 : Tail(s)[i] = s[i + 1]
  OBVIOUS
<1>3. Elems(s) = Elems(Tail(s)) \cup {Head(s)}
  <2>1. \A i \in 1..Len(s) : i = 1 \/ i - 1 \in 1..Len(s) - 1
    BY <1>1
  <2>2. \A i \in 1..Len(s) - 1 : i + 1 \in 1..Len(s)
    BY <1>1
  <2>3. Elems(s) \subseteq Elems(Tail(s)) \cup {Head(s)}
    BY <2>1, <1>1, <1>2 DEF Elems
  <2>4. Elems(Tail(s)) \cup {Head(s)} \subseteq Elems(s)
    BY <2>2, <1>1, <1>2 DEF Elems
  <2> QED
    BY <2>3, <2>4
<1>4. Distinct(s) => Distinct(Tail(s)) /\ Head(s) \notin Elems(Tail(s))
  BY <1>1, <1>2 DEF Distinct, Elems
<1> QED
  BY <1>1, <1>3, <1>4 DEF Elems

-----------------------------------------------------------------------------
(* Types *)

\* The number of threads is a natural number.
LEMMA ThreadsNat == threadsN \in Nat
BY PoolAssumption, FS_CardinalityType DEF threadsN

\* A post leaves the semaphore a number and each worker at a place of its code.
LEMMA PostType ==
  ASSUME queueSem \in Nat, pc \in [Workers -> WorkerPCs], SemPost
  PROVE  /\ queueSem' \in Nat
         /\ pc' \in [Workers -> WorkerPCs]
BY DEF SemPost, Blocked, WorkerPCs

\* The variables keep their types, whatever the threads do.
LEMMA TypeStep == TypeOK /\ HandsFull /\ [Next]_vars => TypeOK'
<1> SUFFICES ASSUME TypeOK, HandsFull, [Next]_vars
             PROVE  TypeOK'
  OBVIOUS
<1> USE DEF TypeOK
<1>1. ASSUME NEW w \in Workers, LoopTest(w)
      PROVE  TypeOK'
  BY <1>1
     DEF LoopTest, queueVars, workerVars, adderVars, destroyVars, freeVars, WorkerPCs
<1>2. ASSUME NEW w \in Workers, SemWait(w)
      PROVE  TypeOK'
  <2>1. CASE semLive /\ queueSem > 0
    BY <1>2, <2>1 DEF SemWait, WorkerPCs, adderVars, destroyVars, freeVars
  <2>2. CASE semLive /\ ~(queueSem > 0)
    BY <1>2, <2>2 DEF SemWait, WorkerPCs, adderVars, destroyVars, freeVars
  <2>3. CASE ~semLive
    BY <1>2, <2>3 DEF SemWait, Ends, adderVars, destroyVars, freeVars
  <2> QED
    BY <2>1, <2>2, <2>3
<1>3. ASSUME NEW w \in Workers, Recheck(w)
      PROVE  TypeOK'
  BY <1>3
     DEF Recheck, queueVars, workerVars, adderVars, destroyVars, freeVars, WorkerPCs
<1>4. ASSUME NEW w \in Workers, LockQueue(w)
      PROVE  TypeOK'
  BY <1>4
     DEF LockQueue, queueVars, workerVars, adderVars, destroyVars, freeVars, WorkerPCs
<1>5. ASSUME NEW w \in Workers, PeekJob(w)
      PROVE  TypeOK'
  <2>1. CASE jobqueue = <<>>
    BY <1>5, <2>1 DEF PeekJob, Ends, queueVars, adderVars, destroyVars, freeVars
  <2>2. CASE jobqueue # <<>>
    <3>1. Head(jobqueue) \in Jobs
      BY <2>2, TailElems
    <3> QED
      BY <1>5, <2>2, <3>1 DEF PeekJob, WorkerPCs, queueVars, adderVars, destroyVars, freeVars
  <2> QED
    BY <2>1, <2>2
<1>6. ASSUME NEW w \in Workers, RemoveLast(w)
      PROVE  TypeOK'
  <2>1. jobqueue' \in Seq(Jobs)
    BY <1>6, TailElems DEF RemoveLast
  <2> QED
    BY <1>6, <2>1 DEF RemoveLast, WorkerPCs, adderVars, destroyVars, freeVars
<1>7. ASSUME NEW w \in Workers, UnlockQueue(w)
      PROVE  TypeOK'
  BY <1>7
     DEF UnlockQueue, queueVars, workerVars, adderVars, destroyVars, freeVars, WorkerPCs
<1>8. ASSUME NEW w \in Workers, FinishJob(w)
      PROVE  TypeOK'
  BY <1>8
     DEF FinishJob, queueVars, workerVars, adderVars, destroyVars, freeVars, HandsFull, WorkerPCs
<1>9. ASSUME NEW a \in Adders, NEW j \in Jobs, AllocJob(a, j)
      PROVE  TypeOK'
  BY <1>9
     DEF AllocJob, queueVars, workerVars, adderVars, destroyVars, freeVars, AdderPCs
<1>10. ASSUME NEW a \in Adders, AllocFails(a)
      PROVE  TypeOK'
  BY <1>10
     DEF AllocFails, queueVars, workerVars, adderVars, destroyVars, freeVars, Ends
<1>10a. ASSUME NEW a \in Adders, AddRaces(a)
      PROVE  TypeOK'
  BY <1>10a
     DEF AddRaces, queueVars, workerVars, adderVars, destroyVars, freeVars, Ends
<1>11. ASSUME NEW a \in Adders, LockForAdd(a)
      PROVE  TypeOK'
  BY <1>11
     DEF LockForAdd, queueVars, workerVars, adderVars, destroyVars, freeVars, AdderPCs
<1>12. ASSUME NEW a \in Adders, LinkJob(a)
      PROVE  TypeOK'
  <2>1. CASE dpc = "freed"
    BY <1>12, <2>1 DEF LinkJob, Ends, workerVars, destroyVars, freeVars
  <2>2. CASE dpc # "freed"
    <3>1. newJob[a] \in Jobs
      BY <1>12 DEF LinkJob, HandsFull
    <3>2. jobqueue' \in Seq(Jobs)
      <4>1. jobqueue' = Append(jobqueue, newJob[a]) /\ jobqueue \in Seq(Jobs)
        BY <1>12, <2>2 DEF LinkJob
      <4> HIDE DEF TypeOK
      <4> QED
        BY <3>1, <4>1, AppendElems
    <3> QED
      BY <1>12, <2>2, <3>2 DEF LinkJob, AdderPCs, workerVars, destroyVars, freeVars
  <2> QED
    BY <2>1, <2>2
<1>13. ASSUME NEW a \in Adders, PostJob(a)
      PROVE  TypeOK'
  <2>1. CASE dpc = "freed"
    BY <1>13, <2>1 DEF PostJob, Ends, destroyVars, freeVars
  <2>2. CASE dpc # "freed"
    BY <1>13, <2>2, PostType DEF PostJob, AdderPCs, destroyVars, freeVars
  <2> QED
    BY <2>1, <2>2
<1>14. ASSUME NEW a \in Adders, UnlockAfterAdd(a)
      PROVE  TypeOK'
  BY <1>14
     DEF UnlockAfterAdd, queueVars, workerVars, adderVars, destroyVars, freeVars, AdderPCs
<1>15. CASE StopKeepalive
  BY <1>15
     DEF StopKeepalive, queueVars, workerVars, adderVars, destroyVars, freeVars, DestroyPCs
<1>16. CASE PostOnce
  BY <1>16, PostType, ThreadsNat
     DEF PostOnce, queueVars, workerVars, adderVars, destroyVars, freeVars
<1>17. CASE SemDestroy
  BY <1>17
     DEF SemDestroy, queueVars, workerVars, adderVars, destroyVars, freeVars, DestroyPCs
<1>18. CASE JoinAll
  BY <1>18
     DEF JoinAll, queueVars, workerVars, adderVars, destroyVars, freeVars, DestroyPCs
<1>19. CASE EmptyOne
  BY <1>19, TailElems
     DEF EmptyOne, queueVars, workerVars, adderVars, destroyVars, freeVars, DestroyPCs
<1>20. CASE FreePool
  BY <1>20
     DEF FreePool, queueVars, workerVars, adderVars, destroyVars, freeVars, DestroyPCs, Ends
<1>21. CASE UNCHANGED vars
  BY <1>21 DEF vars
<1> QED
  BY <1>1, <1>2, <1>3, <1>4, <1>5, <1>6, <1>7, <1>8, <1>9, <1>10, <1>10a, <1>11, <1>12, <1>13, <1>14,
     <1>15, <1>16, <1>17, <1>18, <1>19, <1>20, <1>21
     DEF Next, Worker, Adder, Destroyer, Over

-----------------------------------------------------------------------------
(* The conjuncts of IInv, one lemma each. *)

\* Only the thread that holds the mutex is in a critical section.
LEMMA MutexStep == TypeOK /\ MutexHeld /\ [Next]_vars => MutexHeld'
<1> SUFFICES ASSUME TypeOK, MutexHeld, [Next]_vars
             PROVE  MutexHeld'
  OBVIOUS
<1> USE DEF TypeOK, MutexHeld
<1>1. ASSUME NEW w \in Workers, LoopTest(w)
      PROVE  MutexHeld'
  BY <1>1, PoolAssumption
     DEF LoopTest, queueVars, workerVars, adderVars, destroyVars, freeVars
<1>2. ASSUME NEW w \in Workers, SemWait(w)
      PROVE  MutexHeld'
  BY <1>2, PoolAssumption
     DEF SemWait, queueVars, workerVars, adderVars, destroyVars, freeVars
<1>3. ASSUME NEW w \in Workers, Recheck(w)
      PROVE  MutexHeld'
  BY <1>3, PoolAssumption
     DEF Recheck, queueVars, workerVars, adderVars, destroyVars, freeVars
<1>4. ASSUME NEW w \in Workers, LockQueue(w)
      PROVE  MutexHeld'
  BY <1>4, PoolAssumption
     DEF LockQueue, queueVars, workerVars, adderVars, destroyVars, freeVars
<1>5. ASSUME NEW w \in Workers, PeekJob(w)
      PROVE  MutexHeld'
  BY <1>5, PoolAssumption
     DEF PeekJob, queueVars, workerVars, adderVars, destroyVars, freeVars
<1>6. ASSUME NEW w \in Workers, RemoveLast(w)
      PROVE  MutexHeld'
  BY <1>6, PoolAssumption
     DEF RemoveLast, queueVars, workerVars, adderVars, destroyVars, freeVars
<1>7. ASSUME NEW w \in Workers, UnlockQueue(w)
      PROVE  MutexHeld'
  BY <1>7, PoolAssumption
     DEF UnlockQueue, queueVars, workerVars, adderVars, destroyVars, freeVars
<1>8. ASSUME NEW w \in Workers, FinishJob(w)
      PROVE  MutexHeld'
  BY <1>8, PoolAssumption
     DEF FinishJob, queueVars, workerVars, adderVars, destroyVars, freeVars
<1>9. ASSUME NEW a \in Adders, NEW j \in Jobs, AllocJob(a, j)
      PROVE  MutexHeld'
  BY <1>9, PoolAssumption
     DEF AllocJob, queueVars, workerVars, adderVars, destroyVars, freeVars
<1>10. ASSUME NEW a \in Adders, AllocFails(a)
      PROVE  MutexHeld'
  BY <1>10, PoolAssumption
     DEF AllocFails, queueVars, workerVars, adderVars, destroyVars, freeVars
<1>10a. ASSUME NEW a \in Adders, AddRaces(a)
      PROVE  MutexHeld'
  BY <1>10a, PoolAssumption
     DEF AddRaces, queueVars, workerVars, adderVars, destroyVars, freeVars
<1>11. ASSUME NEW a \in Adders, LockForAdd(a)
      PROVE  MutexHeld'
  BY <1>11, PoolAssumption
     DEF LockForAdd, queueVars, workerVars, adderVars, destroyVars, freeVars
<1>12. ASSUME NEW a \in Adders, LinkJob(a)
      PROVE  MutexHeld'
  BY <1>12, PoolAssumption
     DEF LinkJob, queueVars, workerVars, adderVars, destroyVars, freeVars
<1>13. ASSUME NEW a \in Adders, PostJob(a)
      PROVE  MutexHeld'
  BY <1>13, PoolAssumption
     DEF PostJob, queueVars, workerVars, adderVars, destroyVars, freeVars, SemPost, Blocked
<1>14. ASSUME NEW a \in Adders, UnlockAfterAdd(a)
      PROVE  MutexHeld'
  BY <1>14, PoolAssumption
     DEF UnlockAfterAdd, queueVars, workerVars, adderVars, destroyVars, freeVars
<1>15. CASE StopKeepalive
  BY <1>15, PoolAssumption
     DEF StopKeepalive, queueVars, workerVars, adderVars, destroyVars, freeVars
<1>16. CASE PostOnce
  BY <1>16, PoolAssumption
     DEF PostOnce, queueVars, workerVars, adderVars, destroyVars, freeVars, SemPost, Blocked
<1>17. CASE SemDestroy
  BY <1>17, PoolAssumption
     DEF SemDestroy, queueVars, workerVars, adderVars, destroyVars, freeVars
<1>18. CASE JoinAll
  BY <1>18, PoolAssumption
     DEF JoinAll, queueVars, workerVars, adderVars, destroyVars, freeVars
<1>19. CASE EmptyOne
  BY <1>19, PoolAssumption
     DEF EmptyOne, queueVars, workerVars, adderVars, destroyVars, freeVars
<1>20. CASE FreePool
  BY <1>20, PoolAssumption
     DEF FreePool, queueVars, workerVars, adderVars, destroyVars, freeVars
<1>21. CASE UNCHANGED vars
  BY <1>21, PoolAssumption DEF vars
<1> QED
  BY <1>1, <1>2, <1>3, <1>4, <1>5, <1>6, <1>7, <1>8, <1>9, <1>10, <1>10a, <1>11, <1>12, <1>13, <1>14,
     <1>15, <1>16, <1>17, <1>18, <1>19, <1>20, <1>21
     DEF Next, Worker, Adder, Destroyer, Over

\* A worker holds a job from its peek to its free, an adder from malloc to link.
LEMMA HandsStep == TypeOK /\ HandsFull /\ [Next]_vars => HandsFull'
<1> SUFFICES ASSUME TypeOK, HandsFull, [Next]_vars
             PROVE  HandsFull'
  OBVIOUS
<1> USE DEF TypeOK, HandsFull
<1>1. ASSUME NEW w \in Workers, LoopTest(w)
      PROVE  HandsFull'
  BY <1>1, PoolAssumption
     DEF LoopTest, queueVars, workerVars, adderVars, destroyVars, freeVars
<1>2. ASSUME NEW w \in Workers, SemWait(w)
      PROVE  HandsFull'
  BY <1>2, PoolAssumption
     DEF SemWait, queueVars, workerVars, adderVars, destroyVars, freeVars
<1>3. ASSUME NEW w \in Workers, Recheck(w)
      PROVE  HandsFull'
  BY <1>3, PoolAssumption
     DEF Recheck, queueVars, workerVars, adderVars, destroyVars, freeVars
<1>4. ASSUME NEW w \in Workers, LockQueue(w)
      PROVE  HandsFull'
  BY <1>4, PoolAssumption
     DEF LockQueue, queueVars, workerVars, adderVars, destroyVars, freeVars
<1>5. ASSUME NEW w \in Workers, PeekJob(w)
      PROVE  HandsFull'
  <2>1. jobqueue # <<>> => Head(jobqueue) \in Jobs
    BY TailElems
  <2> QED
    BY <1>5, <2>1, PoolAssumption DEF PeekJob, queueVars, adderVars, destroyVars, freeVars
<1>6. ASSUME NEW w \in Workers, RemoveLast(w)
      PROVE  HandsFull'
  BY <1>6, PoolAssumption
     DEF RemoveLast, queueVars, workerVars, adderVars, destroyVars, freeVars
<1>7. ASSUME NEW w \in Workers, UnlockQueue(w)
      PROVE  HandsFull'
  BY <1>7, PoolAssumption
     DEF UnlockQueue, queueVars, workerVars, adderVars, destroyVars, freeVars
<1>8. ASSUME NEW w \in Workers, FinishJob(w)
      PROVE  HandsFull'
  BY <1>8, PoolAssumption
     DEF FinishJob, queueVars, workerVars, adderVars, destroyVars, freeVars
<1>9. ASSUME NEW a \in Adders, NEW j \in Jobs, AllocJob(a, j)
      PROVE  HandsFull'
  BY <1>9, PoolAssumption
     DEF AllocJob, queueVars, workerVars, adderVars, destroyVars, freeVars
<1>10. ASSUME NEW a \in Adders, AllocFails(a)
      PROVE  HandsFull'
  BY <1>10, PoolAssumption
     DEF AllocFails, queueVars, workerVars, adderVars, destroyVars, freeVars
<1>10a. ASSUME NEW a \in Adders, AddRaces(a)
      PROVE  HandsFull'
  BY <1>10a, PoolAssumption
     DEF AddRaces, queueVars, workerVars, adderVars, destroyVars, freeVars
<1>11. ASSUME NEW a \in Adders, LockForAdd(a)
      PROVE  HandsFull'
  BY <1>11, PoolAssumption
     DEF LockForAdd, queueVars, workerVars, adderVars, destroyVars, freeVars
<1>12. ASSUME NEW a \in Adders, LinkJob(a)
      PROVE  HandsFull'
  BY <1>12, PoolAssumption
     DEF LinkJob, queueVars, workerVars, adderVars, destroyVars, freeVars
<1>13. ASSUME NEW a \in Adders, PostJob(a)
      PROVE  HandsFull'
  BY <1>13, PoolAssumption
     DEF PostJob, queueVars, workerVars, adderVars, destroyVars, freeVars, SemPost, Blocked
<1>14. ASSUME NEW a \in Adders, UnlockAfterAdd(a)
      PROVE  HandsFull'
  BY <1>14, PoolAssumption
     DEF UnlockAfterAdd, queueVars, workerVars, adderVars, destroyVars, freeVars
<1>15. CASE StopKeepalive
  BY <1>15, PoolAssumption
     DEF StopKeepalive, queueVars, workerVars, adderVars, destroyVars, freeVars
<1>16. CASE PostOnce
  BY <1>16, PoolAssumption
     DEF PostOnce, queueVars, workerVars, adderVars, destroyVars, freeVars, SemPost, Blocked
<1>17. CASE SemDestroy
  BY <1>17, PoolAssumption
     DEF SemDestroy, queueVars, workerVars, adderVars, destroyVars, freeVars
<1>18. CASE JoinAll
  BY <1>18, PoolAssumption
     DEF JoinAll, queueVars, workerVars, adderVars, destroyVars, freeVars
<1>19. CASE EmptyOne
  BY <1>19, PoolAssumption
     DEF EmptyOne, queueVars, workerVars, adderVars, destroyVars, freeVars
<1>20. CASE FreePool
  BY <1>20, PoolAssumption
     DEF FreePool, queueVars, workerVars, adderVars, destroyVars, freeVars
<1>21. CASE UNCHANGED vars
  BY <1>21, PoolAssumption DEF vars
<1> QED
  BY <1>1, <1>2, <1>3, <1>4, <1>5, <1>6, <1>7, <1>8, <1>9, <1>10, <1>10a, <1>11, <1>12, <1>13, <1>14,
     <1>15, <1>16, <1>17, <1>18, <1>19, <1>20, <1>21
     DEF Next, Worker, Adder, Destroyer, Over

\* Once threadsN posts are made no worker is blocked: one that were would leave
\* fewer than threadsN workers for the posts to have reached, and no token.
LEMMA AllAwake ==
  ASSUME TypeOK, NoLostWakeup, PostsReachWorkers, ~keepalive, t = threadsN
  PROVE  Blocked = {}
<1> SUFFICES ASSUME NEW w \in Blocked
             PROVE  FALSE
  OBVIOUS
<1>1. w \in Workers \ Gone
  BY DEF Blocked, Gone
<1>2. queueSem = 0
  BY DEF TypeOK, NoLostWakeup
<1>3. IsFiniteSet(Workers \ {w}) /\ Cardinality(Workers \ {w}) = Cardinality(Workers) - 1
  BY <1>1, PoolAssumption, FS_RemoveElement
<1>4. Gone \subseteq Workers \ {w}
  BY <1>1 DEF Gone
<1>5. IsFiniteSet(Gone) /\ Cardinality(Gone) <= Cardinality(Workers) - 1
  BY <1>3, <1>4, FS_Subset
<1>6. Cardinality(Gone) \in Nat
  BY <1>5, FS_CardinalityType
<1> QED
  BY <1>2, <1>5, <1>6, ThreadsNat DEF PostsReachWorkers, threadsN

\* thpool_destroy goes through its phases in order.
LEMMA PhasesStep == TypeOK /\ DestroyPhases /\ NoLostWakeup /\ PostsReachWorkers /\ [Next]_vars => DestroyPhases'
<1> SUFFICES ASSUME TypeOK, DestroyPhases, NoLostWakeup, PostsReachWorkers, [Next]_vars
             PROVE  DestroyPhases'
  OBVIOUS
<1> USE DEF TypeOK, DestroyPhases, Blocked, DestroyPCs
<1>1. ASSUME NEW w \in Workers, LoopTest(w)
      PROVE  DestroyPhases'
  BY <1>1 DEF LoopTest, queueVars, workerVars, adderVars, destroyVars, freeVars
<1>2. ASSUME NEW w \in Workers, SemWait(w)
      PROVE  DestroyPhases'
  BY <1>2 DEF SemWait, queueVars, workerVars, adderVars, destroyVars, freeVars
<1>3. ASSUME NEW w \in Workers, Recheck(w)
      PROVE  DestroyPhases'
  BY <1>3 DEF Recheck, queueVars, workerVars, adderVars, destroyVars, freeVars
<1>4. ASSUME NEW w \in Workers, LockQueue(w)
      PROVE  DestroyPhases'
  BY <1>4 DEF LockQueue, queueVars, workerVars, adderVars, destroyVars, freeVars
<1>5. ASSUME NEW w \in Workers, PeekJob(w)
      PROVE  DestroyPhases'
  BY <1>5 DEF PeekJob, queueVars, workerVars, adderVars, destroyVars, freeVars
<1>6. ASSUME NEW w \in Workers, RemoveLast(w)
      PROVE  DestroyPhases'
  BY <1>6 DEF RemoveLast, queueVars, workerVars, adderVars, destroyVars, freeVars
<1>7. ASSUME NEW w \in Workers, UnlockQueue(w)
      PROVE  DestroyPhases'
  BY <1>7 DEF UnlockQueue, queueVars, workerVars, adderVars, destroyVars, freeVars
<1>8. ASSUME NEW w \in Workers, FinishJob(w)
      PROVE  DestroyPhases'
  BY <1>8 DEF FinishJob, queueVars, workerVars, adderVars, destroyVars, freeVars
<1>9. ASSUME NEW a \in Adders, NEW j \in Jobs, AllocJob(a, j)
      PROVE  DestroyPhases'
  BY <1>9 DEF AllocJob, queueVars, workerVars, adderVars, destroyVars, freeVars
<1>10. ASSUME NEW a \in Adders, AllocFails(a)
      PROVE  DestroyPhases'
  BY <1>10 DEF AllocFails, queueVars, workerVars, adderVars, destroyVars, freeVars
<1>10a. ASSUME NEW a \in Adders, AddRaces(a)
      PROVE  DestroyPhases'
  BY <1>10a DEF AddRaces, queueVars, workerVars, adderVars, destroyVars, freeVars
<1>11. ASSUME NEW a \in Adders, LockForAdd(a)
      PROVE  DestroyPhases'
  BY <1>11 DEF LockForAdd, queueVars, workerVars, adderVars, destroyVars, freeVars
<1>12. ASSUME NEW a \in Adders, LinkJob(a)
      PROVE  DestroyPhases'
  BY <1>12 DEF LinkJob, queueVars, workerVars, adderVars, destroyVars, freeVars
<1>13. ASSUME NEW a \in Adders, PostJob(a)
      PROVE  DestroyPhases'
  BY <1>13
     DEF PostJob, queueVars, workerVars, adderVars, destroyVars, freeVars, SemPost, Blocked
<1>14. ASSUME NEW a \in Adders, UnlockAfterAdd(a)
      PROVE  DestroyPhases'
  BY <1>14
     DEF UnlockAfterAdd, queueVars, workerVars, adderVars, destroyVars, freeVars
<1>15. CASE StopKeepalive
  BY <1>15
     DEF StopKeepalive, queueVars, workerVars, adderVars, destroyVars, freeVars
<1>16. CASE PostOnce
  BY <1>16
     DEF PostOnce, queueVars, workerVars, adderVars, destroyVars, freeVars, SemPost, Blocked
<1>17. CASE SemDestroy
  <2>1. ~keepalive /\ t = threadsN
    BY <1>17 DEF SemDestroy
  <2>2. Blocked = {}
    BY <2>1, AllAwake
  <2> QED
    BY <1>17, <2>2 DEF SemDestroy, workerVars, adderVars
<1>18. CASE JoinAll
  BY <1>18 DEF JoinAll, queueVars, workerVars, adderVars, destroyVars, freeVars
<1>19. CASE EmptyOne
  BY <1>19 DEF EmptyOne, queueVars, workerVars, adderVars, destroyVars, freeVars
<1>20. CASE FreePool
  BY <1>20 DEF FreePool, queueVars, workerVars, adderVars, destroyVars, freeVars
<1>21. CASE UNCHANGED vars
  BY <1>21 DEF vars
<1> QED
  BY <1>1, <1>2, <1>3, <1>4, <1>5, <1>6, <1>7, <1>8, <1>9, <1>10, <1>10a, <1>11, <1>12, <1>13, <1>14,
     <1>15, <1>16, <1>17, <1>18, <1>19, <1>20, <1>21
     DEF Next, Worker, Adder, Destroyer, Over

\* No post is lost: a post raises the semaphore only when nobody is blocked.
LEMMA WakeupStep == TypeOK /\ NoLostWakeup /\ [Next]_vars => NoLostWakeup'
<1> SUFFICES ASSUME TypeOK, NoLostWakeup, [Next]_vars
             PROVE  NoLostWakeup'
  OBVIOUS
<1> USE DEF TypeOK, NoLostWakeup, Blocked
<1>1. ASSUME NEW w \in Workers, LoopTest(w)
      PROVE  NoLostWakeup'
  BY <1>1 DEF LoopTest, queueVars, workerVars, adderVars, destroyVars, freeVars
<1>2. ASSUME NEW w \in Workers, SemWait(w)
      PROVE  NoLostWakeup'
  BY <1>2 DEF SemWait, queueVars, workerVars, adderVars, destroyVars, freeVars
<1>3. ASSUME NEW w \in Workers, Recheck(w)
      PROVE  NoLostWakeup'
  BY <1>3 DEF Recheck, queueVars, workerVars, adderVars, destroyVars, freeVars
<1>4. ASSUME NEW w \in Workers, LockQueue(w)
      PROVE  NoLostWakeup'
  BY <1>4 DEF LockQueue, queueVars, workerVars, adderVars, destroyVars, freeVars
<1>5. ASSUME NEW w \in Workers, PeekJob(w)
      PROVE  NoLostWakeup'
  BY <1>5 DEF PeekJob, queueVars, workerVars, adderVars, destroyVars, freeVars
<1>6. ASSUME NEW w \in Workers, RemoveLast(w)
      PROVE  NoLostWakeup'
  BY <1>6 DEF RemoveLast, queueVars, workerVars, adderVars, destroyVars, freeVars
<1>7. ASSUME NEW w \in Workers, UnlockQueue(w)
      PROVE  NoLostWakeup'
  BY <1>7 DEF UnlockQueue, queueVars, workerVars, adderVars, destroyVars, freeVars
<1>8. ASSUME NEW w \in Workers, FinishJob(w)
      PROVE  NoLostWakeup'
  BY <1>8 DEF FinishJob, queueVars, workerVars, adderVars, destroyVars, freeVars
<1>9. ASSUME NEW a \in Adders, NEW j \in Jobs, AllocJob(a, j)
      PROVE  NoLostWakeup'
  BY <1>9 DEF AllocJob, queueVars, workerVars, adderVars, destroyVars, freeVars
<1>10. ASSUME NEW a \in Adders, AllocFails(a)
      PROVE  NoLostWakeup'
  BY <1>10 DEF AllocFails, queueVars, workerVars, adderVars, destroyVars, freeVars
<1>10a. ASSUME NEW a \in Adders, AddRaces(a)
      PROVE  NoLostWakeup'
  BY <1>10a DEF AddRaces, queueVars, workerVars, adderVars, destroyVars, freeVars
<1>11. ASSUME NEW a \in Adders, LockForAdd(a)
      PROVE  NoLostWakeup'
  BY <1>11 DEF LockForAdd, queueVars, workerVars, adderVars, destroyVars, freeVars
<1>12. ASSUME NEW a \in Adders, LinkJob(a)
      PROVE  NoLostWakeup'
  BY <1>12 DEF LinkJob, queueVars, workerVars, adderVars, destroyVars, freeVars
<1>13. ASSUME NEW a \in Adders, PostJob(a)
      PROVE  NoLostWakeup'
  BY <1>13
     DEF PostJob, queueVars, workerVars, adderVars, destroyVars, freeVars, SemPost, Blocked
<1>14. ASSUME NEW a \in Adders, UnlockAfterAdd(a)
      PROVE  NoLostWakeup'
  BY <1>14
     DEF UnlockAfterAdd, queueVars, workerVars, adderVars, destroyVars, freeVars
<1>15. CASE StopKeepalive
  BY <1>15
     DEF StopKeepalive, queueVars, workerVars, adderVars, destroyVars, freeVars
<1>16. CASE PostOnce
  BY <1>16
     DEF PostOnce, queueVars, workerVars, adderVars, destroyVars, freeVars, SemPost, Blocked
<1>17. CASE SemDestroy
  BY <1>17 DEF SemDestroy, queueVars, workerVars, adderVars, destroyVars, freeVars
<1>18. CASE JoinAll
  BY <1>18 DEF JoinAll, queueVars, workerVars, adderVars, destroyVars, freeVars
<1>19. CASE EmptyOne
  BY <1>19 DEF EmptyOne, queueVars, workerVars, adderVars, destroyVars, freeVars
<1>20. CASE FreePool
  BY <1>20 DEF FreePool, queueVars, workerVars, adderVars, destroyVars, freeVars
<1>21. CASE UNCHANGED vars
  BY <1>21 DEF vars
<1> QED
  BY <1>1, <1>2, <1>3, <1>4, <1>5, <1>6, <1>7, <1>8, <1>9, <1>10, <1>10a, <1>11, <1>12, <1>13, <1>14,
     <1>15, <1>16, <1>17, <1>18, <1>19, <1>20, <1>21
     DEF Next, Worker, Adder, Destroyer, Over

\* Jobs are thrown away only by the last phase of thpool_destroy.
LEMMA EmptiedStep == TypeOK /\ DestroyPhases /\ EmptiedLast /\ [Next]_vars => EmptiedLast'
<1> SUFFICES ASSUME TypeOK, DestroyPhases, EmptiedLast, [Next]_vars
             PROVE  EmptiedLast'
  OBVIOUS
<1> USE DEF DestroyPhases, EmptiedLast
<1>1. ASSUME NEW w \in Workers, LoopTest(w)
      PROVE  EmptiedLast'
  BY <1>1 DEF LoopTest, queueVars, workerVars, adderVars, destroyVars, freeVars
<1>2. ASSUME NEW w \in Workers, SemWait(w)
      PROVE  EmptiedLast'
  BY <1>2 DEF SemWait, queueVars, workerVars, adderVars, destroyVars, freeVars
<1>3. ASSUME NEW w \in Workers, Recheck(w)
      PROVE  EmptiedLast'
  BY <1>3 DEF Recheck, queueVars, workerVars, adderVars, destroyVars, freeVars
<1>4. ASSUME NEW w \in Workers, LockQueue(w)
      PROVE  EmptiedLast'
  BY <1>4 DEF LockQueue, queueVars, workerVars, adderVars, destroyVars, freeVars
<1>5. ASSUME NEW w \in Workers, PeekJob(w)
      PROVE  EmptiedLast'
  BY <1>5 DEF PeekJob, queueVars, workerVars, adderVars, destroyVars, freeVars
<1>6. ASSUME NEW w \in Workers, RemoveLast(w)
      PROVE  EmptiedLast'
  BY <1>6 DEF RemoveLast, queueVars, workerVars, adderVars, destroyVars, freeVars
<1>7. ASSUME NEW w \in Workers, UnlockQueue(w)
      PROVE  EmptiedLast'
  BY <1>7 DEF UnlockQueue, queueVars, workerVars, adderVars, destroyVars, freeVars
<1>8. ASSUME NEW w \in Workers, FinishJob(w)
      PROVE  EmptiedLast'
  BY <1>8 DEF FinishJob, queueVars, workerVars, adderVars, destroyVars, freeVars
<1>9. ASSUME NEW a \in Adders, NEW j \in Jobs, AllocJob(a, j)
      PROVE  EmptiedLast'
  BY <1>9 DEF AllocJob, queueVars, workerVars, adderVars, destroyVars, freeVars
<1>10. ASSUME NEW a \in Adders, AllocFails(a)
      PROVE  EmptiedLast'
  BY <1>10 DEF AllocFails, queueVars, workerVars, adderVars, destroyVars, freeVars
<1>10a. ASSUME NEW a \in Adders, AddRaces(a)
      PROVE  EmptiedLast'
  BY <1>10a DEF AddRaces, queueVars, workerVars, adderVars, destroyVars, freeVars
<1>11. ASSUME NEW a \in Adders, LockForAdd(a)
      PROVE  EmptiedLast'
  BY <1>11 DEF LockForAdd, queueVars, workerVars, adderVars, destroyVars, freeVars
<1>12. ASSUME NEW a \in Adders, LinkJob(a)
      PROVE  EmptiedLast'
  BY <1>12 DEF LinkJob, queueVars, workerVars, adderVars, destroyVars, freeVars
<1>13. ASSUME NEW a \in Adders, PostJob(a)
      PROVE  EmptiedLast'
  BY <1>13 DEF PostJob, queueVars, workerVars, adderVars, destroyVars, freeVars
<1>14. ASSUME NEW a \in Adders, UnlockAfterAdd(a)
      PROVE  EmptiedLast'
  BY <1>14
     DEF UnlockAfterAdd, queueVars, workerVars, adderVars, destroyVars, freeVars
<1>15. CASE StopKeepalive
  BY <1>15
     DEF StopKeepalive, queueVars, workerVars, adderVars, destroyVars, freeVars
<1>16. CASE PostOnce
  BY <1>16 DEF PostOnce, queueVars, workerVars, adderVars, destroyVars, freeVars
<1>17. CASE SemDestroy
  BY <1>17 DEF SemDestroy, queueVars, workerVars, adderVars, destroyVars, freeVars
<1>18. CASE JoinAll
  BY <1>18 DEF JoinAll, queueVars, workerVars, adderVars, destroyVars, freeVars
<1>19. CASE EmptyOne
  BY <1>19 DEF EmptyOne, queueVars, workerVars, adderVars, destroyVars, freeVars
<1>20. CASE FreePool
  BY <1>20 DEF FreePool, queueVars, workerVars, adderVars, destroyVars, freeVars
<1>21. CASE UNCHANGED vars
  BY <1>21 DEF vars
<1> QED
  BY <1>1, <1>2, <1>3, <1>4, <1>5, <1>6, <1>7, <1>8, <1>9, <1>10, <1>10a, <1>11, <1>12, <1>13, <1>14,
     <1>15, <1>16, <1>17, <1>18, <1>19, <1>20, <1>21
     DEF Next, Worker, Adder, Destroyer, Over

\* What a worker has peeked stays at the end of the queue until it removes it.
LEMMA PeekedStep == TypeOK /\ DestroyPhases /\ MutexHeld /\ PeekedFirst /\ [Next]_vars => PeekedFirst'
<1> SUFFICES ASSUME TypeOK, DestroyPhases, MutexHeld, PeekedFirst, [Next]_vars
             PROVE  PeekedFirst'
  OBVIOUS
<1> USE DEF TypeOK, PeekedFirst
<1>1. ASSUME NEW w \in Workers, LoopTest(w)
      PROVE  PeekedFirst'
  BY <1>1 DEF LoopTest, queueVars, workerVars, adderVars, destroyVars, freeVars
<1>2. ASSUME NEW w \in Workers, SemWait(w)
      PROVE  PeekedFirst'
  BY <1>2 DEF SemWait, queueVars, workerVars, adderVars, destroyVars, freeVars
<1>3. ASSUME NEW w \in Workers, Recheck(w)
      PROVE  PeekedFirst'
  BY <1>3 DEF Recheck, queueVars, workerVars, adderVars, destroyVars, freeVars
<1>4. ASSUME NEW w \in Workers, LockQueue(w)
      PROVE  PeekedFirst'
  BY <1>4 DEF LockQueue, queueVars, workerVars, adderVars, destroyVars, freeVars
<1>5. ASSUME NEW w \in Workers, PeekJob(w)
      PROVE  PeekedFirst'
  BY <1>5 DEF PeekJob, queueVars, workerVars, adderVars, destroyVars, freeVars
<1>6. ASSUME NEW w \in Workers, RemoveLast(w)
      PROVE  PeekedFirst'
  BY <1>6, PoolAssumption
     DEF RemoveLast, queueVars, workerVars, adderVars, destroyVars, freeVars, MutexHeld
<1>7. ASSUME NEW w \in Workers, UnlockQueue(w)
      PROVE  PeekedFirst'
  BY <1>7 DEF UnlockQueue, queueVars, workerVars, adderVars, destroyVars, freeVars
<1>8. ASSUME NEW w \in Workers, FinishJob(w)
      PROVE  PeekedFirst'
  BY <1>8 DEF FinishJob, queueVars, workerVars, adderVars, destroyVars, freeVars
<1>9. ASSUME NEW a \in Adders, NEW j \in Jobs, AllocJob(a, j)
      PROVE  PeekedFirst'
  BY <1>9 DEF AllocJob, queueVars, workerVars, adderVars, destroyVars, freeVars
<1>10. ASSUME NEW a \in Adders, AllocFails(a)
      PROVE  PeekedFirst'
  BY <1>10 DEF AllocFails, queueVars, workerVars, adderVars, destroyVars, freeVars
<1>10a. ASSUME NEW a \in Adders, AddRaces(a)
      PROVE  PeekedFirst'
  BY <1>10a DEF AddRaces, queueVars, workerVars, adderVars, destroyVars, freeVars
<1>11. ASSUME NEW a \in Adders, LockForAdd(a)
      PROVE  PeekedFirst'
  BY <1>11 DEF LockForAdd, queueVars, workerVars, adderVars, destroyVars, freeVars
<1>12. ASSUME NEW a \in Adders, LinkJob(a)
      PROVE  PeekedFirst'
  <2>1. CASE dpc = "freed"
    BY <1>12, <2>1 DEF LinkJob, workerVars
  <2>2. CASE dpc # "freed"
    <3>1. \A w \in Workers : pc[w] # "remove"
      BY <1>12, PoolAssumption DEF LinkJob, MutexHeld
    <3> QED
      BY <1>12, <2>2, <3>1 DEF LinkJob, workerVars
  <2> QED
    BY <2>1, <2>2
<1>13. ASSUME NEW a \in Adders, PostJob(a)
      PROVE  PeekedFirst'
  BY <1>13
     DEF PostJob, queueVars, workerVars, adderVars, destroyVars, freeVars, SemPost, Blocked
<1>14. ASSUME NEW a \in Adders, UnlockAfterAdd(a)
      PROVE  PeekedFirst'
  BY <1>14
     DEF UnlockAfterAdd, queueVars, workerVars, adderVars, destroyVars, freeVars
<1>15. CASE StopKeepalive
  BY <1>15
     DEF StopKeepalive, queueVars, workerVars, adderVars, destroyVars, freeVars
<1>16. CASE PostOnce
  BY <1>16
     DEF PostOnce, queueVars, workerVars, adderVars, destroyVars, freeVars, SemPost, Blocked
<1>17. CASE SemDestroy
  BY <1>17 DEF SemDestroy, queueVars, workerVars, adderVars, destroyVars, freeVars
<1>18. CASE JoinAll
  BY <1>18 DEF JoinAll, queueVars, workerVars, adderVars, destroyVars, freeVars
<1>19. CASE EmptyOne
  BY <1>19
     DEF EmptyOne, queueVars, workerVars, adderVars, destroyVars, freeVars, DestroyPhases
<1>20. CASE FreePool
  BY <1>20 DEF FreePool, queueVars, workerVars, adderVars, destroyVars, freeVars
<1>21. CASE UNCHANGED vars
  BY <1>21 DEF vars
<1> QED
  BY <1>1, <1>2, <1>3, <1>4, <1>5, <1>6, <1>7, <1>8, <1>9, <1>10, <1>10a, <1>11, <1>12, <1>13, <1>14,
     <1>15, <1>16, <1>17, <1>18, <1>19, <1>20, <1>21
     DEF Next, Worker, Adder, Destroyer, Over

-----------------------------------------------------------------------------
(* Counting tokens and workers. *)

TicketPCs == {"woken", "lock", "peek", "remove"}
CommitPCs == {"lock", "peek", "remove"}
GonePCs == {"woken", "done"}

One(b) == IF b THEN 1 ELSE 0

\* The counts the invariants speak of are natural numbers: the pool is finite.
LEMMA CountsNat ==
  /\ IsFiniteSet(Ticketed) /\ Cardinality(Ticketed) \in Nat
  /\ IsFiniteSet(Committed) /\ Cardinality(Committed) \in Nat
  /\ IsFiniteSet(Gone) /\ Cardinality(Gone) \in Nat
  /\ IsFiniteSet(Posting) /\ Cardinality(Posting) \in Nat
<1>1. /\ Ticketed \subseteq Workers
      /\ Committed \subseteq Workers
      /\ Gone \subseteq Workers
      /\ Posting \subseteq Adders
  BY DEF Ticketed, Committed, Gone, Posting
<1> QED
  BY <1>1, PoolAssumption, FS_Subset, FS_CardinalityType

\* The counts are numbers after a step too.
LEMMA CountsPrimed ==
  /\ Cardinality(Ticketed)' \in Nat
  /\ Cardinality(Committed)' \in Nat
  /\ Cardinality(Gone)' \in Nat
  /\ Cardinality(Posting)' \in Nat
<1>1. /\ Ticketed' \subseteq Workers
      /\ Committed' \subseteq Workers
      /\ Gone' \subseteq Workers
      /\ Posting' \subseteq Adders
  BY DEF Ticketed, Committed, Gone, Posting
<1> QED
  BY <1>1, PoolAssumption, FS_Subset, FS_CardinalityType

\* How many threads are at P when one of them moves from u to v.
LEMMA MoveFromTo ==
  ASSUME NEW S, IsFiniteSet(S), NEW f, NEW g, NEW P, NEW w \in S, NEW u, NEW v,
         f[w] = u, g[w] = v, \A x \in S \ {w} : g[x] = f[x]
  PROVE  Cardinality(At(S, g, P)) = Cardinality(At(S, f, P)) + One(v \in P) - One(u \in P)
BY MoveOne DEF One

\* What the move of one worker from u to v does to the counts.
WorkerMoved(u, v) ==
  /\ Cardinality(Ticketed)' =
       Cardinality(Ticketed) + One(v \in TicketPCs) - One(u \in TicketPCs)
  /\ Cardinality(Committed)' =
       Cardinality(Committed) + One(v \in CommitPCs) - One(u \in CommitPCs)
  /\ Cardinality(Gone)' =
       Cardinality(Gone) + One(v \in GonePCs) - One(u \in GonePCs)

\* What one worker going from place u to place v does to each count.
LEMMA WorkerMovesFromTo ==
  ASSUME NEW w \in Workers, NEW u, NEW v, pc[w] = u, pc'[w] = v,
         \A x \in Workers \ {w} : pc'[x] = pc[x]
  PROVE  WorkerMoved(u, v)
<1>2. ASSUME NEW P
      PROVE  Cardinality(At(Workers, pc', P)) =
               Cardinality(At(Workers, pc, P)) + One(v \in P) - One(u \in P)
  <2>1. IsFiniteSet(Workers)
    BY PoolAssumption
  <2> QED
    BY <2>1, MoveFromTo
<1>3. Ticketed = At(Workers, pc, TicketPCs) /\ Ticketed' = At(Workers, pc', TicketPCs)
  BY DEF Ticketed, At, TicketPCs
<1>4. Committed = At(Workers, pc, CommitPCs) /\ Committed' = At(Workers, pc', CommitPCs)
  BY DEF Committed, At, CommitPCs
<1>5. Gone = At(Workers, pc, GonePCs) /\ Gone' = At(Workers, pc', GonePCs)
  BY DEF Gone, At, GonePCs
<1> QED
  BY <1>2, <1>3, <1>4, <1>5 DEF WorkerMoved

\* The same, for an action that updates pc at one worker.
LEMMA WorkerMoves ==
  ASSUME TypeOK, NEW w \in Workers, NEW u, NEW v, pc[w] = u, pc' = [pc EXCEPT ![w] = v]
  PROVE  WorkerMoved(u, v)
<1>1. pc'[w] = v /\ \A x \in Workers \ {w} : pc'[x] = pc[x]
  BY DEF TypeOK
<1> QED
  BY <1>1, WorkerMovesFromTo

\* What the move of one adder does to the count of posts still to be made.
AdderMoved(u, v) ==
  Cardinality(Posting)' =
    Cardinality(Posting) + One(v \in {"post"}) - One(u \in {"post"})

\* What one adder going from place u to place v does to the jobs not yet posted.
LEMMA AdderMovesFromTo ==
  ASSUME NEW a \in Adders, NEW u, NEW v, apc[a] = u, apc'[a] = v,
         \A x \in Adders \ {a} : apc'[x] = apc[x]
  PROVE  AdderMoved(u, v)
<1>1. Posting = At(Adders, apc, {"post"}) /\ Posting' = At(Adders, apc', {"post"})
  BY DEF Posting, At
<1> QED
  BY <1>1, MoveFromTo, PoolAssumption DEF AdderMoved

\* The same, for an action that updates apc at one adder.
LEMMA AdderMoves ==
  ASSUME TypeOK, NEW a \in Adders, NEW u, NEW v, apc[a] = u, apc' = [apc EXCEPT ![a] = v]
  PROVE  AdderMoved(u, v)
<1>1. apc'[a] = v /\ \A x \in Adders \ {a} : apc'[x] = apc[x]
  BY DEF TypeOK
<1> QED
  BY <1>1, AdderMovesFromTo

\* The counts depend on the places of the threads only.
LEMMA CountsStay ==
  /\ pc' = pc => /\ Cardinality(Ticketed)' = Cardinality(Ticketed)
                 /\ Cardinality(Committed)' = Cardinality(Committed)
                 /\ Cardinality(Gone)' = Cardinality(Gone)
  /\ apc' = apc => Cardinality(Posting)' = Cardinality(Posting)
BY DEF Ticketed, Committed, Gone, Posting

\* A post on a live semaphore adds one token, in the semaphore or with a worker
\* that leaves sem_wait; on a destroyed one it changes nothing.
LEMMA PostCounts ==
  ASSUME TypeOK, SemPost
  PROVE  /\ Cardinality(Committed)' = Cardinality(Committed)
         /\ queueSem' + Cardinality(Ticketed)' = queueSem + Cardinality(Ticketed) + One(semLive)
         /\ queueSem' + Cardinality(Gone)' = queueSem + Cardinality(Gone) + One(semLive)
<1>1. CASE semLive /\ Blocked # {}
  <2>1. PICK w \in Blocked : pc' = [pc EXCEPT ![w] = "woken"]
    BY <1>1 DEF SemPost
  <2>2. w \in Workers /\ pc[w] = "blocked"
    BY <2>1 DEF Blocked
  <2>3. /\ Cardinality(Ticketed)' = Cardinality(Ticketed) + 1
        /\ Cardinality(Committed)' = Cardinality(Committed)
        /\ Cardinality(Gone)' = Cardinality(Gone) + 1
    <3>1. WorkerMoved("blocked", "woken")
      BY <2>1, <2>2, WorkerMoves
    <3> QED
      BY <3>1, CountsNat DEF WorkerMoved, TicketPCs, CommitPCs, GonePCs, One
  <2> QED
    <3>1. queueSem' = queueSem /\ queueSem \in Nat /\ One(semLive) = 1
      BY <1>1 DEF SemPost, TypeOK, One
    <3> QED
      BY <2>3, <3>1, CountsNat
<1>2. CASE ~(semLive /\ Blocked # {})
  <2>1. pc' = pc /\ queueSem' = queueSem + One(semLive)
    BY <1>2 DEF SemPost, TypeOK, One
  <2>2. queueSem \in Nat /\ One(semLive) \in Nat
    BY DEF TypeOK, One
  <2> QED
    BY <2>1, <2>2, CountsStay, CountsNat
<1> QED
  BY <1>1, <1>2

\* A worker that has just left sem_wait is not counted among the committed ones.
LEMMA WokenUncommitted ==
  ASSUME NEW w \in Workers, pc[w] = "woken"
  PROVE  Cardinality(Committed) + 1 <= Cardinality(Ticketed)
<1>1. w \notin Committed /\ Committed \cup {w} \subseteq Ticketed
  BY DEF Committed, Ticketed
<1>2. Cardinality(Committed \cup {w}) = Cardinality(Committed) + 1
  BY <1>1, CountsNat, FS_AddElement
<1> QED
  BY <1>1, <1>2, CountsNat, FS_Subset

\* Jobs and tokens match before shutdown, posts and workers during it.
LEMMA CountStep == TypeOK /\ DestroyPhases /\ PeekedFirst /\ HandsFull /\ TokensMatchJobs /\ PostsReachWorkers /\ [Next]_vars => TokensMatchJobs' /\ PostsReachWorkers'
<1> SUFFICES ASSUME TypeOK, DestroyPhases, PeekedFirst, HandsFull, TokensMatchJobs, PostsReachWorkers, [Next]_vars
             PROVE  TokensMatchJobs' /\ PostsReachWorkers'
  OBVIOUS
<1>1. ASSUME NEW w \in Workers, LoopTest(w)
      PROVE  TokensMatchJobs' /\ PostsReachWorkers'
  <2>1. PICK v \in {"enter", "done"} :
          /\ pc[w] = "loop" /\ pc' = [pc EXCEPT ![w] = v]
          /\ v = "done" <=> ~keepalive
    BY <1>1 DEF LoopTest, TypeOK
  <2>2. /\ Cardinality(Ticketed)' = Cardinality(Ticketed)
        /\ Cardinality(Committed)' = Cardinality(Committed)
        /\ Cardinality(Gone)' >= Cardinality(Gone)
    <3>1. WorkerMoved("loop", v)
      BY <2>1, WorkerMoves
    <3> QED
      BY <3>1, CountsNat DEF WorkerMoved, TicketPCs, CommitPCs, GonePCs, One
  <2> QED
    BY <1>1, <2>2, CountsNat, CountsPrimed, CountsStay, ThreadsNat
       DEF LoopTest, TypeOK, TokensMatchJobs, PostsReachWorkers, queueVars, adderVars, destroyVars
<1>2. ASSUME NEW w \in Workers, SemWait(w)
      PROVE  TokensMatchJobs' /\ PostsReachWorkers'
  <2>1. CASE semLive /\ queueSem > 0
    <3>1. pc[w] = "enter" /\ pc' = [pc EXCEPT ![w] = "woken"] /\ queueSem' = queueSem - 1
      BY <1>2, <2>1 DEF SemWait
    <3>2. /\ Cardinality(Ticketed)' = Cardinality(Ticketed) + 1
          /\ Cardinality(Committed)' = Cardinality(Committed)
          /\ Cardinality(Gone)' = Cardinality(Gone) + 1
      <4>1. WorkerMoved("enter", "woken")
        BY <3>1, WorkerMoves
      <4> QED
        BY <4>1, CountsNat DEF WorkerMoved, TicketPCs, CommitPCs, GonePCs, One
    <3> QED
      BY <1>2, <3>1, <3>2, CountsNat, CountsStay, ThreadsNat
         DEF SemWait, TypeOK, TokensMatchJobs, PostsReachWorkers, adderVars, destroyVars
  <2>2. CASE semLive /\ ~(queueSem > 0)
    <3>1. pc[w] = "enter" /\ pc' = [pc EXCEPT ![w] = "blocked"] /\ queueSem' = queueSem
      BY <1>2, <2>2 DEF SemWait
    <3>2. /\ Cardinality(Ticketed)' = Cardinality(Ticketed)
          /\ Cardinality(Committed)' = Cardinality(Committed)
          /\ Cardinality(Gone)' = Cardinality(Gone)
      <4>1. WorkerMoved("enter", "blocked")
        BY <3>1, WorkerMoves
      <4> QED
        BY <4>1, CountsNat DEF WorkerMoved, TicketPCs, CommitPCs, GonePCs, One
    <3> QED
      BY <1>2, <3>1, <3>2, CountsStay DEF SemWait, TokensMatchJobs, PostsReachWorkers, adderVars, destroyVars
  <2>3. CASE ~semLive
    BY <1>2, <2>3, CountsStay DEF SemWait, TokensMatchJobs, PostsReachWorkers, adderVars, destroyVars
  <2> QED
    BY <2>1, <2>2, <2>3
<1>3. ASSUME NEW w \in Workers, Recheck(w)
      PROVE  TokensMatchJobs' /\ PostsReachWorkers'
  <2>1. CASE keepalive
    <3>1. pc[w] = "woken" /\ pc' = [pc EXCEPT ![w] = "lock"]
      BY <1>3, <2>1 DEF Recheck
    <3>2. /\ Cardinality(Ticketed)' = Cardinality(Ticketed)
          /\ Cardinality(Committed)' = Cardinality(Committed) + 1
      <4>1. WorkerMoved("woken", "lock")
        BY <3>1, WorkerMoves
      <4> QED
        BY <4>1, CountsNat DEF WorkerMoved, TicketPCs, CommitPCs, One
    <3>3. Cardinality(Committed) + 1 <= Cardinality(Ticketed)
      BY <3>1, WokenUncommitted
    <3> QED
      BY <1>3, <2>1, <3>2, <3>3, CountsNat, CountsStay
         DEF Recheck, TypeOK, TokensMatchJobs, PostsReachWorkers, queueVars, adderVars, destroyVars
  <2>2. CASE ~keepalive
    <3>1. pc[w] = "woken" /\ pc' = [pc EXCEPT ![w] = "done"]
      BY <1>3, <2>2 DEF Recheck
    <3>2. /\ Cardinality(Committed)' = Cardinality(Committed)
          /\ Cardinality(Gone)' = Cardinality(Gone)
      <4>1. WorkerMoved("woken", "done")
        BY <3>1, WorkerMoves
      <4> QED
        BY <4>1, CountsNat DEF WorkerMoved, CommitPCs, GonePCs, One
    <3> QED
      BY <1>3, <2>2, <3>2 DEF Recheck, TokensMatchJobs, PostsReachWorkers, queueVars, destroyVars
  <2> QED
    BY <2>1, <2>2
<1>4. ASSUME NEW w \in Workers, LockQueue(w)
      PROVE  TokensMatchJobs' /\ PostsReachWorkers'
  <2>1. pc[w] = "lock" /\ pc' = [pc EXCEPT ![w] = "peek"]
    BY <1>4 DEF LockQueue
  <2>2. /\ Cardinality(Ticketed)' = Cardinality(Ticketed)
        /\ Cardinality(Committed)' = Cardinality(Committed)
        /\ Cardinality(Gone)' = Cardinality(Gone)
    <3>1. WorkerMoved("lock", "peek")
      BY <2>1, WorkerMoves
    <3> QED
      BY <3>1, CountsNat DEF WorkerMoved, TicketPCs, CommitPCs, GonePCs, One
  <2> QED
    BY <1>4, <2>2, CountsStay DEF LockQueue, TokensMatchJobs,
       PostsReachWorkers, queueVars, adderVars, destroyVars
<1>5. ASSUME NEW w \in Workers, PeekJob(w)
      PROVE  TokensMatchJobs' /\ PostsReachWorkers'
  <2>1. CASE jobqueue = <<>>
    BY <1>5, <2>1, CountsStay DEF PeekJob, TokensMatchJobs, PostsReachWorkers, queueVars, adderVars, destroyVars
  <2>2. CASE jobqueue # <<>>
    <3>1. pc[w] = "peek" /\ pc' = [pc EXCEPT ![w] = "remove"]
      BY <1>5, <2>2 DEF PeekJob
    <3>2. /\ Cardinality(Ticketed)' = Cardinality(Ticketed)
          /\ Cardinality(Committed)' = Cardinality(Committed)
          /\ Cardinality(Gone)' = Cardinality(Gone)
      <4>1. WorkerMoved("peek", "remove")
        BY <3>1, WorkerMoves
      <4> QED
        BY <4>1, CountsNat DEF WorkerMoved, TicketPCs, CommitPCs, GonePCs, One
    <3> QED
      BY <1>5, <3>2, CountsStay DEF PeekJob, TokensMatchJobs, PostsReachWorkers, queueVars, adderVars, destroyVars
  <2> QED
    BY <2>1, <2>2
<1>6. ASSUME NEW w \in Workers, RemoveLast(w)
      PROVE  TokensMatchJobs' /\ PostsReachWorkers'
  <2>1. jobqueue # <<>> /\ jobqueue' = Tail(jobqueue)
    BY <1>6 DEF RemoveLast, PeekedFirst
  <2>2. Len(jobqueue') = Len(jobqueue) - 1 /\ Len(jobqueue) \in Nat
    BY <2>1, TailElems DEF TypeOK
  <2>3. pc[w] = "remove" /\ pc' = [pc EXCEPT ![w] = "unlock"]
    BY <1>6 DEF RemoveLast
  <2>4. /\ Cardinality(Ticketed)' = Cardinality(Ticketed) - 1
        /\ Cardinality(Committed)' = Cardinality(Committed) - 1
        /\ Cardinality(Gone)' = Cardinality(Gone)
    <3>1. WorkerMoved("remove", "unlock")
      BY <2>3, WorkerMoves
    <3> QED
      BY <3>1, CountsNat DEF WorkerMoved, TicketPCs, CommitPCs, GonePCs, One
  <2> QED
    <3>1. UNCHANGED <<keepalive, t, queueSem>> /\ Cardinality(Posting)' = Cardinality(Posting)
      BY <1>6, CountsStay DEF RemoveLast, adderVars, destroyVars
    <3>2. queueSem \in Nat
      BY DEF TypeOK
    <3> QED
      BY <2>2, <2>4, <3>1, <3>2, CountsNat DEF TokensMatchJobs, PostsReachWorkers
<1>7. ASSUME NEW w \in Workers, UnlockQueue(w)
      PROVE  TokensMatchJobs' /\ PostsReachWorkers'
  <2>1. pc[w] = "unlock" /\ pc' = [pc EXCEPT ![w] = "run"]
    BY <1>7 DEF UnlockQueue
  <2>2. /\ Cardinality(Ticketed)' = Cardinality(Ticketed)
        /\ Cardinality(Committed)' = Cardinality(Committed)
        /\ Cardinality(Gone)' = Cardinality(Gone)
    <3>1. WorkerMoved("unlock", "run")
      BY <2>1, WorkerMoves
    <3> QED
      BY <3>1, CountsNat DEF WorkerMoved, TicketPCs, CommitPCs, GonePCs, One
  <2> QED
    BY <1>7, <2>2, CountsStay DEF UnlockQueue, TokensMatchJobs,
       PostsReachWorkers, queueVars, adderVars, destroyVars
<1>8. ASSUME NEW w \in Workers, FinishJob(w)
      PROVE  TokensMatchJobs' /\ PostsReachWorkers'
  <2>1. pc[w] = "run" /\ pc' = [pc EXCEPT ![w] = "loop"]
    BY <1>8 DEF FinishJob
  <2>2. /\ Cardinality(Ticketed)' = Cardinality(Ticketed)
        /\ Cardinality(Committed)' = Cardinality(Committed)
        /\ Cardinality(Gone)' = Cardinality(Gone)
    <3>1. WorkerMoved("run", "loop")
      BY <2>1, WorkerMoves
    <3> QED
      BY <3>1, CountsNat DEF WorkerMoved, TicketPCs, CommitPCs, GonePCs, One
  <2> QED
    BY <1>8, <2>2, CountsStay DEF FinishJob, TokensMatchJobs,
       PostsReachWorkers, queueVars, adderVars, destroyVars
<1>9. ASSUME NEW a \in Adders, NEW j \in Jobs, AllocJob(a, j)
      PROVE  TokensMatchJobs' /\ PostsReachWorkers'
  <2>1. apc[a] = "idle" /\ apc' = [apc EXCEPT ![a] = "lock"]
    BY <1>9 DEF AllocJob
  <2>2. Cardinality(Posting)' = Cardinality(Posting)
    <3>1. AdderMoved("idle", "lock")
      BY <2>1, AdderMoves
    <3> QED
      BY <3>1, CountsNat DEF AdderMoved, One
  <2> QED
    BY <1>9, <2>2, CountsStay DEF AllocJob, TokensMatchJobs,
       PostsReachWorkers, queueVars, workerVars, destroyVars
<1>10. ASSUME NEW a \in Adders, AllocFails(a)
      PROVE  TokensMatchJobs' /\ PostsReachWorkers'
  BY <1>10, CountsStay
     DEF AllocFails, queueVars, workerVars, adderVars, destroyVars, freeVars, TokensMatchJobs, PostsReachWorkers
<1>10a. ASSUME NEW a \in Adders, AddRaces(a)
      PROVE  TokensMatchJobs' /\ PostsReachWorkers'
  BY <1>10a, CountsStay
     DEF AddRaces, queueVars, workerVars, adderVars, destroyVars, freeVars, TokensMatchJobs, PostsReachWorkers
<1>11. ASSUME NEW a \in Adders, LockForAdd(a)
      PROVE  TokensMatchJobs' /\ PostsReachWorkers'
  <2>1. apc[a] = "lock" /\ apc' = [apc EXCEPT ![a] = "link"]
    BY <1>11 DEF LockForAdd
  <2>2. Cardinality(Posting)' = Cardinality(Posting)
    <3>1. AdderMoved("lock", "link")
      BY <2>1, AdderMoves
    <3> QED
      BY <3>1, CountsNat DEF AdderMoved, One
  <2> QED
    BY <1>11, <2>2, CountsStay DEF LockForAdd, TokensMatchJobs,
       PostsReachWorkers, queueVars, workerVars, destroyVars
<1>12. ASSUME NEW a \in Adders, LinkJob(a)
      PROVE  TokensMatchJobs' /\ PostsReachWorkers'
  <2>1. CASE dpc = "freed"
    BY <1>12, <2>1, CountsStay DEF LinkJob, TokensMatchJobs, PostsReachWorkers, workerVars, destroyVars
  <2>2. CASE dpc # "freed"
    <3>1. newJob[a] \in Jobs
      BY <1>12 DEF LinkJob, HandsFull, TypeOK
    <3>2. Len(jobqueue') = Len(jobqueue) + 1 /\ Len(jobqueue) \in Nat
      BY <1>12, <2>2, <3>1, AppendElems DEF LinkJob, TypeOK
    <3>3. apc[a] = "link" /\ apc' = [apc EXCEPT ![a] = "post"]
      BY <1>12, <2>2 DEF LinkJob
    <3>4. Cardinality(Posting)' = Cardinality(Posting) + 1
      <4>1. AdderMoved("link", "post")
        BY <3>3, AdderMoves
      <4> QED
        BY <4>1, CountsNat DEF AdderMoved, One
    <3> QED
      <4>1. /\ UNCHANGED <<keepalive, t, queueSem>>
            /\ Cardinality(Ticketed)' = Cardinality(Ticketed)
            /\ Cardinality(Committed)' = Cardinality(Committed)
            /\ Cardinality(Gone)' = Cardinality(Gone)
        BY <1>12, CountsStay DEF LinkJob, workerVars, destroyVars
      <4>2. queueSem \in Nat
        BY DEF TypeOK
      <4> QED
        BY <3>2, <3>4, <4>1, <4>2, CountsNat DEF TokensMatchJobs, PostsReachWorkers
  <2> QED
    BY <2>1, <2>2
<1>13. ASSUME NEW a \in Adders, PostJob(a)
      PROVE  TokensMatchJobs' /\ PostsReachWorkers'
  <2>1. CASE dpc = "freed"
    BY <1>13, <2>1, CountsStay DEF PostJob, TokensMatchJobs, PostsReachWorkers, destroyVars
  <2>2. CASE dpc # "freed"
    <3>1. apc[a] = "post" /\ apc' = [apc EXCEPT ![a] = "unlock"] /\ SemPost
      BY <1>13, <2>2 DEF PostJob
    <3>2. Cardinality(Posting)' = Cardinality(Posting) - 1
      <4>1. AdderMoved("post", "unlock")
        BY <3>1, AdderMoves
      <4> QED
        BY <4>1, CountsNat DEF AdderMoved, One
    <3>3. queueSem' \in Nat
      BY <3>1, PostType DEF TypeOK
    <3>4. keepalive => semLive
      BY DEF DestroyPhases
    <3> QED
      <4>1. UNCHANGED <<keepalive, t, jobqueue>>
        BY <1>13, <2>2 DEF PostJob, destroyVars
      <4>2. /\ Cardinality(Committed)' = Cardinality(Committed)
            /\ queueSem' + Cardinality(Ticketed)' =
                 queueSem + Cardinality(Ticketed) + One(semLive)
            /\ queueSem' + Cardinality(Gone)' = queueSem + Cardinality(Gone) + One(semLive)
        BY <3>1, PostCounts
      <4>3. /\ queueSem \in Nat /\ t \in Nat /\ Len(jobqueue) \in Nat
            /\ One(semLive) \in Nat /\ (keepalive => One(semLive) = 1)
        BY <3>4, ThreadsNat DEF TypeOK, One
      <4>4. TokensMatchJobs'
        <5>1. ASSUME keepalive
              PROVE  queueSem' + Cardinality(Ticketed)' + Cardinality(Posting)' =
                       queueSem + Cardinality(Ticketed) + Cardinality(Posting)
          <6>1. One(semLive) = 1
            BY <4>3, <5>1
          <6>2. queueSem' + Cardinality(Ticketed)' = queueSem + Cardinality(Ticketed) + 1
            BY <4>2, <6>1
          <6>3. /\ queueSem \in Nat /\ Cardinality(Ticketed) \in Nat
                /\ Cardinality(Posting) \in Nat
            BY <4>3, CountsNat
          <6>4. queueSem' \in Nat /\ Cardinality(Ticketed)' \in Nat
            BY <3>3, CountsPrimed
          <6> QED
            BY <3>2, <6>2, <6>3, <6>4
        <5>2. keepalive =>
                Len(jobqueue) = queueSem + Cardinality(Ticketed) + Cardinality(Posting)
          BY DEF TokensMatchJobs
        <5>3. Cardinality(Committed) <= Len(jobqueue)
          BY DEF TokensMatchJobs
        <5> QED
          BY <4>1, <4>2, <5>1, <5>2, <5>3 DEF TokensMatchJobs
      <4>5. PostsReachWorkers'
        <5>1. queueSem' + Cardinality(Gone)' >= queueSem + Cardinality(Gone)
          BY <4>2, <4>3, CountsNat
        <5>2. /\ queueSem + Cardinality(Gone) \in Nat
              /\ queueSem' + Cardinality(Gone)' \in Nat
          BY <3>3, <4>3, CountsNat, CountsPrimed
        <5>3. (~keepalive)' => (t <= queueSem + Cardinality(Gone))'
          BY <4>1, <4>3, <5>1, <5>2 DEF PostsReachWorkers
        <5>4. keepalive' => t' = 0
          BY <4>1 DEF PostsReachWorkers
        <5> QED
          BY <5>3, <5>4 DEF PostsReachWorkers
      <4> QED
        BY <4>4, <4>5
  <2> QED
    BY <2>1, <2>2
<1>14. ASSUME NEW a \in Adders, UnlockAfterAdd(a)
      PROVE  TokensMatchJobs' /\ PostsReachWorkers'
  <2>1. apc[a] = "unlock" /\ apc' = [apc EXCEPT ![a] = "idle"]
    BY <1>14 DEF UnlockAfterAdd
  <2>2. Cardinality(Posting)' = Cardinality(Posting)
    <3>1. AdderMoved("unlock", "idle")
      BY <2>1, AdderMoves
    <3> QED
      BY <3>1, CountsNat DEF AdderMoved, One
  <2> QED
    BY <1>14, <2>2, CountsStay DEF UnlockAfterAdd, TokensMatchJobs,
       PostsReachWorkers, queueVars, workerVars, destroyVars
<1>15. CASE StopKeepalive
  BY <1>15, CountsStay, CountsNat
     DEF StopKeepalive, queueVars, workerVars, adderVars, destroyVars, freeVars, TypeOK, TokensMatchJobs, PostsReachWorkers
<1>16. CASE PostOnce
  <2>1. SemPost /\ semLive /\ ~keepalive
    BY <1>16 DEF PostOnce, DestroyPhases
  <2>2. queueSem' \in Nat
    BY <2>1, PostType DEF TypeOK
  <2>3. keepalive' = keepalive /\ jobqueue' = jobqueue /\ t' = t + 1
    BY <1>16 DEF PostOnce
  <2>4. t \in Nat /\ queueSem \in Nat
    BY ThreadsNat DEF TypeOK
  <2>5. /\ Cardinality(Committed)' = Cardinality(Committed)
        /\ queueSem' + Cardinality(Gone)' = queueSem + Cardinality(Gone) + 1
    BY <2>1, PostCounts DEF One
  <2>6. TokensMatchJobs'
    BY <2>1, <2>3, <2>5 DEF TokensMatchJobs
  <2>7. PostsReachWorkers'
    <3>1. t <= queueSem + Cardinality(Gone)
      BY <2>1 DEF PostsReachWorkers
    <3>2. t + 1 <= queueSem' + Cardinality(Gone)'
      BY <2>2, <2>4, <2>5, <3>1, CountsNat, CountsPrimed
    <3> QED
      BY <2>1, <2>3, <3>2 DEF PostsReachWorkers
  <2> QED
    BY <2>6, <2>7
<1>17. CASE SemDestroy
  BY <1>17, CountsStay
     DEF SemDestroy, queueVars, workerVars, adderVars, destroyVars, freeVars, TokensMatchJobs, PostsReachWorkers
<1>18. CASE JoinAll
  BY <1>18, CountsStay
     DEF JoinAll, queueVars, workerVars, adderVars, destroyVars, freeVars, TokensMatchJobs, PostsReachWorkers
<1>19. CASE EmptyOne
  <2>1. Committed = {}
    BY <1>19 DEF EmptyOne, DestroyPhases, Committed
  <2>2. Cardinality(Committed)' = 0
    BY <1>19, <2>1, FS_EmptySet, CountsStay DEF EmptyOne, workerVars
  <2>3. Len(jobqueue') \in Nat
    BY <1>19, TailElems DEF EmptyOne, TypeOK
  <2> QED
    BY <1>19, <2>2, <2>3, CountsStay DEF EmptyOne, DestroyPhases, TokensMatchJobs, PostsReachWorkers, workerVars, destroyVars
<1>20. CASE FreePool
  BY <1>20, CountsStay
     DEF FreePool, queueVars, workerVars, adderVars, destroyVars, freeVars, TokensMatchJobs, PostsReachWorkers
<1>21. CASE UNCHANGED vars
  BY <1>21, CountsStay DEF vars, TokensMatchJobs, PostsReachWorkers
<1> QED
  BY <1>1, <1>2, <1>3, <1>4, <1>5, <1>6, <1>7, <1>8, <1>9, <1>10, <1>10a, <1>11, <1>12, <1>13, <1>14,
     <1>15, <1>16, <1>17, <1>18, <1>19, <1>20, <1>21
     DEF Next, Worker, Adder, Destroyer, Over

-----------------------------------------------------------------------------
(* The jobs. *)

\* The queue of the model and the lemmas on sequences.
LEMMA QueuedElems ==
  /\ Queued = Elems(jobqueue) /\ Queued' = Elems(jobqueue')
  /\ JobsInOnePlace => Distinct(jobqueue)
BY DEF Queued, Elems, JobsInOnePlace, Distinct

\* A step that moves no job keeps every job in its one place.
LEMMA HoldersStay ==
  ASSUME JobsInOnePlace, Holders' = Holders, \A v \in Holders : job_p'[v] = job_p[v],
         UNCHANGED <<jobqueue, newJob, finished, emptied>>
  PROVE  JobsInOnePlace'
<1>1. Taken' = Taken
  BY DEF Taken
<1>2. Queued' = Queued /\ Allocated' = Allocated
  BY DEF Queued, Allocated
<1> QED
  BY <1>1, <1>2 DEF JobsInOnePlace

\* Every job stays in one place: taking, finishing and freeing it moves it on.
LEMMA PlaceStep == TypeOK /\ HandsFull /\ PeekedFirst /\ JobsInOnePlace /\ [Next]_vars => JobsInOnePlace'
<1> SUFFICES ASSUME TypeOK, HandsFull, PeekedFirst, JobsInOnePlace, [Next]_vars
             PROVE  JobsInOnePlace'
  OBVIOUS
<1>1. ASSUME NEW w \in Workers, LoopTest(w)
      PROVE  JobsInOnePlace'
  <2>1. /\ Holders' = Holders
        /\ \A v \in Holders : job_p'[v] = job_p[v]
    BY <1>1 DEF LoopTest, TypeOK, Holders
  <2>2. UNCHANGED <<jobqueue, newJob, finished, emptied>>
    BY <1>1 DEF LoopTest, queueVars, adderVars, freeVars
  <2> QED
    BY <2>1, <2>2, HoldersStay
<1>2. ASSUME NEW w \in Workers, SemWait(w)
      PROVE  JobsInOnePlace'
  <2>1. /\ Holders' = Holders
        /\ \A v \in Holders : job_p'[v] = job_p[v]
    BY <1>2 DEF SemWait, TypeOK, Holders
  <2>2. UNCHANGED <<jobqueue, newJob, finished, emptied>>
    BY <1>2 DEF SemWait, queueVars, adderVars, freeVars
  <2> QED
    BY <2>1, <2>2, HoldersStay
<1>3. ASSUME NEW w \in Workers, Recheck(w)
      PROVE  JobsInOnePlace'
  <2>1. /\ Holders' = Holders
        /\ \A v \in Holders : job_p'[v] = job_p[v]
    BY <1>3 DEF Recheck, TypeOK, Holders
  <2>2. UNCHANGED <<jobqueue, newJob, finished, emptied>>
    BY <1>3 DEF Recheck, queueVars, adderVars, freeVars
  <2> QED
    BY <2>1, <2>2, HoldersStay
<1>4. ASSUME NEW w \in Workers, LockQueue(w)
      PROVE  JobsInOnePlace'
  <2>1. /\ Holders' = Holders
        /\ \A v \in Holders : job_p'[v] = job_p[v]
    BY <1>4 DEF LockQueue, TypeOK, Holders
  <2>2. UNCHANGED <<jobqueue, newJob, finished, emptied>>
    BY <1>4 DEF LockQueue, queueVars, adderVars, freeVars
  <2> QED
    BY <2>1, <2>2, HoldersStay
<1>5. ASSUME NEW w \in Workers, PeekJob(w)
      PROVE  JobsInOnePlace'
  <2>1. /\ Holders' = Holders
        /\ \A v \in Holders : job_p'[v] = job_p[v]
    BY <1>5 DEF PeekJob, TypeOK, Holders
  <2>2. UNCHANGED <<jobqueue, newJob, finished, emptied>>
    BY <1>5 DEF PeekJob, queueVars, adderVars, freeVars
  <2> QED
    BY <2>1, <2>2, HoldersStay
<1>6. ASSUME NEW w \in Workers, RemoveLast(w)
      PROVE  JobsInOnePlace'
  <2> DEFINE j == Head(jobqueue)
  <2>1. jobqueue # <<>> /\ job_p[w] = j /\ jobqueue' = Tail(jobqueue)
    BY <1>6 DEF RemoveLast, PeekedFirst
  <2>2. /\ j \in Elems(jobqueue)
        /\ Elems(jobqueue) = Elems(jobqueue') \cup {j}
        /\ Distinct(jobqueue') /\ j \notin Elems(jobqueue')
    BY <2>1, TailElems, QueuedElems DEF TypeOK, JobsInOnePlace
  <2>3. Holders' = Holders \cup {w} /\ w \notin Holders
    BY <1>6 DEF RemoveLast, TypeOK, Holders
  <2>4. UNCHANGED <<newJob, finished, emptied, job_p>>
    BY <1>6 DEF RemoveLast, adderVars, freeVars
  <2>5. Taken' = Taken \cup {j}
    BY <2>1, <2>3, <2>4 DEF Taken
  <2>6. Allocated' = Allocated
    BY <2>4 DEF Allocated
  <2>7. Queued = Elems(jobqueue) /\ Queued' = Elems(jobqueue')
    BY QueuedElems
  <2>8. \A v \in Holders : job_p[v] # j
    BY <2>2, <2>7 DEF JobsInOnePlace, Taken
  <2> HIDE DEF j
  <2>9. \A u, v \in Holders' : job_p'[u] = job_p'[v] => u = v
    BY <2>1, <2>3, <2>4, <2>8 DEF JobsInOnePlace
  <2>10. /\ Queued' \cap (Taken' \cup Allocated' \cup finished' \cup emptied') = {}
         /\ Taken' \cap (Allocated' \cup finished' \cup emptied') = {}
    BY <2>2, <2>4, <2>5, <2>6, <2>7 DEF JobsInOnePlace
  <2> QED
    BY <2>2, <2>4, <2>6, <2>9, <2>10 DEF JobsInOnePlace, Distinct
<1>7. ASSUME NEW w \in Workers, UnlockQueue(w)
      PROVE  JobsInOnePlace'
  <2>1. /\ Holders' = Holders
        /\ \A v \in Holders : job_p'[v] = job_p[v]
    BY <1>7 DEF UnlockQueue, TypeOK, Holders
  <2>2. UNCHANGED <<jobqueue, newJob, finished, emptied>>
    BY <1>7 DEF UnlockQueue, queueVars, adderVars, freeVars
  <2> QED
    BY <2>1, <2>2, HoldersStay
<1>8. ASSUME NEW w \in Workers, FinishJob(w)
      PROVE  JobsInOnePlace'
  <2> DEFINE j == job_p[w]
  <2>1. Holders' = Holders \ {w} /\ w \in Holders
    BY <1>8 DEF FinishJob, TypeOK, Holders
  <2>2. \A v \in Holders' : job_p'[v] = job_p[v] /\ job_p[v] # j
    BY <1>8, <2>1 DEF FinishJob, TypeOK, Holders, JobsInOnePlace
  <2>3. /\ Taken' \subseteq Taken \ {j}
        /\ j \in Taken
    BY <2>1, <2>2 DEF Taken
  <2>4. UNCHANGED <<jobqueue, newJob, emptied>> /\ finished' = finished \cup {j}
    BY <1>8 DEF FinishJob, queueVars, adderVars
  <2>5. Queued' = Queued /\ Allocated' = Allocated
    BY <2>4 DEF Queued, Allocated
  <2> HIDE DEF j
  <2>6. \A u, v \in Holders' : job_p'[u] = job_p'[v] => u = v
    BY <2>1, <2>2 DEF JobsInOnePlace
  <2> QED
    BY <2>3, <2>4, <2>5, <2>6 DEF JobsInOnePlace
<1>9. ASSUME NEW a \in Adders, NEW j \in Jobs, AllocJob(a, j)
      PROVE  JobsInOnePlace'
  <2>1. /\ j \notin Queued \cup Taken \cup Allocated \cup finished \cup emptied
        /\ newJob[a] = NoJob
        /\ newJob' = [newJob EXCEPT ![a] = j]
        /\ UNCHANGED <<jobqueue, finished, emptied, job_p, pc>>
    BY <1>9 DEF AllocJob, HandsFull, queueVars, workerVars, freeVars
  <2>2. Queued' = Queued /\ Taken' = Taken /\ Holders' = Holders
    BY <2>1 DEF Queued, Taken, Holders
  <2>3. Allocated' = Allocated \cup {j}
    BY <2>1, PoolAssumption DEF Allocated, TypeOK
  <2>4. \A b, c \in Adders : newJob'[b] = newJob'[c] /\ newJob'[b] # NoJob => b = c
    BY <2>1 DEF JobsInOnePlace, TypeOK, Allocated
  <2> QED
    BY <2>1, <2>2, <2>3, <2>4 DEF JobsInOnePlace
<1>10. ASSUME NEW a \in Adders, AllocFails(a)
      PROVE  JobsInOnePlace'
  <2>1. UNCHANGED <<jobqueue, newJob, finished, emptied, job_p, pc>>
    BY <1>10 DEF AllocFails, queueVars, workerVars, adderVars, freeVars
  <2> QED
    BY <2>1, HoldersStay DEF Holders
<1>10a. ASSUME NEW a \in Adders, AddRaces(a)
      PROVE  JobsInOnePlace'
  <2>1. UNCHANGED <<jobqueue, newJob, finished, emptied, job_p, pc>>
    BY <1>10a DEF AddRaces, queueVars, workerVars, adderVars, freeVars
  <2> QED
    BY <2>1, HoldersStay DEF Holders
<1>11. ASSUME NEW a \in Adders, LockForAdd(a)
      PROVE  JobsInOnePlace'
  <2>1. UNCHANGED <<jobqueue, newJob, finished, emptied, job_p, pc>>
    BY <1>11 DEF LockForAdd, queueVars, workerVars, adderVars, freeVars
  <2> QED
    BY <2>1, HoldersStay DEF Holders
<1>12. ASSUME NEW a \in Adders, LinkJob(a)
      PROVE  JobsInOnePlace'
  <2>1. CASE dpc = "freed"
    <3>1. UNCHANGED <<jobqueue, newJob, finished, emptied, job_p, pc>>
      BY <1>12, <2>1 DEF LinkJob, workerVars, freeVars
    <3> QED
      BY <3>1, HoldersStay DEF Holders
  <2>2. CASE dpc # "freed"
    <3> DEFINE j == newJob[a]
    <3>1. j \in Jobs /\ j # NoJob
      BY <1>12, PoolAssumption DEF LinkJob, HandsFull, TypeOK
    <3>2. /\ jobqueue' = Append(jobqueue, j)
          /\ newJob' = [newJob EXCEPT ![a] = NoJob]
          /\ UNCHANGED <<finished, emptied, job_p, pc>>
      BY <1>12, <2>2 DEF LinkJob, workerVars, freeVars
    <3>3. j \in Allocated /\ j \notin Queued
      BY <3>1 DEF Allocated, JobsInOnePlace
    <3> HIDE DEF j
    <3>4. Elems(jobqueue') = Elems(jobqueue) \cup {j} /\ Distinct(jobqueue')
      <4>1. jobqueue \in Seq(Jobs) /\ Distinct(jobqueue) /\ j \notin Elems(jobqueue)
        BY <3>3, QueuedElems DEF TypeOK
      <4> QED
        BY <3>1, <3>2, <4>1, AppendElems
    <3>5. Queued = Elems(jobqueue) /\ Queued' = Elems(jobqueue')
      BY QueuedElems
    <3>6. Taken' = Taken /\ Holders' = Holders
      BY <3>2 DEF Taken, Holders
    <3>7. Allocated' \subseteq Allocated \ {j}
      BY <3>1, <3>2 DEF j, Allocated, TypeOK, JobsInOnePlace
    <3>8. \A b, c \in Adders : newJob'[b] = newJob'[c] /\ newJob'[b] # NoJob => b = c
      BY <3>2 DEF JobsInOnePlace, TypeOK
    <3>9. \A u, v \in Holders' : job_p'[u] = job_p'[v] => u = v
      BY <3>2, <3>6 DEF JobsInOnePlace
    <3>10. /\ Queued' \cap (Taken' \cup Allocated' \cup finished' \cup emptied') = {}
           /\ Taken' \cap (Allocated' \cup finished' \cup emptied') = {}
           /\ Allocated' \cap (finished' \cup emptied') = {}
           /\ finished' \cap emptied' = {}
      BY <3>2, <3>3, <3>4, <3>5, <3>6, <3>7 DEF JobsInOnePlace
    <3> QED
      BY <3>4, <3>8, <3>9, <3>10 DEF JobsInOnePlace, Distinct
  <2> QED
    BY <2>1, <2>2
<1>13. ASSUME NEW a \in Adders, PostJob(a)
      PROVE  JobsInOnePlace'
  <2>1. UNCHANGED <<jobqueue, newJob, finished, emptied, job_p>>
    BY <1>13 DEF PostJob, freeVars, adderVars
  <2>2. pc' = pc \/ \E w \in Workers : pc[w] = "blocked" /\ pc' = [pc EXCEPT ![w] = "woken"]
    BY <1>13 DEF PostJob, SemPost, Blocked
  <2>3. Holders' = Holders
    BY <2>2 DEF TypeOK, Holders
  <2> QED
    BY <2>1, <2>3, HoldersStay
<1>14. ASSUME NEW a \in Adders, UnlockAfterAdd(a)
      PROVE  JobsInOnePlace'
  <2>1. UNCHANGED <<jobqueue, newJob, finished, emptied, job_p, pc>>
    BY <1>14 DEF UnlockAfterAdd, queueVars, workerVars, adderVars, freeVars
  <2> QED
    BY <2>1, HoldersStay DEF Holders
<1>15. CASE StopKeepalive
  <2>1. UNCHANGED <<jobqueue, newJob, finished, emptied, job_p, pc>>
    BY <1>15 DEF StopKeepalive, queueVars, workerVars, adderVars, freeVars
  <2> QED
    BY <2>1, HoldersStay DEF Holders
<1>16. CASE PostOnce
  <2>1. UNCHANGED <<jobqueue, newJob, finished, emptied, job_p>>
    BY <1>16 DEF PostOnce, freeVars, adderVars
  <2>2. pc' = pc \/ \E w \in Workers : pc[w] = "blocked" /\ pc' = [pc EXCEPT ![w] = "woken"]
    BY <1>16 DEF PostOnce, SemPost, Blocked
  <2>3. Holders' = Holders
    BY <2>2 DEF TypeOK, Holders
  <2> QED
    BY <2>1, <2>3, HoldersStay
<1>17. CASE SemDestroy
  <2>1. UNCHANGED <<jobqueue, newJob, finished, emptied, job_p, pc>>
    BY <1>17 DEF SemDestroy, queueVars, workerVars, adderVars, freeVars
  <2> QED
    BY <2>1, HoldersStay DEF Holders
<1>18. CASE JoinAll
  <2>1. UNCHANGED <<jobqueue, newJob, finished, emptied, job_p, pc>>
    BY <1>18 DEF JoinAll, queueVars, workerVars, adderVars, freeVars
  <2> QED
    BY <2>1, HoldersStay DEF Holders
<1>19. CASE EmptyOne
  <2> DEFINE j == Head(jobqueue)
  <2>1. jobqueue # <<>> /\ jobqueue' = Tail(jobqueue) /\ emptied' = emptied \cup {j}
    BY <1>19 DEF EmptyOne
  <2>2. /\ j \in Elems(jobqueue)
        /\ Elems(jobqueue) = Elems(jobqueue') \cup {j}
        /\ Distinct(jobqueue') /\ j \notin Elems(jobqueue')
    BY <2>1, TailElems, QueuedElems DEF TypeOK, JobsInOnePlace
  <2>3. UNCHANGED <<newJob, finished, job_p, pc>>
    BY <1>19 DEF EmptyOne, workerVars, adderVars
  <2>4. Taken' = Taken /\ Holders' = Holders /\ Allocated' = Allocated
    BY <2>3 DEF Taken, Holders, Allocated
  <2>5. Queued = Elems(jobqueue) /\ Queued' = Elems(jobqueue')
    BY QueuedElems
  <2> HIDE DEF j
  <2>6. \A u, v \in Holders' : job_p'[u] = job_p'[v] => u = v
    BY <2>3, <2>4 DEF JobsInOnePlace
  <2>7. /\ Queued' \cap (Taken' \cup Allocated' \cup finished' \cup emptied') = {}
        /\ Taken' \cap (Allocated' \cup finished' \cup emptied') = {}
        /\ Allocated' \cap (finished' \cup emptied') = {}
        /\ finished' \cap emptied' = {}
    BY <2>1, <2>2, <2>3, <2>4, <2>5 DEF JobsInOnePlace
  <2> QED
    BY <2>2, <2>3, <2>6, <2>7 DEF JobsInOnePlace, Distinct
<1>20. CASE FreePool
  <2>1. UNCHANGED <<jobqueue, newJob, finished, emptied, job_p, pc>>
    BY <1>20 DEF FreePool, queueVars, workerVars, adderVars, freeVars
  <2> QED
    BY <2>1, HoldersStay DEF Holders
<1>21. CASE UNCHANGED vars
  <2>1. UNCHANGED <<jobqueue, newJob, finished, emptied, job_p, pc>>
    BY <1>21 DEF vars
  <2> QED
    BY <2>1, HoldersStay DEF Holders
<1> QED
  BY <1>1, <1>2, <1>3, <1>4, <1>5, <1>6, <1>7, <1>8, <1>9, <1>10, <1>10a, <1>11, <1>12, <1>13, <1>14,
     <1>15, <1>16, <1>17, <1>18, <1>19, <1>20, <1>21
     DEF Next, Worker, Adder, Destroyer, Over

\* Where a worker is committed to take a job, there is one.
LEMMA CommittedFindsJob ==
  ASSUME TypeOK, TokensMatchJobs, NEW w \in Committed
  PROVE  jobqueue # <<>>
<1>1. {w} \subseteq Committed /\ IsFiniteSet(Committed) /\ Cardinality(Committed) \in Nat
  BY CountsNat
<1>2. Cardinality({w}) = 1
  BY FS_Singleton
<1>3. Cardinality({w}) <= Cardinality(Committed)
  BY <1>1, FS_Subset
<1>4. Cardinality(Committed) <= Len(jobqueue)
  BY DEF TokensMatchJobs
<1> SUFFICES ASSUME jobqueue = <<>>
             PROVE  FALSE
  OBVIOUS
<1>5. Len(jobqueue) = 0
  OBVIOUS
<1> QED
  BY <1>1, <1>2, <1>3, <1>4, <1>5

\* A worker that peeks is committed, so there is a job for it.
LEMMA NullStep == TypeOK /\ TokensMatchJobs /\ NeverNullJob /\ [Next]_vars => NeverNullJob'
<1> SUFFICES ASSUME TypeOK, TokensMatchJobs, NeverNullJob, [Next]_vars
             PROVE  NeverNullJob'
  OBVIOUS
<1> USE DEF NeverNullJob
<1>1. ASSUME NEW w \in Workers, LoopTest(w)
      PROVE  NeverNullJob'
  BY <1>1 DEF LoopTest, queueVars, workerVars, adderVars, destroyVars, freeVars
<1>2. ASSUME NEW w \in Workers, SemWait(w)
      PROVE  NeverNullJob'
  BY <1>2 DEF SemWait, queueVars, workerVars, adderVars, destroyVars, freeVars
<1>3. ASSUME NEW w \in Workers, Recheck(w)
      PROVE  NeverNullJob'
  BY <1>3 DEF Recheck, queueVars, workerVars, adderVars, destroyVars, freeVars
<1>4. ASSUME NEW w \in Workers, LockQueue(w)
      PROVE  NeverNullJob'
  BY <1>4 DEF LockQueue, queueVars, workerVars, adderVars, destroyVars, freeVars
<1>5. ASSUME NEW w \in Workers, PeekJob(w)
      PROVE  NeverNullJob'
  <2>1. w \in Committed
    BY <1>5 DEF PeekJob, Committed
  <2>2. jobqueue # <<>>
    BY <2>1, CommittedFindsJob
  <2> QED
    BY <1>5, <2>2 DEF PeekJob
<1>6. ASSUME NEW w \in Workers, RemoveLast(w)
      PROVE  NeverNullJob'
  BY <1>6 DEF RemoveLast, queueVars, workerVars, adderVars, destroyVars, freeVars
<1>7. ASSUME NEW w \in Workers, UnlockQueue(w)
      PROVE  NeverNullJob'
  BY <1>7 DEF UnlockQueue, queueVars, workerVars, adderVars, destroyVars, freeVars
<1>8. ASSUME NEW w \in Workers, FinishJob(w)
      PROVE  NeverNullJob'
  BY <1>8 DEF FinishJob, queueVars, workerVars, adderVars, destroyVars, freeVars
<1>9. ASSUME NEW a \in Adders, NEW j \in Jobs, AllocJob(a, j)
      PROVE  NeverNullJob'
  BY <1>9 DEF AllocJob, queueVars, workerVars, adderVars, destroyVars, freeVars
<1>10. ASSUME NEW a \in Adders, AllocFails(a)
      PROVE  NeverNullJob'
  BY <1>10 DEF AllocFails, queueVars, workerVars, adderVars, destroyVars, freeVars
<1>10a. ASSUME NEW a \in Adders, AddRaces(a)
      PROVE  NeverNullJob'
  BY <1>10a DEF AddRaces, queueVars, workerVars, adderVars, destroyVars, freeVars
<1>11. ASSUME NEW a \in Adders, LockForAdd(a)
      PROVE  NeverNullJob'
  BY <1>11 DEF LockForAdd, queueVars, workerVars, adderVars, destroyVars, freeVars
<1>12. ASSUME NEW a \in Adders, LinkJob(a)
      PROVE  NeverNullJob'
  BY <1>12 DEF LinkJob, queueVars, workerVars, adderVars, destroyVars, freeVars
<1>13. ASSUME NEW a \in Adders, PostJob(a)
      PROVE  NeverNullJob'
  BY <1>13 DEF PostJob, queueVars, workerVars, adderVars, destroyVars, freeVars
<1>14. ASSUME NEW a \in Adders, UnlockAfterAdd(a)
      PROVE  NeverNullJob'
  BY <1>14
     DEF UnlockAfterAdd, queueVars, workerVars, adderVars, destroyVars, freeVars
<1>15. CASE StopKeepalive
  BY <1>15
     DEF StopKeepalive, queueVars, workerVars, adderVars, destroyVars, freeVars
<1>16. CASE PostOnce
  BY <1>16 DEF PostOnce, queueVars, workerVars, adderVars, destroyVars, freeVars
<1>17. CASE SemDestroy
  BY <1>17 DEF SemDestroy, queueVars, workerVars, adderVars, destroyVars, freeVars
<1>18. CASE JoinAll
  BY <1>18 DEF JoinAll, queueVars, workerVars, adderVars, destroyVars, freeVars
<1>19. CASE EmptyOne
  BY <1>19 DEF EmptyOne, queueVars, workerVars, adderVars, destroyVars, freeVars
<1>20. CASE FreePool
  BY <1>20 DEF FreePool, queueVars, workerVars, adderVars, destroyVars, freeVars
<1>21. CASE UNCHANGED vars
  BY <1>21 DEF vars
<1> QED
  BY <1>1, <1>2, <1>3, <1>4, <1>5, <1>6, <1>7, <1>8, <1>9, <1>10, <1>10a, <1>11, <1>12, <1>13, <1>14,
     <1>15, <1>16, <1>17, <1>18, <1>19, <1>20, <1>21
     DEF Next, Worker, Adder, Destroyer, Over

-----------------------------------------------------------------------------
(* The theorems. *)

\* IInv holds initially.
LEMMA InitIInv == Init => IInv
<1> SUFFICES ASSUME Init
             PROVE  IInv
  OBVIOUS
<1> USE DEF Init
<1>1. TypeOK
  <2>1. jobqueue \in Seq(Jobs) /\ t \in 0..threadsN
    BY ThreadsNat
  <2> QED
    BY <2>1 DEF TypeOK, WorkerPCs, AdderPCs, DestroyPCs, Ends
<1>2. TokensMatchJobs
  <2>1. Ticketed = {} /\ Committed = {} /\ Posting = {}
    BY DEF Ticketed, Committed, Posting
  <2>2. Len(jobqueue) = 0 /\ Cardinality({}) = 0
    BY FS_EmptySet
  <2> QED
    BY <2>1, <2>2 DEF TokensMatchJobs
<1>3. NeverNullJob /\ NoLostWakeup /\ DestroyPhases /\ PostsReachWorkers /\ EmptiedLast
  BY DEF NeverNullJob, NoLostWakeup, DestroyPhases, PostsReachWorkers, EmptiedLast, Blocked
<1>4. MutexHeld /\ PeekedFirst /\ HandsFull
  BY DEF MutexHeld, PeekedFirst, HandsFull
<1>5. JobsInOnePlace
  <2>1. Queued = {} /\ Taken = {} /\ Holders = {} /\ Allocated = {}
    BY DEF Queued, Taken, Holders, Allocated
  <2>2. 1..Len(jobqueue) = {}
    OBVIOUS
  <2> QED
    BY <2>1, <2>2 DEF JobsInOnePlace
<1> QED
  BY <1>1, <1>2, <1>3, <1>4, <1>5 DEF IInv

\* Every step preserves IInv.
LEMMA NextIInv == IInv /\ [Next]_vars => IInv'
BY TypeStep, MutexStep, HandsStep, PhasesStep, WakeupStep, EmptiedStep, PeekedStep,
   CountStep, PlaceStep, NullStep DEF IInv

\* The inductive invariant holds in every execution of the pool.
THEOREM Inductive == Spec => []IInv
BY InitIInv, NextIInv, PTL DEF Spec

\* The variables of thpool.c and of its callers keep their types.
THEOREM TypeCorrect == Spec => []TypeOK
<1>1. IInv => TypeOK
  BY DEF IInv
<1> QED
  BY <1>1, Inductive, PTL

\* The semaphore and the queue agree.
THEOREM TokensAlwaysMatchJobs == Spec => []TokensMatchJobs
<1>1. IInv => TokensMatchJobs
  BY DEF IInv
<1> QED
  BY <1>1, Inductive, PTL

\* No worker ever reads a job from an empty queue.
THEOREM QueueNeverEmptyOnPeek == Spec => []NeverNullJob
<1>1. IInv => NeverNullJob
  BY DEF IInv
<1> QED
  BY <1>1, Inductive, PTL

\* No job is run or freed twice.
THEOREM JobsStayInOnePlace == Spec => []JobsInOnePlace
<1>1. IInv => JobsInOnePlace
  BY DEF IInv
<1> QED
  BY <1>1, Inductive, PTL

\* thpool_destroy leaves nobody asleep on the semaphore it destroys.
THEOREM NobodyEverLeftAsleep == Spec => []NobodyLeftAsleep
<1>1. IInv => NobodyLeftAsleep
  BY DEF IInv, DestroyPhases, NobodyLeftAsleep
<1> QED
  BY <1>1, Inductive, PTL

-----------------------------------------------------------------------------
(* ThreadPool implements JobDispatch, for every finite pool: thpool.c      *)
(* keeps what thpool.h promises about the order of the jobs, the number    *)
(* that run at a time and what happens to them at shutdown.                *)

\* The step is one of JobDispatch, or one it does not see.
Simulated == Dispatch!Next \/ UNCHANGED Dispatch!dvars

\* The instance counts as this module does.
LEMMA SameCardinality == Dispatch!Cardinality(Taken) = Cardinality(Taken)
BY DEF Dispatch!Cardinality, Cardinality

\* A step that moves no job is not seen.
LEMMA Unseen ==
  ASSUME Taken' = Taken, UNCHANGED <<jobqueue, finished, emptied, keepalive>>
  PROVE  Simulated
BY DEF Simulated, Dispatch!dvars

\* A worker that takes a job was idle, so fewer than threadsN jobs were running.
LEMMA RoomToRun ==
  ASSUME NEW w \in Workers, w \notin Holders
  PROVE  Cardinality(Taken) < threadsN
<1>1. Holders \subseteq Workers \ {w}
  BY DEF Holders
<1>2. /\ IsFiniteSet(Workers \ {w})
      /\ Cardinality(Workers \ {w}) = Cardinality(Workers) - 1
  BY PoolAssumption, FS_RemoveElement
<1>3. IsFiniteSet(Holders) /\ Cardinality(Holders) <= Cardinality(Workers) - 1
  BY <1>1, <1>2, FS_Subset
<1>4. IsFiniteSet(Taken) /\ Cardinality(Taken) <= Cardinality(Holders)
  <2> DEFINE f == [v \in Holders |-> job_p[v]]
  <2>1. f \in Surjection(Holders, Taken)
    BY DEF Taken, Surjection
  <2> QED
    BY <1>3, <2>1, FS_Surjection
<1>5. /\ Cardinality(Taken) \in Nat
      /\ Cardinality(Holders) \in Nat
      /\ Cardinality(Workers) \in Nat
  BY <1>3, <1>4, PoolAssumption, FS_CardinalityType
<1> QED
  BY <1>3, <1>4, <1>5 DEF threadsN

\* Every step of the pool is a step of JobDispatch or is not seen.
LEMMA StepSimulated == IInv /\ [Next]_vars => Simulated
<1> SUFFICES ASSUME IInv, [Next]_vars
             PROVE  Simulated
  OBVIOUS
<1>1. ASSUME NEW w \in Workers, LoopTest(w)
      PROVE  Simulated
  <2>1. Holders' = Holders /\ \A v \in Holders : job_p'[v] = job_p[v]
    BY <1>1 DEF LoopTest, IInv, TypeOK, Holders
  <2>2. UNCHANGED <<jobqueue, finished, emptied, keepalive>>
    BY <1>1 DEF LoopTest, queueVars, destroyVars, freeVars
  <2>3. Taken' = Taken
    BY <2>1 DEF Taken
  <2> QED
    BY <2>2, <2>3, Unseen
<1>2. ASSUME NEW w \in Workers, SemWait(w)
      PROVE  Simulated
  <2>1. Holders' = Holders /\ \A v \in Holders : job_p'[v] = job_p[v]
    BY <1>2 DEF SemWait, IInv, TypeOK, Holders
  <2>2. UNCHANGED <<jobqueue, finished, emptied, keepalive>>
    BY <1>2 DEF SemWait, queueVars, destroyVars, freeVars
  <2>3. Taken' = Taken
    BY <2>1 DEF Taken
  <2> QED
    BY <2>2, <2>3, Unseen
<1>3. ASSUME NEW w \in Workers, Recheck(w)
      PROVE  Simulated
  <2>1. Holders' = Holders /\ \A v \in Holders : job_p'[v] = job_p[v]
    BY <1>3 DEF Recheck, IInv, TypeOK, Holders
  <2>2. UNCHANGED <<jobqueue, finished, emptied, keepalive>>
    BY <1>3 DEF Recheck, queueVars, destroyVars, freeVars
  <2>3. Taken' = Taken
    BY <2>1 DEF Taken
  <2> QED
    BY <2>2, <2>3, Unseen
<1>4. ASSUME NEW w \in Workers, LockQueue(w)
      PROVE  Simulated
  <2>1. Holders' = Holders /\ \A v \in Holders : job_p'[v] = job_p[v]
    BY <1>4 DEF LockQueue, IInv, TypeOK, Holders
  <2>2. UNCHANGED <<jobqueue, finished, emptied, keepalive>>
    BY <1>4 DEF LockQueue, queueVars, destroyVars, freeVars
  <2>3. Taken' = Taken
    BY <2>1 DEF Taken
  <2> QED
    BY <2>2, <2>3, Unseen
<1>5. ASSUME NEW w \in Workers, PeekJob(w)
      PROVE  Simulated
  <2>1. Holders' = Holders /\ \A v \in Holders : job_p'[v] = job_p[v]
    BY <1>5 DEF PeekJob, IInv, TypeOK, Holders
  <2>2. UNCHANGED <<jobqueue, finished, emptied, keepalive>>
    BY <1>5 DEF PeekJob, queueVars, destroyVars, freeVars
  <2>3. Taken' = Taken
    BY <2>1 DEF Taken
  <2> QED
    BY <2>2, <2>3, Unseen
<1>6. ASSUME NEW w \in Workers, RemoveLast(w)
      PROVE  Simulated
  <2>1. jobqueue # <<>> /\ job_p[w] = Head(jobqueue) /\ jobqueue' = Tail(jobqueue)
    BY <1>6 DEF RemoveLast, IInv, PeekedFirst
  <2>2. Holders' = Holders \cup {w} /\ w \notin Holders
    BY <1>6 DEF RemoveLast, IInv, TypeOK, Holders
  <2>3. UNCHANGED <<finished, emptied, keepalive, job_p>>
    BY <1>6 DEF RemoveLast, destroyVars, freeVars
  <2>4. Taken' = Taken \cup {Head(jobqueue)}
    BY <2>1, <2>2, <2>3 DEF Taken
  <2>5. Cardinality(Taken) < threadsN
    BY <2>2, RoomToRun
  <2>6. emptied = {}
    BY <1>6 DEF RemoveLast, IInv, EmptiedLast, DestroyPhases
  <2>7. Dispatch!Start
    <3>1. Taken' = Taken \cup {Head(jobqueue)} /\ jobqueue' = Tail(jobqueue)
      BY <2>1, <2>4
    <3>2. finished' = finished /\ emptied' = emptied /\ (~keepalive)' = ~keepalive
      BY <2>3
    <3>3. Dispatch!Cardinality(Taken) < threadsN
      BY <2>5, SameCardinality
    <3> QED
      BY <2>1, <2>6, <3>1, <3>2, <3>3 DEF Dispatch!Start
  <2> QED
    BY <2>7 DEF Simulated, Dispatch!Next
<1>7. ASSUME NEW w \in Workers, UnlockQueue(w)
      PROVE  Simulated
  <2>1. Holders' = Holders /\ \A v \in Holders : job_p'[v] = job_p[v]
    BY <1>7 DEF UnlockQueue, IInv, TypeOK, Holders
  <2>2. UNCHANGED <<jobqueue, finished, emptied, keepalive>>
    BY <1>7 DEF UnlockQueue, queueVars, destroyVars, freeVars
  <2>3. Taken' = Taken
    BY <2>1 DEF Taken
  <2> QED
    BY <2>2, <2>3, Unseen
<1>8. ASSUME NEW w \in Workers, FinishJob(w)
      PROVE  Simulated
  <2>1. w \in Holders /\ Holders' = Holders \ {w}
    BY <1>8 DEF FinishJob, IInv, TypeOK, Holders
  <2>2. \A v \in Holders' : job_p'[v] = job_p[v] /\ job_p[v] # job_p[w]
    BY <1>8, <2>1 DEF FinishJob, IInv, TypeOK, JobsInOnePlace, Holders
  <2>3. job_p[w] \in Taken /\ Taken' = Taken \ {job_p[w]}
    BY <2>1, <2>2 DEF Taken
  <2>4. /\ UNCHANGED <<jobqueue, emptied, keepalive>>
        /\ finished' = finished \cup {job_p[w]}
    BY <1>8 DEF FinishJob, queueVars, destroyVars
  <2>5. job_p[w] \in Jobs
    BY <1>8 DEF FinishJob, IInv, TypeOK, HandsFull
  <2>6. Dispatch!Finish(job_p[w])
    BY <2>3, <2>4 DEF Dispatch!Finish
  <2> QED
    BY <2>5, <2>6 DEF Simulated, Dispatch!Next
<1>9. ASSUME NEW a \in Adders, NEW j \in Jobs, AllocJob(a, j)
      PROVE  Simulated
  <2>1. UNCHANGED <<jobqueue, finished, emptied, keepalive, job_p, pc>>
    BY <1>9 DEF AllocJob, queueVars, workerVars, destroyVars, freeVars
  <2>2. Taken' = Taken
    BY <2>1 DEF Taken, Holders
  <2> QED
    BY <2>1, <2>2, Unseen
<1>10. ASSUME NEW a \in Adders, AllocFails(a)
      PROVE  Simulated
  <2>1. UNCHANGED <<jobqueue, finished, emptied, keepalive, job_p, pc>>
    BY <1>10 DEF AllocFails, queueVars, workerVars, destroyVars, freeVars
  <2>2. Taken' = Taken
    BY <2>1 DEF Taken, Holders
  <2> QED
    BY <2>1, <2>2, Unseen
<1>10a. ASSUME NEW a \in Adders, AddRaces(a)
      PROVE  Simulated
  <2>1. UNCHANGED <<jobqueue, finished, emptied, keepalive, job_p, pc>>
    BY <1>10a DEF AddRaces, queueVars, workerVars, destroyVars, freeVars
  <2>2. Taken' = Taken
    BY <2>1 DEF Taken, Holders
  <2> QED
    BY <2>1, <2>2, Unseen
<1>11. ASSUME NEW a \in Adders, LockForAdd(a)
      PROVE  Simulated
  <2>1. UNCHANGED <<jobqueue, finished, emptied, keepalive, job_p, pc>>
    BY <1>11 DEF LockForAdd, queueVars, workerVars, destroyVars, freeVars
  <2>2. Taken' = Taken
    BY <2>1 DEF Taken, Holders
  <2> QED
    BY <2>1, <2>2, Unseen
<1>12. ASSUME NEW a \in Adders, LinkJob(a)
      PROVE  Simulated
  <2>1. CASE dpc = "freed"
    <3>1. UNCHANGED <<jobqueue, finished, emptied, keepalive, job_p, pc>>
      BY <1>12, <2>1 DEF LinkJob, workerVars, destroyVars, freeVars
    <3>2. Taken' = Taken
      BY <3>1 DEF Taken, Holders
    <3> QED
      BY <3>1, <3>2, Unseen
  <2>2. CASE dpc # "freed"
    <3>1. newJob[a] \in Jobs /\ newJob[a] # NoJob
      BY <1>12, PoolAssumption DEF LinkJob, IInv, TypeOK, HandsFull
    <3>2. /\ jobqueue' = Append(jobqueue, newJob[a])
          /\ UNCHANGED <<finished, emptied, keepalive, job_p, pc>>
      BY <1>12, <2>2 DEF LinkJob, workerVars, destroyVars, freeVars
    <3>3. Taken' = Taken
      BY <3>2 DEF Taken, Holders
    <3>4. newJob[a] \in Allocated
      BY <3>1 DEF Allocated
    <3>5. newJob[a] \notin Queued \cup Taken \cup finished \cup emptied
      BY <3>4 DEF IInv, JobsInOnePlace
    <3>6. Dispatch!Fresh(newJob[a])
      BY <3>5 DEF Dispatch!Fresh, Dispatch!Queued, Queued
    <3>7. Dispatch!Submit(newJob[a])
      BY <3>2, <3>3, <3>6 DEF Dispatch!Submit
    <3> QED
      BY <3>1, <3>7 DEF Simulated, Dispatch!Next
  <2> QED
    BY <2>1, <2>2
<1>13. ASSUME NEW a \in Adders, PostJob(a)
      PROVE  Simulated
  <2>1. UNCHANGED <<jobqueue, finished, emptied, keepalive, job_p>>
    BY <1>13 DEF PostJob, freeVars, adderVars, destroyVars
  <2>2. pc' = pc \/ \E w \in Workers : pc[w] = "blocked" /\ pc' = [pc EXCEPT ![w] = "woken"]
    BY <1>13 DEF PostJob, SemPost, Blocked
  <2>3. Holders' = Holders
    BY <2>2 DEF IInv, TypeOK, Holders
  <2>4. Taken' = Taken
    BY <2>1, <2>3 DEF Taken
  <2> QED
    BY <2>1, <2>4, Unseen
<1>14. ASSUME NEW a \in Adders, UnlockAfterAdd(a)
      PROVE  Simulated
  <2>1. UNCHANGED <<jobqueue, finished, emptied, keepalive, job_p, pc>>
    BY <1>14 DEF UnlockAfterAdd, queueVars, workerVars, destroyVars, freeVars
  <2>2. Taken' = Taken
    BY <2>1 DEF Taken, Holders
  <2> QED
    BY <2>1, <2>2, Unseen
<1>15. CASE StopKeepalive
  <2>1. keepalive /\ ~keepalive'
    BY <1>15 DEF StopKeepalive, IInv, DestroyPhases
  <2>2. UNCHANGED <<jobqueue, finished, emptied, job_p, pc>>
    BY <1>15 DEF StopKeepalive, queueVars, workerVars, freeVars
  <2>3. Taken' = Taken
    BY <2>2 DEF Taken, Holders
  <2>4. Dispatch!Close
    BY <2>1, <2>2, <2>3 DEF Dispatch!Close
  <2> QED
    BY <2>4 DEF Simulated, Dispatch!Next
<1>16. CASE PostOnce
  <2>1. UNCHANGED <<jobqueue, finished, emptied, keepalive, job_p>>
    BY <1>16 DEF PostOnce, freeVars, adderVars, destroyVars
  <2>2. pc' = pc \/ \E w \in Workers : pc[w] = "blocked" /\ pc' = [pc EXCEPT ![w] = "woken"]
    BY <1>16 DEF PostOnce, SemPost, Blocked
  <2>3. Holders' = Holders
    BY <2>2 DEF IInv, TypeOK, Holders
  <2>4. Taken' = Taken
    BY <2>1, <2>3 DEF Taken
  <2> QED
    BY <2>1, <2>4, Unseen
<1>17. CASE SemDestroy
  <2>1. UNCHANGED <<jobqueue, finished, emptied, keepalive, job_p, pc>>
    BY <1>17 DEF SemDestroy, queueVars, workerVars, destroyVars, freeVars
  <2>2. Taken' = Taken
    BY <2>1 DEF Taken, Holders
  <2> QED
    BY <2>1, <2>2, Unseen
<1>18. CASE JoinAll
  <2>1. UNCHANGED <<jobqueue, finished, emptied, keepalive, job_p, pc>>
    BY <1>18 DEF JoinAll, queueVars, workerVars, destroyVars, freeVars
  <2>2. Taken' = Taken
    BY <2>1 DEF Taken, Holders
  <2> QED
    BY <2>1, <2>2, Unseen
<1>19. CASE EmptyOne
  <2>1. ~keepalive /\ Holders = {}
    BY <1>19 DEF EmptyOne, IInv, DestroyPhases, Holders
  <2>2. /\ jobqueue # <<>>
        /\ jobqueue' = Tail(jobqueue)
        /\ emptied' = emptied \cup {Head(jobqueue)}
        /\ UNCHANGED <<finished, keepalive, job_p, pc>>
    BY <1>19 DEF EmptyOne, workerVars, destroyVars
  <2>3. Taken = {} /\ Taken' = Taken
    BY <2>1, <2>2 DEF Taken, Holders
  <2>4. Dispatch!Discard
    BY <2>1, <2>2, <2>3 DEF Dispatch!Discard
  <2> QED
    BY <2>4 DEF Simulated, Dispatch!Next
<1>20. CASE FreePool
  <2>1. UNCHANGED <<jobqueue, finished, emptied, keepalive, job_p, pc>>
    BY <1>20 DEF FreePool, queueVars, workerVars, destroyVars, freeVars
  <2>2. Taken' = Taken
    BY <2>1 DEF Taken, Holders
  <2> QED
    BY <2>1, <2>2, Unseen
<1>21. CASE UNCHANGED vars
  <2>1. UNCHANGED <<jobqueue, finished, emptied, keepalive, job_p, pc>>
    BY <1>21 DEF vars
  <2>2. Taken' = Taken
    BY <2>1 DEF Taken, Holders
  <2> QED
    BY <2>1, <2>2, Unseen
<1> QED
  BY <1>1, <1>2, <1>3, <1>4, <1>5, <1>6, <1>7, <1>8, <1>9, <1>10, <1>10a, <1>11, <1>12, <1>13, <1>14,
     <1>15, <1>16, <1>17, <1>18, <1>19, <1>20, <1>21
     DEF Next, Worker, Adder, Destroyer, Over

\* The initial states correspond.
LEMMA InitSimulated == Init => Dispatch!Init
<1> SUFFICES ASSUME Init
             PROVE  Dispatch!Init
  OBVIOUS
<1>1. Taken = {}
  BY DEF Init, Taken, Holders
<1> QED
  BY <1>1 DEF Init, Dispatch!Init

\* Jobs are started oldest first, once each, at most threadsN at a time, and
\* thrown away only at shutdown when none is running (thpool.h, 39-43).
THEOREM PoolImplementsDispatch == Spec => ImplementsDispatch
<1>1. IInv /\ [Next]_vars => [Dispatch!Next]_(Dispatch!dvars)
  BY StepSimulated DEF Simulated
<1> QED
  BY <1>1, InitSimulated, Inductive, PTL DEF Spec, ImplementsDispatch, Dispatch!Spec
==============================================================================
