----------------------------- MODULE PoolOnList ------------------------------
(***************************************************************************)
(* The thread pool on the linked list it really keeps its jobs in:         *)
(* ThreadPool, whose queue is a sequence, composed with JobQueue, whose    *)
(* queue is memory blocks with pointers in them. A step of the pool that   *)
(* touches the queue is a step of both modules. The worker frees the block *)
(* it has peeked, the job it runs is the one written in that block.        *)
(*                                                                         *)
(* The list is written for one thread that adds jobs, as the server has.   *)
(***************************************************************************)
EXTENDS ThreadPool

CONSTANTS
  Blocks,  \* the memory blocks malloc may return for a job
  NULL,
  Junk     \* what the link fields of memory not in use may hold: a bound

ASSUME ListAssumption ==
  /\ IsFiniteSet(Blocks)
  /\ NULL \notin Blocks
  /\ Junk \subseteq Blocks \cup {NULL}
  /\ Cardinality(Adders) <= 1

VARIABLES
  head, tail, jobsN, next, prev, heap, newjob_p, taken, curjob, emptying, order,
           \* the variables of JobQueue
  content, \* the function and argument of each block: its job
  held     \* the job_p of each worker: the block it has peeked, NULL out of scope

List == INSTANCE JobQueue

listVars == <<head, tail, jobsN, next, prev, heap, newjob_p, taken, curjob, emptying, order>>
blockVars == <<content, held>>
allVars == <<vars, listVars, blockVars>>

ListInit ==
  /\ Init
  /\ List!Init
  /\ content = [b \in Blocks |-> NoJob]
  /\ held = [w \in Workers |-> NULL]

-----------------------------------------------------------------------------
(* The steps of thpool.c that touch the list. *)

AllocOnHeap(a, j) ==
  /\ AllocJob(a, j)
  /\ \E b \in Blocks :
       /\ List!Malloc(b)
       /\ content' = [content EXCEPT ![b] = j]
  /\ UNCHANGED held

LinkInList(a) ==
  /\ LinkJob(a)
  /\ IF dpc = "freed" THEN UNCHANGED listVars ELSE List!Add
  /\ UNCHANGED blockVars

\* job_p = thpool_jobqueue_peek(tp_p)
PeekTail(w) ==
  /\ PeekJob(w)
  /\ held' = [held EXCEPT ![w] = tail]
  /\ UNCHANGED <<listVars, content>>

RemoveFromList(w) ==
  /\ RemoveLast(w)
  /\ List!Take
  /\ UNCHANGED blockVars

\* free(job_p)
FreeHeld(w) ==
  /\ FinishJob(w)
  /\ List!FreeTaken(held[w])
  /\ content' = [content EXCEPT ![held[w]] = NoJob]
  /\ held' = [held EXCEPT ![w] = NULL]

StartEmptying == JoinAll /\ List!StartEmpty /\ UNCHANGED blockVars

EmptyOneOfList ==
  /\ EmptyOne
  /\ List!EmptyOne
  /\ content' = [content EXCEPT ![curjob] = NoJob]
  /\ UNCHANGED held

EndEmptying ==
  /\ FreePool
  /\ List!EmptyEnd \/ List!EmptyCrash
  /\ UNCHANGED blockVars

-----------------------------------------------------------------------------
(* The other steps leave the list alone. *)

WorkerOnList(w) ==
  \/ PeekTail(w)
  \/ RemoveFromList(w)
  \/ FreeHeld(w)
  \/ /\ LoopTest(w) \/ SemWait(w) \/ Recheck(w) \/ LockQueue(w) \/ UnlockQueue(w)
     /\ UNCHANGED <<listVars, blockVars>>

AdderOnList(a) ==
  \/ \E j \in Jobs : AllocOnHeap(a, j)
  \/ LinkInList(a)
  \/ /\ AllocFails(a) \/ LockForAdd(a) \/ AddRaces(a) \/ PostJob(a) \/ UnlockAfterAdd(a)
     /\ UNCHANGED <<listVars, blockVars>>

DestroyerOnList ==
  \/ StartEmptying
  \/ EmptyOneOfList
  \/ EndEmptying
  \/ /\ StopKeepalive \/ PostOnce \/ SemDestroy
     /\ UNCHANGED <<listVars, blockVars>>

ListNext ==
  \/ \E w \in Workers : WorkerOnList(w)
  \/ \E a \in Adders : AdderOnList(a)
  \/ DestroyerOnList
  \/ Over /\ UNCHANGED <<listVars, blockVars>>

ListSpec == ListInit /\ [][ListNext]_allVars

\* The fairness is ThreadPool's: the list never keeps a step of the pool from being
\* taken, since the two agree on whether there is a job (ListIsQueue).
FairListSpec == ListSpec /\ Fairness

-----------------------------------------------------------------------------
(* Properties *)

\* The list is the pool's queue: followed from tail along prev it leads to the blocks
\* of the queued jobs, the next one to run first. A worker runs the job it has taken
\* off that queue although it reads the block and the list in different steps, and
\* a block that is reused never changes a job under way.
ListIsQueue ==
  /\ List!TailWalkIsQueue
  /\ jobqueue = [i \in 1..Len(order) |-> content[order[i]]]
  /\ \A w \in Workers : job_p[w] # NoJob => content[held[w]] = job_p[w]
  /\ taken = {held[w] : w \in Holders}

\* From head along next the list is the same backwards, and where each block is.
HeadWalkIsQueue == List!HeadWalkIsQueue
HeapAccounted == List!HeapAccounted
==============================================================================
