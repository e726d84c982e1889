------------------------------ MODULE JobQueue -------------------------------
(***************************************************************************)
(* The doubly linked list behind the thread pool: thpool_jobqueue_init,    *)
(* _add, _peek, _removelast and _empty of P2PFileServer/thpool.c.          *)
(*                                                                         *)
(* New jobs are linked at head and taken at tail; prev leads from the tail *)
(* towards the head, next the other way. A block that is free, or that     *)
(* malloc has just handed out, may hold anything in them. The callers      *)
(* hold the mutex, so add and peek + removelast are one step each;         *)
(* thpool_jobqueue_empty is one step per iteration and runs when the pool's *)
(* workers have been joined. It takes no mutex, so jobs may be added while *)
(* it runs. PoolOnList composes this module with ThreadPool.               *)
(***************************************************************************)
EXTENDS Naturals, Sequences, FiniteSets

CONSTANTS
  Blocks,   \* the memory blocks malloc may return for a job
  NULL,
  Junk      \* what the link fields of memory not in use may hold: a bound

VARIABLES
  head, tail, jobsN,  \* the fields of thpool_jobqueue
  next, prev,         \* the link fields of each block
  heap,               \* the blocks that are allocated
  newjob_p,           \* a job allocated and not added yet, or NULL
  taken,              \* the jobs removed and not yet freed by their worker
  curjob,             \* the local of thpool_jobqueue_empty
  emptying,           \* "no", "loop", "done" or "crashed"
  order               \* history: the jobs in the queue, the oldest first

vars == <<head, tail, jobsN, next, prev, heap, newjob_p, taken, curjob, emptying, order>>

links == <<next, prev>>
callers == <<newjob_p, taken>>

Init ==
  /\ head = NULL
  /\ tail = NULL
  /\ jobsN = 0
  /\ next \in [Blocks -> Junk]
  /\ prev \in [Blocks -> Junk]
  /\ heap = {}
  /\ newjob_p = NULL
  /\ taken = {}
  /\ curjob = NULL
  /\ emptying = "no"
  /\ order = <<>>

\* free
Free(b) ==
  /\ heap' = heap \ {b}
  /\ \E n, p \in Junk :
       /\ next' = [next EXCEPT ![b] = n]
       /\ prev' = [prev EXCEPT ![b] = p]

\* malloc in thpool_add_work: the link fields are not initialized.
Malloc(b) ==
  /\ newjob_p = NULL
  /\ b \notin heap
  /\ heap' = heap \cup {b}
  /\ newjob_p' = b
  /\ UNCHANGED <<head, tail, jobsN, links, taken, curjob, emptying, order>>

\* Mutant: the old first job is not told of the new one.
AddWithoutPrev ==
  /\ newjob_p # NULL
  /\ IF jobsN = 0
     THEN /\ tail' = newjob_p
          /\ next' = [next EXCEPT ![newjob_p] = NULL]
          /\ prev' = [prev EXCEPT ![newjob_p] = NULL]
     ELSE /\ prev' = [prev EXCEPT ![newjob_p] = NULL]
          /\ next' = [next EXCEPT ![newjob_p] = head]
          /\ UNCHANGED tail
  /\ head' = newjob_p
  /\ jobsN' = jobsN + 1
  /\ order' = Append(order, newjob_p)
  /\ newjob_p' = NULL
  /\ UNCHANGED <<heap, taken, curjob, emptying>>

\* thpool_jobqueue_add
Add ==
  /\ newjob_p # NULL
  /\ IF jobsN = 0
     THEN /\ tail' = newjob_p
          /\ next' = [next EXCEPT ![newjob_p] = NULL]
          /\ prev' = [prev EXCEPT ![newjob_p] = NULL]
     ELSE /\ prev' = [prev EXCEPT ![newjob_p] = NULL, ![head] = newjob_p]
          /\ next' = [next EXCEPT ![newjob_p] = head]
          /\ UNCHANGED tail
  /\ head' = newjob_p
  /\ jobsN' = jobsN + 1
  /\ order' = Append(order, newjob_p)
  /\ newjob_p' = NULL
  /\ UNCHANGED <<heap, taken, curjob, emptying>>

\* Mutant: the job before the one removed keeps its next pointer.
TakeWithoutUnlink ==
  /\ emptying = "no"
  /\ jobsN # 0
  /\ taken' = taken \cup {tail}
  /\ tail' = IF jobsN = 1 THEN NULL ELSE prev[tail]
  /\ head' = IF jobsN = 1 THEN NULL ELSE head
  /\ jobsN' = jobsN - 1
  /\ order' = Tail(order)
  /\ UNCHANGED <<links, heap, newjob_p, curjob, emptying>>

\* thpool_jobqueue_peek and thpool_jobqueue_removelast by a worker, which the
\* semaphore lets in only when the queue has a job (NeverNullJob of ThreadPool).
\* removelast itself returns -1 on an empty queue and changes nothing.
Take ==
  /\ emptying = "no"
  /\ jobsN # 0
  /\ taken' = taken \cup {tail}
  /\ IF jobsN = 1
     THEN /\ tail' = NULL
          /\ head' = NULL
          /\ UNCHANGED next
     ELSE /\ next' = [next EXCEPT ![prev[tail]] = NULL]
          /\ tail' = prev[tail]
          /\ UNCHANGED head
  /\ jobsN' = jobsN - 1
  /\ order' = Tail(order)
  /\ UNCHANGED <<prev, heap, newjob_p, curjob, emptying>>

\* free(job_p) by the worker, when the job's function has returned.
FreeTaken(b) ==
  /\ b \in taken
  /\ taken' = taken \ {b}
  /\ Free(b)
  /\ UNCHANGED <<head, tail, jobsN, newjob_p, curjob, emptying, order>>

\* The entry of thpool_jobqueue_empty.
StartEmpty ==
  /\ emptying = "no"
  /\ curjob' = tail
  /\ emptying' = "loop"
  /\ UNCHANGED <<head, tail, jobsN, links, heap, callers, order>>

\* while (jobsN)
EmptyOne ==
  /\ emptying = "loop"
  /\ jobsN # 0
  /\ curjob # NULL
  /\ tail' = prev[curjob]
  /\ Free(curjob)
  /\ curjob' = prev[curjob]
  /\ jobsN' = jobsN - 1
  /\ order' = Tail(order)
  /\ UNCHANGED <<head, callers, emptying>>

\* A job was added after the last one was freed: the loop reads curjob->prev.
EmptyCrash ==
  /\ emptying = "loop"
  /\ jobsN # 0
  /\ curjob = NULL
  /\ emptying' = "crashed"
  /\ UNCHANGED <<head, tail, jobsN, links, heap, callers, curjob, order>>

\* Mutant: the loop stops at the last job.
EmptyAllButOne ==
  /\ emptying = "loop"
  /\ jobsN <= 1
  /\ tail' = NULL
  /\ head' = NULL
  /\ emptying' = "done"
  /\ UNCHANGED <<jobsN, links, heap, callers, curjob, order>>

\* Fix head and tail
EmptyEnd ==
  /\ emptying = "loop"
  /\ jobsN = 0
  /\ tail' = NULL
  /\ head' = NULL
  /\ emptying' = "done"
  /\ UNCHANGED <<jobsN, links, heap, callers, curjob, order>>

Next ==
  \/ \E b \in Blocks : Malloc(b) \/ FreeTaken(b)
  \/ Add
  \/ Take
  \/ StartEmpty
  \/ EmptyOne
  \/ EmptyCrash
  \/ EmptyEnd

Spec == Init /\ [][Next]_vars

-----------------------------------------------------------------------------
(* Properties *)

\* The blocks reached in jobsN steps from a block along a link field.
Walk(start, link) ==
  LET at[i \in 1..jobsN] ==
        IF i = 1 THEN start ELSE IF at[i - 1] = NULL THEN NULL ELSE link[at[i - 1]]
  IN  [i \in 1..jobsN |-> at[i]]

\* From tail along prev the list holds the jobs added and not removed yet, in the
\* order they were added: what ThreadPool's jobqueue stands for. It also holds
\* while thpool_jobqueue_empty frees the list under its own feet.
TailWalkIsQueue == Walk(tail, prev) = order

\* From head along next it holds the same jobs backwards and ends after the tail,
\* so neither end of the list keeps a pointer to a job that was removed.
HeadWalkIsQueue ==
  emptying = "no" =>
    /\ Walk(head, next) = [i \in 1..Len(order) |-> order[Len(order) + 1 - i]]
    /\ IF order = <<>> THEN head = NULL /\ tail = NULL
       ELSE next[tail] = NULL /\ prev[head] = NULL

\* Every allocated block is in the list, with a worker or about to be added, in one
\* of these places only; so nothing is freed twice, and once the queue is emptied
\* no block of it is leaked.
HeapAccounted ==
  LET listed == {order[i] : i \in 1..Len(order)}
      new == {newjob_p} \ {NULL}
  IN  /\ heap = listed \cup taken \cup new
      /\ Cardinality(heap) = Len(order) + Cardinality(taken) + Cardinality(new)
      /\ emptying = "done" => listed = {}
==============================================================================
