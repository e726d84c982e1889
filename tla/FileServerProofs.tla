--------------------------- MODULE FileServerProofs ---------------------------
(***************************************************************************)
(* Theorems about the index server for any finite set of connections, any  *)
(* files, however long, and any number of threads. The invariants that are *)
(* inductive are BaseInv, on the pool's jobs and the client count, and     *)
(* ServerInv, on what the jobs copy of params and on the table.            *)
(***************************************************************************)
EXTENDS FileServer, FiniteSetTheorems, TLAPS

-----------------------------------------------------------------------------
(* The inductive invariants. *)

\* Where the pool has a job and where the job is in p2p agree.
JobsMatch ==
  /\ \A a, b \in 1..Len(pending) : pending[a] = pending[b] => a = b
  /\ \A j \in Conns :
       /\ j \in running <=> spc[j] \in Busy
       /\ j \in done <=> spc[j] = "ended"
       /\ j \in Pool!Queued => j \notin discarded /\ spc[j] = "none"
       /\ j \in discarded => spc[j] = "none"

\* The connection in tcp_listen's hands is new to the pool.
AcceptedIsFresh == lpc \in Accepting => inc_fd \in Conns /\ Pool!Fresh(inc_fd)

\* The clients that client_count(1) was called for and client_count(-1) was not.
Counted ==
  {j \in Conns :
     /\ ~Pool!Fresh(j) \/ (j = inc_fd /\ lpc \in {"test", "tested", "fd", "ip", "add"})
     /\ spc[j] \notin {"purge", "close", "ended"}}

CountMatches == ~lost => c_count = Cardinality(Counted)

\* The database is closed only by shutdown_handler.
StopInOrder == ~dbOpen => kpc \notin {"run", "stat"}

BaseInv == TypeOK /\ JobsMatch /\ AcceptedIsFresh /\ CountMatches /\ StopInOrder

\* Until tcp_listen returns, params hold what it wrote for the connection in its hands,
\* and for a job that has to copy them and was not overtaken what belongs to it.
ParamsHeld ==
  lpc # "returned" =>
    /\ lpc \in {"ip", "add"} => params.fd = inc_fd
    /\ lpc = "add" => params.ipaddr = AddrOf[inc_fd]
    /\ \A j \in Uncopied \ overtaken :
         /\ spc[j] \in {"none", "fd"} => params.fd = j
         /\ params.ipaddr = AddrOf[j]

\* A job that was not overtaken serves the connection it was added for, and knows its
\* address.
OwnCopies ==
  \A j \in Conns \ overtaken :
    /\ spc[j] \in (Busy \ {"fd"}) \cup {"ended"} => fd[j] = j
    /\ spc[j] \in (Busy \ {"fd", "ip"}) \cup {"ended"} => addr[j] = AddrOf[j]

\* What the pool knows of a job.
Known(j) == j \in running \/ j \in done \/ j \in discarded \/ j \in Pool!Queued

\* The pool knows the connections accepted before another one; once it knows that other
\* one too, neither params nor its job's copy names an older one.
OlderKnown ==
  \A j \in Conns :
    /\ \A d \in older[j] : Known(d)
    /\ Known(j) => params.fd \notin older[j]
    /\ spc[j] \in Busy \ {"fd"} => fd[j] \notin older[j]

\* The places of a job between its greeting and its farewell's DELETE.
Owning == {"talk", "query", "bye", "count", "purge"}

\* A connection is closed by a session that is over, and a session has files
\* acknowledged only after its greeting.
EndsLast ==
  /\ \A c \in shut : \E i \in Conns : spc[i] = "ended" /\ fd[i] = c
  /\ \A x \in acked : x[2] \in Conns => spc[x[2]] \in Owning \cup {"ended"}

\* A row belongs to a session that has not removed its rows yet.
RowsHeld ==
  \A r \in rows : r[2] \in uncleaned \/ \E j \in Conns : spc[j] \in Owning /\ addr[j] = r[2]

ServerInv ==
  /\ BaseInv
  /\ ParamsHeld
  /\ OwnCopies
  /\ OlderKnown
  /\ EndsLast
  /\ RowsHeld
  /\ AloneAckedListed
  /\ CrashesHaveCause

-----------------------------------------------------------------------------
(* Lemmas about the pool's queue. *)

\* The elements of a sequence of connections.
LEMMA QueuedElements ==
  ASSUME pending \in Seq(Conns)
  PROVE  /\ Len(pending) \in Nat
         /\ Pool!Queued \subseteq Conns
         /\ \A k \in 1..Len(pending) : pending[k] \in Conns /\ pending[k] \in Pool!Queued
<1>1. Len(pending) \in Nat /\ \A k \in 1..Len(pending) : pending[k] \in Conns
  OBVIOUS
<1> QED
  BY <1>1 DEF Pool!Queued

\* Submitting a job puts it into the queue.
LEMMA SubmitQueues ==
  ASSUME pending \in Seq(Conns), NEW c \in Conns, pending' = Append(pending, c)
  PROVE  /\ pending' \in Seq(Conns)
         /\ Len(pending') = Len(pending) + 1
         /\ pending'[Len(pending) + 1] = c
         /\ \A k \in 1..Len(pending) : pending'[k] = pending[k]
         /\ Pool!Queued' = Pool!Queued \cup {c}
<1>1. /\ pending' \in Seq(Conns) /\ Len(pending) \in Nat
      /\ Len(pending') = Len(pending) + 1
      /\ pending'[Len(pending) + 1] = c
      /\ \A k \in 1..Len(pending) : pending'[k] = pending[k]
  OBVIOUS
<1>2. 1..Len(pending') = (1..Len(pending)) \cup {Len(pending) + 1}
  BY <1>1
<1>3. Pool!Queued' = Pool!Queued \cup {c}
  BY <1>1, <1>2 DEF Pool!Queued
<1> QED
  BY <1>1, <1>3

\* Taking the oldest job takes it out of the queue.
LEMMA TakeUnqueues ==
  ASSUME pending \in Seq(Conns), pending # <<>>, pending' = Tail(pending),
         \A a, b \in 1..Len(pending) : pending[a] = pending[b] => a = b
  PROVE  /\ pending' \in Seq(Conns)
         /\ \A a, b \in 1..Len(pending') : pending'[a] = pending'[b] => a = b
         /\ Head(pending) \in Conns
         /\ Pool!Queued = Pool!Queued' \cup {Head(pending)}
         /\ Head(pending) \notin Pool!Queued'
<1>1. /\ Len(pending) \in Nat /\ Len(pending) > 0
      /\ Head(pending) = pending[1] /\ Head(pending) \in Conns
      /\ pending' \in Seq(Conns) /\ Len(pending') = Len(pending) - 1
      /\ \A k \in 1..(Len(pending) - 1) : pending'[k] = pending[k + 1]
  OBVIOUS
<1> DEFINE n == Len(pending)
<1>2. n \in Nat /\ n > 0 /\ Len(pending') = n - 1 /\ 1 \in 1..n
  BY <1>1
<1> HIDE DEF n
<1>3. \A k \in 1..(n - 1) : k + 1 \in 1..n /\ k + 1 # 1 /\ pending'[k] = pending[k + 1]
  BY <1>1, <1>2 DEF n
<1>4. \A k \in 1..n : k = 1 \/ (k - 1 \in 1..(n - 1) /\ (k - 1) + 1 = k)
  BY <1>2
<1>5. \A x : x \in Pool!Queued <=> \E k \in 1..n : pending[k] = x
  BY DEF Pool!Queued, n
<1>6. \A x : x \in Pool!Queued' <=> \E k \in 1..(n - 1) : pending'[k] = x
  BY <1>2 DEF Pool!Queued
<1>7. Pool!Queued = Pool!Queued' \cup {pending[1]}
  <2> SUFFICES ASSUME NEW x PROVE x \in Pool!Queued <=> x \in Pool!Queued' \cup {pending[1]}
    OBVIOUS
  <2>1. ASSUME x \in Pool!Queued PROVE x \in Pool!Queued' \cup {pending[1]}
    <3>1. PICK k \in 1..n : pending[k] = x
      BY <2>1, <1>5
    <3>2. CASE k = 1
      BY <3>1, <3>2
    <3>3. CASE k # 1
      <4>1. k - 1 \in 1..(n - 1) /\ (k - 1) + 1 = k
        BY <3>3, <1>4
      <4>2. pending'[k - 1] = pending[(k - 1) + 1]
        BY <4>1, <1>3
      <4>3. pending'[k - 1] = x
        BY <4>1, <4>2, <3>1
      <4> QED
        BY <4>1, <4>3, <1>6
    <3> QED
      BY <3>2, <3>3
  <2>2. ASSUME x \in Pool!Queued' \cup {pending[1]} PROVE x \in Pool!Queued
    BY <2>2, <1>2, <1>3, <1>5, <1>6
  <2> QED
    BY <2>1, <2>2
<1>8. \A a, b \in 1..n : pending[a] = pending[b] => a = b
  BY DEF n
<1>9. pending[1] \notin Pool!Queued'
  BY <1>2, <1>3, <1>6, <1>8
<1>10. ASSUME NEW a \in 1..(n - 1), NEW b \in 1..(n - 1), pending'[a] = pending'[b] PROVE a = b
  <2>1. a + 1 = b + 1
    <3>1. /\ a + 1 \in 1..n /\ b + 1 \in 1..n
          /\ pending'[a] = pending[a + 1] /\ pending'[b] = pending[b + 1]
      BY <1>3
    <3> QED
      BY <3>1, <1>8, <1>10
  <2> QED
    BY <2>1, <1>2
<1> QED
  BY <1>1, <1>2, <1>7, <1>9, <1>10

-----------------------------------------------------------------------------
(* What the steps do to the pool and to the places of the jobs. *)

\* The process ends.
Dies == \E how : Die(how)

\* The order of p2p.
Leads(from, to) ==
  \/ from = "fd" /\ to = "ip"
  \/ from = "ip" /\ to = "hello"
  \/ from = "hello" /\ to \in {"hello", "talk", "bye"}
  \/ from = "talk" /\ to \in {"talk", "query", "bye"}
  \/ from = "query" /\ to = "talk"
  \/ from = "bye" /\ to = "count"
  \/ from = "count" /\ to = "purge"
  \/ from = "purge" /\ to = "close"

\* A job goes on in p2p.
Moves(j) ==
  /\ \E place \in Busy : Leads(spc[j], place) /\ spc' = [spc EXCEPT ![j] = place]
  /\ UNCHANGED poolVars

\* A job's function returns.
Ends(j) ==
  /\ spc[j] \in {"purge", "close"}
  /\ spc' = [spc EXCEPT ![j] = "ended"]
  /\ Pool!Finish(j)

\* A job begins.
Begins(j) ==
  /\ spc[j] = "none"
  /\ spc' = [spc EXCEPT ![j] = "fd"]
  /\ j = Head(pending)
  /\ Pool!Start

\* Each step of a job is one of these, or changes neither its place nor the pool.
LEMMA SessionKinds ==
  ASSUME NEW j \in Conns, Session(j)
  PROVE  Dies \/ UNCHANGED <<spc, poolVars>> \/ Moves(j) \/ Ends(j) \/ Begins(j)
<1>1. CASE StartJob(j)
  BY <1>1 DEF StartJob, At, Goto, Begins
<1>2. CASE CopyFd(j)
  BY <1>2 DEF CopyFd, At, Goto, Moves, Leads, Busy, Dies
<1>3. CASE CopyIp(j)
  BY <1>3 DEF CopyIp, At, Goto, Moves, Leads, Busy, Dies
<1>4. CASE LeftoverQuit(j)
  BY <1>4 DEF LeftoverQuit, At, Goto, Moves, Leads, Busy
<1>5. CASE Hello(j)
  <2> DEFINE place == CASE Received(j, {"CONNECT"}) -> "talk"
                        [] Received(j, {"QUIT"}) -> "bye"
                        [] OTHER -> "hello"
  <2>1. spc[j] = "hello" /\ spc' = [spc EXCEPT ![j] = place] /\ UNCHANGED poolVars
    BY <1>5 DEF Hello, At, Goto, Busy
  <2>2. place \in Busy /\ Leads("hello", place)
    <3>1. CASE Received(j, {"CONNECT"}) /\ ~Received(j, {"QUIT"})
      BY <3>1 DEF Busy, Leads
    <3>2. CASE Received(j, {"QUIT"}) /\ ~Received(j, {"CONNECT"})
      BY <3>2 DEF Busy, Leads
    <3>3. CASE ~Received(j, {"QUIT"}) /\ ~Received(j, {"CONNECT"})
      BY <3>3 DEF Busy, Leads
    <3>4. ~(Received(j, {"QUIT"}) /\ Received(j, {"CONNECT"}))
      BY DEF Received
    <3> QED
      BY <3>1, <3>2, <3>3, <3>4
  <2> HIDE DEF place
  <2> QED
    BY <2>1, <2>2 DEF Moves
<1>6. CASE Add(j)
  BY <1>6 DEF Add, sessionVars
<1>19. CASE Overrun(j)
  BY <1>19 DEF Overrun, Dies
<1>7. CASE TableFails(j)
  BY <1>7 DEF TableFails, sessionVars
<1>8. CASE Delete(j)
  BY <1>8 DEF Delete, sessionVars
<1>9. CASE StartQuery(j)
  BY <1>9 DEF StartQuery, At, Goto, Moves, Leads, Busy
<1>10. CASE EndQuery(j)
  BY <1>10 DEF EndQuery, At, Goto, Moves, Leads, Busy
<1>11. CASE OtherMessage(j)
  BY <1>11 DEF OtherMessage, At, Goto, Moves, Leads, Busy
<1>12. CASE RecvFails(j)
  BY <1>12 DEF RecvFails, Dies
<1>13. CASE ClosedDb(j)
  BY <1>13 DEF ClosedDb, Dies
<1>14. CASE GoodbyeReadsCount(j)
  BY <1>14 DEF GoodbyeReadsCount, At, Goto, Moves, Leads, Busy
<1>15. CASE GoodbyeWritesCount(j)
  BY <1>15 DEF GoodbyeWritesCount, At, Goto, Moves, Leads, Busy
<1>16. CASE Purge(j)
  BY <1>16 DEF Purge, At, Goto, Moves, Leads, Busy
<1>17. CASE PurgeFails(j)
  BY <1>17 DEF PurgeFails, At, Goto, Ends
<1>18. CASE CloseConn(j)
  BY <1>18 DEF CloseConn, At, Goto, Ends
<1> QED
  BY <1>1, <1>2, <1>3, <1>4, <1>5, <1>6, <1>7, <1>8, <1>9, <1>10, <1>11, <1>12, <1>13, <1>14,
     <1>15, <1>16, <1>17, <1>18, <1>19 DEF Session

\* A session's step leaves the other jobs where they are.
LEMMA OthersStay ==
  ASSUME spc \in [Conns -> {"none", "ended"} \cup Busy], ~Dies,
         NEW i \in Conns, Session(i), NEW j \in Conns, i # j
  PROVE  spc'[j] = spc[j]
<1>1. spc' = spc \/ \E place : spc' = [spc EXCEPT ![i] = place]
  BY SessionKinds DEF Moves, Ends, Begins
<1>2. ASSUME NEW place, spc' = [spc EXCEPT ![i] = place] PROVE spc'[j] = spc[j]
  BY <1>2
<1> QED
  BY <1>1, <1>2

\* And so is each step of the server, but for adding and discarding jobs and closing the pool.
LEMMA StepKinds ==
  ASSUME Next
  PROVE  \/ Dies
         \/ UNCHANGED <<spc, poolVars>>
         \/ \E j \in Conns : Moves(j) \/ Ends(j) \/ Begins(j)
         \/ AddWork
         \/ StopPool
         \/ DiscardJob
<1>1. ASSUME NEW c \in Conns, Vanish(c) \/ \E m \in Msgs : Send(c, m)
      PROVE  UNCHANGED <<spc, poolVars>>
  BY <1>1 DEF Vanish, Send, sessionVars
<1>2. CASE Listener
  BY <1>2 DEF Listener, Accept, AcceptFails, ListenerReads, ListenerWrites, WriteFd, WriteIp, AddTooLate,
     Dies, sessionVars
<1>3. CASE Console
  BY <1>3 DEF Console, StatReads, StatWrites, CloseDb, SemGone, Exit, Dies, sessionVars
<1> QED
  BY <1>1, <1>2, <1>3, SessionKinds DEF Next

\* Only tcp_listen and the end of the process change what tcp_listen holds.
LEMMA ListenerSteps ==
  ASSUME Next
  PROVE  Dies \/ Listener \/ UNCHANGED listenVars
<1>1. ASSUME NEW c \in Conns, Vanish(c) \/ \E m \in Msgs : Send(c, m)
      PROVE  UNCHANGED listenVars
  BY <1>1 DEF Vanish, Send
<1>2. ASSUME NEW j \in Conns, Session(j) PROVE Dies \/ UNCHANGED listenVars
  BY <1>2 DEF Session, StartJob, CopyFd, CopyIp, LeftoverQuit, Hello, Overrun, Add, TableFails, Delete,
     StartQuery,
     EndQuery, OtherMessage, RecvFails, ClosedDb, GoodbyeReadsCount, GoodbyeWritesCount, Purge, PurgeFails,
     CloseConn, Dies
<1>3. CASE Console
  BY <1>3 DEF Console, StatReads, StatWrites, CloseDb, StopPool, DiscardJob, SemGone, Exit, Dies
<1> QED
  BY <1>1, <1>2, <1>3 DEF Next

\* A job is fresh as long as the pool does not know it.
LEMMA FreshIsUnknown ==
  \A j : (Pool!Fresh(j) <=> ~Known(j)) /\ (Pool!Fresh(j)' <=> ~Known(j)')
BY DEF Pool!Fresh, Known

\* A job the pool does not know has not started.
LEMMA UnknownIsNone ==
  ASSUME TypeOK, JobsMatch, NEW j \in Conns, ~Known(j)
  PROVE  spc[j] = "none"
BY DEF TypeOK, JobsMatch, Known

\* Each step of a job, and of the pool, leaves the places of the jobs as they should be.
LEMMA JobsMatchKept ==
  ASSUME TypeOK, JobsMatch, AcceptedIsFresh, Next
  PROVE  JobsMatch' /\ pending' \in Seq(Conns)
<1> USE DEF TypeOK
<1>0. pending \in Seq(Conns) /\ \A a, b \in 1..Len(pending) : pending[a] = pending[b] => a = b
  BY DEF JobsMatch
<1>1. CASE Dies
  <2>1. pending' = <<>> /\ running' = {} /\ done' = {} /\ discarded' = {} /\ spc' = All("none")
    BY <1>1 DEF Dies, Die
  <2>2. pending' \in Seq(Conns) /\ Pool!Queued' = {} /\ \A a, b \in 1..Len(pending') : FALSE
    BY <2>1 DEF Pool!Queued
  <2> QED
    BY <2>1, <2>2 DEF JobsMatch, All, Busy
<1>2. CASE UNCHANGED <<spc, poolVars>>
  <2>1. /\ spc' = spc /\ pending' = pending /\ running' = running /\ done' = done
        /\ discarded' = discarded /\ Pool!Queued' = Pool!Queued
    BY <1>2 DEF poolVars, Pool!Queued
  <2> QED
    BY <2>1, <1>0 DEF JobsMatch
<1>3. ASSUME NEW j \in Conns, Moves(j) PROVE JobsMatch' /\ pending' \in Seq(Conns)
  <2>1. UNCHANGED poolVars /\ Pool!Queued' = Pool!Queued
    BY <1>3 DEF Moves, poolVars, Pool!Queued
  <2>2. PICK place \in Busy : spc' = [spc EXCEPT ![j] = place] /\ spc[j] \in Busy
    BY <1>3 DEF Moves, Leads, Busy
  <2>3. \A i \in Conns : spc'[i] = spc[i] \/ (i = j /\ spc'[i] \in Busy /\ spc[i] \in Busy)
    BY <2>2
  <2>4. \A x \in Busy : x # "none" /\ x # "ended"
    BY DEF Busy
  <2> QED
    BY <2>1, <2>3, <2>4, <1>0 DEF JobsMatch, poolVars
<1>4. ASSUME NEW j \in Conns, Ends(j) PROVE JobsMatch' /\ pending' \in Seq(Conns)
  <2>1. /\ pending' = pending /\ discarded' = discarded /\ Pool!Queued' = Pool!Queued
        /\ running' = running \ {j} /\ done' = done \cup {j} /\ j \in running
    BY <1>4 DEF Ends, Pool!Finish, Pool!Queued
  <2>2. spc[j] \in Busy /\ \A i \in Conns : spc'[i] = IF i = j THEN "ended" ELSE spc[i]
    BY <1>4 DEF Ends, Busy
  <2>3. "ended" \notin Busy /\ "none" \notin Busy
    BY DEF Busy
  <2> QED
    BY <2>1, <2>2, <2>3, <1>0 DEF JobsMatch
<1>5. ASSUME NEW j \in Conns, Begins(j) PROVE JobsMatch' /\ pending' \in Seq(Conns)
  <2>1. /\ pending # <<>> /\ pending' = Tail(pending) /\ j = Head(pending)
        /\ discarded' = discarded /\ discarded = {} /\ done' = done /\ running' = running \cup {j}
    BY <1>5 DEF Begins, Pool!Start
  <2>2. /\ pending' \in Seq(Conns)
        /\ \A a, b \in 1..Len(pending') : pending'[a] = pending'[b] => a = b
        /\ Pool!Queued = Pool!Queued' \cup {j} /\ j \notin Pool!Queued'
    BY <1>0, <2>1, TakeUnqueues
  <2>3. spc[j] = "none" /\ \A i \in Conns : spc'[i] = IF i = j THEN "fd" ELSE spc[i]
    BY <1>5 DEF Begins
  <2>4. "fd" \in Busy /\ "ended" \notin Busy /\ "none" \notin Busy
    BY DEF Busy
  <2> QED
    BY <2>1, <2>2, <2>3, <2>4 DEF JobsMatch
<1>6. CASE AddWork
  <2>1. /\ Pool!Fresh(inc_fd) /\ pending' = Append(pending, inc_fd)
        /\ running' = running /\ done' = done /\ discarded' = discarded /\ spc' = spc
    BY <1>6 DEF AddWork, Pool!Submit, sessionVars
  <2>2. inc_fd \in Conns
    BY <1>6 DEF AddWork, AcceptedIsFresh, Accepting
  <2>3. /\ pending' \in Seq(Conns) /\ Len(pending') = Len(pending) + 1
        /\ pending'[Len(pending) + 1] = inc_fd
        /\ \A k \in 1..Len(pending) : pending'[k] = pending[k]
        /\ Pool!Queued' = Pool!Queued \cup {inc_fd}
    BY <1>0, <2>1, <2>2, SubmitQueues
  <2>4. inc_fd \notin Pool!Queued /\ inc_fd \notin discarded /\ spc[inc_fd] = "none"
    BY <2>1, <2>2, FreshIsUnknown, UnknownIsNone DEF Known
  <2>5. ASSUME NEW a \in 1..Len(pending'), NEW b \in 1..Len(pending'), pending'[a] = pending'[b]
        PROVE  a = b
    <3>1. /\ Len(pending) \in Nat
          /\ \A k \in 1..Len(pending) : pending[k] # inc_fd
      BY <1>0, <2>4, QueuedElements
    <3>2. \A k \in 1..Len(pending') : k \in 1..Len(pending) \/ k = Len(pending) + 1
      BY <3>1, <2>3
    <3> HIDE DEF TypeOK
    <3> QED
      BY <1>0, <2>3, <2>5, <3>1, <3>2
  <2> QED
    BY <2>1, <2>3, <2>4, <2>5 DEF JobsMatch
<1>7. CASE StopPool
  BY <1>7, <1>0 DEF StopPool, Pool!Close, Pool!Queued, JobsMatch, sessionVars
<1>8. CASE DiscardJob
  <2>1. /\ pending # <<>> /\ pending' = Tail(pending) /\ running' = running /\ done' = done
        /\ discarded' = discarded \cup {Head(pending)} /\ spc' = spc
    BY <1>8 DEF DiscardJob, Pool!Discard, sessionVars
  <2>2. /\ pending' \in Seq(Conns)
        /\ \A a, b \in 1..Len(pending') : pending'[a] = pending'[b] => a = b
        /\ Head(pending) \in Conns
        /\ Pool!Queued = Pool!Queued' \cup {Head(pending)} /\ Head(pending) \notin Pool!Queued'
    BY <1>0, <2>1, TakeUnqueues
  <2>3. "none" \notin Busy
    BY DEF Busy
  <2> QED
    BY <2>1, <2>2, <2>3 DEF JobsMatch
<1> QED
  BY <1>1, <1>2, <1>3, <1>4, <1>5, <1>6, <1>7, <1>8, StepKinds

\* A job is known from the step on that submits it.
LEMMA KnownSteps ==
  ASSUME TypeOK, JobsMatch, AcceptedIsFresh, Next, ~Dies
  PROVE  \A j : Known(j)' <=> Known(j) \/ (AddWork /\ j = inc_fd)
<1> USE DEF Known
<1>0. pending \in Seq(Conns) /\ \A a, b \in 1..Len(pending) : pending[a] = pending[b] => a = b
  BY DEF JobsMatch, TypeOK
<1>1. ASSUME UNCHANGED poolVars PROVE \A j : Known(j)' <=> Known(j)
  <2>1. /\ running' = running /\ done' = done /\ discarded' = discarded /\ Pool!Queued' = Pool!Queued
    BY <1>1 DEF poolVars, Pool!Queued
  <2> QED
    BY <2>1
<1>2. ASSUME NEW i \in Conns, Ends(i) PROVE \A j : Known(j)' <=> Known(j)
  <2>1. /\ discarded' = discarded /\ Pool!Queued' = Pool!Queued
        /\ running' = running \ {i} /\ done' = done \cup {i} /\ i \in running
    BY <1>2 DEF Ends, Pool!Finish, Pool!Queued
  <2> QED
    BY <2>1
<1>3. ASSUME NEW i \in Conns, Begins(i) PROVE \A j : Known(j)' <=> Known(j)
  <2>1. /\ pending # <<>> /\ pending' = Tail(pending) /\ i = Head(pending)
        /\ discarded' = discarded /\ done' = done /\ running' = running \cup {i}
    BY <1>3 DEF Begins, Pool!Start
  <2>2. Pool!Queued = Pool!Queued' \cup {i}
    BY <1>0, <2>1, TakeUnqueues
  <2> QED
    BY <2>1, <2>2
<1>4. ASSUME AddWork PROVE \A j : Known(j)' <=> Known(j) \/ j = inc_fd
  <2>1. /\ pending' = Append(pending, inc_fd)
        /\ running' = running /\ done' = done /\ discarded' = discarded
    BY <1>4 DEF AddWork, Pool!Submit
  <2>2. inc_fd \in Conns
    BY <1>4 DEF AddWork, AcceptedIsFresh, Accepting
  <2>3. Pool!Queued' = Pool!Queued \cup {inc_fd}
    BY <1>0, <2>1, <2>2, SubmitQueues
  <2> QED
    BY <2>1, <2>3
<1>5. ASSUME StopPool PROVE \A j : Known(j)' <=> Known(j)
  <2>1. /\ running' = running /\ done' = done /\ discarded' = discarded /\ Pool!Queued' = Pool!Queued
    BY <1>5 DEF StopPool, Pool!Close, Pool!Queued
  <2> QED
    BY <2>1
<1>6. ASSUME DiscardJob PROVE \A j : Known(j)' <=> Known(j)
  <2>1. /\ pending # <<>> /\ pending' = Tail(pending) /\ running' = running /\ done' = done
        /\ discarded' = discarded \cup {Head(pending)}
    BY <1>6 DEF DiscardJob, Pool!Discard
  <2>2. Pool!Queued = Pool!Queued' \cup {Head(pending)}
    BY <1>0, <2>1, TakeUnqueues
  <2> QED
    BY <2>1, <2>2
<1>7. AddWork => \A j : Known(j)' <=> Known(j) \/ (AddWork /\ j = inc_fd)
  BY <1>4
<1>8. ~AddWork => \A j : Known(j)' <=> Known(j)
  <2> HIDE DEF Known
  <2>1. \A i \in Conns : Moves(i) => UNCHANGED poolVars
    BY DEF Moves
  <2> QED
    BY <1>1, <1>2, <1>3, <1>5, <1>6, <2>1, StepKinds
<1> HIDE DEF Known
<1> QED
  BY <1>7, <1>8

\* How the places of the jobs change.
LEMMA PlaceSteps ==
  ASSUME TypeOK, Next, ~Dies
  PROVE  \A j \in Conns :
           \/ spc'[j] = spc[j]
           \/ Leads(spc[j], spc'[j])
           \/ spc[j] \in {"purge", "close"} /\ spc'[j] = "ended"
           \/ spc[j] = "none" /\ spc'[j] = "fd"
<1> USE DEF TypeOK
<1>1. CASE UNCHANGED spc
  BY <1>1
<1>2. ASSUME NEW i \in Conns, Moves(i) \/ Ends(i) \/ Begins(i) 
      PROVE  \A j \in Conns :
               \/ spc'[j] = spc[j]
               \/ Leads(spc[j], spc'[j])
               \/ spc[j] \in {"purge", "close"} /\ spc'[j] = "ended"
               \/ spc[j] = "none" /\ spc'[j] = "fd"
  <2>1. PICK place : /\ spc' = [spc EXCEPT ![i] = place]
                     /\ \/ Leads(spc[i], place)
                        \/ spc[i] \in {"purge", "close"} /\ place = "ended"
                        \/ spc[i] = "none" /\ place = "fd"
    BY <1>2 DEF Moves, Ends, Begins
  <2>2. spc'[i] = place /\ \A j \in Conns : j # i => spc'[j] = spc[j]
    BY <2>1
  <2> QED
    BY <2>1, <2>2
<1> QED
  BY <1>1, <1>2, StepKinds DEF AddWork, StopPool, DiscardJob, sessionVars

-----------------------------------------------------------------------------
(* The pool's jobs and the client count. *)

\* A connection is new to the pool until tcp_listen adds its job.
LEMMA FreshKept ==
  ASSUME TypeOK, JobsMatch, AcceptedIsFresh, Next
  PROVE  AcceptedIsFresh'
<1> USE DEF Accepting
<1> DEFINE new(c) == c \in Conns /\ ~Known(c)
<1>0. /\ AcceptedIsFresh <=> (lpc \in Accepting => new(inc_fd))
      /\ AcceptedIsFresh' <=> (lpc' \in Accepting => inc_fd' \in Conns /\ ~Known(inc_fd)')
  BY FreshIsUnknown DEF AcceptedIsFresh
<1>1. CASE Dies
  BY <1>0, <1>1 DEF Dies, Die
<1>2. CASE UNCHANGED listenVars /\ ~Dies
  <2>1. lpc' = lpc /\ inc_fd' = inc_fd /\ ~AddWork
    BY <1>2 DEF listenVars, AddWork
  <2> QED
    BY <1>0, <1>2, <2>1, KnownSteps
<1>3. CASE Listener /\ ~Dies
  <2>1. ASSUME NEW c \in Conns, Accept(c) PROVE inc_fd' \in Conns /\ ~Known(inc_fd)'
    <3>1. inc_fd' = c /\ ~Known(c) /\ ~AddWork
      BY <2>1, FreshIsUnknown DEF Accept, AddWork
    <3> QED
      BY <1>3, <3>1, KnownSteps
  <2>2. CASE ListenerReads \/ ListenerWrites \/ WriteFd \/ WriteIp
    <3>1. inc_fd' = inc_fd /\ ~AddWork /\ lpc \in Accepting
      BY <2>2 DEF ListenerReads, ListenerWrites, WriteFd, WriteIp, AddWork
    <3> QED
      BY <1>0, <1>3, <3>1, KnownSteps
  <2>3. CASE AcceptFails \/ AddWork
    BY <2>3, <1>0 DEF AcceptFails, AddWork
  <2>4. ~AddTooLate
    BY <1>3 DEF AddTooLate, Dies
  <2> QED
    BY <1>0, <1>3, <2>1, <2>2, <2>3, <2>4 DEF Listener
<1> QED
  BY <1>1, <1>2, <1>3, ListenerSteps

\* The parts of TypeOK but for the pool's.
ServerTypeOK ==
  /\ link \in [Conns -> {"greet", "on", "bye", "gone"}]
  /\ lpc \in {"accept", "returned"} \cup Accepting
  /\ inc_fd \in Conns \cup {NoConn}
  /\ params \in [fd : Conns \cup {NoConn}, ipaddr : Addrs \cup {NoConn}]
  /\ c_count \in Int /\ tmp \in [Conns \cup {"listener", "console"} -> Int] /\ lost \in BOOLEAN
  /\ fd \in [Conns -> Conns \cup {NoConn}]
  /\ addr \in [Conns -> Addrs \cup {NoConn}]
  /\ older \in [Conns -> SUBSET Conns] /\ overtaken \subseteq Conns

\* The end of the process leaves everything as at the start.
LEMMA DeadTypeOK ==
  ASSUME ServerTypeOK, Dies
  PROVE  ServerTypeOK'
<1>1. /\ link' = link /\ link \in [Conns -> {"greet", "on", "bye", "gone"}]
      /\ overtaken' = overtaken /\ overtaken \subseteq Conns
  BY DEF ServerTypeOK, Dies, Die
<1>2. /\ lpc' \in {"accept", "returned"} \cup Accepting /\ inc_fd' \in Conns \cup {NoConn}
      /\ c_count' = 0 /\ lost' = FALSE
  BY DEF Dies, Die
<1>3. params' \in [fd : Conns \cup {NoConn}, ipaddr : Addrs \cup {NoConn}]
  BY DEF Dies, Die, NoParams
<1>4. tmp' \in [Conns \cup {"listener", "console"} -> Int]
  BY DEF Dies, Die, NoTmp
<1>5. /\ fd' \in [Conns -> Conns \cup {NoConn}] /\ addr' \in [Conns -> Addrs \cup {NoConn}]
      /\ older' \in [Conns -> SUBSET Conns]
  BY DEF Dies, Die, All
<1>6. lost' \in BOOLEAN
  BY <1>2
<1>7. c_count' \in Int
  BY <1>2
<1> QED
  BY <1>1, <1>2, <1>3, <1>4, <1>5, <1>6, <1>7 DEF ServerTypeOK

\* The other steps keep the types.
LEMMA ServerTypeKept ==
  ASSUME ServerTypeOK, AcceptedIsFresh, Next, ~Dies
  PROVE  ServerTypeOK'
<1> USE DEF ServerTypeOK
<1>1. ASSUME NEW c \in Conns, Vanish(c) \/ \E m \in Msgs : Send(c, m) PROVE ServerTypeOK'
  BY <1>1 DEF Vanish, Send, listenVars, countVars, sessionVars
<1>2. CASE Listener
  <2>1. ASSUME NEW c \in Conns, Accept(c) PROVE ServerTypeOK'
    BY <2>1 DEF Accept, netVars, countVars, sessionVars, Accepting
  <2>2. CASE AcceptFails
    BY <2>2 DEF AcceptFails, NoParams, netVars, countVars, sessionVars
  <2>3. CASE ListenerReads
    BY <2>3 DEF ListenerReads, ReadCount, netVars, sessionVars, Accepting
  <2>4. CASE ListenerWrites
    BY <2>4 DEF ListenerWrites, WriteCount, NoTmp, netVars, sessionVars, Accepting
  <2>5. CASE WriteFd
    BY <2>5 DEF WriteFd, Uncopied, netVars, countVars, sessionVars, Accepting
  <2>6. CASE WriteIp
    <3>1. inc_fd \in Conns /\ AddrOf[inc_fd] \in Addrs
      BY <2>6 DEF WriteIp, AcceptedIsFresh, Accepting, Addrs
    <3> QED
      BY <2>6, <3>1 DEF WriteIp, Uncopied, netVars, countVars, sessionVars, Accepting
  <2>7. CASE AddWork
    BY <2>7 DEF AddWork, netVars, countVars, sessionVars
  <2>8. ~AddTooLate
    BY DEF AddTooLate, Dies
  <2> QED
    BY <1>2, <2>1, <2>2, <2>3, <2>4, <2>5, <2>6, <2>7, <2>8 DEF Listener
<1>3. ASSUME NEW j \in Conns, Session(j) PROVE ServerTypeOK'
  <2>1. CASE CopyFd(j)
    BY <2>1 DEF CopyFd, Dies, netVars, listenVars, countVars
  <2>2. CASE CopyIp(j)
    BY <2>2 DEF CopyIp, Dies, netVars, listenVars, countVars
  <2>3. CASE GoodbyeReadsCount(j)
    BY <2>3 DEF GoodbyeReadsCount, ReadCount, netVars, listenVars
  <2>4. CASE GoodbyeWritesCount(j)
    BY <2>4 DEF GoodbyeWritesCount, WriteCount, NoTmp, netVars, listenVars
  <2>5. CASE \/ StartJob(j) \/ LeftoverQuit(j) \/ Hello(j) \/ Add(j) \/ TableFails(j) \/ Delete(j)
             \/ StartQuery(j) \/ EndQuery(j) \/ OtherMessage(j) \/ Purge(j) \/ PurgeFails(j) \/ CloseConn(j)
    <3>1. UNCHANGED <<link, lpc, inc_fd, params, older, overtaken, c_count, tmp, lost, fd, addr>>
      BY <2>5 DEF StartJob, LeftoverQuit, Hello, Overrun, Add, TableFails, Delete, StartQuery, EndQuery,
         OtherMessage,
         Purge, PurgeFails, CloseConn, netVars, listenVars, countVars, sessionVars
    <3> QED
      BY <3>1
  <2>6. CASE Overrun(j) \/ RecvFails(j) \/ ClosedDb(j)
    BY <2>6 DEF Overrun, RecvFails, ClosedDb, Dies
  <2> QED
    BY <1>3, <2>1, <2>2, <2>3, <2>4, <2>5, <2>6 DEF Session
<1>4. CASE Console
  <2>1. CASE StatReads
    BY <2>1 DEF StatReads, ReadCount, netVars, listenVars, sessionVars
  <2>2. CASE StatWrites
    BY <2>2 DEF StatWrites, WriteCount, NoTmp, netVars, listenVars, sessionVars
  <2>3. CASE CloseDb \/ StopPool \/ DiscardJob \/ SemGone \/ Exit
    <3>1. UNCHANGED <<link, lpc, inc_fd, params, older, overtaken, c_count, tmp, lost, fd, addr>>
      BY <2>3 DEF CloseDb, StopPool, DiscardJob, SemGone, Exit, Dies, netVars, listenVars,
         countVars, sessionVars
    <3> QED
      BY <3>1
  <2> QED
    BY <1>4, <2>1, <2>2, <2>3 DEF Console
<1> QED
  BY <1>1, <1>2, <1>3, <1>4 DEF Next

\* The variables keep their types.
LEMMA TypeKept ==
  ASSUME TypeOK, JobsMatch, AcceptedIsFresh, Next
  PROVE  TypeOK'
<1>1. ServerTypeOK'
  BY DeadTypeOK, ServerTypeKept DEF TypeOK, ServerTypeOK
<1>2. pending' \in Seq(Conns)
  BY JobsMatchKept
<1> DEFINE good == /\ spc' \in [Conns -> {"none", "ended"} \cup Busy]
                   /\ running' \subseteq Conns /\ done' \subseteq Conns /\ discarded' \subseteq Conns
<1>3. good
  <2> USE DEF TypeOK
  <2>1. CASE Dies
    BY <2>1 DEF Dies, Die, All
  <2>2. CASE UNCHANGED <<spc, poolVars>>
    BY <2>2 DEF poolVars
  <2>3. ASSUME NEW j \in Conns, Moves(j)
        PROVE  good
    BY <2>3 DEF Moves, poolVars
  <2>7. ASSUME NEW j \in Conns, Ends(j)
        PROVE  good
    BY <2>7 DEF Ends, Pool!Finish
  <2>4. ASSUME NEW j \in Conns, Begins(j)
        PROVE  good
    BY <2>4 DEF Begins, Pool!Start, Busy
  <2>5. CASE AddWork \/ StopPool
    BY <2>5 DEF AddWork, StopPool, Pool!Submit, Pool!Close, sessionVars
  <2>6. CASE DiscardJob
    <3>1. Head(pending) \in Conns
      BY <2>6 DEF DiscardJob, Pool!Discard
    <3> QED
      BY <2>6, <3>1 DEF DiscardJob, Pool!Discard, sessionVars
  <2> HIDE DEF good
  <2> QED
    BY <2>1, <2>2, <2>3, <2>4, <2>5, <2>6, <2>7, StepKinds
<1> QED
  BY <1>1, <1>2, <1>3 DEF TypeOK, ServerTypeOK

\* The clients counted are a finite set.
LEMMA CountedFinite == IsFiniteSet(Counted) /\ Counted \subseteq Conns
<1>1. Counted \subseteq Conns
  BY DEF Counted
<1> QED
  BY <1>1, ConnsAssumption, FS_Subset

\* Which clients are counted, in terms of what the pool knows.
LEMMA CountedMembers ==
  /\ \A j : j \in Counted <=> /\ j \in Conns
                              /\ Known(j) \/ (j = inc_fd /\ lpc \in {"test", "tested", "fd", "ip", "add"})
                              /\ spc[j] \notin {"purge", "close", "ended"}
  /\ \A j : j \in Counted' <=> /\ j \in Conns
                               /\ Known(j)' \/ (j = inc_fd' /\ lpc' \in {"test", "tested", "fd", "ip",
                                  "add"})
                               /\ spc'[j] \notin {"purge", "close", "ended"}
BY FreshIsUnknown DEF Counted

\* The place before the farewell's decrement is written back is left by that write only.
LEMMA CountPlace ==
  ASSUME TypeOK, Next, ~Dies, NEW j \in Conns, spc[j] = "count", spc'[j] # "count"
  PROVE  GoodbyeWritesCount(j)
<1>1. PICK i \in Conns : Session(i)
  <2>1. ASSUME NEW c \in Conns, Vanish(c) \/ \E m \in Msgs : Send(c, m) PROVE UNCHANGED spc
    BY <2>1 DEF Vanish, Send, sessionVars
  <2>2. Listener => UNCHANGED spc
    BY DEF Listener, Accept, AcceptFails, ListenerReads, ListenerWrites, WriteFd, WriteIp, AddWork,
       AddTooLate, Dies, sessionVars
  <2>3. Console => UNCHANGED spc
    BY DEF Console, StatReads, StatWrites, CloseDb, StopPool, DiscardJob, SemGone, Exit, Dies,
       sessionVars
  <2> QED
    BY <2>1, <2>2, <2>3 DEF Next
<1>2. spc[i] = "count" => GoodbyeWritesCount(i)
  BY <1>1 DEF Session, StartJob, CopyFd, CopyIp, LeftoverQuit, Hello, Overrun, Add, TableFails, Delete,
     StartQuery,
     EndQuery, OtherMessage, RecvFails, ClosedDb, GoodbyeReadsCount, Purge, PurgeFails, CloseConn, Dies, At
<1>3. i # j => spc'[j] = spc[j]
  BY <1>1, OthersStay DEF TypeOK
<1> QED
  BY <1>2, <1>3

\* A step that neither counts a client nor says goodbye leaves the same clients counted.
LEMMA CountedSame ==
  ASSUME TypeOK, JobsMatch, AcceptedIsFresh, Next, ~Dies,
         ~(ListenerWrites /\ lpc = "counted"),
         \A j \in Conns : ~GoodbyeWritesCount(j)
  PROVE  Counted' = Counted
<1> DEFINE gone == {"purge", "close", "ended"}
           after == {"test", "tested", "fd", "ip", "add"}
<1>1. \A j \in Conns : spc'[j] \in gone <=> spc[j] \in gone
  BY PlaceSteps, CountPlace DEF Leads
<1>2. ASSUME NEW j \in Conns
      PROVE  \/ Known(j)' \/ (j = inc_fd' /\ lpc' \in after)
             <=> Known(j) \/ (j = inc_fd /\ lpc \in after)
  <2>1. CASE UNCHANGED listenVars
    <3>1. ~AddWork /\ lpc' = lpc /\ inc_fd' = inc_fd
      BY <2>1 DEF AddWork, listenVars
    <3> QED
      BY <3>1, KnownSteps
  <2>2. CASE AddWork
    <3>1. lpc' = "accept" /\ lpc = "add"
      BY <2>2 DEF AddWork
    <3> QED
      BY <2>2, <3>1, KnownSteps
  <2>3. CASE Listener /\ ~AddWork
    <3>1. (lpc' \in after <=> lpc \in after) /\ (lpc \in after => inc_fd' = inc_fd)
      BY <2>3 DEF Listener, Accept, AcceptFails, ListenerReads, ListenerWrites, WriteFd, WriteIp,
         AddTooLate, Dies
    <3> QED
      BY <2>3, <3>1, KnownSteps
  <2> QED
    BY <2>1, <2>2, <2>3, ListenerSteps
<1> QED
  BY <1>1, <1>2, CountedMembers

\* Reading and writing back: what a thread does to c_count unless a change was lost.
LEMMA CountWritten ==
  ASSUME NEW thread, NEW change \in Int, c_count \in Int, WriteCount(thread, change), ~lost'
  PROVE  ~lost /\ c_count' = c_count + change
BY DEF WriteCount

\* The other steps do not change it.
LEMMA CountUnwritten ==
  ASSUME Next, ~Dies, ~ListenerWrites, ~StatWrites, \A j \in Conns : ~GoodbyeWritesCount(j)
  PROVE  c_count' = c_count /\ lost' = lost
<1>1. ASSUME NEW c \in Conns, Vanish(c) \/ \E m \in Msgs : Send(c, m) PROVE UNCHANGED <<c_count, lost>>
  BY <1>1 DEF Vanish, Send, countVars
<1>2. CASE Listener
  BY <1>2 DEF Listener, Accept, AcceptFails, ListenerReads, ReadCount, WriteFd, WriteIp, AddWork,
     AddTooLate, Dies, countVars
<1>3. ASSUME NEW j \in Conns, Session(j) PROVE UNCHANGED <<c_count, lost>>
  BY <1>3 DEF Session, StartJob, CopyFd, CopyIp, LeftoverQuit, Hello, Overrun, Add, TableFails, Delete,
     StartQuery,
     EndQuery, OtherMessage, RecvFails, ClosedDb, GoodbyeReadsCount, ReadCount, Purge, PurgeFails,
        CloseConn,
     Dies, countVars
<1>4. CASE Console
  BY <1>4 DEF Console, StatReads, ReadCount, CloseDb, StopPool, DiscardJob, SemGone, Exit,
     Dies, countVars
<1> QED
  BY <1>1, <1>2, <1>3, <1>4 DEF Next

\* The count follows the clients.
LEMMA CountKept ==
  ASSUME TypeOK, JobsMatch, AcceptedIsFresh, CountMatches, Next
  PROVE  CountMatches'
<1> SUFFICES ASSUME ~lost' PROVE c_count' = Cardinality(Counted')
  BY DEF CountMatches
<1>0. c_count \in Int
  BY DEF TypeOK
<1>1. CASE Dies
  <2>1. /\ c_count' = 0 /\ lpc' \in {"accept", "returned"} /\ pending' = <<>> /\ running' = {}
        /\ done' = {} /\ discarded' = {}
    BY <1>1 DEF Dies, Die
  <2>2. \A j : ~Known(j)'
    BY <2>1 DEF Known, Pool!Queued
  <2>3. Counted' = {}
    BY <2>1, <2>2, CountedMembers
  <2> QED
    BY <2>1, <2>3, FS_EmptySet
<1>2. CASE ListenerWrites /\ lpc = "counted" /\ ~Dies
  <2>1. /\ WriteCount("listener", 1) /\ lpc' = "test" /\ inc_fd' = inc_fd /\ spc' = spc
        /\ UNCHANGED poolVars
    BY <1>2 DEF ListenerWrites, sessionVars
  <2>2. ~lost /\ c_count' = c_count + 1
    BY <2>1, <1>0, CountWritten
  <2>3. inc_fd \in Conns /\ ~Known(inc_fd) /\ spc[inc_fd] = "none"
    BY <1>2, FreshIsUnknown, UnknownIsNone DEF AcceptedIsFresh, Accepting
  <2>4. \A j : Known(j)' <=> Known(j)
    BY <1>2, <2>1, KnownSteps DEF AddWork
  <2>5. inc_fd \notin Counted /\ Counted' = Counted \cup {inc_fd}
    BY <1>2, <2>1, <2>3, <2>4, CountedMembers
  <2>6. Cardinality(Counted') = Cardinality(Counted) + 1
    BY <2>5, CountedFinite, FS_AddElement
  <2> QED
    BY <2>2, <2>6 DEF CountMatches
<1>3. ASSUME NEW j \in Conns, GoodbyeWritesCount(j), ~Dies PROVE c_count' = Cardinality(Counted')
  <2>1. /\ WriteCount(j, -1) /\ spc[j] = "count" /\ spc' = [spc EXCEPT ![j] = "purge"]
        /\ lpc' = lpc /\ inc_fd' = inc_fd
    BY <1>3 DEF GoodbyeWritesCount, At, Goto, listenVars
  <2>2. ~lost /\ c_count' = c_count - 1
    BY <2>1, <1>0, CountWritten
  <2>3. Known(j)
    BY <2>1 DEF JobsMatch, Busy, Known
  <2>4. \A i : Known(i)' <=> Known(i)
    BY <1>3, KnownSteps DEF AddWork, GoodbyeWritesCount, listenVars
  <2>5. j \in Counted /\ Counted' = Counted \ {j}
    BY <2>1, <2>3, <2>4, CountedMembers DEF TypeOK
  <2>6. Cardinality(Counted') = Cardinality(Counted) - 1
    BY <2>5, CountedFinite, FS_RemoveElement
  <2> QED
    BY <2>2, <2>6 DEF CountMatches
<1>4. CASE ~Dies /\ ~(ListenerWrites /\ lpc = "counted") /\ \A j \in Conns : ~GoodbyeWritesCount(j)
  <2>1. Counted' = Counted
    BY <1>4, CountedSame
  <2>2. ~lost /\ c_count' = c_count
    <3>1. CASE ListenerWrites
      BY <1>4, <3>1, <1>0, CountWritten DEF ListenerWrites
    <3>2. CASE StatWrites
      BY <3>2, <1>0, CountWritten DEF StatWrites
    <3> QED
      BY <1>4, <3>1, <3>2, CountUnwritten
  <2> QED
    BY <2>1, <2>2 DEF CountMatches
<1> QED
  BY <1>1, <1>2, <1>3, <1>4

\* shutdown_handler's steps keep their order.
LEMMA StopOrderKept ==
  ASSUME StopInOrder, Next
  PROVE  StopInOrder'
<1> USE DEF StopInOrder
<1>1. CASE Dies
  <2>1. dbOpen'
    BY <1>1 DEF Dies, Die
  <2> QED
    BY <2>1
<1>2. ASSUME NEW c \in Conns, Vanish(c) \/ \E m \in Msgs : Send(c, m) PROVE StopInOrder'
  BY <1>2 DEF Vanish, Send, listenVars, dbVars
<1>3. CASE Listener /\ ~Dies
  BY <1>3 DEF Listener, Accept, AcceptFails, ListenerReads, ListenerWrites, WriteFd, WriteIp, AddWork,
     AddTooLate, Dies, dbVars
<1>4. ASSUME NEW j \in Conns, Session(j), ~Dies PROVE StopInOrder'
  <2>1. UNCHANGED <<lpc, kpc, dbOpen>>
    BY <1>4 DEF Session, StartJob, CopyFd, CopyIp, LeftoverQuit, Hello, Overrun, Add, TableFails, Delete,
       StartQuery,
       EndQuery, OtherMessage, RecvFails, ClosedDb, GoodbyeReadsCount, GoodbyeWritesCount, Purge,
          PurgeFails,
       CloseConn, Dies, listenVars, dbVars
  <2> QED
    BY <2>1
<1>5. CASE Console /\ ~Dies
  <2>1. CASE StatReads \/ StatWrites
    BY <2>1 DEF StatReads, StatWrites, listenVars, dbVars
  <2>2. CASE CloseDb
    BY <1>5, <2>2 DEF CloseDb, Dies, listenVars
  <2>3. CASE StopPool \/ DiscardJob
    BY <2>3 DEF StopPool, DiscardJob, listenVars, dbVars
  <2>4. CASE SemGone \/ Exit
    BY <1>5, <2>4 DEF SemGone, Exit, Dies
  <2> QED
    BY <1>5, <2>1, <2>2, <2>3, <2>4 DEF Console
<1> QED
  BY <1>1, <1>2, <1>3, <1>4, <1>5 DEF Next

\* The invariant holds at the start.
LEMMA BaseInit ==
  ASSUME Init
  PROVE  BaseInv
<1>1. /\ pending = <<>> /\ running = {} /\ done = {} /\ discarded = {} /\ spc = All("none")
      /\ lpc = "accept" /\ c_count = 0 /\ lost = FALSE /\ dbOpen = TRUE
  BY DEF Init, Pool!Init
<1>2. /\ pending \in Seq(Conns) /\ Pool!Queued = {} /\ \A a \in 1..Len(pending) : FALSE
      /\ \A j : ~Known(j)
  BY <1>1 DEF Pool!Queued, Known
<1>3. TypeOK
  <2>1. params \in [fd : Conns \cup {NoConn}, ipaddr : Addrs \cup {NoConn}]
    BY DEF Init, NoParams
  <2>2. /\ link \in [Conns -> {"greet", "on", "bye", "gone"}]
        /\ older \in [Conns -> SUBSET Conns] /\ overtaken \subseteq Conns
        /\ spc \in [Conns -> {"none", "ended"} \cup Busy]
        /\ fd \in [Conns -> Conns \cup {NoConn}] /\ addr \in [Conns -> Addrs \cup {NoConn}]
    BY DEF Init, All
  <2>3. tmp \in [Conns \cup {"listener", "console"} -> Int]
    BY DEF Init, NoTmp
  <2>4. inc_fd \in Conns \cup {NoConn}
    BY DEF Init
  <2>5. lost \in BOOLEAN
    BY <1>1
  <2>6. c_count \in Int
    BY <1>1
  <2> QED
    BY <1>1, <1>2, <2>1, <2>2, <2>3, <2>4, <2>5, <2>6 DEF TypeOK
<1>4. JobsMatch
  BY <1>1, <1>2 DEF JobsMatch, All, Busy
<1>5. AcceptedIsFresh /\ StopInOrder
  BY <1>1 DEF AcceptedIsFresh, Accepting, StopInOrder
<1>6. CountMatches
  <2>1. Counted = {}
    BY <1>1, <1>2, CountedMembers
  <2> QED
    BY <1>1, <2>1, FS_EmptySet DEF CountMatches
<1> QED
  BY <1>3, <1>4, <1>5, <1>6 DEF BaseInv

\* A step that changes nothing keeps whatever the state says.
LEMMA BaseStutters ==
  ASSUME BaseInv, UNCHANGED vars
  PROVE  BaseInv'
<1>1. /\ UNCHANGED <<link, lpc, inc_fd, params, older, overtaken, c_count, tmp, lost, spc, fd, addr>>
      /\ UNCHANGED <<dbOpen, kpc>>
      /\ UNCHANGED <<pending, running, done, discarded>>
  BY DEF vars, netVars, listenVars, countVars, sessionVars, dbVars, poolVars
<1>2. TypeOK'
  BY <1>1 DEF BaseInv, TypeOK
<1>3. Pool!Queued' = Pool!Queued /\ \A j : Known(j)' <=> Known(j)
  BY <1>1 DEF Pool!Queued, Known
<1>4. JobsMatch'
  BY <1>1, <1>3 DEF BaseInv, JobsMatch
<1>5. AcceptedIsFresh'
  BY <1>1, <1>3, FreshIsUnknown DEF BaseInv, AcceptedIsFresh
<1>6. Counted' = Counted
  BY <1>1, <1>3, CountedMembers
<1> QED
  BY <1>1, <1>2, <1>4, <1>5, <1>6 DEF BaseInv, CountMatches, StopInOrder

\* The invariant of the pool's jobs and the count.
THEOREM BaseInductive == Spec => []BaseInv
<1>1. Init => BaseInv
  BY BaseInit
<1>2. BaseInv /\ [Next]_vars => BaseInv'
  <2> SUFFICES ASSUME BaseInv, Next PROVE BaseInv'
    BY BaseStutters
  <2> QED
    BY TypeKept, JobsMatchKept, FreshKept, CountKept, StopOrderKept DEF BaseInv
<1> QED
  BY <1>1, <1>2, PTL DEF Spec

\* CountIsClients: when no thread is changing it, c_count is the number of clients that
\* have been accepted and have not been sent GOODBYE, unless two threads have changed it
\* at once (client_count).
THEOREM CountAlwaysIsClients == Spec => []CountIsClients
<1>1. BaseInv => CountIsClients
  <2> SUFFICES ASSUME BaseInv, ~lost, lpc = "accept"
               PROVE  c_count = Cardinality({j \in Conns : ~Pool!Fresh(j)
                                                          /\ spc[j] \notin {"purge", "close", "ended"}})
    BY DEF CountIsClients
  <2>1. Counted = {j \in Conns : ~Pool!Fresh(j) /\ spc[j] \notin {"purge", "close", "ended"}}
    BY DEF Counted
  <2> QED
    BY <2>1 DEF BaseInv, CountMatches
<1> QED
  BY <1>1, BaseInductive, PTL

-----------------------------------------------------------------------------
(* What the jobs copy of params, and the table. *)

\* Jobs thrown away stay so.
LEMMA DiscardedStay ==
  ASSUME Next, ~Dies
  PROVE  discarded \subseteq discarded'
<1>1. ASSUME NEW j \in Conns, Moves(j) \/ Ends(j) \/ Begins(j) PROVE discarded \subseteq discarded'
  BY <1>1 DEF Moves, Ends, Begins, Pool!Finish, Pool!Start, poolVars
<1>2. CASE AddWork \/ StopPool \/ DiscardJob
  BY <1>2 DEF AddWork, StopPool, DiscardJob, Pool!Submit, Pool!Close, Pool!Discard
<1>3. CASE UNCHANGED <<spc, poolVars>>
  BY <1>3 DEF poolVars
<1> QED
  BY <1>1, <1>2, <1>3, StepKinds

\* The jobs that have to copy params, in terms of what the pool knows.
LEMMA UncopiedMembers ==
  ASSUME JobsMatch
  PROVE  \A j : j \in Uncopied <=> /\ j \in Conns /\ Known(j) /\ j \notin discarded
                                   /\ spc[j] \in {"none", "fd", "ip"}
BY DEF Uncopied, JobsMatch, Known, Busy

\* Only adding a job adds one that has to copy params.
LEMMA UncopiedSteps ==
  ASSUME TypeOK, JobsMatch, AcceptedIsFresh, Next, ~Dies
  PROVE  \A j \in Uncopied' : j \in Uncopied \/ (AddWork /\ j = inc_fd)
<1>1. JobsMatch'
  BY JobsMatchKept
<1>2. \A j : j \in Uncopied' => /\ j \in Conns /\ Known(j)' /\ j \notin discarded'
                                /\ spc'[j] \in {"none", "fd", "ip"}
  BY <1>1 DEF Uncopied, JobsMatch, Known, Busy
<1>3. \A j \in Conns : spc'[j] \in {"none", "fd", "ip"} => spc[j] \in {"none", "fd", "ip"}
  BY PlaceSteps DEF Leads
<1> QED
  BY <1>2, <1>3, KnownSteps, DiscardedStay, UncopiedMembers

\* Jobs stay overtaken.
LEMMA OvertakenStay ==
  ASSUME Next
  PROVE  overtaken \subseteq overtaken'
<1>1. Dies => overtaken' = overtaken
  BY DEF Dies, Die
<1>2. Listener => Dies \/ overtaken \subseteq overtaken'
  BY DEF Listener, Accept, AcceptFails, ListenerReads, ListenerWrites, WriteFd, WriteIp, AddWork,
     AddTooLate, Dies
<1> QED
  BY <1>1, <1>2, ListenerSteps DEF listenVars

\* params hold what was written for the jobs that have to copy them.
LEMMA ParamsKept ==
  ASSUME TypeOK, JobsMatch, AcceptedIsFresh, ParamsHeld, Next
  PROVE  ParamsHeld'
<1> SUFFICES ASSUME lpc' # "returned"
             PROVE  /\ lpc' \in {"ip", "add"} => params'.fd = inc_fd'
                    /\ lpc' = "add" => params'.ipaddr = AddrOf[inc_fd']
                    /\ \A j \in Uncopied' \ overtaken' :
                         /\ spc'[j] \in {"none", "fd"} => params'.fd = j
                         /\ params'.ipaddr = AddrOf[j]
  BY DEF ParamsHeld
<1> DEFINE Goal == /\ lpc' \in {"ip", "add"} => params'.fd = inc_fd'
                   /\ lpc' = "add" => params'.ipaddr = AddrOf[inc_fd']
                   /\ \A j \in Uncopied' \ overtaken' :
                        /\ spc'[j] \in {"none", "fd"} => params'.fd = j
                        /\ params'.ipaddr = AddrOf[j]
<1>1. CASE Dies
  <2>1. lpc' = "accept" /\ pending' = <<>> /\ running' = {}
    BY <1>1 DEF Dies, Die
  <2>2. Uncopied' = {}
    BY <2>1 DEF Uncopied, Pool!Queued
  <2> QED
    BY <2>1, <2>2
<1>2. ASSUME ~Dies, NEW j \in Uncopied' \ overtaken'
      PROVE  /\ (j \in Uncopied /\ j \notin overtaken) \/ (AddWork /\ j = inc_fd)
             /\ spc'[j] \in {"none", "fd"} => spc[j] \in {"none", "fd"}
  <2>1. j \in Conns
    BY DEF Uncopied
  <2>2. spc'[j] \in {"none", "fd"} => spc[j] \in {"none", "fd"}
    BY <1>2, <2>1, PlaceSteps DEF Leads
  <2> QED
    BY <1>2, <2>2, UncopiedSteps, OvertakenStay
<1>3. CASE UNCHANGED listenVars /\ ~Dies
  <2>1. lpc' = lpc /\ inc_fd' = inc_fd /\ params' = params /\ ~AddWork
    BY <1>3 DEF listenVars, AddWork
  <2> QED
    BY <1>2, <1>3, <2>1 DEF ParamsHeld
<1>4. CASE Listener /\ ~Dies
  <2>1. CASE (\E c \in Conns : Accept(c)) \/ ListenerReads \/ ListenerWrites
    <3>1. /\ lpc' \notin {"ip", "add"} /\ params' = params /\ ~AddWork /\ lpc # "returned"
      BY <2>1 DEF Accept, ListenerReads, ListenerWrites, AddWork
    <3> QED
      BY <1>2, <1>4, <3>1 DEF ParamsHeld
  <2>2. CASE WriteFd
    <3>1. /\ lpc' = "ip" /\ lpc = "fd" /\ inc_fd' = inc_fd /\ ~AddWork
          /\ params'.fd = inc_fd /\ params'.ipaddr = params.ipaddr
          /\ overtaken' = overtaken \cup {j \in Uncopied : spc[j] # "ip"} /\ spc' = spc
      BY <2>2 DEF WriteFd, AddWork, TypeOK, sessionVars
    <3>2. ASSUME NEW j \in Uncopied' \ overtaken'
          PROVE  spc'[j] \notin {"none", "fd"} /\ params'.ipaddr = AddrOf[j]
      <4>1. j \in Uncopied /\ j \notin overtaken /\ spc[j] = "ip"
        BY <1>2, <1>4, <3>1
      <4> QED
        BY <3>1, <4>1 DEF ParamsHeld
    <3> QED
      BY <3>1, <3>2
  <2>3. CASE WriteIp
    <3>1. /\ lpc' = "add" /\ lpc = "ip" /\ inc_fd' = inc_fd /\ ~AddWork
          /\ params'.fd = params.fd /\ params'.ipaddr = AddrOf[inc_fd]
          /\ overtaken' = overtaken \cup Uncopied
      BY <2>3 DEF WriteIp, AddWork, TypeOK
    <3>2. \A j \in Uncopied' \ overtaken' : FALSE
      BY <1>2, <1>4, <3>1
    <3> QED
      BY <3>1, <3>2 DEF ParamsHeld
  <2>4. CASE AddWork
    <3>1. lpc = "add" /\ lpc' = "accept" /\ inc_fd' = inc_fd /\ params' = params
      BY <2>4 DEF AddWork
    <3>2. params.fd = inc_fd /\ params.ipaddr = AddrOf[inc_fd]
      BY <3>1 DEF ParamsHeld
    <3> QED
      BY <1>2, <1>4, <3>1, <3>2 DEF ParamsHeld
  <2>5. ~AcceptFails /\ ~AddTooLate
    BY <1>4 DEF AcceptFails, AddTooLate, Dies
  <2> QED
    BY <1>4, <2>1, <2>2, <2>3, <2>4, <2>5 DEF Listener
<1> QED
  BY <1>1, <1>3, <1>4, ListenerSteps

\* A step that is not a session's leaves every session where it is.
LEMMA SessionSteps ==
  ASSUME Next
  PROVE  Dies \/ (\E i \in Conns : Session(i)) \/ UNCHANGED <<sessionVars, shut, tableVars>>
<1>1. ASSUME NEW c \in Conns, Vanish(c) \/ \E m \in Msgs : Send(c, m)
      PROVE  UNCHANGED <<sessionVars, shut, tableVars>>
  BY <1>1 DEF Vanish, Send
<1>2. CASE Listener
  BY <1>2 DEF Listener, Accept, AcceptFails, ListenerReads, ListenerWrites, WriteFd, WriteIp, AddWork,
     AddTooLate, Dies, netVars
<1>3. CASE Console
  BY <1>3 DEF Console, StatReads, StatWrites, CloseDb, StopPool, DiscardJob, SemGone, Exit,
     Dies, netVars
<1> QED
  BY <1>1, <1>2, <1>3 DEF Next

\* A job copies each half of params once, on its way to the greeting.
LEMMA CopySteps ==
  ASSUME TypeOK, Next, ~Dies, NEW j \in Conns
  PROVE  \/ CopyFd(j)
         \/ CopyIp(j)
         \/ /\ fd'[j] = fd[j] /\ addr'[j] = addr[j]
            /\ spc[j] \in {"fd", "ip"} => spc'[j] = spc[j]
<1>1. CASE UNCHANGED sessionVars
  BY <1>1 DEF sessionVars
<1>2. ASSUME NEW i \in Conns, Session(i), i # j
      PROVE  fd'[j] = fd[j] /\ addr'[j] = addr[j] /\ spc'[j] = spc[j]
  <2>1. spc'[j] = spc[j]
    BY <1>2, OthersStay DEF TypeOK
  <2>2. fd'[j] = fd[j] /\ addr'[j] = addr[j]
    BY <1>2 DEF Session, StartJob, CopyFd, CopyIp, LeftoverQuit, Hello, Overrun, Overrun, Add, TableFails,
       Delete, StartQuery,
       EndQuery, OtherMessage, RecvFails, ClosedDb, GoodbyeReadsCount, GoodbyeWritesCount, Purge,
          PurgeFails,
       CloseConn, Dies, sessionVars, TypeOK
  <2> QED
    BY <2>1, <2>2
<1>3. CASE Session(j) /\ ~CopyFd(j) /\ ~CopyIp(j)
  BY <1>3 DEF Session, StartJob, LeftoverQuit, Hello, Overrun, Overrun, Add, TableFails, Delete,
     StartQuery, EndQuery,
     OtherMessage, RecvFails, ClosedDb, GoodbyeReadsCount, GoodbyeWritesCount, Purge, PurgeFails, CloseConn,
     Dies, At, sessionVars
<1> QED
  BY <1>1, <1>2, <1>3, SessionSteps

\* Jobs that were not overtaken copy what belongs to them.
LEMMA CopiesKept ==
  ASSUME TypeOK, JobsMatch, ParamsHeld, OwnCopies, Next
  PROVE  OwnCopies'
<1>1. CASE Dies
  <2>1. spc' = All("none")
    BY <1>1 DEF Dies, Die
  <2> QED
    BY <2>1 DEF OwnCopies, All, Busy
<1>2. ASSUME ~Dies, NEW j \in Conns, j \notin overtaken'
      PROVE  /\ spc'[j] \in (Busy \ {"fd"}) \cup {"ended"} => fd'[j] = j
             /\ spc'[j] \in (Busy \ {"fd", "ip"}) \cup {"ended"} => addr'[j] = AddrOf[j]
  <2>0. j \notin overtaken
    BY <1>2, OvertakenStay
  <2>1. spc[j] \in {"fd", "ip"} => j \in Uncopied
    BY DEF JobsMatch, Busy, Uncopied
  <2>2. CASE CopyFd(j)
    <3>1. spc[j] = "fd" /\ spc'[j] = "ip" /\ fd'[j] = params.fd /\ lpc # "returned"
      BY <1>2, <2>2 DEF CopyFd, At, Goto, Dies, TypeOK
    <3> QED
      BY <2>0, <2>1, <3>1 DEF ParamsHeld
  <2>3. CASE CopyIp(j)
    <3>1. spc[j] = "ip" /\ addr'[j] = params.ipaddr /\ fd'[j] = fd[j] /\ lpc # "returned"
      BY <1>2, <2>3 DEF CopyIp, At, Goto, Dies, TypeOK
    <3> QED
      BY <2>0, <2>1, <3>1 DEF OwnCopies, Busy, ParamsHeld
  <2>4. CASE /\ fd'[j] = fd[j] /\ addr'[j] = addr[j]
             /\ spc[j] \in {"fd", "ip"} => spc'[j] = spc[j]
    <3>1. spc'[j] \in (Busy \ {"fd"}) \cup {"ended"} => spc[j] \in (Busy \ {"fd"}) \cup {"ended"}
      BY <1>2, <2>4, PlaceSteps DEF Leads, Busy
    <3>2. spc'[j] \in (Busy \ {"fd", "ip"}) \cup {"ended"}
            => spc[j] \in (Busy \ {"fd", "ip"}) \cup {"ended"}
      BY <1>2, <2>4, PlaceSteps DEF Leads, Busy
    <3> QED
      BY <2>0, <2>4, <3>1, <3>2 DEF OwnCopies
  <2> QED
    BY <1>2, <2>2, <2>3, <2>4, CopySteps
<1> QED
  BY <1>1, <1>2 DEF OwnCopies

\* What a job copies was not written for a connection accepted before its own.
LEMMA OlderKept ==
  ASSUME TypeOK, JobsMatch, AcceptedIsFresh, ParamsHeld, OlderKnown, Next
  PROVE  OlderKnown'
<1> DEFINE Good(j) == /\ \A d \in older'[j] : Known(d)'
                      /\ Known(j)' => params'.fd \notin older'[j]
                      /\ spc'[j] \in Busy \ {"fd"} => fd'[j] \notin older'[j]
<1>0. ASSUME NEW j \in Conns
      PROVE  /\ older[j] \subseteq Conns
             /\ \A d \in older[j] : Known(d)
             /\ Known(j) => params.fd \notin older[j]
             /\ spc[j] \in Busy \ {"fd"} => fd[j] \notin older[j]
  BY DEF OlderKnown, TypeOK
<1>1. CASE Dies
  BY <1>1 DEF Dies, Die, All, OlderKnown
<1>2. ASSUME ~Dies, NEW j \in Conns, older'[j] = older[j]
      PROVE  spc'[j] \in Busy \ {"fd"} => fd'[j] \notin older'[j]
  <2>1. spc[j] \in Busy => Known(j)
    BY DEF JobsMatch, Known
  <2>2. CASE CopyFd(j)
    <3>1. spc[j] = "fd" /\ fd'[j] = params.fd
      BY <1>2, <2>2 DEF CopyFd, At, Goto, Dies, TypeOK
    <3> QED
      BY <1>0, <1>2, <2>1, <3>1 DEF Busy
  <2>3. CASE CopyIp(j)
    <3>1. spc[j] = "ip" /\ fd'[j] = fd[j]
      BY <1>2, <2>3 DEF CopyIp, At, Goto, Dies, TypeOK
    <3> QED
      BY <1>0, <1>2, <3>1 DEF Busy
  <2>4. CASE fd'[j] = fd[j] /\ (spc[j] \in {"fd", "ip"} => spc'[j] = spc[j])
    <3>1. spc'[j] \in Busy \ {"fd"} => spc[j] \in Busy \ {"fd"}
      BY <1>2, <2>4, PlaceSteps DEF Leads, Busy
    <3> QED
      BY <1>0, <1>2, <2>4, <3>1
  <2> QED
    BY <1>2, <2>2, <2>3, <2>4, CopySteps
<1>3. ASSUME NEW c \in Conns, Accept(c), ~Dies, NEW j \in Conns PROVE Good(j)
  <2>1. /\ older'[j] = (IF j = c THEN {d \in Conns : ~Pool!Fresh(d)} ELSE older[j])
        /\ params' = params /\ ~AddWork /\ ~Known(c) /\ spc' = spc
    BY <1>3, FreshIsUnknown DEF Accept, AddWork, TypeOK, sessionVars
  <2>2. \A d : Known(d)' <=> Known(d)
    BY <1>3, <2>1, KnownSteps
  <2>3. CASE j = c
    <3>1. spc'[j] = "none" /\ "none" \notin Busy
      BY <2>1, <2>3, UnknownIsNone DEF Busy
    <3>2. \A d \in older'[j] : Known(d)
      BY <2>1, <2>3, FreshIsUnknown
    <3> QED
      BY <2>1, <2>2, <2>3, <3>1, <3>2
  <2>4. CASE j # c
    <3>1. older'[j] = older[j]
      BY <2>1, <2>4
    <3> QED
      BY <1>0, <1>2, <1>3, <2>1, <2>2, <3>1
  <2> QED
    BY <2>3, <2>4
<1>4. ASSUME ~Dies, \A c \in Conns : ~Accept(c), NEW j \in Conns PROVE Good(j)
  <2>1. /\ older' = older
        /\ \/ params'.fd = params.fd
           \/ params'.fd = NoConn
           \/ params'.fd = inc_fd /\ inc_fd \in Conns /\ ~Known(inc_fd) /\ ~AddWork
    <3>1. CASE UNCHANGED listenVars
      BY <3>1 DEF listenVars
    <3>2. CASE AcceptFails
      BY <3>2 DEF AcceptFails, NoParams
    <3>3. CASE WriteFd
      BY <3>3, FreshIsUnknown DEF WriteFd, AddWork, AcceptedIsFresh, Accepting, TypeOK
    <3>4. CASE ListenerReads \/ ListenerWrites \/ WriteIp \/ AddWork \/ AddTooLate
      BY <1>4, <3>4 DEF ListenerReads, ListenerWrites, WriteIp, AddWork, AddTooLate, Dies, TypeOK
    <3> QED
      BY <1>4, <3>1, <3>2, <3>3, <3>4, ListenerSteps DEF Listener
  <2>2. \A d : Known(d) => Known(d)'
    BY <1>4, KnownSteps
  <2>3. \A d \in older'[j] : Known(d)'
    BY <1>0, <2>1, <2>2
  <2>4. ASSUME Known(j)' PROVE params'.fd \notin older'[j]
    <3>1. CASE params'.fd = NoConn
      BY <1>0, <2>1, <3>1, ConnsAssumption
    <3>2. CASE params'.fd = inc_fd /\ ~Known(inc_fd)
      BY <1>0, <2>1, <3>2
    <3>3. CASE params'.fd = params.fd /\ Known(j)
      BY <1>0, <2>1, <3>3
    <3>4. CASE params'.fd = params.fd /\ ~Known(j)
      <4>1. AddWork /\ j = inc_fd
        BY <1>4, <2>4, <3>4, KnownSteps
      <4>2. params.fd = inc_fd
        BY <4>1 DEF AddWork, ParamsHeld
      <4> QED
        BY <1>0, <2>1, <3>4, <4>1, <4>2
    <3> QED
      BY <2>1, <3>1, <3>2, <3>3, <3>4
  <2> QED
    BY <1>2, <1>4, <2>1, <2>3, <2>4
<1> QED
  BY <1>1, <1>3, <1>4 DEF OlderKnown

\* Only the end of a session closes a connection, and only these requests of a session
\* change the table.
LEMMA TableSteps ==
  ASSUME Next, ~Dies
  PROVE  /\ shut' = shut \/ \E i \in Conns : CloseConn(i)
         /\ UNCHANGED tableVars \/ \E i \in Conns : Add(i) \/ Delete(i) \/ Purge(i) \/ PurgeFails(i)
<1>1. ASSUME NEW i \in Conns, Session(i)
      PROVE  shut' = shut \/ CloseConn(i)
  BY <1>1 DEF Session, StartJob, CopyFd, CopyIp, LeftoverQuit, Hello, Overrun, Overrun, Add, TableFails,
     Delete, StartQuery,
     EndQuery, OtherMessage, RecvFails, ClosedDb, GoodbyeReadsCount, GoodbyeWritesCount, Purge, PurgeFails,
     Dies, netVars
<1>2. ASSUME NEW i \in Conns, Session(i)
      PROVE  UNCHANGED tableVars \/ Add(i) \/ Delete(i) \/ Purge(i) \/ PurgeFails(i)
  BY <1>2 DEF Session, StartJob, CopyFd, CopyIp, LeftoverQuit, Hello, Overrun, Overrun, TableFails,
     StartQuery,
     EndQuery, OtherMessage, RecvFails, ClosedDb, GoodbyeReadsCount, GoodbyeWritesCount, CloseConn, Dies
<1> QED
  BY <1>1, <1>2, SessionSteps

\* Connections close last, files are acknowledged after the greeting.
LEMMA EndsKept ==
  ASSUME TypeOK, EndsLast, Next
  PROVE  EndsLast'
<1>1. CASE Dies
  <2>1. shut' = {} /\ acked' = {}
    BY <1>1 DEF Dies, Die
  <2> QED
    BY <2>1 DEF EndsLast
<1>2. ASSUME ~Dies, NEW c \in shut' PROVE \E i \in Conns : spc'[i] = "ended" /\ fd'[i] = c
  <2>1. CASE c \in shut
    <3>1. PICK i \in Conns : spc[i] = "ended" /\ fd[i] = c
      BY <2>1 DEF EndsLast
    <3>2. spc'[i] = "ended" /\ fd'[i] = fd[i]
      BY <1>2, <3>1, PlaceSteps, CopySteps DEF Leads, CopyFd, CopyIp, At
    <3> QED
      BY <3>1, <3>2
  <2>2. ASSUME NEW i \in Conns, CloseConn(i), c \notin shut PROVE spc'[i] = "ended" /\ fd'[i] = c
    BY <1>2, <2>2 DEF CloseConn, At, Goto, TypeOK
  <2> QED
    BY <1>2, <2>1, <2>2, TableSteps
<1>3. ASSUME ~Dies, NEW x \in acked', x[2] \in Conns PROVE spc'[x[2]] \in Owning \cup {"ended"}
  <2>1. CASE x \in acked
    <3>1. spc[x[2]] \in Owning \cup {"ended"}
      BY <1>3, <2>1 DEF EndsLast
    <3>2. CASE spc'[x[2]] # "close"
      BY <1>3, <3>1, <3>2, PlaceSteps DEF Leads, Owning
    <3>3. CASE spc'[x[2]] = "close"
      <4>1. spc[x[2]] = "purge"
        BY <1>3, <3>1, <3>3, PlaceSteps DEF Leads, Owning
      <4>2. PICK i \in Conns : Session(i)
        BY <3>3, <4>1, SessionSteps, <1>3 DEF sessionVars
      <4>3. i = x[2]
        BY <1>3, <3>3, <4>1, <4>2, OthersStay DEF TypeOK
      <4>4. Purge(i)
        BY <1>3, <3>3, <4>1, <4>2, <4>3 DEF Session, StartJob, CopyFd, CopyIp, LeftoverQuit, Hello, Overrun,
           Add, TableFails, Delete, StartQuery, EndQuery, OtherMessage, RecvFails, ClosedDb,
              GoodbyeReadsCount,
           GoodbyeWritesCount, PurgeFails, CloseConn, Dies, At, Goto, TypeOK
      <4> QED
        BY <1>3, <4>3, <4>4 DEF Purge
    <3> QED
      BY <3>2, <3>3
  <2>2. ASSUME NEW i \in Conns, Add(i) \/ Delete(i) \/ Purge(i) \/ PurgeFails(i), x \notin acked
        PROVE  spc'[x[2]] \in Owning \cup {"ended"}
    BY <1>3, <2>2 DEF Add, Delete, Purge, PurgeFails, At, sessionVars, Owning
  <2> QED
    BY <1>3, <2>1, <2>2, TableSteps DEF tableVars
<1> QED
  BY <1>1, <1>2, <1>3 DEF EndsLast

\* A session keeps the address of its peer from its greeting on.
LEMMA AddrStays ==
  ASSUME TypeOK, Next, ~Dies, NEW j \in Conns, spc[j] \notin {"none", "fd", "ip"}
  PROVE  fd'[j] = fd[j] /\ addr'[j] = addr[j] /\ spc'[j] \notin {"none", "fd", "ip"}
<1>1. fd'[j] = fd[j] /\ addr'[j] = addr[j]
  BY CopySteps DEF CopyFd, CopyIp, At
<1>2. spc'[j] \notin {"none", "fd", "ip"}
  BY PlaceSteps DEF Leads
<1> QED
  BY <1>1, <1>2

\* A row stays only as long as a session that will remove it.
LEMMA RowsKept ==
  ASSUME TypeOK, RowsHeld, Next
  PROVE  RowsHeld'
<1> DEFINE held(r) == r[2] \in uncleaned \/ \E j \in Conns : spc[j] \in Owning /\ addr[j] = r[2]
           heldThen(r) == r[2] \in uncleaned' \/ \E j \in Conns : spc'[j] \in Owning /\ addr'[j] = r[2]
<1>0. (RowsHeld <=> \A r \in rows : held(r)) /\ (RowsHeld' <=> \A r \in rows' : heldThen(r))
  BY DEF RowsHeld
<1>1. CASE Dies
  <2>1. rows' = {}
    BY <1>1 DEF Dies, Die
  <2> QED
    BY <1>0, <2>1
<1>2. ASSUME ~Dies, NEW j \in Conns, spc[j] \in Owning PROVE addr'[j] = addr[j]
  BY <1>2, AddrStays DEF Owning
<1>3. ASSUME ~Dies, NEW j \in Conns, spc[j] \in Owning, spc'[j] \notin Owning
      PROVE  Purge(j) \/ PurgeFails(j)
  <2>1. PICK i \in Conns : Session(i)
    BY <1>3, SessionSteps DEF sessionVars
  <2>2. i = j
    BY <1>3, <2>1, OthersStay DEF TypeOK
  <2>3. spc[j] = "purge" /\ (spc'[j] = "close" \/ spc'[j] = "ended")
    BY <1>3, PlaceSteps DEF Leads, Owning
  <2> QED
    BY <1>3, <2>1, <2>2, <2>3 DEF Session, StartJob, CopyFd, CopyIp, LeftoverQuit, Hello, Overrun, Add,
       TableFails,
       Delete, StartQuery, EndQuery, OtherMessage, RecvFails, ClosedDb, GoodbyeReadsCount,
          GoodbyeWritesCount,
       CloseConn, Dies, At
<1>4. ASSUME ~Dies, NEW i \in Conns, Add(i) \/ Delete(i) PROVE RowsHeld'
  <2>1. /\ spc' = spc /\ addr' = addr /\ uncleaned' = uncleaned /\ spc[i] \in Owning
        /\ \A r \in rows' : r \in rows \/ r[2] = addr[i]
    BY <1>4 DEF Add, Delete, At, Owning, sessionVars
  <2> QED
    BY <1>0, <2>1
<1>5. ASSUME ~Dies, NEW i \in Conns, Purge(i) PROVE RowsHeld'
  <2>1. /\ spc' = [spc EXCEPT ![i] = "close"] /\ addr' = addr /\ uncleaned' = uncleaned
        /\ \A r \in rows' : r \in rows /\ r[2] # addr[i]
    BY <1>5 DEF Purge, At, Goto
  <2>2. \A j \in Conns : j # i => spc'[j] = spc[j]
    BY <2>1 DEF TypeOK
  <2> QED
    BY <1>0, <2>1, <2>2
<1>6. ASSUME ~Dies, NEW i \in Conns, PurgeFails(i) PROVE RowsHeld'
  <2>1. /\ spc' = [spc EXCEPT ![i] = "ended"] /\ uncleaned' = uncleaned \cup {addr[i]}
        /\ addr' = addr /\ rows' = rows
    BY <1>6 DEF PurgeFails, At, Goto
  <2>2. \A j \in Conns : j # i => spc'[j] = spc[j]
    BY <2>1 DEF TypeOK
  <2> QED
    BY <1>0, <2>1, <2>2
<1>7. CASE ~Dies /\ UNCHANGED tableVars /\ \A i \in Conns : ~Purge(i) /\ ~PurgeFails(i)
  <2>1. rows' = rows /\ uncleaned' = uncleaned
    BY <1>7 DEF tableVars
  <2> QED
    BY <1>0, <1>2, <1>3, <1>7, <2>1
<1> QED
  BY <1>1, <1>4, <1>5, <1>6, <1>7, TableSteps

\* The rows of a peer alone at its address are safe from all others.
LEMMA AckedKept ==
  ASSUME TypeOK, EndsLast, AloneAckedListed, Next
  PROVE  AloneAckedListed'
<1> SUFFICES ASSUME NEW j \in Conns, NEW f \in Files, Talking(j)', Alone(j)', <<f, j>> \in acked'
             PROVE  <<f, addr'[j]>> \in rows'
  BY DEF AloneAckedListed
<1>0. spc'[j] \in {"talk", "query"}
  BY DEF Talking
<1>1. CASE Dies
  BY <1>1 DEF Dies, Die
<1>2. ASSUME ~Dies, spc[j] \in {"talk", "query"}, <<f, j>> \in acked
      PROVE  <<f, addr[j]>> \in rows /\ addr'[j] = addr[j]
  <2>1. addr'[j] = addr[j]
    BY <1>2, AddrStays
  <2>2. ASSUME NEW i \in Conns \ {j}, spc[i] \notin {"none", "fd", "ip"} PROVE addr[i] # addr[j]
    <3>1. addr'[i] = addr[i] /\ spc'[i] \notin {"none", "fd", "ip"}
      BY <1>2, <2>2, AddrStays
    <3> QED
      BY <2>1, <3>1 DEF Alone
  <2> QED
    BY <1>2, <2>1, <2>2 DEF AloneAckedListed, Talking, Alone
<1>3. ASSUME ~Dies, <<f, j>> \in acked PROVE spc[j] \in {"talk", "query"}
  <2>1. spc[j] \in Owning \cup {"ended"}
    BY <1>3 DEF EndsLast
  <2> QED
    BY <1>0, <1>3, <2>1, PlaceSteps DEF Leads, Owning
<1>4. CASE ~Dies /\ UNCHANGED tableVars
  BY <1>2, <1>3, <1>4 DEF tableVars
<1>5. ASSUME ~Dies, NEW i \in Conns, Add(i) \/ Delete(i) \/ Purge(i) \/ PurgeFails(i)
      PROVE  <<f, addr'[j]>> \in rows'
  <2>1. i # j => addr[i] # addr'[j]
    <3>1. spc[i] \notin {"none", "fd", "ip"}
      BY <1>5 DEF Add, Delete, Purge, PurgeFails, At
    <3> QED
      BY <1>5, <3>1, AddrStays DEF Alone
  <2>2. CASE Add(i)
    <3>1. rows \subseteq rows' /\ addr' = addr
      BY <2>2 DEF Add, sessionVars
    <3>2. <<f, j>> \in acked \/ <<f, addr[j]>> \in rows'
      BY <2>2 DEF Add
    <3> QED
      BY <1>2, <1>3, <1>5, <3>1, <3>2
  <2>3. CASE Delete(i)
    <3>1. <<f, j>> \in acked /\ (i = j => f # inbox[fd[i]].file)
      BY <2>3 DEF Delete
    <3>2. <<f, addr[j]>> \in rows /\ addr'[j] = addr[j]
      BY <1>2, <1>3, <1>5, <3>1
    <3>3. <<f, addr[j]>> # <<inbox[fd[i]].file, addr[i]>>
      BY <2>1, <3>1, <3>2
    <3> QED
      BY <2>3, <3>2, <3>3 DEF Delete
  <2>4. CASE Purge(i)
    <3>1. acked' \subseteq acked /\ rows' = {r \in rows : r[2] # addr[i]} /\ spc'[i] = "close"
      BY <2>4 DEF Purge, Goto, TypeOK
    <3>2. <<f, addr[j]>> \in rows /\ addr'[j] = addr[j] /\ i # j
      BY <1>0, <1>2, <1>3, <1>5, <3>1
    <3> QED
      BY <2>1, <3>1, <3>2
  <2>5. CASE PurgeFails(i)
    BY <1>2, <1>3, <1>5, <2>5 DEF PurgeFails
  <2> QED
    BY <1>5, <2>2, <2>3, <2>4, <2>5
<1> QED
  BY <1>1, <1>4, <1>5, TableSteps

\* How the process can crash.
LEMMA CrashSteps ==
  ASSUME Next, process' = "crashed"
  PROVE  /\ \/ AddTooLate
            \/ \E j \in Conns : \/ (CopyFd(j) \/ CopyIp(j)) /\ lpc = "returned"
                                \/ RecvFails(j)
                                \/ ClosedDb(j)
         /\ UNCHANGED <<link, overtaken, kpc>>
         /\ lpc = "returned" => lpc' = "returned"
<1>1. process = "up"
  BY DEF Next, Vanish, Send, Listener, Accept, AcceptFails, ListenerReads, ListenerWrites, WriteFd, WriteIp,
     AddWork, AddTooLate, Session, StartJob, CopyFd, CopyIp, LeftoverQuit, Hello, Overrun, Add, TableFails,
        Delete,
     StartQuery, EndQuery, OtherMessage, RecvFails, ClosedDb, GoodbyeReadsCount, GoodbyeWritesCount, Purge,
     PurgeFails, CloseConn, At, Console, StatReads, StatWrites, CloseDb, StopPool, DiscardJob, SemGone, Exit
<1>2. ASSUME NEW c \in Conns, Vanish(c) \/ \E m \in Msgs : Send(c, m) PROVE FALSE
  BY <1>1, <1>2 DEF Vanish, Send
<1>3. ASSUME Listener PROVE AddTooLate
  BY <1>1, <1>3 DEF Listener, Accept, AcceptFails, ListenerReads, ListenerWrites, WriteFd, WriteIp, AddWork
<1>4. ASSUME Console PROVE FALSE
  BY <1>1, <1>4 DEF Console, StatReads, StatWrites, CloseDb, StopPool, DiscardJob, SemGone, Exit, Die
<1>5. ASSUME NEW j \in Conns, Session(j)
      PROVE  \/ (CopyFd(j) \/ CopyIp(j)) /\ lpc = "returned"
             \/ RecvFails(j)
             \/ ClosedDb(j)
  BY <1>1, <1>5 DEF Session, StartJob, CopyFd, CopyIp, LeftoverQuit, Hello, Overrun, Add, TableFails,
     Delete,
     StartQuery, EndQuery, OtherMessage, GoodbyeReadsCount, GoodbyeWritesCount, Purge, PurgeFails,
        CloseConn, Die
<1>6. \/ AddTooLate
      \/ \E j \in Conns : \/ (CopyFd(j) \/ CopyIp(j)) /\ lpc = "returned"
                          \/ RecvFails(j)
                          \/ ClosedDb(j)
  BY <1>2, <1>3, <1>4, <1>5 DEF Next
<1>7. Die("crashed")
  BY <1>6 DEF AddTooLate, CopyFd, CopyIp, RecvFails, ClosedDb
<1>8. UNCHANGED <<link, overtaken, kpc>> /\ (lpc = "returned" => lpc' = "returned")
  BY <1>7 DEF Die
<1> QED
  BY <1>6, <1>8

\* A server that is not being stopped crashes only for these causes.
LEMMA CauseKept ==
  ASSUME StopInOrder, OwnCopies, EndsLast, Next
  PROVE  CrashesHaveCause'
<1> SUFFICES ASSUME process' = "crashed", kpc' \in {"run", "stat"}, lpc' # "returned", overtaken' = {}
             PROVE  \E c \in Conns : link'[c] = "gone"
  BY DEF CrashesHaveCause
<1>1. link' = link /\ kpc \in {"run", "stat"} /\ overtaken = {} /\ lpc # "returned"
  BY CrashSteps
<1>2. PICK j \in Conns : RecvFails(j)
  BY <1>1, CrashSteps DEF StopInOrder, ClosedDb, AddTooLate
<1>3. fd[j] = j /\ spc[j] # "ended"
  BY <1>1, <1>2 DEF RecvFails, OwnCopies, Busy
<1>4. j \notin shut
  BY <1>1, <1>3 DEF OwnCopies, EndsLast
<1> QED
  BY <1>1, <1>2, <1>3, <1>4 DEF RecvFails, Open

\* The invariant holds at the start.
LEMMA ServerInit ==
  ASSUME Init
  PROVE  ServerInv
<1>1. /\ lpc = "accept" /\ pending = <<>> /\ running = {} /\ done = {} /\ discarded = {}
      /\ spc = All("none") /\ older = All({})
      /\ shut = {} /\ acked = {} /\ rows = {} /\ process = "up"
  BY DEF Init, Pool!Init
<1>2. Uncopied = {} /\ \A j : ~Known(j)
  BY <1>1 DEF Uncopied, Known, Pool!Queued
<1>3. ParamsHeld
  BY <1>1, <1>2 DEF ParamsHeld
<1>4. OwnCopies /\ OlderKnown
  BY <1>1, <1>2 DEF OwnCopies, OlderKnown, All, Busy
<1>5. EndsLast /\ RowsHeld /\ AloneAckedListed /\ CrashesHaveCause
  BY <1>1 DEF EndsLast, RowsHeld, AloneAckedListed, CrashesHaveCause
<1> QED
  BY <1>3, <1>4, <1>5, BaseInit DEF ServerInv

\* A step that changes nothing keeps the invariant.
LEMMA ServerStutters ==
  ASSUME ServerInv, UNCHANGED vars
  PROVE  ServerInv'
<1>1. /\ UNCHANGED <<link, lpc, inc_fd, params, older, overtaken, spc, fd, addr, shut>>
      /\ UNCHANGED <<rows, acked, uncleaned>>
      /\ UNCHANGED <<kpc, process, pending, running, done, discarded>>
  BY DEF vars, netVars, listenVars, sessionVars, tableVars, poolVars
<1>2. Uncopied' = Uncopied /\ \A j : Known(j)' <=> Known(j)
  BY <1>1 DEF Uncopied, Known, Pool!Queued
<1>3. ParamsHeld'
  BY <1>1, <1>2 DEF ServerInv, ParamsHeld
<1>4. OwnCopies' /\ EndsLast'
  BY <1>1 DEF ServerInv, OwnCopies, EndsLast
<1>5. OlderKnown'
  BY <1>1, <1>2 DEF ServerInv, OlderKnown
<1>6. RowsHeld' /\ CrashesHaveCause'
  BY <1>1 DEF ServerInv, RowsHeld, CrashesHaveCause
<1>7. AloneAckedListed'
  BY <1>1 DEF ServerInv, AloneAckedListed, Talking, Alone
<1>8. BaseInv'
  BY BaseStutters DEF ServerInv
<1> QED
  BY <1>3, <1>4, <1>5, <1>6, <1>7, <1>8 DEF ServerInv

\* The invariant of every behaviour of the server.
THEOREM ServerInductive == Spec => []ServerInv
<1>1. Init => ServerInv
  BY ServerInit
<1>2. ServerInv /\ [Next]_vars => ServerInv'
  <2> SUFFICES ASSUME ServerInv, Next PROVE ServerInv'
    BY ServerStutters
  <2>1. TypeOK' /\ JobsMatch' /\ AcceptedIsFresh' /\ CountMatches' /\ StopInOrder'
    BY TypeKept, JobsMatchKept, FreshKept, CountKept, StopOrderKept DEF ServerInv, BaseInv
  <2>2. ParamsHeld' /\ OwnCopies' /\ OlderKnown' /\ EndsLast'
    BY ParamsKept, CopiesKept, OlderKept, EndsKept DEF ServerInv, BaseInv
  <2>3. RowsHeld' /\ AloneAckedListed' /\ CrashesHaveCause'
    BY RowsKept, AckedKept, CauseKept DEF ServerInv, BaseInv
  <2> QED
    BY <2>1, <2>2, <2>3 DEF ServerInv, BaseInv
<1> QED
  BY <1>1, <1>2, PTL DEF Spec

-----------------------------------------------------------------------------
(* What the runs check. *)

\* OwnConnection: a job whose copy of params was not overtaken by the next connection
\* serves its own connection under its own peer's address (tcp_listen and p2p).
THEOREM OwnConnectionServed == Spec => []OwnConnection
<1>1. ServerInv => OwnConnection
  BY DEF ServerInv, OwnCopies, OwnConnection, Serving, Talking, Leaving, Busy
<1> QED
  BY <1>1, ServerInductive, PTL

\* NeverServesEarlier: no session serves a connection accepted before the one its job was
\* added for, however params was overwritten.
THEOREM EarlierNeverServed == Spec => []NeverServesEarlier
<1>1. ServerInv => NeverServesEarlier
  BY DEF ServerInv, OlderKnown, NeverServesEarlier, Serving, Talking, Leaving, Busy
<1> QED
  BY <1>1, ServerInductive, PTL

\* RowsHaveOwners: the table names only addresses that a session under way answers for,
\* unless the DELETE of a farewell failed.
THEOREM RowsAlwaysHaveOwners == Spec => []RowsHaveOwners
<1>1. ServerInv => RowsHaveOwners
  BY DEF ServerInv, OwnCopies, RowsHeld, RowsHaveOwners, Talking, Leaving, Owning, Busy
<1> QED
  BY <1>1, ServerInductive, PTL

\* CrashesHaveCause: before its shutdown a server crashes only because the listener has
\* returned, params was overwritten or a client went away without a farewell.
THEOREM CrashesAlwaysHaveCause == Spec => []CrashesHaveCause
<1>1. ServerInv => CrashesHaveCause
  BY DEF ServerInv
<1> QED
  BY <1>1, ServerInductive, PTL

\* AloneAckedListed: a file whose ADD was answered OK is in the table until its peer asks
\* to delete it or leaves, if no other session has or had the peer's address.
THEOREM AckedAlwaysListed == Spec => []AloneAckedListed
<1>1. ServerInv => AloneAckedListed
  BY DEF ServerInv
<1> QED
  BY <1>1, ServerInductive, PTL

=============================================================================
