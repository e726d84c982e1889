----------------------------- MODULE FileServer ------------------------------
(***************************************************************************)
(* The index server: P2PFileServer.cpp on top of the thread pool.          *)
(*                                                                         *)
(*   - tcp_listen accepts connections, counts them, writes the connection  *)
(*     into its local variable params and adds a job to the pool;          *)
(*   - p2p is that job: a worker copies params and serves the connection:  *)
(*     a greeting, then requests that read and write the table of shared   *)
(*     files, then the farewell, which removes the peer's files;           *)
(*   - shutdown_handler runs on the console thread.                        *)
(*                                                                         *)
(* The pool is JobDispatch, which ThreadPool implements; a job is named by *)
(* the connection for which tcp_listen added it, which need not be the     *)
(* connection the job ends up serving. Each access to the variables the    *)
(* threads share without a lock (params, c_count) is a step of its own;    *)
(* the handling of one request is one step, except that a query keeps its  *)
(* statement open while it sends its rows.                                 *)
(***************************************************************************)
EXTENDS Integers, Sequences, FiniteSets

CONSTANTS
  Conns,     \* the connections clients open, each at most once
  AddrOf,    \* the source address of each connection, as inet_ntoa prints it
  Steady,    \* those whose client stays and whose connection lasts (a bound on failures)
  Files,     \* the files peers share (name, hash and size together)
  Threads,   \* num_threads
  Long,      \* those whose path does not fit into the text of a statement (query[256])
  NoConn,    \* no connection
  NoMsg      \* nothing to receive

ASSUME ConnsAssumption ==
  /\ IsFiniteSet(Conns)
  /\ NoConn \notin Conns
  /\ Long \subseteq Files
  /\ {"listener", "console"} \cap Conns = {}

Addrs == {AddrOf[c] : c \in Conns}

\* LIST stands among the REQUESTs, which are served like it.
Msgs == [kind : {"CONNECT", "QUIT"}] \cup [kind : {"ADD", "DELETE", "REQUEST"}, file : Files]

VARIABLES
  link,       \* each client: "greet" (connecting), "on", "bye" or "gone"
  inbox,      \* the message the client has sent and the server not received
  lpc,        \* where tcp_listen is
  inc_fd,     \* the connection it has accepted
  params,     \* the local variable of tcp_listen all jobs are given a pointer to
  older,      \* history: for each connection those accepted before it
  overtaken,  \* history: the jobs that had not copied params when it was written again
  c_count,
  tmp,        \* the value of c_count a thread has read and not yet written back
  lost,       \* history: a write to c_count has undone the change of another thread
  spc,        \* where each job is in p2p
  fd, addr,   \* the job's copies of params: user_fd and peeraddr
  shut,       \* the connections the server has closed
  rows,       \* the table files: file and address of the peer that has it
  acked,      \* history: the file and the session of each ADD that the session has
              \* answered with OK and since then not been asked to DELETE
  dbOpen,
  stmtLeft,   \* a statement was never finalized
  uncleaned,  \* history: the addresses whose rows a failed farewell left behind
  kpc,        \* where the console thread is: "run", "stat" or in shutdown_handler
  process,    \* "up", or how the process ended: "exit 0", "exit 1", "exit -1", "crashed"
              \* or "overrun"
  pending, running, done, discarded, closed  \* the pool

netVars == <<link, inbox, shut>>
listenVars == <<lpc, inc_fd, params, older, overtaken>>
countVars == <<c_count, tmp, lost>>
sessionVars == <<spc, fd, addr>>
tableVars == <<rows, acked, uncleaned>>
dbVars == <<dbOpen, stmtLeft>>
poolVars == <<pending, running, done, discarded, closed>>
vars == <<netVars, listenVars, countVars, sessionVars, tableVars, dbVars, poolVars,
          kpc, process>>

Pool == INSTANCE JobDispatch WITH Jobs <- Conns, PoolSize <- Threads

All(v) == [c \in Conns |-> v]
NoParams == [fd |-> NoConn, ipaddr |-> NoConn]
NoTmp == [x \in Conns \cup {"listener", "console"} |-> 0]

Init ==
  /\ link = All("greet") /\ inbox = All(NoMsg) /\ shut = {}
  /\ lpc = "accept" /\ inc_fd = NoConn /\ params = NoParams
  /\ older = All({}) /\ overtaken = {}
  /\ c_count = 0 /\ tmp = NoTmp /\ lost = FALSE
  /\ spc = All("none") /\ fd = All(NoConn) /\ addr = All(NoConn)
  /\ rows = {} /\ acked = {} /\ uncleaned = {}
  /\ dbOpen = TRUE /\ stmtLeft = FALSE
  /\ Pool!Init
  /\ kpc = "run"
  /\ process = "up"

\* The process ends and is not started again. What it held is gone, as is the table,
\* which start-up would empty. What may have caused the end is kept.
Die(how) ==
  /\ process' = how
  /\ inbox' = All(NoMsg) /\ shut' = {}
  /\ lpc' = IF lpc = "returned" THEN "returned" ELSE "accept"
  /\ inc_fd' = NoConn /\ params' = NoParams /\ older' = All({})
  /\ c_count' = 0 /\ tmp' = NoTmp /\ lost' = FALSE
  /\ spc' = All("none") /\ fd' = All(NoConn) /\ addr' = All(NoConn)
  /\ rows' = {} /\ acked' = {} /\ uncleaned' = {}
  /\ dbOpen' = TRUE /\ stmtLeft' = FALSE
  /\ pending' = <<>> /\ running' = {} /\ done' = {} /\ discarded' = {} /\ closed' = FALSE
  /\ UNCHANGED <<link, overtaken, kpc>>

-----------------------------------------------------------------------------
(* The clients: whatever PeerClient may send, one message at a time. *)

\* The greeting first, then any requests, QUIT last.
Send(c, m) ==
  /\ process = "up"
  /\ inbox[c] = NoMsg
  /\ IF m.kind = "CONNECT" THEN link[c] = "greet" ELSE link[c] = "on"
  /\ inbox' = [inbox EXCEPT ![c] = m]
  /\ link' = [link EXCEPT ![c] = IF m.kind = "QUIT" THEN "bye" ELSE "on"]
  /\ UNCHANGED <<shut, listenVars, countVars, sessionVars, tableVars, dbVars, poolVars, kpc, process>>

\* A client ends, or its connection breaks, without a farewell.
Vanish(c) ==
  /\ process = "up"
  /\ c \notin Steady
  /\ link[c] \in {"greet", "on"}
  /\ link' = [link EXCEPT ![c] = "gone"]
  /\ UNCHANGED <<inbox, shut, listenVars, countVars, sessionVars, tableVars, dbVars, poolVars, kpc, process>>

-----------------------------------------------------------------------------
(* client_count: c_count += change, read and written back without a lock.   *)
(* client_count(0), by which the value is read, writes it back as well.     *)
(* Once a change is lost the value is wrong for good, and kept at 0 here.   *)

ReadCount(thread) ==
  /\ tmp' = [tmp EXCEPT ![thread] = c_count]
  /\ UNCHANGED <<c_count, lost>>

WriteCount(thread, change) ==
  /\ lost' = (lost \/ c_count # tmp[thread])
  /\ c_count' = IF lost' THEN 0 ELSE tmp[thread] + change
  /\ tmp' = IF lost' THEN NoTmp ELSE [tmp EXCEPT ![thread] = 0]

-----------------------------------------------------------------------------
(* tcp_listen *)

\* The jobs that have not yet copied params.
Uncopied == {j \in Conns : j \in Pool!Queued \cup running /\ spc[j] \in {"none", "fd", "ip"}}

Accept(c) ==
  /\ process = "up"
  /\ lpc = "accept"
  /\ kpc \in {"run", "stat", "closing"}
  /\ Pool!Fresh(c)
  /\ inc_fd' = c
  /\ lpc' = "count"
  /\ older' = [older EXCEPT ![c] = {d \in Conns : ~Pool!Fresh(d)}]
  /\ UNCHANGED <<params, overtaken, netVars, countVars, sessionVars, tableVars, dbVars, poolVars, kpc, process>>

\* accept fails, for lack of resources, on a connection reset before it was accepted
\* or, always, once shutdown_handler has closed the listening socket: tcp_listen
\* returns, and with it ends the life of params.
AcceptFails ==
  /\ process = "up"
  /\ lpc = "accept"
  /\ lpc' = "returned"
  /\ inc_fd' = NoConn /\ params' = NoParams
  /\ UNCHANGED <<older, overtaken, netVars, countVars, sessionVars, tableVars, dbVars, poolVars, kpc, process>>

\* The first access of client_count(1), then of the client_count(0) of the tests
\* that decide on the overload message.
ListenerReads ==
  /\ process = "up"
  /\ lpc \in {"count", "test"}
  /\ ReadCount("listener")
  /\ lpc' = IF lpc = "count" THEN "counted" ELSE "tested"
  /\ UNCHANGED <<inc_fd, params, older, overtaken, netVars, sessionVars, tableVars, dbVars, poolVars, kpc, process>>

\* The overload message changes nothing here: the connection is served anyway.
ListenerWrites ==
  /\ process = "up"
  /\ lpc \in {"counted", "tested"}
  /\ WriteCount("listener", IF lpc = "counted" THEN 1 ELSE 0)
  /\ lpc' = IF lpc = "counted" THEN "test" ELSE "fd"
  /\ UNCHANGED <<inc_fd, params, older, overtaken, netVars, sessionVars, tableVars, dbVars, poolVars, kpc, process>>

\* Mutant: params.fd is filled in for the first connection only.
WriteFdOnce ==
  /\ process = "up"
  /\ lpc = "fd"
  /\ params' = IF params.fd = NoConn THEN [params EXCEPT !.fd = inc_fd] ELSE params
  /\ lpc' = "ip"
  /\ overtaken' = overtaken \cup {j \in Uncopied : spc[j] # "ip"}
  /\ UNCHANGED <<inc_fd, older, netVars, countVars, sessionVars, tableVars, dbVars, poolVars, kpc, process>>

WriteFd ==
  /\ process = "up"
  /\ lpc = "fd"
  /\ params' = [params EXCEPT !.fd = inc_fd]
  /\ lpc' = "ip"
  /\ overtaken' = overtaken \cup {j \in Uncopied : spc[j] # "ip"}
  /\ UNCHANGED <<inc_fd, older, netVars, countVars, sessionVars, tableVars, dbVars, poolVars, kpc, process>>

\* Mutant: params.ipaddr is filled in for the first connection only.
WriteIpOnce ==
  /\ process = "up"
  /\ lpc = "ip"
  /\ params' = IF params.ipaddr = NoConn THEN [params EXCEPT !.ipaddr = AddrOf[inc_fd]] ELSE params
  /\ lpc' = "add"
  /\ overtaken' = overtaken \cup Uncopied
  /\ UNCHANGED <<inc_fd, older, netVars, countVars, sessionVars, tableVars, dbVars, poolVars, kpc, process>>

WriteIp ==
  /\ process = "up"
  /\ lpc = "ip"
  /\ params' = [params EXCEPT !.ipaddr = AddrOf[inc_fd]]
  /\ lpc' = "add"
  /\ overtaken' = overtaken \cup Uncopied
  /\ UNCHANGED <<inc_fd, older, netVars, countVars, sessionVars, tableVars, dbVars, poolVars, kpc, process>>

\* thpool_add_work
AddWork ==
  /\ process = "up"
  /\ lpc = "add"
  /\ Pool!Submit(inc_fd)
  /\ lpc' = "accept"
  /\ UNCHANGED <<inc_fd, params, older, overtaken, netVars, countVars, sessionVars, tableVars, dbVars, kpc, process>>

\* thpool_destroy has destroyed the semaphore or freed the queue meanwhile
\* (ThreadPool, the adder's steps).
AddTooLate ==
  /\ process = "up"
  /\ lpc = "add"
  /\ kpc = "join"
  /\ Die("crashed")

Listener ==
  \/ \E c \in Conns : Accept(c)
  \/ AcceptFails
  \/ ListenerReads
  \/ ListenerWrites
  \/ WriteFd
  \/ WriteIp
  \/ AddWork
  \/ AddTooLate

-----------------------------------------------------------------------------
(* p2p *)

At(j, place) == process = "up" /\ spc[j] = place

Goto(j, place) == spc' = [spc EXCEPT ![j] = place]

Received(j, kinds) == inbox[fd[j]] # NoMsg /\ inbox[fd[j]].kind \in kinds

Open(j) == fd[j] \notin shut

\* recv takes the message.
Recv(j) == inbox' = [inbox EXCEPT ![fd[j]] = NoMsg]

\* An idle worker takes the oldest job.
StartJob(j) ==
  /\ At(j, "none")
  /\ pending # <<>>
  /\ j = Head(pending)
  /\ Pool!Start
  /\ Goto(j, "fd")
  /\ UNCHANGED <<fd, addr, netVars, listenVars, countVars, tableVars, dbVars, kpc, process>>

\* The copy of params, its first half. When tcp_listen has returned there is
\* nothing left to copy: the stack of its thread is gone.
CopyFd(j) ==
  /\ At(j, "fd")
  /\ IF lpc = "returned"
     THEN Die("crashed")
     ELSE /\ fd' = [fd EXCEPT ![j] = params.fd]
          /\ Goto(j, "ip")
          /\ UNCHANGED <<addr, netVars, listenVars, countVars, tableVars, dbVars, poolVars, kpc, process>>

CopyIp(j) ==
  /\ At(j, "ip")
  /\ IF lpc = "returned"
     THEN Die("crashed")
     ELSE /\ addr' = [addr EXCEPT ![j] = params.ipaddr]
          /\ Goto(j, "hello")
          /\ UNCHANGED <<fd, netVars, listenVars, countVars, tableVars, dbVars, poolVars, kpc, process>>

\* while (strcmp(in, "CONNECT") != 0 && strcmp(in, "QUIT") != 0): in is read before
\* anything is received. On a worker that has ended a session before it may hold
\* that session's last message, and the client is sent away.
LeftoverQuit(j) ==
  /\ At(j, "hello")
  /\ done # {}
  /\ Goto(j, "bye")
  /\ UNCHANGED <<fd, addr, netVars, listenVars, countVars, tableVars, dbVars, poolVars, kpc, process>>

\* Any message but CONNECT and QUIT is dropped without an answer.
Hello(j) ==
  /\ At(j, "hello")
  /\ Open(j)
  /\ Received(j, {"CONNECT", "ADD", "DELETE", "REQUEST", "QUIT"})
  /\ Recv(j)
  /\ Goto(j, CASE Received(j, {"CONNECT"}) -> "talk"
               [] Received(j, {"QUIT"}) -> "bye"
               [] OTHER -> "hello")
  /\ UNCHANGED <<link, shut, fd, addr, listenVars, countVars, tableVars, dbVars, poolVars, kpc, process>>

\* The path of an ADD, DELETE or REQUEST is too long for the statement, which
\* sprintf writes into query[256] all the same, over whatever lies behind it on the
\* stack: the process may end. It may also come through, as the other actions say.
Overrun(j) ==
  /\ At(j, "talk")
  /\ Open(j)
  /\ Received(j, {"ADD", "DELETE", "REQUEST"})
  /\ inbox[fd[j]].file \in Long
  /\ Die("overrun")

\* Mutant: the row names the address that params holds now.
AddAtParams(j) ==
  /\ At(j, "talk")
  /\ Open(j)
  /\ Received(j, {"ADD"})
  /\ Recv(j)
  /\ LET row == <<inbox[fd[j]].file, params.ipaddr>>
     IN  IF dbOpen /\ row \notin rows
         THEN /\ rows' = rows \cup {row}
              /\ acked' = acked \cup {<<inbox[fd[j]].file, j>>}
         ELSE UNCHANGED <<rows, acked>>
  /\ UNCHANGED <<link, shut, sessionVars, uncleaned, listenVars, countVars, dbVars, poolVars, kpc, process>>

\* ADD: OK, or ERROR when the table has the row or the database is closed.
Add(j) ==
  /\ At(j, "talk")
  /\ Open(j)
  /\ Received(j, {"ADD"})
  /\ Recv(j)
  /\ LET row == <<inbox[fd[j]].file, addr[j]>>
     IN  IF dbOpen /\ row \notin rows
         THEN /\ rows' = rows \cup {row}
              /\ acked' = acked \cup {<<inbox[fd[j]].file, j>>}
         ELSE UNCHANGED <<rows, acked>>
  /\ UNCHANGED <<link, shut, sessionVars, uncleaned, listenVars, countVars, dbVars, poolVars, kpc, process>>

\* An operation on the table that fails for another reason (a full disk, a locked
\* database): ERROR to an ADD, ERROR and then OK to a DELETE.
TableFails(j) ==
  /\ At(j, "talk")
  /\ Open(j)
  /\ Received(j, {"ADD", "DELETE"})
  /\ Recv(j)
  /\ UNCHANGED <<link, shut, sessionVars, tableVars, listenVars, countVars, dbVars, poolVars, kpc, process>>

\* Mutant: DELETE does not ask whose file it is.
DeleteAnyones(j) ==
  /\ At(j, "talk")
  /\ Open(j)
  /\ Received(j, {"DELETE"})
  /\ Recv(j)
  /\ LET file == inbox[fd[j]].file
     IN  /\ rows' = IF dbOpen THEN {r \in rows : r[1] # file} ELSE rows
         /\ acked' = acked \ {<<file, j>>}
  /\ UNCHANGED <<link, shut, sessionVars, uncleaned, listenVars, countVars, dbVars, poolVars, kpc, process>>

\* DELETE: the file, if it is listed under the peer's address.
Delete(j) ==
  /\ At(j, "talk")
  /\ Open(j)
  /\ Received(j, {"DELETE"})
  /\ Recv(j)
  /\ LET file == inbox[fd[j]].file
     IN  /\ rows' = IF dbOpen THEN rows \ {<<file, addr[j]>>} ELSE rows
         /\ acked' = acked \ {<<file, j>>}
  /\ UNCHANGED <<link, shut, sessionVars, uncleaned, listenVars, countVars, dbVars, poolVars, kpc, process>>

\* LIST and REQUEST: the statement stays open until the last row is sent. On a
\* closed database the loop that steps it never ends.
StartQuery(j) ==
  /\ At(j, "talk")
  /\ Open(j)
  /\ Received(j, {"REQUEST"})
  /\ Recv(j)
  /\ Goto(j, "query")
  /\ UNCHANGED <<link, shut, fd, addr, listenVars, countVars, tableVars, dbVars, poolVars, kpc, process>>

EndQuery(j) ==
  /\ At(j, "query")
  /\ dbOpen
  /\ Goto(j, "talk")
  /\ UNCHANGED <<fd, addr, netVars, listenVars, countVars, tableVars, dbVars, poolVars, kpc, process>>

\* Mutant: QUIT does not end the loop.
QuitIgnored(j) ==
  /\ At(j, "talk")
  /\ Open(j)
  /\ Received(j, {"QUIT", "CONNECT"})
  /\ Recv(j)
  /\ UNCHANGED <<link, shut, sessionVars, listenVars, countVars, tableVars, dbVars, poolVars, kpc, process>>

\* QUIT ends the loop; anything unknown is answered ERROR.
OtherMessage(j) ==
  /\ At(j, "talk")
  /\ Open(j)
  /\ Received(j, {"QUIT", "CONNECT"})
  /\ Recv(j)
  /\ Goto(j, IF Received(j, {"QUIT"}) THEN "bye" ELSE "talk")
  /\ UNCHANGED <<link, shut, fd, addr, listenVars, countVars, tableVars, dbVars, poolVars, kpc, process>>

\* recv fails on a connection that was reset or that the server itself has closed:
\* recv_msg passes the length -1 on and strcpy_s ends the process. After an orderly
\* close recv returns 0 and the loop goes round, which is no step here.
RecvFails(j) ==
  /\ process = "up"
  /\ spc[j] \in {"hello", "talk"}
  /\ (inbox[fd[j]] = NoMsg /\ link[fd[j]] = "gone") \/ ~Open(j)
  /\ Die("crashed")

\* Statements on the closed database may also end the process.
ClosedDb(j) ==
  /\ process = "up"
  /\ ~dbOpen
  /\ spc[j] \in {"query", "purge"}
  /\ Die("crashed")

\* GOODBYE is on its way to the client; then client_count(-1).
GoodbyeReadsCount(j) ==
  /\ At(j, "bye")
  /\ ReadCount(j)
  /\ Goto(j, "count")
  /\ UNCHANGED <<fd, addr, netVars, listenVars, tableVars, dbVars, poolVars, kpc, process>>

\* Mutant: the count is read and not decreased.
GoodbyeKeepsCount(j) ==
  /\ At(j, "count")
  /\ WriteCount(j, 0)
  /\ Goto(j, "purge")
  /\ UNCHANGED <<fd, addr, netVars, listenVars, tableVars, dbVars, poolVars, kpc, process>>

GoodbyeWritesCount(j) ==
  /\ At(j, "count")
  /\ WriteCount(j, -1)
  /\ Goto(j, "purge")
  /\ UNCHANGED <<fd, addr, netVars, listenVars, tableVars, dbVars, poolVars, kpc, process>>

\* DELETE FROM files WHERE peeraddr = ...: the rows of the peer's address.
Purge(j) ==
  /\ At(j, "purge")
  /\ dbOpen
  /\ rows' = {r \in rows : r[2] # addr[j]}
  /\ acked' = {a \in acked : a[2] # j}
  /\ Goto(j, "close")
  /\ UNCHANGED <<fd, addr, uncleaned, netVars, listenVars, countVars, dbVars, poolVars, kpc, process>>

\* The rows stay, the statement is not finalized and the connection is not closed.
PurgeFails(j) ==
  /\ At(j, "purge")
  /\ uncleaned' = uncleaned \cup {addr[j]}
  /\ stmtLeft' = TRUE
  /\ Pool!Finish(j)
  /\ Goto(j, "ended")
  /\ UNCHANGED <<fd, addr, rows, acked, dbOpen, netVars, listenVars, countVars, kpc, process>>

\* Mutant: the socket accepted last is closed, not the session's own.
CloseIncFd(j) ==
  /\ At(j, "close")
  /\ shut' = shut \cup {inc_fd}
  /\ Pool!Finish(j)
  /\ Goto(j, "ended")
  /\ UNCHANGED <<fd, addr, link, inbox, tableVars, dbVars, listenVars, countVars, kpc, process>>

\* closesocket, and the job returns.
CloseConn(j) ==
  /\ At(j, "close")
  /\ shut' = shut \cup {fd[j]}
  /\ Pool!Finish(j)
  /\ Goto(j, "ended")
  /\ UNCHANGED <<fd, addr, link, inbox, tableVars, dbVars, listenVars, countVars, kpc, process>>

Session(j) ==
  \/ StartJob(j)
  \/ CopyFd(j)
  \/ CopyIp(j)
  \/ LeftoverQuit(j)
  \/ Hello(j)
  \/ Overrun(j)
  \/ Add(j)
  \/ TableFails(j)
  \/ Delete(j)
  \/ StartQuery(j)
  \/ EndQuery(j)
  \/ OtherMessage(j)
  \/ RecvFails(j)
  \/ ClosedDb(j)
  \/ GoodbyeReadsCount(j)
  \/ GoodbyeWritesCount(j)
  \/ Purge(j)
  \/ PurgeFails(j)
  \/ CloseConn(j)

-----------------------------------------------------------------------------
(* The console thread: the command stat, and shutdown_handler. *)

\* print_stats reads the count with client_count(0).
StatReads ==
  /\ process = "up"
  /\ kpc = "run"
  /\ ReadCount("console")
  /\ kpc' = "stat"
  /\ UNCHANGED <<process, netVars, sessionVars, listenVars, tableVars, dbVars, poolVars>>

StatWrites ==
  /\ process = "up"
  /\ kpc = "stat"
  /\ WriteCount("console", 0)
  /\ kpc' = "run"
  /\ UNCHANGED <<process, netVars, sessionVars, listenVars, tableVars, dbVars, poolVars>>

(* shutdown_handler. Its pthread_cancel has no effect on tcp_listen, which *)
(* sits in calls that are no cancellation points.                          *)

\* sqlite3_close refuses while a statement is open; then the process exits at once.
CloseDb ==
  /\ process = "up"
  /\ kpc = "run"
  /\ IF stmtLeft \/ \E j \in Conns : spc[j] = "query"
     THEN Die("exit -1")
     ELSE /\ dbOpen' = FALSE
          /\ kpc' = "closing"
          /\ UNCHANGED <<process, stmtLeft, netVars, sessionVars, listenVars, countVars, tableVars, poolVars>>

\* closesocket(loc_fd), and thpool_destroy from its first statement on. Until jobs
\* are discarded the pool goes on as between the two calls.
StopPool ==
  /\ process = "up"
  /\ kpc = "closing"
  /\ Pool!Close
  /\ kpc' = "join"
  /\ UNCHANGED <<process, netVars, sessionVars, listenVars, countVars, tableVars, dbVars>>

DiscardJob ==
  /\ process = "up"
  /\ kpc = "join"
  /\ Pool!Discard
  /\ UNCHANGED <<kpc, process, netVars, sessionVars, listenVars, countVars, tableVars, dbVars>>

\* An idle worker finds the semaphore destroyed (ThreadPool, SemWait).
SemGone ==
  /\ process = "up"
  /\ kpc = "join"
  /\ Cardinality(running) < Threads
  /\ Die("exit 1")

Exit ==
  /\ process = "up"
  /\ kpc = "join"
  /\ running = {}
  /\ pending = <<>>
  /\ Die("exit 0")

Console ==
  \/ StatReads
  \/ StatWrites
  \/ CloseDb
  \/ StopPool
  \/ DiscardJob
  \/ SemGone
  \/ Exit

Next ==
  \/ \E c \in Conns : Vanish(c) \/ \E m \in Msgs : Send(c, m)
  \/ Listener
  \/ \E j \in Conns : Session(j)
  \/ Console

Spec == Init /\ [][Next]_vars

\* The threads of the pool are scheduled. Nothing is assumed of the listener, the
\* operator or the clients.
Fairness == \A j \in Conns : WF_vars(Session(j))

FairSpec == Spec /\ Fairness

-----------------------------------------------------------------------------
(* Properties *)

Talking(j) == spc[j] \in {"talk", "query"}
Leaving(j) == spc[j] \in {"bye", "count", "purge", "close"}
Serving(j) == spc[j] = "hello" \/ Talking(j) \/ Leaving(j)

\* Two workers never serve the same connection: the pool's size is the number of
\* clients it can serve (P2PFileServer.cpp, 109).
OneWorkerPerClient ==
  \A i, j \in Conns : Serving(i) /\ Serving(j) /\ fd[i] = fd[j] => i = j

\* params is written for the next connection while workers copy it (464, 720). A job
\* whose copy was not overtaken by that serves its own connection under its own
\* peer's address: no other mixture of two connections comes about.
OwnConnection ==
  \A j \in Conns : Serving(j) /\ j \notin overtaken => fd[j] = j /\ addr[j] = AddrOf[j]

\* Overtaken or not, a session never serves a connection accepted before the one its
\* job was added for: what a job copies may be too new, never too old.
NeverServesEarlier == \A j \in Conns : Serving(j) => fd[j] \notin older[j]

\* While a peer is logged in, each file whose ADD was answered OK and that it has
\* not asked to delete is in the table, for LIST and REQUEST to find.
AckedFilesListed ==
  \A j \in Conns : \A f \in Files :
    Talking(j) /\ <<f, j>> \in acked => <<f, addr[j]>> \in rows

\* No other session knows its peer under the same address, or did so until it ended.
Alone(j) == \A i \in Conns \ {j} : spc[i] \notin {"none", "fd", "ip"} => addr[i] # addr[j]

\* What the code keeps of that: the rows of a peer are safe from all others, whichever
\* connections their sessions serve, unless another session has or had its address.
AloneAckedListed ==
  \A j \in Conns : \A f \in Files :
    Talking(j) /\ Alone(j) /\ <<f, j>> \in acked => <<f, addr[j]>> \in rows

\* The table names only addresses some session under way still answers for, unless
\* the farewell's DELETE failed; and if that session was not overtaken, it is the
\* address of the connection it serves. (The session of a peer that went away
\* without a farewell does not end: its rows stay.)
RowsHaveOwners ==
  \A r \in rows :
    \/ r[2] \in uncleaned
    \/ \E j \in Conns :
         /\ Talking(j) \/ Leaving(j)
         /\ addr[j] = r[2]
         /\ j \in overtaken \/ AddrOf[fd[j]] = r[2]

\* All that ends the server before its shutdown, besides a path too long for a statement:
\* the listener has returned under jobs that were to copy params, params was
\* overwritten under a job, or a client went away without a farewell.
CrashesHaveCause ==
  process = "crashed" =>
    \/ kpc \notin {"run", "stat"}
    \/ lpc = "returned"
    \/ overtaken # {}
    \/ \E c \in Conns : link[c] = "gone"

\* When no thread is changing it, c_count is the number of clients that have been
\* accepted and have not been sent GOODBYE (P2PFileServer.cpp, 56), as long as no two
\* threads have changed it at once.
CountIsClients ==
  (~lost /\ lpc = "accept" /\ \A j \in Conns : spc[j] # "count") =>
    c_count = Cardinality({j \in Conns : ~Pool!Fresh(j)
                                        /\ spc[j] \notin {"purge", "close", "ended"}})

\* A peer whose QUIT its session can receive is disconnected by the server, unless
\* the farewell's DELETE fails, the server is stopped or the process ends.
QuitDisconnects ==
  \A c \in Conns :
    (inbox[c] = [kind |-> "QUIT"] /\ \E j \in Conns : Serving(j) /\ fd[j] = c)
      ~> \/ c \in shut
         \/ \E j \in Conns : fd[j] = c /\ addr[j] \in uncleaned
         \/ ~dbOpen
         \/ process # "up"

-----------------------------------------------------------------------------
(* The types of the variables. *)

\* tcp_listen holds a connection it has not yet handed to the pool.
Accepting == {"count", "counted", "test", "tested", "fd", "ip", "add"}

\* p2p is under way.
Busy == {"fd", "ip", "hello", "talk", "query", "bye", "count", "purge", "close"}

TypeOK ==
  /\ link \in [Conns -> {"greet", "on", "bye", "gone"}]
  /\ lpc \in {"accept", "returned"} \cup Accepting
  /\ inc_fd \in Conns \cup {NoConn}
  /\ older \in [Conns -> SUBSET Conns] /\ overtaken \subseteq Conns
  /\ params \in [fd : Conns \cup {NoConn}, ipaddr : Addrs \cup {NoConn}]
  /\ c_count \in Int /\ tmp \in [Conns \cup {"listener", "console"} -> Int] /\ lost \in BOOLEAN
  /\ spc \in [Conns -> {"none", "ended"} \cup Busy]
  /\ fd \in [Conns -> Conns \cup {NoConn}]
  /\ addr \in [Conns -> Addrs \cup {NoConn}]
  /\ pending \in Seq(Conns)
  /\ running \subseteq Conns /\ done \subseteq Conns /\ discarded \subseteq Conns
==============================================================================
