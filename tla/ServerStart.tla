----------------------------- MODULE ServerStart -----------------------------
(***************************************************************************)
(* main of P2PFileServer.cpp: the command line, the start-up of the        *)
(* server, the command stop and Ctrl+C.                                    *)
(*                                                                         *)
(* Ctrl+C runs shutdown_handler on a thread of its own as soon as main has *)
(* registered it (89-91), which is before anything is opened: it may       *)
(* overtake the start-up, and it may meet the shutdown_handler that stop   *)
(* runs on the main thread. What happens to clients is in FileServer, what *)
(* thpool_destroy does in ThreadPool; here the sessions of all clients are *)
(* one thing that may be there, may crash and may last for ever, and       *)
(* thpool_destroy is a step and a wait for them.                           *)
(*                                                                         *)
(* A word of the command line is an option, a number (a word of digits     *)
(* only, which "" is too, with the value 0) or something else. -h and a    *)
(* -p that is refused crash: the message has a %s for DEFAULT_PORT, which  *)
(* is an int.                                                              *)
(***************************************************************************)
EXTENDS Naturals, Sequences

CONSTANTS
  Values,   \* the numbers on the command line
  MaxArgs,  \* the most words on the command line: a bound
  MaxPort, DefaultPort, DefaultQueue, DefaultThreads

ASSUME StartAssumption ==
  /\ Values \subseteq Nat
  /\ MaxArgs \in Nat
  /\ DefaultPort \in 0..MaxPort
  /\ {DefaultQueue, DefaultThreads} \subseteq Nat \ {0}

VARIABLES
  argv, i,
  port, queue_length, num_threads,
  pc,        \* where main is
  db,        \* "none" (NULL), "open", "stmt" (with a statement open) or "closed"
  loc_fd,    \* "none" (0), "open", "bound", "listening" or "closed"
  thpool,    \* "none" or "null" (NULL), "up", "closing" or "freed"
  listener,  \* net_thread: "none", "accept", "adding" or "returned"
  sessions,  \* jobs of clients are queued or under way
  hpc,       \* where each run of shutdown_handler is
  early,     \* history: Ctrl+C was pressed before start-up was over
  process    \* "up", or how the process ended

settings == <<port, queue_length, num_threads>>
resources == <<db, loc_fd, thpool, listener>>
handlerVars == <<hpc, early>>
vars == <<argv, i, settings, pc, resources, sessions, handlerVars, process>>

\* Who runs shutdown_handler.
Handlers == {"signal", "stop"}

Words ==
  [option : {"help", "port", "queue", "threads", "none"}, digits : {FALSE}, value : {0}]
    \cup [option : {"none"}, digits : {TRUE}, value : Values]

Init ==
  /\ argv \in UNION {[1..n -> Words] : n \in 0..MaxArgs}
  /\ i = 1
  /\ port = DefaultPort /\ queue_length = DefaultQueue /\ num_threads = DefaultThreads
  /\ pc = "args"
  /\ db = "none" /\ loc_fd = "none" /\ thpool = "none" /\ listener = "none"
  /\ sessions = FALSE
  /\ hpc = [h \in Handlers |-> "idle"]
  /\ early = FALSE
  /\ process = "up"

At(place) == process = "up" /\ pc = place

Die(how) ==
  /\ process' = how
  /\ UNCHANGED <<argv, i, settings, pc, resources, sessions, handlerVars>>

-----------------------------------------------------------------------------
(* The options *)

\* argv[i] is this option.
Option(name) == At("args") /\ i <= Len(argv) /\ argv[i].option = name

\* argv[i + 1] is there, made of digits, and its value is in range.
Accepted(range) == i < Len(argv) /\ argv[i + 1].digits /\ argv[i + 1].value \in range

\* The value of an option is passed over. One that is refused is not, and is looked
\* at next as if it were an option.
Advance(n) ==
  /\ i' = i + n
  /\ UNCHANGED <<argv, pc, resources, sessions, handlerVars, process>>

Help == Option("help") /\ Die("crashed")

PortOption ==
  /\ Option("port")
  /\ IF Accepted(0..MaxPort)
     THEN /\ port' = argv[i + 1].value
          /\ UNCHANGED <<queue_length, num_threads>>
          /\ Advance(2)
     ELSE Die("crashed")

\* A refused value leaves the setting as it is, which is the default only if no
\* value was accepted before.
QueueOption ==
  /\ Option("queue")
  /\ IF Accepted(Values \ {0})
     THEN queue_length' = argv[i + 1].value /\ Advance(2)
     ELSE UNCHANGED queue_length /\ Advance(1)
  /\ UNCHANGED <<port, num_threads>>

\* Mutant: the number of threads is stored for the length of the queue.
ThreadsOptionSwapped ==
  /\ Option("threads")
  /\ IF Accepted(Values \ {0})
     THEN queue_length' = argv[i + 1].value /\ Advance(2)
     ELSE UNCHANGED queue_length /\ Advance(1)
  /\ UNCHANGED <<port, num_threads>>

ThreadsOption ==
  /\ Option("threads")
  /\ IF Accepted(Values \ {0})
     THEN num_threads' = argv[i + 1].value /\ Advance(2)
     ELSE UNCHANGED num_threads /\ Advance(1)
  /\ UNCHANGED <<port, queue_length>>

UnknownOption == Option("none") /\ Die("exit -1")

-----------------------------------------------------------------------------
(* The start-up *)

\* A step of main; each says what else changes.
Goto(place) == pc' = place /\ UNCHANGED <<argv, i, settings, sessions, handlerVars, process>>

EndOfOptions ==
  /\ At("args")
  /\ i > Len(argv)
  /\ Goto("open")
  /\ UNCHANGED resources

\* sqlite3_open, which leaves NULL in db only when there is no memory for it.
OpenDb ==
  /\ At("open")
  /\ \/ db' = "open" /\ Goto("clear") /\ UNCHANGED <<loc_fd, thpool, listener>>
     \/ Die("exit -1")

\* DELETE FROM files, prepared and stepped. Without a usable database, or with one
\* that Ctrl+C has closed, there is no statement, and the step of NULL fails.
ClearTable ==
  /\ At("clear")
  /\ \/ /\ db = "open"
        /\ db' = "stmt"
        /\ Goto("finalize")
        /\ UNCHANGED <<loc_fd, thpool, listener>>
     \/ Die("exit -1")
     \/ db = "closed" /\ Die("crashed")

Finalize ==
  /\ At("finalize")
  /\ db' = "open"
  /\ Goto("socket")
  /\ UNCHANGED <<loc_fd, thpool, listener>>

Socket ==
  /\ At("socket")
  /\ \/ loc_fd' = "open" /\ Goto("bind") /\ UNCHANGED <<db, thpool, listener>>
     \/ Die("exit -1")

Bind ==
  /\ At("bind")
  /\ \/ /\ loc_fd = "open"
        /\ loc_fd' = "bound"
        /\ Goto("listen")
        /\ UNCHANGED <<db, thpool, listener>>
     \/ Die("exit -1")

\* Mutant: there is no thpool_init.
ListenSkipsPool ==
  /\ At("listen")
  /\ loc_fd' \in {loc_fd, IF loc_fd = "bound" THEN "listening" ELSE loc_fd}
  /\ Goto("thread")
  /\ UNCHANGED <<db, thpool, listener>>

\* Nobody looks at what listen returns.
Listen ==
  /\ At("listen")
  /\ loc_fd' \in {loc_fd, IF loc_fd = "bound" THEN "listening" ELSE loc_fd}
  /\ Goto("pool")
  /\ UNCHANGED <<db, thpool, listener>>

\* thpool_init returns NULL when it gets no memory for the pool, its threads or its
\* queue; nobody looks at that either. Without memory for the semaphore it crashes.
PoolInit ==
  /\ At("pool")
  /\ \/ /\ thpool' \in {"up", "null"}
        /\ Goto("thread")
        /\ UNCHANGED <<db, loc_fd, listener>>
     \/ Die("crashed")

\* pthread_create, and the message that the server has been started.
StartListener ==
  /\ At("thread")
  /\ listener' = "accept"
  /\ Goto("console")
  /\ UNCHANGED <<db, loc_fd, thpool>>

Main ==
  \/ Help
  \/ PortOption
  \/ QueueOption
  \/ ThreadsOption
  \/ UnknownOption
  \/ EndOfOptions
  \/ OpenDb
  \/ ClearTable
  \/ Finalize
  \/ Socket
  \/ Bind
  \/ Listen
  \/ PoolInit
  \/ StartListener

-----------------------------------------------------------------------------
(* tcp_listen *)

\* accept fails on a socket that does not listen or that has been closed, and it may
\* fail on one that listens: tcp_listen returns.
AcceptFails ==
  /\ process = "up"
  /\ listener = "accept"
  /\ listener' = "returned"
  /\ UNCHANGED <<argv, i, settings, pc, db, loc_fd, thpool, sessions, handlerVars, process>>

Accept ==
  /\ process = "up"
  /\ listener = "accept"
  /\ loc_fd = "listening"
  /\ listener' = "adding"
  /\ UNCHANGED <<argv, i, settings, pc, db, loc_fd, thpool, sessions, handlerVars, process>>

\* thpool_add_work: the job is queued. The pool may not be there, and while or after
\* thpool_destroy takes it down the listener may read what is gone (ThreadPool).
AddWork ==
  /\ process = "up"
  /\ listener = "adding"
  /\ \/ /\ thpool \in {"up", "closing", "freed"}
        /\ sessions' \in {sessions, TRUE}
        /\ thpool = "up" => sessions'
        /\ thpool = "freed" => sessions' = sessions
        /\ listener' = "accept"
        /\ UNCHANGED <<argv, i, settings, pc, db, loc_fd, thpool, handlerVars, process>>
     \/ thpool # "up" /\ Die("crashed")

-----------------------------------------------------------------------------
(* p2p: what FileServer's sessions can do to the process. *)

\* The last client has left and its session is over.
SessionsEnd ==
  /\ process = "up"
  /\ sessions
  /\ sessions' = FALSE
  /\ UNCHANGED <<argv, i, settings, pc, resources, handlerVars, process>>

\* A session may crash for FileServer's causes, on the database that the shutdown
\* has closed too.
SessionCrashes == process = "up" /\ sessions /\ Die("crashed")

-----------------------------------------------------------------------------
(* shutdown_handler *)

\* The console; its other commands change nothing.
Stop ==
  /\ At("console")
  /\ pc' = "stop"
  /\ hpc' = [hpc EXCEPT !["stop"] = "db"]
  /\ UNCHANGED <<argv, i, settings, resources, sessions, early, process>>

CtrlC ==
  /\ process = "up"
  /\ hpc["signal"] = "idle"
  /\ hpc' = [hpc EXCEPT !["signal"] = "db"]
  /\ early' = (pc \notin {"console", "stop"})
  /\ UNCHANGED <<argv, i, settings, pc, resources, sessions, process>>

\* The handler was registered for one signal: the next one ends the process.
CtrlCAgain ==
  /\ process = "up"
  /\ hpc["signal"] # "idle"
  /\ Die("killed")

HandlerAt(h, place) == process = "up" /\ hpc[h] = place

HandlerGoto(h, place) ==
  /\ hpc' = [hpc EXCEPT ![h] = place]
  /\ UNCHANGED <<argv, i, settings, pc, sessions, early, process>>

\* sqlite3_close accepts NULL, refuses while there is a statement, which a session may
\* have open too, and does what it will with a database that is closed.
CloseDb(h) ==
  /\ HandlerAt(h, "db")
  /\ \/ /\ db \in {"none", "open"}
        /\ db' = IF db = "open" THEN "closed" ELSE db
        /\ HandlerGoto(h, "socket")
        /\ UNCHANGED <<loc_fd, thpool, listener>>
     \/ (db \in {"stmt", "closed"} \/ sessions) /\ Die("exit -1")
     \/ db = "closed" /\ Die("crashed")

\* Mutant: nobody looks at what closesocket returns.
CloseSocketUnchecked(h) ==
  /\ HandlerAt(h, "socket")
  /\ loc_fd' = IF loc_fd = "none" THEN "none" ELSE "closed"
  /\ HandlerGoto(h, "destroy")
  /\ UNCHANGED <<db, thpool, listener>>

CloseSocket(h) ==
  /\ HandlerAt(h, "socket")
  /\ IF loc_fd \in {"none", "closed"}
     THEN Die("exit -1")
     ELSE /\ loc_fd' = "closed"
          /\ HandlerGoto(h, "destroy")
          /\ UNCHANGED <<db, thpool, listener>>

\* Mutant: the jobs are not waited for.
DestroyPoolAtOnce(h) ==
  /\ HandlerAt(h, "destroy")
  /\ IF thpool = "up"
     THEN /\ thpool' = "closing"
          /\ HandlerGoto(h, "exit")
          /\ UNCHANGED <<db, loc_fd, listener>>
     ELSE Die("crashed")

\* thpool_destroy up to the joins. It reads the pool, which may not be there.
DestroyPool(h) ==
  /\ HandlerAt(h, "destroy")
  /\ IF thpool = "up"
     THEN /\ thpool' = "closing"
          /\ HandlerGoto(h, "join")
          /\ UNCHANGED <<db, loc_fd, listener>>
     ELSE Die("crashed")

\* The joins and frees of thpool_destroy: pthread_join waits for the sessions.
JoinPool(h) ==
  /\ HandlerAt(h, "join")
  /\ ~sessions
  /\ thpool' = "freed"
  /\ HandlerGoto(h, "exit")
  /\ UNCHANGED <<db, loc_fd, listener>>

\* Meanwhile an idle worker may find the semaphore destroyed (ThreadPool, SemWait).
SemGone ==
  /\ process = "up"
  /\ thpool = "closing"
  /\ Die("exit 1")

\* Mutant: shutdown_handler returns.
Returns(h) ==
  /\ HandlerAt(h, "exit")
  /\ HandlerGoto(h, "done")
  /\ UNCHANGED resources

Exit(h) == HandlerAt(h, "exit") /\ Die("exit 0")

Handler(h) ==
  \/ CloseDb(h)
  \/ CloseSocket(h)
  \/ DestroyPool(h)
  \/ JoinPool(h)
  \/ Exit(h)

Over == process # "up" /\ UNCHANGED vars

Next ==
  \/ Main
  \/ AcceptFails
  \/ Accept
  \/ AddWork
  \/ SessionsEnd
  \/ SessionCrashes
  \/ Stop
  \/ CtrlC
  \/ CtrlCAgain
  \/ \E h \in Handlers : Handler(h)
  \/ SemGone
  \/ Over

Spec == Init /\ [][Next]_vars

\* The threads of main and of shutdown_handler are scheduled. Nobody has to press
\* Ctrl+C, give a command or connect, and no session has to end.
Fairness ==
  /\ WF_vars(Main)
  /\ \A h \in Handlers : WF_vars(Handler(h))

FairSpec == Spec /\ Fairness

-----------------------------------------------------------------------------
(* Properties *)

\* The last value given for an option that is in range, or the default.
LastGiven(name, range, default) ==
  LET given == {k \in 1..(Len(argv) - 1) :
                 argv[k].option = name /\ argv[k + 1].digits /\ argv[k + 1].value \in range}
  IN  IF given = {} THEN default
      ELSE argv[(CHOOSE k \in given : \A other \in given : other <= k) + 1].value

\* However options, their values and refused values follow each other, the server
\* starts with the last acceptable value of each option. So a value that is refused
\* does not bring back the default, which the messages say it does (150-184).
SettingsAreLastGiven ==
  pc # "args" =>
    /\ port = LastGiven("port", 0..MaxPort, DefaultPort)
    /\ queue_length = LastGiven("queue", Values \ {0}, DefaultQueue)
    /\ num_threads = LastGiven("threads", Values \ {0}, DefaultThreads)

Pressed == hpc["signal"] # "idle"
Stopping == hpc["stop"] # "idle"

\* The server crashes, at start-up or shutdown, only over the message about the port,
\* without memory for the pool, by a Ctrl+C that comes before it is up or meets the
\* command stop, in a session (for FileServer's causes), or when thpool_destroy meets a
\* client that is being added (for ThreadPool's).
CrashesHaveCause ==
  process = "crashed" =>
    \/ pc = "args" /\ i <= Len(argv) /\ argv[i].option \in {"help", "port"}
    \/ pc = "pool" \/ thpool = "null"
    \/ early
    \/ Pressed /\ Stopping
    \/ sessions
    \/ listener = "adding" /\ thpool \in {"closing", "freed"}

\* stop and Ctrl+C together destroy the pool once: the second of them fails at the
\* socket the first has closed.
OneDestroysPool ==
  \A g, h \in Handlers :
    {hpc[g], hpc[h]} \subseteq {"destroy", "join", "exit"} => g = h

\* When the process ends with exit(0) the jobs have returned and nothing is left open,
\* unless Ctrl+C came so early that it closed nothing.
ExitIsClean ==
  process = "exit 0" => thpool = "freed" /\ loc_fd = "closed" /\ (db = "closed" \/ early)

\* Once it is told to stop, the server ends, if the sessions do: pthread_join waits for
\* them without limit, and they for their clients (thpool.c 169). No failure on the way,
\* and no meeting of stop and Ctrl+C, leaves a process behind that has closed its
\* database.
StopEnds == []<>~sessions => ((Pressed \/ Stopping) ~> process # "up")

-----------------------------------------------------------------------------
(* The types of the variables. *)

\* The places of main at which Ctrl+C is early.
Early == {"args", "open", "clear", "finalize", "socket", "bind", "listen", "pool", "thread"}

TypeOK ==
  /\ argv \in Seq(Words) /\ i \in Nat \ {0}
  /\ pc \in Early \cup {"console", "stop"}
  /\ db \in {"none", "open", "stmt", "closed"}
  /\ loc_fd \in {"none", "open", "bound", "listening", "closed"}
  /\ thpool \in {"none", "null", "up", "closing", "freed"}
  /\ listener \in {"none", "accept", "adding", "returned"}
  /\ sessions \in BOOLEAN
  /\ hpc \in [Handlers -> {"idle", "db", "socket", "destroy", "join", "exit"}]
  /\ early \in BOOLEAN
==============================================================================
