--------------------------- MODULE ServerStartProofs ---------------------------
(***************************************************************************)
(* Theorems about the start-up and the end of the index server, for any    *)
(* command line of any length, any numbers on it and any defaults. The     *)
(* invariant that is inductive is StartInv: what there is                  *)
(* when main is at a place, and how far each shutdown_handler has come.    *)
(***************************************************************************)
EXTENDS ServerStart, TLAPS

-----------------------------------------------------------------------------
(* The inductive invariant behind the safety properties. *)

\* What there is when main is at a place, whatever Ctrl+C has done meanwhile.
MainInOrder ==
  /\ db = "none" <=> pc \in {"args", "open"}
  /\ db = "stmt" <=> pc = "finalize"
  /\ loc_fd = "none" <=> pc \in {"args", "open", "clear", "finalize", "socket"}
  /\ thpool = "none" <=> pc \in Early \ {"thread"}
  /\ listener = "none" <=> pc \in Early
  /\ Stopping <=> pc = "stop"
  /\ Pressed /\ pc \in Early => early
  /\ early => Pressed
  /\ pc # "args" => i > Len(argv)

\* How far the runs of shutdown_handler have come, in what they have closed.
HandlersInOrder ==
  /\ \A h \in Handlers : hpc[h] \notin {"idle", "db"} => db = "closed" \/ early
  /\ db = "closed" => \E h \in Handlers : hpc[h] \notin {"idle", "db"}
  /\ \A h \in Handlers : hpc[h] \in {"destroy", "join", "exit"} => loc_fd = "closed"
  /\ \A h \in Handlers : hpc[h] = "join" => thpool = "closing"
  /\ \A h \in Handlers : hpc[h] = "exit" => thpool = "freed"
  /\ thpool \in {"closing", "freed"} => \E h \in Handlers : hpc[h] \in {"join", "exit"}

\* The acceptable values of an option among the words before place n.
GivenBefore(n, name, range) ==
  {k \in 1..(Len(argv) - 1) :
     k < n /\ argv[k].option = name /\ argv[k + 1].digits /\ argv[k + 1].value \in range}

\* The value given at the latest of these places.
LastOf(given, default) ==
  IF given = {} THEN default
  ELSE argv[(CHOOSE k \in given : \A other \in given : other <= k) + 1].value

\* Midway through the options each setting is the last acceptable value so far.
SettingsSoFar ==
  /\ port = LastOf(GivenBefore(i, "port", 0..MaxPort), DefaultPort)
  /\ queue_length = LastOf(GivenBefore(i, "queue", Values \ {0}), DefaultQueue)
  /\ num_threads = LastOf(GivenBefore(i, "threads", Values \ {0}), DefaultThreads)

\* All of them.
StartInv ==
  /\ TypeOK
  /\ MainInOrder
  /\ HandlersInOrder
  /\ SettingsSoFar
  /\ OneDestroysPool
  /\ ExitIsClean
  /\ CrashesHaveCause

-----------------------------------------------------------------------------
(* The words of the command line *)

\* The number an option is given at place k is what a set of places with k as its
\* latest is read as.
LEMMA LatestWins ==
  ASSUME NEW given \in SUBSET Nat, NEW k \in Nat, \A other \in given : other < k, NEW default
  PROVE  LastOf(given \cup {k}, default) = argv[k + 1].value
<1> DEFINE all == given \cup {k}
<1>1. \A other \in all : other <= k
  OBVIOUS
<1>2. \A m \in all : (\A other \in all : other <= m) => m = k
  BY <1>1
<1>3. (CHOOSE m \in all : \A other \in all : other <= m) = k
  BY <1>1, <1>2
<1> QED
  BY <1>3 DEF LastOf

\* An option that is refused adds no place, and neither does another option or a number.
LEMMA PassedOver ==
  ASSUME TypeOK, NEW name, NEW range, i <= Len(argv),
         argv[i].option # name \/ ~Accepted(range)
  PROVE  GivenBefore(i + 1, name, range) = GivenBefore(i, name, range)
<1>1. i \in Nat /\ Len(argv) \in Nat
  BY DEF TypeOK
<1>2. \A k \in 1..(Len(argv) - 1) : k < i + 1 <=> k < i \/ k = i
  BY <1>1
<1>3. i \in 1..(Len(argv) - 1) => i < Len(argv)
  BY <1>1
<1> QED
  BY <1>2, <1>3 DEF GivenBefore, Accepted

\* A number is no option.
LEMMA NumberPassedOver ==
  ASSUME TypeOK, NEW name, NEW range, name \in {"port", "queue", "threads"},
         NEW other, Accepted(other), argv[i].option # name
  PROVE  GivenBefore(i + 2, name, range) = GivenBefore(i, name, range)
<1>1. i \in Nat /\ Len(argv) \in Nat /\ i < Len(argv)
  BY DEF TypeOK, Accepted
<1>2. argv[i + 1] \in Words /\ argv[i + 1].digits
  BY <1>1 DEF TypeOK, Accepted
<1>3. argv[i + 1].option = "none"
  BY <1>2 DEF Words
<1>4. \A k \in 1..(Len(argv) - 1) : k < i + 2 <=> k < i \/ k = i \/ k = i + 1
  BY <1>1
<1> QED
  BY <1>3, <1>4 DEF GivenBefore

\* An option with an acceptable value is the latest place where it is given.
LEMMA AcceptedIsLatest ==
  ASSUME TypeOK, NEW name, NEW range, name \in {"port", "queue", "threads"},
         Accepted(range), argv[i].option = name, NEW default
  PROVE  LastOf(GivenBefore(i + 2, name, range), default) = argv[i + 1].value
<1>1. i \in Nat \ {0} /\ Len(argv) \in Nat /\ i < Len(argv)
  BY DEF TypeOK, Accepted
<1>2. argv[i + 1] \in Words /\ argv[i + 1].digits
  BY <1>1 DEF TypeOK, Accepted
<1>3. argv[i + 1].option = "none"
  BY <1>2 DEF Words
<1>4. \A k \in 1..(Len(argv) - 1) : k < i + 2 <=> k < i \/ k = i \/ k = i + 1
  BY <1>1
<1>5. i \in 1..(Len(argv) - 1)
  BY <1>1
<1>6. GivenBefore(i + 2, name, range) = GivenBefore(i, name, range) \cup {i}
  BY <1>3, <1>4, <1>5 DEF GivenBefore, Accepted
<1>7. /\ GivenBefore(i, name, range) \subseteq Nat
      /\ \A k \in GivenBefore(i, name, range) : k < i
  BY <1>1 DEF GivenBefore
<1> QED
  BY <1>1, <1>6, <1>7, LatestWins

-----------------------------------------------------------------------------
(* Steps that end the process, and steps that do not *)

\* What the property asks of a crash.
Cause ==
  \/ pc = "args" /\ i <= Len(argv) /\ argv[i].option \in {"help", "port"}
  \/ pc = "pool" \/ thpool = "null"
  \/ early
  \/ Pressed /\ Stopping
  \/ sessions
  \/ listener = "adding" /\ thpool \in {"closing", "freed"}

\* What the property asks of exit(0).
Clean == thpool = "freed" /\ loc_fd = "closed" /\ (db = "closed" \/ early)

\* The settings depend on the words that have been read.
LEMMA SettingsStay ==
  ASSUME SettingsSoFar, UNCHANGED <<argv, i, port, queue_length, num_threads>>
  PROVE  SettingsSoFar'
BY DEF SettingsSoFar, LastOf, GivenBefore

\* exit, a crash or a signal changes nothing else.
LEMMA DieStep ==
  ASSUME StartInv, NEW how, Die(how),
         how = "crashed" => Cause,
         how = "exit 0" => Clean
  PROVE  StartInv'
<1>1. /\ UNCHANGED <<argv, i, port, queue_length, num_threads, pc, db, loc_fd, thpool, listener, sessions, hpc, early>>
      /\ process' = how
  BY DEF Die, settings, resources, handlerVars
<1>0. TypeOK /\ MainInOrder /\ HandlersInOrder /\ OneDestroysPool /\ SettingsSoFar
  BY DEF StartInv
<1>2. TypeOK' /\ MainInOrder' /\ HandlersInOrder' /\ OneDestroysPool'
  <2>1. TypeOK'
    <3>1. /\ pc' \in Early \cup {"console", "stop"}
          /\ db' \in {"none", "open", "stmt", "closed"}
          /\ loc_fd' \in {"none", "open", "bound", "listening", "closed"}
          /\ thpool' \in {"none", "null", "up", "closing", "freed"}
          /\ listener' \in {"none", "accept", "adding", "returned"}
      BY <1>0, <1>1, Zenon DEF TypeOK
    <3>2. /\ argv' \in Seq(Words) /\ i' \in Nat \ {0}
          /\ hpc' \in [Handlers -> {"idle", "db", "socket", "destroy", "join", "exit"}]
      BY <1>0, <1>1, Zenon DEF TypeOK
    <3>3. sessions' \in BOOLEAN /\ early' \in BOOLEAN
      BY <1>0, <1>1, Zenon DEF TypeOK
    <3> QED
      BY <3>1, <3>2, <3>3 DEF TypeOK
  <2>2. MainInOrder'
    BY <1>0, <1>1 DEF MainInOrder, Pressed, Stopping
  <2>3. HandlersInOrder'
    BY <1>0, <1>1 DEF HandlersInOrder
  <2>4. OneDestroysPool'
    BY <1>0, <1>1 DEF OneDestroysPool
  <2> QED
    BY <2>1, <2>2, <2>3, <2>4
<1>3. SettingsSoFar'
  BY <1>0, <1>1, SettingsStay
<1>4. ExitIsClean'
  BY <1>1 DEF ExitIsClean, Clean
<1>5. CrashesHaveCause'
  BY <1>1 DEF CrashesHaveCause, Cause, Pressed, Stopping
<1> QED
  BY <1>2, <1>3, <1>4, <1>5 DEF StartInv

\* A step of main after the options.
LEMMA MainStep ==
  ASSUME StartInv, NEW place, Goto(place), process = "up", TypeOK', MainInOrder', HandlersInOrder'
  PROVE  StartInv'
<1>1. UNCHANGED <<argv, i, port, queue_length, num_threads, hpc, process>>
  BY DEF Goto, settings, handlerVars
<1>2. SettingsSoFar'
  BY <1>1, SettingsStay DEF StartInv
<1>3. OneDestroysPool'
  BY <1>1 DEF StartInv, OneDestroysPool
<1> QED
  BY <1>1, <1>2, <1>3 DEF StartInv, ExitIsClean, CrashesHaveCause

\* A step of shutdown_handler.
LEMMA HandlerStep ==
  ASSUME StartInv, NEW h \in Handlers, NEW place, HandlerGoto(h, place), process = "up",
         TypeOK', MainInOrder', HandlersInOrder', OneDestroysPool'
  PROVE  StartInv'
<1>1. UNCHANGED <<argv, i, port, queue_length, num_threads, process>>
  BY DEF HandlerGoto, settings
<1>2. SettingsSoFar'
  BY <1>1, SettingsStay DEF StartInv
<1> QED
  BY <1>1, <1>2 DEF StartInv, ExitIsClean, CrashesHaveCause

-----------------------------------------------------------------------------
(* main *)

\* The values of options: what an accepted and what a refused one leave.
LEMMA SettingsStep ==
  ASSUME StartInv, PortOption \/ QueueOption \/ ThreadsOption, process' = "up"
  PROVE  SettingsSoFar'
<1> DEFINE P(n) == GivenBefore(n, "port", 0..MaxPort)
           Q(n) == GivenBefore(n, "queue", Values \ {0})
           T(n) == GivenBefore(n, "threads", Values \ {0})
           value == argv[i + 1].value
<1>0. /\ TypeOK /\ SettingsSoFar
      /\ "port" # "queue" /\ "queue" # "threads" /\ "threads" # "port"
  BY DEF StartInv
<1>1. /\ i <= Len(argv) /\ argv' = argv
      /\ \/ argv[i].option = "port" /\ Accepted(0..MaxPort) /\ i' = i + 2
            /\ port' = value /\ queue_length' = queue_length /\ num_threads' = num_threads
         \/ argv[i].option = "queue" /\ Accepted(Values \ {0}) /\ i' = i + 2
            /\ queue_length' = value /\ port' = port /\ num_threads' = num_threads
         \/ argv[i].option = "threads" /\ Accepted(Values \ {0}) /\ i' = i + 2
            /\ num_threads' = value /\ port' = port /\ queue_length' = queue_length
         \/ argv[i].option \in {"queue", "threads"} /\ ~Accepted(Values \ {0}) /\ i' = i + 1
            /\ port' = port /\ queue_length' = queue_length /\ num_threads' = num_threads
  BY DEF PortOption, QueueOption, ThreadsOption, Option, At, Advance, Die
<1>2. SettingsSoFar' <=> /\ port' = LastOf(P(i'), DefaultPort)
                         /\ queue_length' = LastOf(Q(i'), DefaultQueue)
                         /\ num_threads' = LastOf(T(i'), DefaultThreads)
  BY <1>1 DEF SettingsSoFar, LastOf, GivenBefore
<1>3. /\ port = LastOf(P(i), DefaultPort)
      /\ queue_length = LastOf(Q(i), DefaultQueue)
      /\ num_threads = LastOf(T(i), DefaultThreads)
  BY <1>0 DEF SettingsSoFar
<1>4. CASE argv[i].option = "port" /\ Accepted(0..MaxPort) /\ i' = i + 2
           /\ port' = value /\ queue_length' = queue_length /\ num_threads' = num_threads
  <2>1. LastOf(P(i + 2), DefaultPort) = value
    BY <1>0, <1>4, AcceptedIsLatest
  <2>2. Q(i + 2) = Q(i) /\ T(i + 2) = T(i)
    BY <1>0, <1>4, NumberPassedOver
  <2> QED
    BY <1>2, <1>3, <1>4, <2>1, <2>2
<1>5. CASE argv[i].option = "queue" /\ Accepted(Values \ {0}) /\ i' = i + 2
           /\ queue_length' = value /\ port' = port /\ num_threads' = num_threads
  <2>1. LastOf(Q(i + 2), DefaultQueue) = value
    BY <1>0, <1>5, AcceptedIsLatest
  <2>2. P(i + 2) = P(i) /\ T(i + 2) = T(i)
    BY <1>0, <1>5, NumberPassedOver
  <2> QED
    BY <1>2, <1>3, <1>5, <2>1, <2>2
<1>6. CASE argv[i].option = "threads" /\ Accepted(Values \ {0}) /\ i' = i + 2
           /\ num_threads' = value /\ port' = port /\ queue_length' = queue_length
  <2>1. LastOf(T(i + 2), DefaultThreads) = value
    BY <1>0, <1>6, AcceptedIsLatest
  <2>2. P(i + 2) = P(i) /\ Q(i + 2) = Q(i)
    BY <1>0, <1>6, NumberPassedOver
  <2> QED
    BY <1>2, <1>3, <1>6, <2>1, <2>2
<1>7. CASE argv[i].option \in {"queue", "threads"} /\ ~Accepted(Values \ {0}) /\ i' = i + 1
           /\ port' = port /\ queue_length' = queue_length /\ num_threads' = num_threads
  <2>1. P(i + 1) = P(i) /\ Q(i + 1) = Q(i) /\ T(i + 1) = T(i)
    BY <1>0, <1>1, <1>7, PassedOver
  <2> QED
    BY <1>2, <1>3, <1>7, <2>1
<1> QED
  BY <1>1, <1>4, <1>5, <1>6, <1>7

\* The options, with the crash over the message about the port.
LEMMA OptionStep ==
  ASSUME StartInv, PortOption \/ QueueOption \/ ThreadsOption
  PROVE  StartInv'
<1>1. CASE Die("crashed")
  <2>1. PortOption => Cause
    BY DEF PortOption, Option, At, Cause
  <2>2. QueueOption \/ ThreadsOption => process' = process /\ process = "up"
    BY DEF QueueOption, ThreadsOption, Option, At, Advance
  <2>3. process' = "crashed"
    BY <1>1 DEF Die
  <2>4. PortOption
    BY <2>2, <2>3
  <2> QED
    BY <1>1, <2>1, <2>4, DieStep
<1>2. CASE ~Die("crashed")
  <2>1. /\ process = "up" /\ process' = "up" /\ pc = "args"
        /\ UNCHANGED <<argv, pc, db, loc_fd, thpool, listener, sessions, hpc, early>>
        /\ i' \in {i + 1, i + 2}
    BY <1>2 DEF PortOption, QueueOption, ThreadsOption, Option, At, Advance, resources, handlerVars
  <2>2. SettingsSoFar'
    BY <2>1, SettingsStep
  <2>3. TypeOK'
    BY <2>1 DEF StartInv, TypeOK
  <2>4. MainInOrder'
    BY <2>1 DEF StartInv, MainInOrder, Pressed, Stopping
  <2>5. HandlersInOrder' /\ OneDestroysPool'
    BY <2>1 DEF StartInv, HandlersInOrder, OneDestroysPool
  <2> QED
    BY <2>1, <2>2, <2>3, <2>4, <2>5 DEF StartInv, ExitIsClean, CrashesHaveCause
<1> QED
  BY <1>1, <1>2

\* The start-up, from the end of the options to the console.
LEMMA MainActs ==
  ASSUME StartInv, Main
  PROVE  StartInv'
<1> DEFINE Goal == StartInv'
<1>0. TypeOK /\ MainInOrder /\ HandlersInOrder
  BY DEF StartInv
<1>1. ASSUME Help PROVE Goal
  BY <1>1, DieStep DEF Help, Option, At, Cause
<1>2. ASSUME PortOption \/ QueueOption \/ ThreadsOption PROVE Goal
  BY <1>2, OptionStep
<1>3. ASSUME UnknownOption PROVE Goal
  BY <1>3, DieStep DEF UnknownOption
<1>4. ASSUME EndOfOptions PROVE Goal
  <2>1. /\ process = "up" /\ pc = "args" /\ pc' = "open" /\ i > Len(argv)
        /\ UNCHANGED <<argv, i, db, loc_fd, thpool, listener, sessions, hpc, early>>
    BY <1>4 DEF EndOfOptions, At, Goto, resources, handlerVars
  <2>2. TypeOK' /\ MainInOrder' /\ HandlersInOrder'
    BY <1>0, <2>1 DEF TypeOK, Early, MainInOrder, Pressed, Stopping, HandlersInOrder
  <2> QED
    BY <1>4, <2>1, <2>2, MainStep DEF EndOfOptions
<1>5. ASSUME OpenDb PROVE Goal
  <2>1. CASE Die("exit -1")
    BY <2>1, DieStep
  <2>2. CASE db' = "open" /\ Goto("clear") /\ UNCHANGED <<loc_fd, thpool, listener>>
    <3>1. /\ process = "up" /\ pc = "open" /\ pc' = "clear" /\ db' = "open"
          /\ UNCHANGED <<argv, i, loc_fd, thpool, listener, sessions, hpc, early>>
      BY <1>5, <2>2 DEF OpenDb, At, Goto, handlerVars
    <3>2. TypeOK' /\ MainInOrder' /\ HandlersInOrder'
      BY <1>0, <3>1 DEF TypeOK, Early, MainInOrder, Pressed, Stopping, HandlersInOrder
    <3> QED
      BY <2>2, <3>1, <3>2, MainStep
  <2> QED
    BY <1>5, <2>1, <2>2 DEF OpenDb
<1>6. ASSUME ClearTable PROVE Goal
  <2>1. CASE Die("exit -1")
    BY <2>1, DieStep
  <2>2. CASE db = "closed" /\ Die("crashed")
    <3>1. pc = "clear"
      BY <1>6 DEF ClearTable, At
    <3>2. early
      BY <1>0, <2>2, <3>1 DEF MainInOrder, HandlersInOrder, Pressed, Stopping, Handlers, Early
    <3> QED
      BY <2>2, <3>2, DieStep DEF Cause
  <2>3. CASE db = "open" /\ db' = "stmt" /\ Goto("finalize") /\ UNCHANGED <<loc_fd, thpool, listener>>
    <3>1. /\ process = "up" /\ pc = "clear" /\ pc' = "finalize" /\ db = "open" /\ db' = "stmt"
          /\ UNCHANGED <<argv, i, loc_fd, thpool, listener, sessions, hpc, early>>
      BY <1>6, <2>3 DEF ClearTable, At, Goto, handlerVars
    <3>2. TypeOK' /\ MainInOrder' /\ HandlersInOrder'
      BY <1>0, <3>1 DEF TypeOK, Early, MainInOrder, Pressed, Stopping, HandlersInOrder
    <3> QED
      BY <2>3, <3>1, <3>2, MainStep
  <2> QED
    BY <1>6, <2>1, <2>2, <2>3 DEF ClearTable
<1>7. ASSUME Finalize PROVE Goal
  <2>1. /\ process = "up" /\ pc = "finalize" /\ pc' = "socket" /\ db' = "open"
        /\ UNCHANGED <<argv, i, loc_fd, thpool, listener, sessions, hpc, early>>
    BY <1>7 DEF Finalize, At, Goto, handlerVars
  <2>2. TypeOK' /\ MainInOrder' /\ HandlersInOrder'
    BY <1>0, <2>1 DEF TypeOK, Early, MainInOrder, Pressed, Stopping, HandlersInOrder
  <2> QED
    BY <1>7, <2>1, <2>2, MainStep DEF Finalize
<1>8. ASSUME Socket PROVE Goal
  <2>1. CASE Die("exit -1")
    BY <2>1, DieStep
  <2>2. CASE loc_fd' = "open" /\ Goto("bind") /\ UNCHANGED <<db, thpool, listener>>
    <3>1. /\ process = "up" /\ pc = "socket" /\ pc' = "bind" /\ loc_fd' = "open"
          /\ UNCHANGED <<argv, i, db, thpool, listener, sessions, hpc, early>>
      BY <1>8, <2>2 DEF Socket, At, Goto, handlerVars
    <3>2. TypeOK' /\ MainInOrder' /\ HandlersInOrder'
      BY <1>0, <3>1 DEF TypeOK, Early, MainInOrder, Pressed, Stopping, HandlersInOrder
    <3> QED
      BY <2>2, <3>1, <3>2, MainStep
  <2> QED
    BY <1>8, <2>1, <2>2 DEF Socket
<1>9. ASSUME Bind PROVE Goal
  <2>1. CASE Die("exit -1")
    BY <2>1, DieStep
  <2>2. CASE loc_fd = "open" /\ loc_fd' = "bound" /\ Goto("listen") /\ UNCHANGED <<db, thpool, listener>>
    <3>1. /\ process = "up" /\ pc = "bind" /\ pc' = "listen" /\ loc_fd = "open" /\ loc_fd' = "bound"
          /\ UNCHANGED <<argv, i, db, thpool, listener, sessions, hpc, early>>
      BY <1>9, <2>2 DEF Bind, At, Goto, handlerVars
    <3>2. TypeOK' /\ MainInOrder' /\ HandlersInOrder'
      BY <1>0, <3>1 DEF TypeOK, Early, MainInOrder, Pressed, Stopping, HandlersInOrder
    <3> QED
      BY <2>2, <3>1, <3>2, MainStep
  <2> QED
    BY <1>9, <2>1, <2>2 DEF Bind
<1>10. ASSUME Listen PROVE Goal
  <2>1. /\ process = "up" /\ pc = "listen" /\ pc' = "pool"
        /\ \/ loc_fd' = loc_fd
           \/ loc_fd = "bound" /\ loc_fd' = "listening"
        /\ UNCHANGED <<argv, i, db, thpool, listener, sessions, hpc, early>>
    BY <1>10 DEF Listen, At, Goto, handlerVars
  <2>2. TypeOK' /\ MainInOrder' /\ HandlersInOrder'
    BY <1>0, <2>1 DEF TypeOK, Early, MainInOrder, Pressed, Stopping, HandlersInOrder
  <2> QED
    BY <1>10, <2>1, <2>2, MainStep DEF Listen
<1>11. ASSUME PoolInit PROVE Goal
  <2>0. process = "up" /\ pc = "pool"
    BY <1>11 DEF PoolInit, At
  <2>1. CASE Die("crashed")
    BY <2>0, <2>1, DieStep DEF Cause
  <2>2. CASE thpool' \in {"up", "null"} /\ Goto("thread") /\ UNCHANGED <<db, loc_fd, listener>>
    <3>1. /\ pc' = "thread" /\ thpool' \in {"up", "null"}
          /\ UNCHANGED <<argv, i, db, loc_fd, listener, sessions, hpc, early>>
      BY <2>2 DEF Goto, handlerVars
    <3>2. TypeOK' /\ MainInOrder' /\ HandlersInOrder'
      BY <1>0, <2>0, <3>1 DEF TypeOK, Early, MainInOrder, Pressed, Stopping, HandlersInOrder
    <3> QED
      BY <2>0, <2>2, <3>2, MainStep
  <2> QED
    BY <1>11, <2>1, <2>2 DEF PoolInit
<1>12. ASSUME StartListener PROVE Goal
  <2>1. /\ process = "up" /\ pc = "thread" /\ pc' = "console" /\ listener' = "accept"
        /\ UNCHANGED <<argv, i, db, loc_fd, thpool, sessions, hpc, early>>
    BY <1>12 DEF StartListener, At, Goto, handlerVars
  <2>2. TypeOK' /\ MainInOrder' /\ HandlersInOrder'
    BY <1>0, <2>1 DEF TypeOK, Early, MainInOrder, Pressed, Stopping, HandlersInOrder
  <2> QED
    BY <1>12, <2>1, <2>2, MainStep DEF StartListener
<1> HIDE DEF Goal
<1>13. Goal
  BY <1>1, <1>2, <1>3, <1>4, <1>5, <1>6, <1>7, <1>8, <1>9, <1>10, <1>11, <1>12 DEF Main
<1> QED
  BY <1>13 DEF Goal

-----------------------------------------------------------------------------
(* tcp_listen, stop and Ctrl+C *)

\* The other threads' steps; a Ctrl+C during the start-up is remembered as early.
LEMMA SignalActs ==
  ASSUME StartInv,
         AcceptFails \/ Accept \/ AddWork \/ SessionsEnd \/ SessionCrashes
           \/ Stop \/ CtrlC \/ CtrlCAgain \/ SemGone
  PROVE  StartInv'
<1> DEFINE Goal == StartInv'
<1>0. TypeOK /\ MainInOrder /\ HandlersInOrder /\ SettingsSoFar /\ OneDestroysPool
  BY DEF StartInv
<1>1. ASSUME process = "up", process' = "up", listener # "none",
             listener' \in {"accept", "adding", "returned"}, sessions' \in BOOLEAN,
             UNCHANGED <<argv, i, port, queue_length, num_threads, pc, db, loc_fd, thpool, hpc, early>>
      PROVE  Goal
  <2>1. TypeOK' /\ MainInOrder' /\ HandlersInOrder'
    BY <1>0, <1>1 DEF TypeOK, MainInOrder, Pressed, Stopping, HandlersInOrder
  <2>2. SettingsSoFar' /\ OneDestroysPool'
    BY <1>0, <1>1, SettingsStay DEF OneDestroysPool
  <2> QED
    BY <1>1, <2>1, <2>2 DEF StartInv, ExitIsClean, CrashesHaveCause
<1>2. ASSUME AddWork PROVE Goal
  <2>1. listener = "adding" /\ process = "up"
    BY <1>2 DEF AddWork
  <2>2. CASE thpool # "up" /\ Die("crashed")
    <3>1. Cause
      BY <1>0, <2>1, <2>2 DEF TypeOK, MainInOrder, Early, Cause
    <3> QED
      BY <2>2, <3>1, DieStep
  <2>3. CASE ~(thpool # "up" /\ Die("crashed"))
    <3>1. /\ sessions' \in {sessions, TRUE} /\ listener' = "accept" /\ process' = process
          /\ UNCHANGED <<argv, i, port, queue_length, num_threads, pc, db, loc_fd, thpool, hpc, early>>
      BY <1>2, <2>3 DEF AddWork, settings, handlerVars
    <3>2. sessions' \in BOOLEAN
      BY <1>0, <3>1 DEF TypeOK
    <3> QED
      BY <1>1, <2>1, <3>1, <3>2
  <2> QED
    BY <2>2, <2>3
<1>3. ASSUME AcceptFails \/ Accept PROVE Goal
  <2>1. sessions' \in BOOLEAN
    BY <1>0, <1>3 DEF TypeOK, AcceptFails, Accept
  <2> QED
    BY <1>1, <1>3, <2>1 DEF AcceptFails, Accept, settings, handlerVars
<1>4. ASSUME SessionsEnd PROVE Goal
  <2>1. /\ process = "up" /\ process' = "up" /\ sessions' = FALSE
        /\ UNCHANGED <<argv, i, port, queue_length, num_threads, pc, db, loc_fd, thpool, listener, hpc, early>>
    BY <1>4 DEF SessionsEnd, settings, resources, handlerVars
  <2>2. sessions' \in BOOLEAN
    BY <2>1
  <2>3. TypeOK'
    BY <1>0, <2>1, <2>2 DEF TypeOK
  <2>4. MainInOrder' /\ HandlersInOrder'
    BY <1>0, <2>1 DEF MainInOrder, Pressed, Stopping, HandlersInOrder
  <2>5. SettingsSoFar' /\ OneDestroysPool'
    BY <1>0, <2>1, SettingsStay DEF OneDestroysPool
  <2> QED
    BY <2>1, <2>3, <2>4, <2>5 DEF StartInv, ExitIsClean, CrashesHaveCause
<1>5. ASSUME SessionCrashes PROVE Goal
  BY <1>5, DieStep DEF SessionCrashes, Cause
<1>6. ASSUME Stop PROVE Goal
  <2>1. /\ process = "up" /\ process' = "up" /\ pc = "console" /\ pc' = "stop"
        /\ hpc' = [hpc EXCEPT !["stop"] = "db"]
        /\ UNCHANGED <<argv, i, port, queue_length, num_threads, db, loc_fd, thpool, listener, sessions, early>>
    BY <1>6 DEF Stop, At, settings, resources
  <2>2. hpc["stop"] = "idle" /\ hpc'["stop"] = "db" /\ hpc'["signal"] = hpc["signal"]
    BY <1>0, <2>1 DEF TypeOK, MainInOrder, Stopping, Handlers
  <2>3. TypeOK' /\ MainInOrder'
    BY <1>0, <2>1, <2>2 DEF TypeOK, MainInOrder, Pressed, Stopping, Early, Handlers
  <2>4. HandlersInOrder' /\ OneDestroysPool'
    BY <1>0, <2>1, <2>2 DEF HandlersInOrder, OneDestroysPool, Handlers
  <2> QED
    BY <1>0, <2>1, <2>3, <2>4, SettingsStay DEF StartInv, ExitIsClean, CrashesHaveCause
<1>7. ASSUME CtrlC PROVE Goal
  <2>1. /\ process = "up" /\ process' = "up" /\ hpc["signal"] = "idle"
        /\ hpc' = [hpc EXCEPT !["signal"] = "db"]
        /\ early' = (pc \notin {"console", "stop"})
        /\ UNCHANGED <<argv, i, port, queue_length, num_threads, pc, db, loc_fd, thpool, listener, sessions>>
    BY <1>7 DEF CtrlC, settings, resources
  <2>2. hpc'["signal"] = "db" /\ hpc'["stop"] = hpc["stop"] /\ ~Pressed
    BY <1>0, <2>1 DEF TypeOK, Handlers, Pressed
  <2>3. early' \in BOOLEAN
    BY <2>1
  <2>4. TypeOK' /\ MainInOrder'
    <3>1. hpc' \in [Handlers -> {"idle", "db", "socket", "destroy", "join", "exit"}]
      BY <1>0, <2>1 DEF TypeOK
    <3>2. TypeOK'
      <4>1. /\ pc' \in Early \cup {"console", "stop"}
            /\ db' \in {"none", "open", "stmt", "closed"}
            /\ loc_fd' \in {"none", "open", "bound", "listening", "closed"}
            /\ thpool' \in {"none", "null", "up", "closing", "freed"}
            /\ listener' \in {"none", "accept", "adding", "returned"}
        BY <1>0, <2>1, Zenon DEF TypeOK
      <4>2. argv' \in Seq(Words) /\ i' \in Nat \ {0} /\ sessions' \in BOOLEAN
        BY <1>0, <2>1, Zenon DEF TypeOK
      <4> QED
        BY <2>3, <3>1, <4>1, <4>2 DEF TypeOK
    <3>3. MainInOrder'
      BY <1>0, <2>1, <2>2 DEF MainInOrder, Pressed, Stopping, Early
    <3> QED
      BY <3>2, <3>3
  <2>5. HandlersInOrder' /\ OneDestroysPool'
    <3>1. ~early
      BY <1>0, <2>2 DEF MainInOrder
    <3>2. hpc["stop"] \notin {"idle", "db"} => db = "closed"
      BY <1>0, <3>1 DEF HandlersInOrder, Handlers
    <3> QED
      BY <1>0, <2>1, <2>2, <3>1, <3>2 DEF HandlersInOrder, OneDestroysPool, Handlers
  <2> QED
    BY <1>0, <2>1, <2>4, <2>5, SettingsStay DEF StartInv, ExitIsClean, CrashesHaveCause
<1>8. ASSUME CtrlCAgain PROVE Goal
  BY <1>8, DieStep DEF CtrlCAgain
<1>9. ASSUME SemGone PROVE Goal
  BY <1>9, DieStep DEF SemGone
<1> HIDE DEF Goal
<1>10. Goal
  BY <1>2, <1>3, <1>4, <1>5, <1>6, <1>7, <1>8, <1>9
<1> QED
  BY <1>10 DEF Goal

-----------------------------------------------------------------------------
(* shutdown_handler, on either thread *)

\* Its first call. The database is closed twice only if both run it.
LEMMA CloseDbStep ==
  ASSUME StartInv, NEW h \in Handlers, CloseDb(h)
  PROVE  StartInv'
<1>0. TypeOK /\ MainInOrder /\ HandlersInOrder /\ OneDestroysPool /\ hpc[h] = "db" /\ process = "up"
  BY DEF StartInv, CloseDb, HandlerAt
<1>1. CASE Die("exit -1")
  BY <1>1, DieStep
<1>2. CASE db = "closed" /\ Die("crashed")
  <2>1. PICK g \in Handlers : hpc[g] \notin {"idle", "db"}
    BY <1>0, <1>2 DEF HandlersInOrder
  <2>2. Pressed /\ Stopping
    BY <1>0, <2>1 DEF Pressed, Stopping, Handlers
  <2> QED
    BY <1>2, <2>2, DieStep DEF Cause
<1>3. CASE /\ db \in {"none", "open"}
           /\ db' = IF db = "open" THEN "closed" ELSE db
           /\ HandlerGoto(h, "socket")
           /\ UNCHANGED <<loc_fd, thpool, listener>>
  <2>1. /\ hpc' = [hpc EXCEPT ![h] = "socket"]
        /\ UNCHANGED <<argv, i, pc, loc_fd, thpool, listener, sessions, early>>
    BY <1>3 DEF HandlerGoto
  <2>2. /\ hpc'[h] = "socket" /\ \A g \in Handlers : g # h => hpc'[g] = hpc[g]
        /\ hpc' \in [Handlers -> {"idle", "db", "socket", "destroy", "join", "exit"}]
    BY <1>0, <2>1 DEF TypeOK
  <2>3. db = "none" => early
    BY <1>0 DEF MainInOrder, Pressed, Stopping, Early, Handlers
  <2>4. TypeOK'
    BY <1>0, <1>3, <2>1, <2>2 DEF TypeOK
  <2>5. Pressed' = Pressed /\ Stopping' = Stopping
    BY <1>0, <2>2 DEF Pressed, Stopping, Handlers
  <2>6. MainInOrder'
    BY <1>0, <1>3, <2>1, <2>5 DEF MainInOrder
  <2>7. HandlersInOrder'
    BY <1>0, <1>3, <2>1, <2>2, <2>3 DEF HandlersInOrder
  <2>8. OneDestroysPool'
    BY <1>0, <2>2 DEF OneDestroysPool
  <2> QED
    BY <1>0, <1>3, <2>4, <2>6, <2>7, <2>8, HandlerStep
<1> QED
  BY <1>1, <1>2, <1>3 DEF CloseDb

\* The socket is closed once: the other run of the handler, if any, ends here.
LEMMA CloseSocketStep ==
  ASSUME StartInv, NEW h \in Handlers, CloseSocket(h)
  PROVE  StartInv'
<1>0. TypeOK /\ MainInOrder /\ HandlersInOrder /\ OneDestroysPool /\ hpc[h] = "socket" /\ process = "up"
  BY DEF StartInv, CloseSocket, HandlerAt
<1>1. CASE loc_fd \in {"none", "closed"}
  BY <1>1, DieStep DEF CloseSocket
<1>2. CASE loc_fd \notin {"none", "closed"}
  <2>1. /\ HandlerGoto(h, "destroy") /\ hpc' = [hpc EXCEPT ![h] = "destroy"] /\ loc_fd' = "closed"
        /\ UNCHANGED <<argv, i, pc, db, thpool, listener, sessions, early>>
    BY <1>2 DEF CloseSocket, HandlerGoto
  <2>2. /\ hpc'[h] = "destroy" /\ \A g \in Handlers : g # h => hpc'[g] = hpc[g]
        /\ hpc' \in [Handlers -> {"idle", "db", "socket", "destroy", "join", "exit"}]
    BY <1>0, <2>1 DEF TypeOK
  <2>3. \A g \in Handlers : hpc[g] \notin {"destroy", "join", "exit"}
    BY <1>0, <1>2 DEF HandlersInOrder
  <2>4. TypeOK'
    BY <1>0, <2>1, <2>2 DEF TypeOK
  <2>5. Pressed' = Pressed /\ Stopping' = Stopping
    BY <1>0, <2>2 DEF Pressed, Stopping, Handlers
  <2>6. MainInOrder'
    BY <1>0, <1>2, <2>1, <2>5 DEF MainInOrder
  <2>7. HandlersInOrder'
    BY <1>0, <2>1, <2>2, <2>3 DEF HandlersInOrder
  <2>8. OneDestroysPool'
    BY <2>2, <2>3 DEF OneDestroysPool
  <2> QED
    BY <1>0, <2>1, <2>4, <2>6, <2>7, <2>8, HandlerStep
<1> QED
  BY <1>1, <1>2

\* thpool_destroy is called once, and crashes only without a pool.
LEMMA DestroyPoolStep ==
  ASSUME StartInv, NEW h \in Handlers, DestroyPool(h)
  PROVE  StartInv'
<1>0. TypeOK /\ MainInOrder /\ HandlersInOrder /\ OneDestroysPool /\ hpc[h] = "destroy" /\ process = "up"
  BY DEF StartInv, DestroyPool, HandlerAt
<1>1. CASE thpool # "up"
  <2>1. thpool \notin {"closing", "freed"}
    <3>1. \A g \in Handlers : hpc[g] \in {"join", "exit"} => g = h
      BY <1>0 DEF OneDestroysPool
    <3> QED
      BY <1>0, <3>1 DEF HandlersInOrder
  <2>2. thpool = "none" => early
    BY <1>0 DEF MainInOrder, Pressed, Stopping, Early, Handlers
  <2>3. Cause
    BY <1>0, <1>1, <2>1, <2>2 DEF TypeOK, Cause
  <2> QED
    BY <1>1, <2>3, DieStep DEF DestroyPool
<1>2. CASE thpool = "up"
  <2>1. /\ HandlerGoto(h, "join") /\ hpc' = [hpc EXCEPT ![h] = "join"] /\ thpool' = "closing"
        /\ UNCHANGED <<argv, i, pc, db, loc_fd, listener, sessions, early>>
    BY <1>2 DEF DestroyPool, HandlerGoto
  <2>2. /\ hpc'[h] = "join" /\ \A g \in Handlers : g # h => hpc'[g] = hpc[g]
        /\ hpc' \in [Handlers -> {"idle", "db", "socket", "destroy", "join", "exit"}]
    BY <1>0, <2>1 DEF TypeOK
  <2>3. \A g \in Handlers : hpc[g] \notin {"join", "exit"}
    BY <1>0, <1>2 DEF HandlersInOrder
  <2>4. TypeOK'
    BY <1>0, <2>1, <2>2 DEF TypeOK
  <2>5. Pressed' = Pressed /\ Stopping' = Stopping
    BY <1>0, <2>2 DEF Pressed, Stopping, Handlers
  <2>6. MainInOrder'
    BY <1>0, <1>2, <2>1, <2>5 DEF MainInOrder
  <2>7. HandlersInOrder'
    BY <1>0, <2>1, <2>2, <2>3 DEF HandlersInOrder
  <2>8. OneDestroysPool'
    BY <1>0, <2>2 DEF OneDestroysPool
  <2> QED
    BY <1>0, <2>1, <2>4, <2>6, <2>7, <2>8, HandlerStep
<1> QED
  BY <1>1, <1>2

\* The pool is joined and freed by the handler that destroyed it.
LEMMA JoinPoolStep ==
  ASSUME StartInv, NEW h \in Handlers, JoinPool(h)
  PROVE  StartInv'
<1>0. TypeOK /\ MainInOrder /\ HandlersInOrder /\ OneDestroysPool /\ hpc[h] = "join" /\ process = "up"
  BY DEF StartInv, JoinPool, HandlerAt
<1>1. /\ HandlerGoto(h, "exit") /\ hpc' = [hpc EXCEPT ![h] = "exit"] /\ thpool' = "freed"
      /\ UNCHANGED <<argv, i, pc, db, loc_fd, listener, sessions, early>>
  BY DEF JoinPool, HandlerGoto
<1>2. /\ hpc'[h] = "exit" /\ \A g \in Handlers : g # h => hpc'[g] = hpc[g]
      /\ hpc' \in [Handlers -> {"idle", "db", "socket", "destroy", "join", "exit"}]
  BY <1>0, <1>1 DEF TypeOK
<1>3. \A g \in Handlers : g # h => hpc[g] \notin {"destroy", "join", "exit"}
  BY <1>0 DEF OneDestroysPool
<1>4. TypeOK'
  BY <1>0, <1>1, <1>2 DEF TypeOK
<1>5. Pressed' = Pressed /\ Stopping' = Stopping
  BY <1>0, <1>2 DEF Pressed, Stopping, Handlers
<1>6. thpool = "closing"
  BY <1>0 DEF HandlersInOrder
<1>7. MainInOrder'
  BY <1>0, <1>1, <1>5, <1>6 DEF MainInOrder
<1>8. HandlersInOrder'
  BY <1>0, <1>1, <1>2, <1>3 DEF HandlersInOrder
<1>9. OneDestroysPool'
  BY <1>2, <1>3 DEF OneDestroysPool
<1> QED
  BY <1>0, <1>1, <1>4, <1>7, <1>8, <1>9, HandlerStep

\* exit(0) at the end of the handler.
LEMMA ExitStep ==
  ASSUME StartInv, NEW h \in Handlers, Exit(h)
  PROVE  StartInv'
<1>1. hpc[h] = "exit" /\ Die("exit 0")
  BY DEF Exit, HandlerAt
<1>2. Clean
  BY <1>1 DEF StartInv, HandlersInOrder, Clean
<1> QED
  BY <1>1, <1>2, DieStep

-----------------------------------------------------------------------------
(* The invariant *)

\* It holds at the start, for any command line.
LEMMA StartInit == Init => StartInv
<1> SUFFICES ASSUME Init PROVE StartInv
  OBVIOUS
<1>1. TypeOK
  <2>1. PICK n \in 0..MaxArgs : argv \in [1..n -> Words]
    BY DEF Init
  <2>2. argv \in Seq(Words)
    BY <2>1, StartAssumption
  <2>3. hpc \in [Handlers -> {"idle", "db", "socket", "destroy", "join", "exit"}]
    BY DEF Init
  <2>4. i \in Nat \ {0}
    BY DEF Init
  <2>5. early \in BOOLEAN
    BY DEF Init
  <2> QED
    BY <2>2, <2>3, <2>4, <2>5 DEF Init, TypeOK, Early
<1>2. MainInOrder /\ HandlersInOrder
  BY DEF Init, MainInOrder, HandlersInOrder, Pressed, Stopping, Early, Handlers
<1>3. SettingsSoFar
  <2>1. \A name, range : GivenBefore(1, name, range) = {}
    BY DEF GivenBefore
  <2> QED
    BY <2>1 DEF Init, SettingsSoFar, LastOf
<1>4. OneDestroysPool /\ ExitIsClean /\ CrashesHaveCause
  BY DEF Init, OneDestroysPool, ExitIsClean, CrashesHaveCause
<1> QED
  BY <1>1, <1>2, <1>3, <1>4 DEF StartInv

\* Every step keeps it.
LEMMA StartNext == StartInv /\ [Next]_vars => StartInv'
<1> SUFFICES ASSUME StartInv, [Next]_vars PROVE StartInv'
  OBVIOUS
<1> DEFINE Goal == StartInv'
<1>1. ASSUME UNCHANGED vars PROVE Goal
  <2>1. Die(process)
    BY <1>1 DEF vars, Die
  <2>2. (process = "crashed" => Cause) /\ (process = "exit 0" => Clean)
    BY DEF StartInv, CrashesHaveCause, Cause, ExitIsClean, Clean
  <2> QED
    BY <2>1, <2>2, DieStep
<1>2. ASSUME Main PROVE Goal
  BY <1>2, MainActs
<1>3. ASSUME AcceptFails \/ Accept \/ AddWork \/ SessionsEnd \/ SessionCrashes
               \/ Stop \/ CtrlC \/ CtrlCAgain \/ SemGone
      PROVE  Goal
  BY <1>3, SignalActs
<1>4. ASSUME NEW h \in Handlers, Handler(h) PROVE Goal
  <2> HIDE DEF Goal
  <2>1. ASSUME CloseDb(h) PROVE Goal
    BY <2>1, CloseDbStep DEF Goal
  <2>2. ASSUME CloseSocket(h) PROVE Goal
    BY <2>2, CloseSocketStep DEF Goal
  <2>3. ASSUME DestroyPool(h) PROVE Goal
    BY <2>3, DestroyPoolStep DEF Goal
  <2>4. ASSUME JoinPool(h) PROVE Goal
    BY <2>4, JoinPoolStep DEF Goal
  <2>5. ASSUME Exit(h) PROVE Goal
    BY <2>5, ExitStep DEF Goal
  <2> QED
    BY <1>4, <2>1, <2>2, <2>3, <2>4, <2>5 DEF Handler
<1> HIDE DEF Goal
<1>5. Goal
  BY <1>1, <1>2, <1>3, <1>4 DEF Next, Over
<1> QED
  BY <1>5 DEF Goal

\* Whatever is on the command line, and whenever Ctrl+C and stop come, what there is
\* agrees with how far main and each shutdown_handler have come (P2PFileServer.cpp).
THEOREM StartInductive == Spec => []StartInv
<1> QED
  BY StartInit, StartNext, PTL DEF Spec

-----------------------------------------------------------------------------
(* What the run checks. *)

\* SettingsAreLastGiven: the server starts with the last acceptable value of each
\* option, however options, values and refused values follow each other (main).
THEOREM SettingsAlwaysLastGiven == Spec => []SettingsAreLastGiven
<1>1. StartInv => SettingsAreLastGiven
  <2> SUFFICES ASSUME StartInv, pc # "args" PROVE SettingsAreLastGiven
    BY DEF SettingsAreLastGiven
  <2>1. i \in Nat /\ Len(argv) \in Nat /\ i > Len(argv)
    BY DEF StartInv, TypeOK, MainInOrder
  <2>2. \A k \in 1..(Len(argv) - 1) : k < i
    BY <2>1
  <2>3. ASSUME NEW name, NEW range, NEW default
        PROVE  LastGiven(name, range, default) = LastOf(GivenBefore(i, name, range), default)
    <3>1. {k \in 1..(Len(argv) - 1) :
             argv[k].option = name /\ argv[k + 1].digits /\ argv[k + 1].value \in range}
            = GivenBefore(i, name, range)
      BY <2>2 DEF GivenBefore
    <3>2. LastGiven(name, range, default) =
            LastOf({k \in 1..(Len(argv) - 1) :
                      argv[k].option = name /\ argv[k + 1].digits /\ argv[k + 1].value \in range}, default)
      BY DEF LastGiven, LastOf
    <3> QED
      BY <3>1, <3>2
  <2> QED
    BY <2>3 DEF StartInv, SettingsSoFar, SettingsAreLastGiven
<1> QED
  BY <1>1, StartInductive, PTL

\* CrashesHaveCause: only the message about the port, a missing pool, an early Ctrl+C,
\* Ctrl+C together with stop, a session, or thpool_destroy while a client is being added
\* crash the server at start-up or shutdown.
THEOREM StartCrashesHaveCause == Spec => []CrashesHaveCause
<1>1. StartInv => CrashesHaveCause
  BY DEF StartInv
<1> QED
  BY <1>1, StartInductive, PTL

\* OneDestroysPool: of stop and Ctrl+C only one gets past the socket to
\* thpool_destroy (shutdown_handler).
THEOREM OnlyOneDestroysPool == Spec => []OneDestroysPool
<1>1. StartInv => OneDestroysPool
  BY DEF StartInv
<1> QED
  BY <1>1, StartInductive, PTL

\* ExitIsClean: exit(0) comes after the jobs have returned and everything is closed,
\* unless Ctrl+C came before there was a database to close.
THEOREM ExitAlwaysClean == Spec => []ExitIsClean
<1>1. StartInv => ExitIsClean
  BY DEF StartInv
<1> QED
  BY <1>1, StartInductive, PTL

=============================================================================
