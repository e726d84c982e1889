# A TLA+ model of the P2P file-sharing system

The repository holds two Windows programs:

* **P2PFileServer**, the index server. Peers log in to it over TCP, tell it
  which files they share, list the files of all peers, and ask who has a file.
  Files never pass through it.
* **P2PPeer**, the peer. One thread reads a menu and talks to the index server
  and to other peers; a second thread serves this peer's files to others.

This directory specifies both in TLA+, checks small instances with TLC, and
proves every safety property the passing runs check with TLAPS for every instance.
`PROJECT.json` lists the runs, the source lines behind every definition, the
hazards and the theorems.

## Inventory

| part | code | state | operations | what makes it hard | specification |
|---|---|---|---|---|---|
| Thread pool | `thpool.c`, `thpool.h` | `thpool_keepalive`, one mutex, one semaphore, job list | `thpool_thread_do`, `thpool_add_work`, `thpool_destroy` | workers, adders and the destroyer run concurrently; shutdown races with all | `ThreadPool`, `JobDispatch`, proofs in `ThreadPoolProofs` |
| Job list | `thpool_jobqueue_*` | `head`, `tail`, `jobsN`, link fields of blocks | add, peek, removelast, empty | memory is reused with stale links; the pool empties it without a lock | `JobQueue`, under the pool in `PoolOnList`, proofs in `PoolOnListProofs` |
| Index server | `P2PFileServer.cpp` | `params`, `c_count`, per-session copies, the table of files, open statements | `tcp_listen`, `p2p`, `shutdown_handler`, `print_stats` | one thread per client, shared variables without a lock, shutdown under live sessions | `FileServer`, proofs in `FileServerProofs` |
| Dialogue peer - server | `PeerClient.cpp`, `P2PPeer.cpp`, `p2p` | bytes on the connection, `logged` | login, add, delete, list, get, quit | TCP has no message boundaries; early returns leave replies unread; a verdict is looked for in text that may be a path; a query that never comes to its end; the connection is lost | `Dialogue`, proofs in `DialogueProofs` |
| Transfer peer - peer | `FileManage::sendFile`, `recvFile` | bytes on the connection, the target file | send name, `TransmitFile`, recv loop | the end of the file is guessed from a short recv; failures of the disk, of `TransmitFile` and of the connection go unnoticed; a target that exists is not truncated | `FileTransfer`, proofs in `FileTransferProofs` |
| Peer's server | `PeerServer.cpp` | `g_SocketArr`, `g_iTotalConn`, `fdread`; Winsock, shared with `PeerClient` | constructor, `workerThread`: select, accept, recv, send | clients come and go during a scan; removal during iteration; a client that stops reading holds up the thread; another thread's `WSACleanup` | `PeerServer`, proofs in `PeerServerProofs` |
| File hash | `FileManage::getFileHash`, `HashSH1.cpp` | `SHA1_CTX` | read loop, update, transform, final | boundaries of blocks, two-word counter, byte order, a schedule overwritten in place | `FileHash`, `SHA1`, proofs in `FileHashProofs` |
| Start-up and stop | `main`, `arg_*`, `shutdown_handler` in `P2PFileServer.cpp` | settings, `db`, `loc_fd`, `thpool`, the threads | options, each step of the start-up, `stop`, Ctrl+C | Ctrl+C runs on a thread of its own from before anything is opened; the pool is destroyed under sessions that wait for their clients | `ServerStart`, proofs in `ServerStartProofs` |
| SQLite, `Thread.*`, unit tests, project files | vendored, commented out, two smoke tests | - | - | - | not modelled |

How they interact: `tcp_listen` accepts a connection and calls
`thpool_add_work` with a pointer to its local variable; a worker of the pool
runs `p2p` on it until the client quits; `shutdown_handler`, on the console
thread for `stop` and on another one for Ctrl+C, closes the database and calls
`thpool_destroy`. A client's `getFile`
asks the index server (`Dialogue`), connects to the peer named in the answer
(`PeerServer`), sends the path and receives the file (`FileTransfer`).
`addFile` sends the hash computed by `getFileHash` (`FileHash`). `PeerClient`
and `PeerServer` are threads of one process: a `connect` of the first that
fails calls `WSACleanup`, and the second such call takes the sockets of both.

## What makes each part correct

* Pool: no job is lost, run twice or freed twice; a worker woken by the
  semaphore finds a job unless it was woken to leave; shutdown wakes everybody
  and returns; jobs start oldest first.
* Job list: walking it from either end gives the queue; nothing leaks.
* Index server: a session serves one client and files under that client's
  address; acknowledged files are listed while the client is logged in, and no
  others; the client count is right; a QUIT ends in a disconnection; the server
  ends only for causes that can be named.
* Dialogue: every reply is read by the call that caused it; a list reported as
  complete is complete; calls return.
* Transfer: what is written is the file's bytes in their order; a download
  reported as complete is all of it; both sides come to an end.
* Peer's server: every request is answered; the array of sockets holds the open
  sockets and the listener; no scan blocks or forgets a socket.
* Hash: the digest is that of the file, however it was read.
* Start-up and stop: the settings are those last given; a stop ends the process
  whenever it comes, and the pool is destroyed once.

The code does not keep all of this. Where it does not, a violation run shows the
failure, or the passing runs state exactly under which condition it keeps it, and
the theorems prove that for every instance.

## Modules and how they correspond to the code

**`JobDispatch`** is the abstract pool: jobs are pending, running, done or
discarded. It says what `thpool.h` (lines 39-43 and 148-149) promises.

**`ThreadPool`** has one step for each access of a thread to shared state.
`pc[w]` is a worker's place in `thpool_thread_do` (`LoopTest` is line 88,
`SemWait` 90, `Recheck` 95, then lock, peek, remove, unlock, run). `apc[a]` is a
caller of `thpool_add_work`, `dpc` the caller of `thpool_destroy`. `queueSem`
is the semaphore; workers blocked on it have `pc = "blocked"` and are released
by a post. `semLive` turns false at `sem_destroy`. `AddRaces` is the adder that
is still linking a job while `thpool_jobqueue_empty`, which takes no lock,
frees the list. The queue is a sequence here.

**`JobQueue`** is the list behind that sequence, with real link fields and
blocks that `malloc` returns with whatever they held. Its history variable
`order` is the sequence, and its invariants say that a walk over the links
gives it.

**`PoolOnList`** composes the two: each step of `ThreadPool` that touches the
queue is conjoined with the step of `JobQueue` the code takes there, and
`content` says which job is in which block, `held` which block a worker has
peeked. `ListIsQueue` says that the blocks, read in order, hold the jobs of the
pool's sequence, so that what is proved of `ThreadPool` is about the list: every
behaviour of the composition is one of the pool (`ListRefinesPool`).

**`ServerStart`** is `main`: `argv` is any command line of up to `MaxArgs`
words, `pc` the place in `main`, `db`, `loc_fd`, `thpool` and `listener` what
has been opened, and `hpc` where each of the two runs of `shutdown_handler` is
(`stop` on the main thread, `signal` after Ctrl+C). `early` remembers that
Ctrl+C came before start-up was over, where the code uses what is not there.
`sessions` stands for all jobs of clients: they may crash (`SessionCrashes`, for
the causes in `FileServer`) and they may never return. `thpool_destroy` is
`DestroyPool` and `JoinPool`, which waits for them; in between an idle worker may
find the semaphore gone (`SemGone`) and the listener may add a job to a pool that is
taken down (`AddWork`), with the outcomes `ThreadPool` has for them. An `accept` may
fail at any time and ends the listener (`AcceptFails`).

**`FileServer`** puts sessions on top of `JobDispatch`, which `ThreadPool`
implements, so that the interleavings of the pool need not be repeated. The
listener's steps are `Accept`, the accesses of `c_count`, `WriteFd`, `WriteIp`,
`AddWork`; a session copies `params` in two steps (`CopyFd`, `CopyIp`) since
nothing protects it, greets, handles requests and leaves (`GoodbyeReadsCount`
... `CloseConn`). The console's `stat` and `shutdown_handler` are steps as
well. An `accept` may fail at any time: `tcp_listen` returns, and with it goes
`params`, so that a job that has not copied it reads what is left on the stack
(`AcceptFails`, then `CopyFd` or `CopyIp`). The table is a set of (file, address) pairs. `Die` is the
end of the process by `exit` or a crash; `Overrun` is the one of a path that does not
fit into the text of a statement (`Long`). A change of `c_count` that overwrites
another sets `lost`, after which the value is not followed any further; a job whose
`params` were written again before it had copied them is in `overtaken`.

**`Dialogue`** is one client against one session. Each reply carries the number
of the request it answers (history only), so that "in step" can be stated.
`Answers` is the sequence of replies `p2p` sends to each request, `Verdict`
what `PeerClient` makes of what one `recv` returned. A `recv` of either side returns
any number of the messages that have arrived, and may cut the last one (`Chunks`):
the string the client judges, or the one message the server sees, is then made of
them. A row is known by its path only: one that begins with OK, one with ERROR in it,
and the others (`Rows`). A query sends what each step yields, an ERROR or a row of
nothing among them, and one that fails does not come to its end (`endless`).
`download` is the place of `getFile` between a row and the next `recv`, while the
server sends on. `link` is the connection, which may not come about or break at any
moment (`LinkBreaks`). `glued` and `endLost` remember the replies that came behind
another one in a `recv`; `clean` turns false when a message is cut or something has
failed that leaves the two sides out of step.

**`FileTransfer`** numbers the bytes of the name up to 0 and those of the file from 1;
`Buffer` stands for `TRANS_FILE_LENGTH`, `Window` for what the connection holds. Every
`recv`, the first one too, returns any number of the bytes that are there. `WriteFile`
may write less than it is given, `TransmitFile` may fail and leave the connection
open (`TransmitFails`), the file may be gone (`OpenFile`), the connection may break.
`mishaps` names what has gone wrong in a way `recvFile` does not notice. `existing` is
the length of the file the target path named before, and `Saved` what is on the disk
in the end.

**`PeerServer`** has slot numbers from 1 where the code counts from 0. `Accept`
is the branch `i == 0`; `Pick` that of other slots; `RecvPath`, `RecvEnd`,
`RecvFails` are the outcomes of the one `recv` (a request; 0 or
`WSAECONNRESET`; another error). `StaleRequest` is what the code does after a
`recv` that failed otherwise: it serves `szMessage` as it is. A socket
`TransmitFile` has disconnected keeps its slot. A client that takes a short `recv` for
the end of its file, or cannot create its target, reads no more and leaves the
connection open (`GiveUp`, `deaf`); `TransmitFile` then waits for it (`Stall`) until the
connection ends (`StallEnds`). `Refuse` is an `accept` that fails while the socket
listens: the branch goes on with `INVALID_SOCKET`. `started` is what the
constructor came to, `ConnectFails` a failed connect of `PeerClient`, of which
the second ends every socket. What `select`, `recv` and a leaving client do is
external and described at the operators.

**`FileHash`** follows `getFileHash`, `SHA1Update` and `SHA1Final` on bytes and
keeps the sequence of blocks the compression function is given. `Stream` is what
the context has been given so far, in the blocks and in the used part of the
buffer, and `Padded` the message of the standard. **`SHA1`**, which `FileHash`
extends, is that function, `SHA1Transform`, round by round on words of 32 bits (as
two halves; the logical operations go by the places of the binary digits), next to
the standard's definition with its eighty-word schedule. `DigestBytes` is what
`getFileHash` makes of the blocks with it.
`LITTLE_ENDIAN` is defined nowhere in the project, so the code reads each word
of a block with the lowest byte first: the digest is SHA-1 of the file with the
bytes of each word reversed, not the published one. `DigestIsSHA1` says exactly
that, and two assumptions of `MCFileHash` check the reference on the standard's
example and that the code's digest of it is another. Both peers compute it in
the same way, so nothing between them depends on it.

`MCThreadPool`, `MCFileServer` and `MCFileHash` give the constants of the larger modules
their values; the other configurations use model values and numbers directly.
Operators marked *Mutant* are variants of the operator that follows them with a
plausible mistake; `PROJECT.json` names the property each of them breaks.

## Runs

| run | bounds | shows |
|---|---|---|
| `pool` | `PoolOnList`: 2 workers, 1 adder, 3 jobs, 3 blocks | the invariants of the pool and of the list together, every job runs, shutdown returns, and the pool on its list implements `JobDispatch` |
| `pool_destroy` | the pool alone, 2 workers, 3 jobs | **violation**: `thpool_destroy` can end the process under a running job, contrary to `thpool.h` |
| `server` | 2 clients with their own addresses, arriving in any rhythm, one that may vanish at any moment (`Steady` names the other), 1 file, whose path is too long for a statement whenever that may happen, 2 threads | six safety properties and that QUIT disconnects, with shutdown, failing accepts and table operations |
| `server_burst` | the same, both may vanish | **violation**: two workers serve one client and nobody the other |
| `server_one_addr` | the same, one address | **violation**: one peer's DELETE removes the row of another, which is logged in |
| `start` | command lines of up to 4 words, 3 numbers, every failure | settings are the last acceptable ones, one run of `shutdown_handler` destroys the pool, an exit is clean, crashes have a known cause, a stop ends if the sessions do |
| `dialogue` | 2 requests besides login and QUIT, 2 rows of 3 kinds, any division into `recv`s, the connection lost at any moment | in step, what a list shows adds up, crashes have a cause, calls return |
| `dialogue_stream` | the same | **violation**: rows are missing from a list reported complete |
| `transfer` | files and existing targets up to 7 bytes, buffer of 3, a name of 2, a window of 4, any `recv` | bytes are written in order; a complete download is the file exactly when no `recv` was unlucky and the target was not longer; both sides end |
| `transfer_stream` | files up to 5 bytes, a name of 1 | **violation**: a file is reported complete and is not |
| `peer_server` | 3 clients, an array of 3, 2 calls of `WSACleanup` | the array of sockets, scans, outages and answers |
| `hash` | 12 lengths up to 200 bytes, blocks of 64, pieces of 100, a counter word of 1024, errors cutting a piece to 0, 1, 63 or 64 bytes | the digest covers file, padding and length, and is SHA-1 up to byte order; hashing returns |

Why the bounds are enough to be of interest: two workers are the fewest that
can steal from each other, and three jobs let one run while two wait; three
blocks for three jobs are all in the list at once, and each is reused in other
positions because jobs end in any order, with the garbage `Junk` in its links;
two clients are all that the defects of `params`, `c_count` and shared addresses
need, and one of them that vanishes meets one that does not; four words are two options with their values, so an option can be given
twice, lack its value or have a bad one; two rows are the fewest of which one
can be lost behind the other, with two requests so that one call can leave replies to
the next; two and a third buffers of three bytes cover no, one and two full pieces,
exact multiples and a rest, a name that is cut or comes with data, a `recv` that is
short by one byte or two, and a target shorter, as long and longer; three clients with two free slots let the last socket be moved into a
freed slot, be pending at that moment, and let the array overflow; 200 bytes
cover files of less than a block, exact multiples of a block, padding that fits
the last block (55) and that needs another one (56), pieces that end inside a
block, and a counter word that wraps after two blocks, as the code's does after
512 MiB.

The passing runs assume nothing of the rhythm of connections, of how TCP divides what
is sent, or that clients, the disk and the connection behave. Files differ in name, so
that a (file, address) pair is one row. `server` gives every client its own address,
because `AckedFilesListed` is what `server_one_addr` refutes; `AloneAckedListed`, which it
checks, is stated and proved for any addresses. In `FileServer` a message of the client
is received whole, and in `Dialogue` a string that has been cut is followed for the
piece it ends and the piece the next one begins with; what is in a piece is left open.

Where the code does not keep what one would want of it, the property says what it does
keep and names the rest:

* `OwnConnection` is about the jobs that were not overtaken, `NeverServesEarlier` about
  all: what a job copies may be too new and never too old. `AloneAckedListed` is about
  peers no other session shares the address of. `RowsHaveOwners` counts as an owner a
  session that spins for a client that has vanished, since such a session does not end.
  `CountIsClients` holds until an update is lost, which two overlapping
  `c_count += change` bring about.
* `CrashesHaveCause` names the ways in which a process ends; the modules
  `FileServer`, `ServerStart` and `Dialogue` each have one. In `FileServer` they are a
  shutdown, a listener that has returned, params overwritten, a client gone without
  farewell, and besides, under a name of its own, a path too long. In `ServerStart` they
  are the message about the port, memory, an early or a second run of
  `shutdown_handler`, the sessions, and a client being added to a pool that goes. In
  `Dialogue`, `getFile` follows a null pointer only after a failure or a cut
  message, or when the server has closed the connection.
* `InStep` and `ListAddsUp` hold while no message was cut and nothing has failed, for a
  failed DELETE has two answers and an early return leaves replies unread. `ListAddsUp`
  says that only rows behind another one are missing. `CallReturns` names, besides, the
  OK that comes behind a row, for which `showFileList` and `getFile` wait for ever: two
  rows and a download between them are enough.
* `WholeIffUndisturbed` needs a sound disk and connection, because both reports of
  failure are ignored. `TransferEnds` excepts the sender that cannot send the file and
  leaves the connection open, and the receiver that stopped reading.
* `OutagesHaveCause` says when `PeerServer` stops listening or crashes: a constructor
  that fails, two failed connects of `PeerClient`, an array that is full, a failed
  `accept`, or a client that leaves between its connection and the `recv` of its path,
  which makes `workerThread` remove slot 0, the listener, instead of the new client's
  slot; the run reaches all of them. `RequestsAnswered` excepts these and the thread
  that `TransmitFile` holds up for a client that reads no more.
* `SettingsAreLastGiven` states what the code does with a value it refuses, which is not
  what its messages say: the default is not restored.

## Fairness

* `ThreadPool` and `PoolOnList`: weak fairness of every worker, of the steps of a started
  `thpool_add_work` and of a started `thpool_destroy`: threads are scheduled and
  the function of a job returns. Nothing makes the server add or stop.
* `FileServer`: weak fairness of each session. Nothing is assumed of the
  listener, the clients or the operator.
* `Dialogue`: weak fairness of the session and of the client's reading; the user
  need not choose another operation, and a download need not end, which is why
  `CallReturns` has that as its premise.
* `ServerStart`: weak fairness of `main` and of each run of `shutdown_handler`.
  Nobody has to press Ctrl+C, give a command or connect, and no session has to end:
  `StopEnds` has that as its premise, because `pthread_join` waits for sessions and
  they for their clients.
* `FileHash`: weak fairness of the one thread; `fread` returns.
* `FileTransfer`: weak fairness of both peers; the connection may break.
* `PeerServer`: weak fairness of its one thread; an `accept` does not fail for ever;
  and a client that has connected sends its path, as `getFile` does in the next
  statement. Without that the thread, which waits for the path in `recv`, serves nobody
  else. A client need not read, and one that has stopped reading need not leave.

## Proofs

Each module of proofs begins with its inductive invariant, which no run checks: it
is the safety properties and the types, which the runs check, and what they need to
be inductive.

`ThreadPoolProofs` proves, for any finite non-empty set of workers, any finite
set of adders and any set of jobs (`PoolAssumption`), that the pool's invariants
hold in every reachable state: `TypeCorrect`, `TokensAlwaysMatchJobs`,
`QueueNeverEmptyOnPeek`, `JobsStayInOnePlace`, `NobodyEverLeftAsleep`.
It also proves `PoolImplementsDispatch`: every behaviour of the pool is one of
`JobDispatch` under the mapping at the end of `ThreadPool`.

None of these is inductive by itself. `IInv` adds

* `TokensMatchJobs`: until shutdown the queue's length is the semaphore's value
  plus the released workers plus the jobs linked and not yet posted. With it, a
  worker that has decided to take a job finds one (`NeverNullJob`). During
  shutdown, when posts come without jobs, only the second half is left: the
  workers committed before do not outnumber the jobs;
* `NoLostWakeup`, `DestroyPhases` and `PostsReachWorkers`: each of the
  `threadsN` posts is in the semaphore or has released a worker that will not
  wait again, so after the last post nobody can be blocked
  (`NobodyLeftAsleep`);
* `MutexHeld` and `PeekedFirst`: the job a worker removes is the one it peeked;
* `HandsFull` and `EmptiedLast`: where a job can be (`JobsInOnePlace`).

One lemma per conjunct proves that each action keeps it (`TypeStep`,
`MutexStep`, ..., `PlaceStep`). The counting rests on `MoveOne`: how the
cardinality of "the threads at places P" changes when one thread moves. The
refinement has one step per action (`StepSimulated`): taking a job is `Start`,
and `RoomToRun` says that a worker between peek and removal leaves a thread
free; everything the abstract pool does not see is a stutter.

`FileTransferProofs` proves `AlwaysWrittenInOrder` and `AlwaysWholeIffUndisturbed`
for any buffer, name, window and longest file (`BufferAssumption`), however many bytes
each `recv` returns. Neither is inductive: both speak of the bytes written, and a step
of the receiver writes what the sender put into the stream earlier. `IInv` adds that
the stream is a run of consecutive bytes that ends with the last one sent (`Progress`),
that what is written comes before it (`Ordered`) and begins behind what the first
`recv` took (`Contiguous`), that every byte sent was skipped, written or is in the
stream (`Accounted`), and that the receiver stops behind the last byte unless a short
`recv` stopped it (`StopsAtEnd`). The lemmas `Concatenation` and `Split` say that
joining and cutting runs of consecutive numbers gives such runs.

`PeerServerProofs` proves `SlotsAlwaysAreSockets`, `PickedAlwaysReturns` and
`ScansAlwaysTurnToAll` for any set of clients and any length of the array
(`ServerAssumption`). None is inductive, since each depends on where the scan
stands in an array that changes under it. `IInv`
adds

* `OneSlotEach` and `BacklogIsNew`: no socket is twice in the array or in the
  backlog, and one that waits for `accept` has not been seen by the thread;
* `CurHasSlot`: the socket of a request is that of slot `i`, or, in the branch
  of slot 1, the new last one: that is why a removal at slot 1 takes the
  listener, and elsewhere the socket just closed;
* `ScanBehind`: what select has reported was asked or is at a slot from
  `NextSlot` on, and not both, which moving the last slot to slot `i` keeps;
* `StillReady`: what select has reported stays so until the scan comes to it,
  because only the thread itself reads requests.

One lemma per action shows that it keeps `IInv`; `RemovedSlots` says what is
left after a removal, `AppendSlot` and `TakeFirst` what `accept` does to the two
sequences, `WhenRecvReturns` when a `recv` does not block.

`OutagesAlwaysHaveCause` needs the history of a request besides
(`RequestsInOrder`): the removal of slot 1 takes the listener, and it happens only
when the `recv` of a client just accepted finds nothing, so that client has left
before its path was read; and the array is never longer than `FdSetSize`.
`BlameStays` says that a cause, once there, remains.

`PoolOnListProofs` proves `ListAlwaysIsQueue`, `HeadWalkAlwaysIsQueue` and
`HeapAlwaysAccounted` for one adder, as `tcp_listen` is, any finite set of
workers, any jobs and any blocks, and `ListRefinesPool`. `ListIInv` is the pool's
`IInv` with

* `ListLinked`: neighbours in `order` are linked to each other both ways, the ends
  are `head` and `tail`, and no block comes twice. Only the fields `prev` are
  still right when `thpool_jobqueue_empty` has begun;
* `PlacesApart` and `BlocksCounted`: an allocated block is in the list, with a
  worker, or about to be added;
* `BlocksHoldJobs`: the contents of the blocks, in order, are the pool's sequence,
  and a worker about to remove a block holds the one at the tail;
* `EmptyingPhase`: the loop over the list runs in its phase of the shutdown.

That a walk along the links gives `order` (`WalkFollows`) is an induction over its
steps. The provers cannot use the library's induction theorems, so here as
elsewhere such an argument takes the least counterexample (`LeastNat`).

`FileServerProofs` proves two layers, for any finite set of connections, any addresses
and files, and any rhythm (`ConnsAssumption`). `BaseInv` says where each job is in the
pool and in `p2p` (`JobsMatch`), that the connection in `tcp_listen`'s hands is new to
the pool (`AcceptedIsFresh`), and what `c_count` is in the middle of things
(`CountMatches`): `CountAlwaysIsClients` follows. `ServerInv` adds what `params` holds
while the listener is there and a job that was not overtaken has to copy it
(`ParamsHeld`), that such a job then serves the connection it was added for under its
address (`OwnCopies`), that the connections accepted before another one are known to
the pool and out of `params` by the time its job can run (`OlderKnown`), and whose rows
are in the table (`RowsHeld`). From it follow `OwnConnectionServed`,
`EarlierNeverServed`, `RowsAlwaysHaveOwners`, `CrashesAlwaysHaveCause` and
`AckedAlwaysListed`.

`ServerStartProofs` proves `SettingsAlwaysLastGiven`, `StartCrashesHaveCause`,
`OnlyOneDestroysPool` and `ExitAlwaysClean` for command lines of any length.
`StartInv` says what there is when `main` is at a place, whatever Ctrl+C has done
meanwhile (`MainInOrder`), what each run of `shutdown_handler` has closed by then and
how far the pool is taken down (`HandlersInOrder`), and what the settings are in the middle of the options
(`SettingsSoFar`): the last acceptable value before the current word.

`DialogueProofs` proves `AlwaysInStep`, `ListAlwaysAddsUp` and
`DialogueCrashesHaveCause` for any number of rows and requests and any division of the
stream into `recv`s. `InStepInv` looks at the replies on their way and those not yet
sent together (`Coming`), which a `send_msg` does not change, a `recv` shortens by the
first of them and a lost connection to its beginning. While nothing has failed there is
at most one request on its way and nothing else then (`OneRequest`); the replies to
come answer the current request, the one that ends the call last (`OneAnswer`), so that
nothing is left when the call returns (`QuietBetweenCalls`); and the rows shown, those
behind them in a `recv` and those to come are those the query found (`RowsAddUp`).

`FileHashProofs` proves `BlocksAlwaysAreFile`, `CountAlwaysIsLength` and
`HashedAlwaysPadded` for any file, any size of a block and of a piece, and wherever
reads fail. `HashAssumption` asks that a word of the counter holds a whole number
of blocks, as 2^32 bits do: that is why the place in the buffer can be taken from
`count[0]` alone. `HashInv` is `CountOfStream`, that the two words count the bits of
`Stream`, and `PaddingSoFar`, what `SHA1Final` has added up to now. `UpdateStep`
says that `SHA1Update` appends its argument to `Stream` however it has to be cut
into blocks, `LastZero` that the loop of zeros ends exactly where the length still
fits. `HashedIsPadded`, that what has been digested in the end is the padded
message of the standard, is stated by the theorem only; the run checks the digest
itself.

`DigestAlwaysSHA1` is that digest, `DigestIsSHA1`, for every file. It assumes that
`Block` is 64, as in the code, because `SHA1Transform` is about such blocks; nothing
else is asked beyond `HashAssumption`. It goes in three steps:

* `TransformIsCompress`: for every state and every block `SHA1Transform` is the
  standard's compression function. `Agree` relates the code before round `i` to the
  standard before step `i + 1`: the variable that plays the part `k` in this round
  holds register `k`, and `l[j & 15]` holds word `j` of the schedule for the sixteen
  words last written or still to be used, so that overwriting loses nothing.
  `RoundStep` keeps it; each logical operation of the code is the standard's digit
  by digit (`MixIs`), for which `OnesOfFromOnes` says that a half is determined by
  its binary digits; and the order in which a round adds its five terms does not
  matter (`SameSum`).
* `DigestOfBlocks`: the context carried from block to block is the standard's chain.
* `BlocksAreWhole`: the blocks digested can be told from their bytes, so that with
  `HashedAlwaysPadded` they are the blocks of the padded message.

The recursive functions of `SHA1` are definitions by `CHOOSE` for the provers.
`IterationExists` and `ChainExists` show that a function with the equation exists,
and `Descent` takes the place of induction: a set of natural numbers has a least
element (`LeastNat`), so there is no first round for which something fails.

Only model-checked: all liveness, and the use of ENABLED in fairness, which are out
of the prover's reach; and that the definition SHA-1 is compared with is that of
FIPS 180-4, of which the run checks the standard's example.

## What is not modelled

* SQLite: `sqlite3.h` is vendored, declarations and their documentation, and is
  10188 of the 13116 lines of the implementation files, which is why the lines
  behind the definitions are a small share of the whole. The table is modelled
  from how `P2PFileServer.cpp` uses it; two sessions use it one statement at a
  time.
* `Thread.cpp` and `Thread.h`, which are commented out from the first line to
  the last, and the unit tests, two smoke tests on a local file.
* Comments: most of `thpool.h` is documentation of functions that are modelled.
* Formatting and parsing of messages beyond the words that decide what happens:
  verdicts, and paths that look like one. A path with a blank in it is misread
  by `strtok` and not followed. The wording of console messages is left out.
* The server's help text, and how `stat` formats what it prints, with the buffer
  `tpusage` in `print_stats` (`P2PFileServer.cpp` 406).
* Failures of `pthread_create` in `thpool_init`, and of `malloc` for the port in
  `main` (77).
* What a program does after undefined behaviour: a path printed over the end of
  `query`, the array of sockets overrun, an unfilled buffer read as a path and a freed
  pool used end the process in the models, as they may in the build, or, where the code
  goes on with a stale but valid value, leave it running.
* In `PeerServer`: a full backlog, a socket handle that the system gives out
  again, a name that arrives in two parts, more than one connection of a client,
  and the destructor, which runs when the process is about to end.
* In `Dialogue`: a second session of a client, which starts as the first does, and
  the sleeps of 10 ms, which make some divisions into `recv`s rarer and none impossible.
* The hexadecimal spelling of the digest.

## Plan

Every component is modelled, and every safety property of the passing runs is
proved. What is left is outside the model (above) or out of the prover's reach.
