------------------------------ MODULE PeerServer ------------------------------
(***************************************************************************)
(* PeerServer::workerThread: one thread serves every peer that wants a     *)
(* file of this one, with an array of sockets and select.                  *)
(*                                                                         *)
(* Slot 1 (0 in the code) is the listening socket. The same branch accepts *)
(* a connection and waits for its request, and what follows treats slot 1  *)
(* and the new socket as one: when the new client is gone at that moment,  *)
(* its socket is closed and slot 1 is removed.                             *)
(*                                                                         *)
(* The sockets hang on Winsock, which the process has started twice, in    *)
(* the constructors of PeerServer and of PeerClient. A connect of          *)
(* PeerClient that fails cleans up once: the second one ends every socket  *)
(* of the process, also those of the thread.                               *)
(*                                                                         *)
(* TransmitFile blocks. A client that stops reading before the end of its  *)
(* file, and goes on without closing the connection, holds up the thread   *)
(* and with it all the others.                                             *)
(*                                                                         *)
(* Not modelled: more than one connection of a client, a full backlog, and *)
(* a socket handle that the system gives out again after it was closed.    *)
(* The end of a transfer, the disconnection, is taken to be prompt.        *)
(***************************************************************************)
EXTENDS Naturals, Sequences, FiniteSets, SequencesExt

CONSTANTS
  Clients,   \* the peers that ask for a file
  Listener,  \* the listening socket
  Invalid,   \* INVALID_SOCKET
  FdSetSize  \* FD_SETSIZE, the length of g_SocketArr: a small number stands for 64

ASSUME ServerAssumption ==
  /\ Listener \notin Clients /\ Invalid \notin Clients \cup {Listener}
  /\ FdSetSize \in Nat \ {0}

VARIABLES
  conn,     \* the client's end: "idle", "open", "deaf" when it reads no more, "closed"
            \* by it, "broken", "cut" with Winsock or, after the file, "served" by the server
  path,     \* the client's request: "unsent", "sent" or "read"
  answer,   \* what the server has sent it: "none", "file" or "part", which is its name or less
            \* than all of it
  backlog,  \* the connections that wait for accept
  slots,    \* g_SocketArr, of length g_iTotalConn
  shut,     \* the sockets the server has closed
  fdread,   \* the sockets select has reported
  i,        \* the slot the scan is at
  cur,      \* *handleSocket
  pc,       \* the thread: "select", "scan", "recv", "send", "stalled" or "crashed"
  asked,    \* history: the sockets this scan has turned to
  started,  \* what the constructor came to: "listening", "unbound" or "deaf"
  cleanups  \* the calls of WSACleanup; Winsock is gone after Startups of them

vars == <<conn, path, answer, backlog, slots, shut, fdread, i, cur, pc, asked,
          started, cleanups>>
clientVars == <<conn, path>>
winsockVars == <<started, cleanups>>

Here == {"open", "deaf"}
Gone == {"closed", "broken"}
Sockets == Clients \cup {Listener}

\* PeerServer and PeerClient each call WSAStartup.
Startups == 2

\* The constructor. Without its port the socket is not put into the array; listen is
\* called all the same, fails as well, and the socket is closed. When only listen
\* fails the closed socket stays in the array.
Init ==
  /\ conn = [c \in Clients |-> "idle"]
  /\ path = [c \in Clients |-> "unsent"]
  /\ answer = [c \in Clients |-> "none"]
  /\ backlog = <<>>
  /\ started \in {"listening", "unbound", "deaf"}
  /\ slots = IF started = "unbound" THEN <<>> ELSE <<Listener>>
  /\ shut = IF started = "listening" THEN {} ELSE {Listener}
  /\ cleanups = 0
  /\ fdread = {}
  /\ i = 1
  /\ cur = Listener
  /\ pc = "select"
  /\ asked = {}

-----------------------------------------------------------------------------
(* The clients: getFile connects and sends the path. *)

Connect(c) ==
  /\ conn[c] = "idle"
  /\ Listener \notin shut
  /\ pc # "crashed"
  /\ conn' = [conn EXCEPT ![c] = "open"]
  /\ backlog' = Append(backlog, c)
  /\ UNCHANGED <<path, answer, slots, shut, fdread, i, cur, pc, asked, winsockVars>>

SendPath(c) ==
  /\ conn[c] = "open"
  /\ path[c] = "unsent"
  /\ path' = [path EXCEPT ![c] = "sent"]
  /\ UNCHANGED <<conn, answer, backlog, slots, shut, fdread, i, cur, pc, asked, winsockVars>>

\* recvFile cannot create the target, or takes a short recv for the end of the file:
\* getFile goes on and leaves the connection open.
GiveUp(c) ==
  /\ conn[c] = "open"
  /\ path[c] # "unsent"
  /\ conn' = [conn EXCEPT ![c] = "deaf"]
  /\ UNCHANGED <<path, answer, backlog, slots, shut, fdread, i, cur, pc, asked, winsockVars>>

\* The client's process ends or its connection breaks, at any moment.
Leave(c) ==
  /\ conn[c] \in Here
  /\ \E how \in Gone : conn' = [conn EXCEPT ![c] = how]
  /\ UNCHANGED <<path, answer, backlog, slots, shut, fdread, i, cur, pc, asked, winsockVars>>

-----------------------------------------------------------------------------
(* PeerClient, in the same process. *)

\* connectToCServ or getFile cannot connect and calls WSACleanup. The second time
\* every socket of the process is gone and every connection to it with them.
ConnectFails ==
  /\ cleanups < Startups
  /\ pc # "crashed"
  /\ cleanups' = cleanups + 1
  /\ IF cleanups' < Startups THEN UNCHANGED <<conn, backlog, shut>>
     ELSE /\ conn' = [c \in Clients |-> IF conn[c] \in Here THEN "cut" ELSE conn[c]]
          /\ backlog' = <<>>
          /\ shut' = shut \cup {Listener} \cup Range(slots)
  /\ UNCHANGED <<path, answer, slots, fdread, i, cur, pc, asked, started>>

-----------------------------------------------------------------------------
(* workerThread *)

\* TF_DISCONNECT | TF_REUSE_SOCKET: the socket is disconnected and not closed.
Disconnected == {c \in Clients : conn[c] = "served"}

\* A recv on c returns the path; it returns 0 or WSAECONNRESET; it returns another
\* error. A broken connection gives either error. It blocks when none of them holds.
Over(c) == c \in Disconnected \cup shut
HasPath(c) == ~Over(c) /\ path[c] = "sent" /\ conn[c] \in Here \cup {"closed"}
AtEnd(c) == ~Over(c) /\ ~HasPath(c) /\ conn[c] \in Gone
Fails(c) == Over(c) \/ conn[c] = "broken"
Returns(c) == HasPath(c) \/ AtEnd(c) \/ Fails(c)

Ready(s) ==
  IF s = Listener THEN backlog # <<>>
  ELSE s \notin Disconnected /\ (HasPath(s) \/ conn[s] \in Gone)

InSlots == Range(slots)

\* select is level-triggered and may report a disconnected socket. With a closed
\* socket among its arguments it fails, which nobody looks at, and leaves the set
\* as FD_SET filled it; it fails as well when there are no sockets.
Select ==
  /\ pc = "select"
  /\ IF slots = <<>> \/ InSlots \cap shut # {} THEN fdread' = InSlots
     ELSE \E odd \in SUBSET (InSlots \cap Disconnected) :
            /\ fdread' = {s \in InSlots : Ready(s)} \cup odd
            /\ fdread' # {}
  /\ i' = 1
  /\ pc' = "scan"
  /\ UNCHANGED <<clientVars, answer, backlog, slots, shut, cur, asked>>

Skip ==
  /\ pc = "scan"
  /\ i <= Len(slots)
  /\ slots[i] \notin fdread
  /\ i' = i + 1
  /\ UNCHANGED <<clientVars, answer, backlog, slots, shut, fdread, cur, pc, asked>>

EndScan ==
  /\ pc = "scan"
  /\ i > Len(slots)
  /\ fdread' = {}
  /\ asked' = {}
  /\ i' = 1
  /\ pc' = "select"
  /\ UNCHANGED <<clientVars, answer, backlog, slots, shut, cur>>

\* The body of the scan ends, and *handleSocket with it.
BodyEnds == cur' = Listener

\* The request is read from szMessage although recv has not filled it: it is an
\* earlier request, or what the stack held. The name cannot be sent.
StaleRequest(s) ==
  /\ \/ pc' = "scan" /\ BodyEnds
     \/ pc' = "crashed" /\ cur' = s /\ \A c \in Clients : path[c] # "read"
  /\ i' = i + 1
  /\ UNCHANGED <<clientVars, answer, backlog, slots, shut, fdread>>

\* The server listens: its first socket is the listening one, and it is open.
Listening == slots # <<>> /\ slots[1] = Listener /\ Listener \notin shut

\* Mutant: only the request of the new connection is waited for.
AcceptForgets ==
  /\ pc = "scan"
  /\ i = 1
  /\ slots # <<>> /\ slots[1] \in fdread
  /\ asked' = asked \cup {slots[1]}
  /\ backlog # <<>>
  /\ backlog' = Tail(backlog)
  /\ i' = i + 1
  /\ UNCHANGED <<clientVars, answer, slots, shut, fdread, cur, pc>>

\* Slot 1. The new socket is appended, which is past the end of the array when it is
\* full, and its request is waited for. When slot 1 no longer is the listener, or is
\* closed, accept and recv fail.
Accept ==
  /\ pc = "scan"
  /\ i = 1
  /\ slots # <<>> /\ slots[1] \in fdread
  /\ asked' = asked \cup {slots[1]}
  /\ IF Listening
     THEN /\ backlog # <<>>
          /\ cur' = Head(backlog)
          /\ backlog' = Tail(backlog)
          /\ IF Len(slots) < FdSetSize
             THEN slots' = Append(slots, Head(backlog)) /\ pc' = "recv"
             ELSE slots' = slots /\ pc' = "crashed"
          /\ UNCHANGED <<clientVars, answer, shut, fdread, i>>
     ELSE StaleRequest(Invalid)

\* accept fails although the socket listens, for want of resources. There is no new
\* slot, and recv fails on what accept returned.
Refuse ==
  /\ pc = "scan"
  /\ i = 1
  /\ Listening /\ Listener \in fdread
  /\ asked' = asked \cup {Listener}
  /\ StaleRequest(Invalid)

\* Mutant: the scan does not ask what select has reported.
PickAny ==
  /\ pc = "scan"
  /\ i \in 2..Len(slots)
  /\ cur' = slots[i]
  /\ asked' = asked \cup {slots[i]}
  /\ pc' = "recv"
  /\ UNCHANGED <<clientVars, answer, backlog, slots, shut, fdread, i>>

\* Another slot.
Pick ==
  /\ pc = "scan"
  /\ i \in 2..Len(slots)
  /\ slots[i] \in fdread
  /\ cur' = slots[i]
  /\ asked' = asked \cup {slots[i]}
  /\ pc' = "recv"
  /\ UNCHANGED <<clientVars, answer, backlog, slots, shut, fdread, i>>

RecvPath ==
  /\ pc = "recv"
  /\ HasPath(cur)
  /\ path' = [path EXCEPT ![cur] = "read"]
  /\ pc' = "send"
  /\ UNCHANGED <<conn, answer, backlog, slots, shut, fdread, i, cur, asked>>

\* The last slot takes the place of slot i, and the scan comes back to it.
Removed(s) == Front([s EXCEPT ![i] = Last(s)])

\* Mutant: the last slot is copied and stays where it was.
RecvEndKeepsTotal ==
  /\ pc = "recv"
  /\ AtEnd(cur)
  /\ shut' = shut \cup {cur}
  /\ slots' = IF i < Len(slots) THEN [slots EXCEPT ![i] = Last(slots)] ELSE Front(slots)
  /\ pc' = "scan"
  /\ BodyEnds
  /\ UNCHANGED <<clientVars, answer, backlog, fdread, i, asked>>

\* Mutant: the scan goes on behind slot i.
RecvEndGoesOn ==
  /\ pc = "recv"
  /\ AtEnd(cur)
  /\ shut' = shut \cup {cur}
  /\ slots' = Removed(slots)
  /\ i' = i + 1
  /\ pc' = "scan"
  /\ BodyEnds
  /\ UNCHANGED <<clientVars, answer, backlog, fdread, asked>>

\* recv returned 0 or WSAECONNRESET: closesocket, and slot i is removed, which is not
\* cur's slot when i is 1.
RecvEnd ==
  /\ pc = "recv"
  /\ AtEnd(cur)
  /\ shut' = shut \cup {cur}
  /\ slots' = Removed(slots)
  /\ pc' = "scan"
  /\ BodyEnds
  /\ UNCHANGED <<clientVars, answer, backlog, fdread, i, asked>>

RecvFails ==
  /\ pc = "recv"
  /\ Fails(cur)
  /\ StaleRequest(cur)
  /\ UNCHANGED asked

\* sendFile comes to its end: the name, and the file, which disconnects the client,
\* unless it is gone or TransmitFile fails on it. Of a client that has left only the
\* disconnection is seen; on a closed socket all fails.
Sent(c) ==
  /\ \E a \in IF c \in shut THEN {"none"}
             ELSE {"file", IF conn[c] \in Here THEN "part" ELSE "none"} :
       /\ answer' = [answer EXCEPT ![c] = a]
       /\ conn' = IF a = "file" THEN [conn EXCEPT ![c] = "served"] ELSE conn
  /\ pc' = "scan"
  /\ BodyEnds

\* Mutant: the slot of an answered client is removed like that of one that left.
SendFileAndRemove ==
  /\ pc = "send"
  /\ Sent(cur)
  /\ slots' = Removed(slots)
  /\ UNCHANGED <<path, backlog, shut, fdread, i, asked>>

\* An answered client keeps its slot. What a client does not read may fit into the
\* connection.
SendFile ==
  /\ pc = "send"
  /\ Sent(cur)
  /\ i' = i + 1
  /\ UNCHANGED <<path, backlog, slots, shut, fdread, asked>>

\* It does not fit, and TransmitFile waits for the client to read.
Stall ==
  /\ pc = "send"
  /\ conn[cur] = "deaf"
  /\ pc' = "stalled"
  /\ UNCHANGED <<clientVars, answer, backlog, slots, shut, fdread, i, cur, asked>>

\* The connection has ended, and TransmitFile fails.
StallEnds ==
  /\ pc = "stalled"
  /\ conn[cur] # "deaf"
  /\ answer' = [answer EXCEPT ![cur] = "part"]
  /\ pc' = "scan"
  /\ i' = i + 1
  /\ BodyEnds
  /\ UNCHANGED <<clientVars, backlog, slots, shut, fdread, asked>>

Server ==
  /\ \/ Select \/ Skip \/ EndScan \/ Accept \/ Refuse \/ Pick
     \/ RecvPath \/ RecvEnd \/ RecvFails
     \/ SendFile \/ Stall \/ StallEnds
  /\ UNCHANGED winsockVars

Next ==
  \/ Server \/ ConnectFails
  \/ \E c \in Clients : Connect(c) \/ SendPath(c) \/ GiveUp(c) \/ Leave(c)

Spec == Init /\ [][Next]_vars

\* The thread is scheduled, accept does not fail for ever, and a client sends its path
\* right after connecting.
FairSpec ==
  /\ Spec
  /\ WF_vars(Server) /\ SF_vars(Accept /\ UNCHANGED winsockVars)
  /\ \A c \in Clients : WF_vars(SendPath(c))

-----------------------------------------------------------------------------
(* Properties *)

Accepted == {c \in Clients : conn[c] # "idle"} \ Range(backlog)

\* As long as the server listens, the other slots are the accepted sockets that are
\* not closed, each once: none is leaked, none is watched after it was closed.
SlotsAreSockets ==
  Listening /\ pc # "crashed" =>
    /\ IsInjective(slots)
    /\ Range(slots) = {Listener} \cup (Accepted \ shut)

\* As long as the server listens, the scan never blocks on a socket it found by its
\* slot: moving the last slot forward makes it ask no socket twice.
PickedReturns == pc = "recv" /\ i > 1 /\ Listening => Returns(cur)

\* A scan turns to every socket select has reported, also to one that a removal has
\* moved to a slot the scan had already been at.
ScanTurnsToAll == pc = "scan" /\ i > Len(slots) => fdread \subseteq asked

\* A client that left before the server read its request.
LeftEarly(c) ==
  \/ conn[c] = "closed" /\ path[c] = "unsent"
  \/ conn[c] = "broken" /\ path[c] # "read"

\* The process has no sockets any more, or never got one that listens.
NoSockets == started # "listening" \/ cleanups = Startups

\* The server stops listening, or crashes, only when the constructor failed, after two
\* failed connects of PeerClient, after a client left before its request was read, or,
\* for a crash, when the array is full or on what a failed accept returned. One failed connect
\* changes nothing, and a failed accept does not end the listening.
OutagesHaveCause ==
  /\ ~Listening => NoSockets \/ \E c \in shut \cap Clients : LeftEarly(c)
  /\ pc = "crashed" =>
       NoSockets \/ Len(slots) = FdSetSize \/ cur = Invalid \/ \E c \in Clients : LeftEarly(c)

\* PeerServer.cpp, 51: a client that has sent its request gets its file, or the name and
\* a part of it when the file cannot be opened or read; unless it leaves or stops
\* reading, the server has crashed, another client has left early, or one that stopped
\* reading holds up the thread. An accept that fails does not keep it from its answer.
RequestsAnswered ==
  \A c \in Clients :
    path[c] = "sent" ~>
      \/ answer[c] # "none"
      \/ conn[c] # "open"
      \/ pc \in {"crashed", "stalled"}
      \/ \E d \in Clients : LeftEarly(d)

-----------------------------------------------------------------------------
\* The types of the variables.
TypeOK ==
  /\ conn \in [Clients -> {"idle", "cut", "served"} \cup Here \cup Gone]
  /\ path \in [Clients -> {"unsent", "sent", "read"}]
  /\ backlog \in Seq(Clients)
  /\ slots \in Seq(Sockets)
  /\ shut \subseteq Sockets /\ fdread \subseteq Sockets /\ asked \subseteq Sockets
  /\ i \in Nat \ {0}
  /\ cur \in Sockets \cup {Invalid}
  /\ pc \in {"select", "scan", "recv", "send", "stalled", "crashed"}
  /\ cleanups \in 0..Startups
==============================================================================
