------------------------------ MODULE Dialogue -------------------------------
(***************************************************************************)
(* One peer talking to the index server over one TCP connection: the       *)
(* requests of PeerClient.cpp and the menu of P2PPeer.cpp on one side, the *)
(* replies of p2p (P2PFileServer.cpp) on the other.                        *)
(*                                                                         *)
(* TCP carries bytes, not messages, and neither side frames its messages.  *)
(* A recv returns what has arrived, one message or several, and it may cut *)
(* the last one. Then:                                                     *)
(*   - the server, which is sent strings with their terminator, sees the   *)
(*     first request only and loses the others;                            *)
(*   - the client, which is sent strings without one, sees one long string *)
(*     and judges it by how it begins, or by whether ERROR is in it, which *)
(*     may as well be the path of a file.                                  *)
(* The connection may not come about, or end at any moment. Of a message   *)
(* that is cut the model keeps that each side reads something of it twice; *)
(* what it reads is left open.                                             *)
(***************************************************************************)
EXTENDS Naturals, Sequences, FiniteSets, SequencesExt

CONSTANTS
  MaxRows,   \* the rows a query may find, and sends if it comes to no end: a bound
  MaxOps     \* the requests a client makes after its greeting: a bound

ASSUME DialogueAssumption == MaxRows \in Nat /\ MaxOps \in Nat

Ops == {"ADD", "DELETE", "LIST", "REQUEST"}
Queries == {"LIST", "REQUEST"}

\* A row of the table, by its path: one that begins with OK, one with ERROR in it, and
\* the others.
Rows == {"ROW", "OKROW", "ERRORROW"}

\* What a step of a query sends: a row, ERROR, or, when it fails in any other way, a row
\* of nothing, "(null)".
Steps == Rows \cup {"ERROR", "NULL"}

VARIABLES
  toServer,  \* the requests on their way
  toClient,  \* the replies on their way, each with the number of its request
  link,      \* the connection: "up", "closed" by the server, or "reset"
  sstate,    \* the session: "hello", "talk", "endless" (in a query without end), "ended"
  out,       \* the replies the session still has to send
  cpc,       \* the client: "out" (not logged in), "idle", "wait", "download", "crashed"
  req,       \* its last request
  n,         \* the number of that request
  shown,     \* the rows showFileList has printed
  result,    \* what the last call reported: "none", "ok" or "fail"
  found,     \* history: the rows the table had for the last LIST the server handled
  glued,     \* history: the replies to the request that came behind another in one recv
  endLost,   \* history: the OK that ends the replies was one of them
  clean      \* history: no message was cut, and nothing has failed that leaves the sides
             \* out of step

vars == <<toServer, toClient, link, sstate, out, cpc, req, n, shown, result, found,
          glued, endLost, clean>>
behindVars == <<glued, endLost>>
clientVars == <<cpc, req, n, shown, result, behindVars>>
serverVars == <<sstate, out, found>>

\* A message of the request with this number.
Message(kind, k) == [kind |-> kind, n |-> k]

\* tcp_listen may send its overload message before any session starts.
Init ==
  /\ toServer = <<>>
  /\ toClient \in {<<>>, <<Message("BUSY", 0)>>}
  /\ link = "up"
  /\ sstate = "hello"
  /\ out = <<>>
  /\ cpc = "out"
  /\ req = "none"
  /\ n = 0
  /\ shown = 0
  /\ result = "none"
  /\ found = 0
  /\ glued = 0 /\ endLost = FALSE
  /\ clean = (toClient = <<>>)

\* What a recv may return of the messages on their way: the first so many, the last of
\* them whole or cut. That more than one message is cut is not followed: a bound.
Chunks(stream) == (1..Len(stream)) \X {cut \in BOOLEAN : cut => clean}

\* What is still on its way after it.
Left(stream, k, cut) ==
  (IF cut THEN <<[stream[k] EXCEPT !.kind = "PART"]>> ELSE <<>>)
    \o SubSeq(stream, k + 1, Len(stream))

-----------------------------------------------------------------------------
(* The session *)

\* Mutant: a failed ADD goes on to answer OK, as a failed DELETE does.
AnswersAddTwice(op, steps, fails) ==
  CASE op = "CONNECT" -> <<"ACCEPT">>
    [] op = "QUIT" -> <<"GOODBYE">>
    [] op \in {"ADD", "DELETE"} -> IF fails THEN <<"ERROR", "OK">> ELSE <<"OK">>
    [] op \in Queries -> IF fails THEN steps ELSE Append(steps, "OK")
    [] OTHER -> <<"ERROR">>

\* Mutant: a query that finds nothing is not answered.
AnswersEmptyNot(op, steps, fails) ==
  CASE op = "CONNECT" -> <<"ACCEPT">>
    [] op = "QUIT" -> <<"GOODBYE">>
    [] op = "ADD" -> IF fails THEN <<"ERROR">> ELSE <<"OK">>
    [] op = "DELETE" -> IF fails THEN <<"ERROR", "OK">> ELSE <<"OK">>
    [] op \in Queries -> IF fails \/ steps = <<>> THEN steps ELSE Append(steps, "OK")
    [] OTHER -> <<"ERROR">>

\* The replies to a request. A query sends what each step yields, whatever has failed,
\* until SQLITE_DONE, which may never come: on a database that is closed, say. A failed
\* DELETE sends ERROR and then OK.
Answers(op, steps, fails) ==
  CASE op = "CONNECT" -> <<"ACCEPT">>
    [] op = "QUIT" -> <<"GOODBYE">>
    [] op = "ADD" -> IF fails THEN <<"ERROR">> ELSE <<"OK">>
    [] op = "DELETE" -> IF fails THEN <<"ERROR", "OK">> ELSE <<"OK">>
    [] op \in Queries -> IF fails THEN steps ELSE Append(steps, "OK")
    [] OTHER -> <<"ERROR">>

\* The request a string is read as: part of one may have words enough to be one, or is
\* no request.
ReadAs(kind, part) ==
  IF part \/ kind = "PART" THEN ({kind} \cap {"ADD", "DELETE", "REQUEST"}) \cup {"junk"} ELSE {kind}

\* One recv_msg and the handling of the first request it returns.
Handle(steps, fails) ==
  /\ out = <<>>
  /\ sstate \in {"hello", "talk"}
  /\ \E chunk \in Chunks(toServer), op \in Ops \cup {"CONNECT", "QUIT", "junk"} :
       LET k == chunk[1]
           cut == chunk[2]
           m == Head(toServer)
           ignored == sstate = "hello" /\ op \notin {"CONNECT", "QUIT"}
       IN  /\ op \in ReadAs(m.kind, cut /\ k = 1)
           /\ toServer' = Left(toServer, k, cut)
           /\ op \notin Queries \/ ignored => steps = <<>>
           /\ op \notin Ops \/ ignored => ~fails
           /\ sstate' = CASE op = "QUIT" -> "ended"
                          [] op = "CONNECT" -> "talk"
                          [] op \in Queries /\ fails -> "endless"
                          [] OTHER -> sstate
           /\ out' = IF ignored THEN <<>>
                     ELSE LET kinds == Answers(op, steps, fails)
                          IN  [i \in DOMAIN kinds |-> Message(kinds[i], m.n)]
           /\ found' = IF op = "LIST" THEN Len(steps) ELSE found
           /\ clean' = /\ clean /\ ~cut /\ ~ignored
                       /\ fails => op = "ADD"
                       /\ ~\E bad \in Steps \ {"ROW", "ERRORROW"} : Contains(steps, bad)
  /\ UNCHANGED <<toClient, link, clientVars>>

\* send_msg
SendReply ==
  /\ out # <<>>
  /\ toClient' = Append(toClient, Head(out))
  /\ out' = Tail(out)
  /\ UNCHANGED <<toServer, link, sstate, found, clientVars, clean>>

\* The server's process ends, or the connection does.
LinkBreaks ==
  /\ link = "up" /\ n > 0
  /\ link' \in {"closed", "reset"}
  /\ toServer' = <<>>
  /\ out' = <<>>
  /\ toClient' = IF link' = "reset" THEN <<>> ELSE toClient
  /\ sstate' = "ended"
  /\ UNCHANGED <<clientVars, found, clean>>

-----------------------------------------------------------------------------
(* The client *)

\* The menu: log in first, QUIT last; one call at a time.
Chooses(op) ==
  /\ IF op = "CONNECT" THEN cpc = "out" /\ n = 0 ELSE cpc = "idle"
  /\ n <= MaxOps \/ op = "QUIT"
  /\ n' = n + 1
  /\ req' = op
  /\ shown' = 0
  /\ glued' = 0 /\ endLost' = FALSE

\* Where the menu goes on. It counts the client as logged in after connectToCServ and
\* as logged out after quitFromSer, whatever they returned.
After(op) == IF op = "QUIT" THEN "out" ELSE "idle"

\* A send on a connection the server has closed may succeed.
Request(op) ==
  /\ Chooses(op)
  /\ link # "reset"
  /\ toServer' = IF link = "up" THEN Append(toServer, Message(op, n + 1)) ELSE toServer
  /\ result' = "none"
  /\ cpc' = "wait"
  /\ UNCHANGED <<toClient, link, serverVars, clean>>

\* connect fails, or send does: the call returns.
RequestFails(op) ==
  /\ Chooses(op)
  /\ link # "up" \/ op = "CONNECT"
  /\ link' = "reset"
  /\ toClient' = <<>>
  /\ sstate' = "ended"
  /\ result' = "fail"
  /\ cpc' = After(op)
  /\ UNCHANGED <<toServer, out, found, clean>>

\* How a string begins, and whether ERROR is in it. The overload message reads like a
\* row, having a second word.
Begins(kinds, words) == Head(kinds) \in words
HasError(kinds) == Contains(kinds, "ERROR") \/ Contains(kinds, "ERRORROW")
IsRow(kinds) == \E i \in DOMAIN kinds : kinds[i] \in Rows \cup {"NULL", "BUSY"}

\* Mutant: showFileList takes the first row for the end of the list.
VerdictFirstRow(op, kinds) ==
  CASE op = "CONNECT" -> IF Begins(kinds, {"ACCEPT"}) THEN "ok" ELSE "fail"
    [] op = "QUIT" -> IF Begins(kinds, {"GOODBYE"}) THEN "ok" ELSE "fail"
    [] op \in {"ADD", "DELETE"} -> IF Begins(kinds, {"OK", "OKROW"}) THEN "ok" ELSE "fail"
    [] op = "LIST" -> IF Begins(kinds, {"OK", "OKROW", "ROW"}) THEN "ok" ELSE "fail"
    [] OTHER -> IF HasError(kinds) THEN "fail" ELSE IF Begins(kinds, {"OK", "OKROW"}) THEN "ok"
                ELSE IF IsRow(kinds) THEN "row" ELSE "crash"

\* What the call makes of the string it has received. Of a single word getFile uses
\* the missing second one and crashes.
Verdict(op, kinds) ==
  CASE op = "CONNECT" -> IF Begins(kinds, {"ACCEPT"}) THEN "ok" ELSE "fail"
    [] op = "QUIT" -> IF Begins(kinds, {"GOODBYE"}) THEN "ok" ELSE "fail"
    [] op \in {"ADD", "DELETE"} -> IF Begins(kinds, {"OK", "OKROW"}) THEN "ok" ELSE "fail"
    [] op = "LIST" -> IF Begins(kinds, {"OK", "OKROW"}) THEN "ok"
                      ELSE IF HasError(kinds) \/ ~IsRow(kinds) THEN "fail" ELSE "row"
    [] OTHER -> IF HasError(kinds) THEN "fail" ELSE IF Begins(kinds, {"OK", "OKROW"}) THEN "ok"
                ELSE IF IsRow(kinds) THEN "row" ELSE "crash"

\* What the call may make of a string with part of a reply in it.
Outcomes(op, kinds) ==
  IF ~Contains(kinds, "PART") THEN {Verdict(op, kinds)}
  ELSE {"ok", "fail"} \cup (IF op \in Queries THEN {"row"} ELSE {})
                     \cup (IF op = "REQUEST" THEN {"crash"} ELSE {})

\* One recv. A call that gives up at a path with ERROR in it leaves the rest unread.
Receive ==
  /\ cpc = "wait"
  /\ \E chunk \in Chunks(toClient) :
       LET k == chunk[1]
           cut == chunk[2]
           kinds == [i \in 1..k |-> IF cut /\ i = k THEN "PART" ELSE toClient[i].kind]
       IN  \E verdict \in Outcomes(req, kinds) :
             /\ toClient' = Left(toClient, k, cut)
             /\ result' = IF verdict \in {"ok", "fail"} THEN verdict ELSE "none"
             /\ shown' = IF verdict = "row" THEN shown + 1 ELSE shown
             /\ cpc' = CASE verdict = "crash" -> "crashed"
                         [] verdict = "row" -> IF req = "LIST" THEN "wait" ELSE "download"
                         [] OTHER -> After(req)
             /\ glued' = glued + (k - 1)
             /\ endLost' = (endLost \/ (verdict = "row" /\ Contains(kinds, "OK")))
             /\ clean' = (clean /\ ~cut /\ ~(verdict = "fail" /\ Contains(kinds, "ERRORROW")))
  /\ UNCHANGED <<toServer, link, req, n, serverVars>>

\* Mutant: getFile does not look at the result of recv.
ReceiveEndUnchecked ==
  /\ cpc = "wait"
  /\ toClient = <<>> /\ link # "up"
  /\ IF req = "REQUEST" THEN cpc' = "crashed" /\ UNCHANGED result
     ELSE cpc' = After(req) /\ result' = "fail"
  /\ UNCHANGED <<toServer, toClient, link, serverVars, req, n, shown, behindVars, clean>>

\* recv fails, or returns 0 and nothing: without a first word getFile crashes, the
\* other calls report a failure.
ReceiveEnd ==
  /\ cpc = "wait"
  /\ toClient = <<>> /\ link # "up"
  /\ \E error \in {TRUE, link = "reset"} :
       IF req = "REQUEST" /\ ~error THEN cpc' = "crashed" /\ UNCHANGED result
       ELSE cpc' = After(req) /\ result' = "fail"
  /\ UNCHANGED <<toServer, toClient, link, serverVars, req, n, shown, behindVars, clean>>

\* getFile downloads from the peer the row names before it reads on.
DownloadEnds ==
  /\ cpc = "download"
  /\ cpc' = "wait"
  /\ UNCHANGED <<toServer, toClient, link, serverVars, req, n, shown, result, behindVars, clean>>

\* The peer cannot be reached: getFile returns, the rest of the reply unread.
DownloadFails ==
  /\ cpc = "download"
  /\ cpc' = "idle"
  /\ result' = "fail"
  /\ clean' = FALSE
  /\ UNCHANGED <<toServer, toClient, link, serverVars, req, n, shown, behindVars>>

Calls == Receive \/ ReceiveEnd
Download == DownloadEnds \/ DownloadFails

Client ==
  \/ \E op \in Ops \cup {"CONNECT", "QUIT"} : Request(op) \/ RequestFails(op)
  \/ Calls
  \/ Download

Server ==
  \/ \E steps \in BoundedSeq(Steps, MaxRows), fails \in BOOLEAN : Handle(steps, fails)
  \/ SendReply

Next == Client \/ Server \/ LinkBreaks

Spec == Init /\ [][Next]_vars

(***************************************************************************)
(* The session's worker and the client's thread are scheduled. Nothing     *)
(* makes the user choose another operation, or a download end.             *)
(***************************************************************************)
FairSpec == Spec /\ WF_vars(Server) /\ WF_vars(Calls)

-----------------------------------------------------------------------------
(* Properties *)

\* As long as the connection is there, no message was cut and nothing has failed, the two
\* sides keep in step, however many replies a recv returns: every reply on its way answers
\* the client's current request, and when a call has returned none of its replies is left
\* for the next call to read.
InStep ==
  clean /\ link = "up" =>
    /\ \A i \in 1..Len(toClient) : toClient[i].n = n
    /\ cpc \in {"idle", "out"} => toServer = <<>> /\ toClient = <<>> /\ out = <<>>

\* When showFileList reports the end of the list, also over a connection that has been
\* lost meanwhile, it has shown each row of the table but those that came behind another
\* in one recv. A path may have ERROR in it; only one that begins with OK is taken for
\* the end.
ListAddsUp == clean /\ req = "LIST" /\ result = "ok" => shown + glued = found

\* PeerClient.h, 34: showFileList shows all the files that can be downloaded, so when it
\* reports the end of the list it has shown each row of the table.
ListShowsAll == clean /\ req = "LIST" /\ result = "ok" => shown = found

\* getFile, which uses the words of a row without a look, meets one without them only
\* after a failure, when a message was cut, or when the server has closed the connection.
CrashesHaveCause == cpc = "crashed" => ~clean \/ link = "closed"

\* If downloads end, a call returns, and also when the connection is lost; unless, over a
\* connection that lasts, something has failed, or the OK at the end of the replies came
\* behind a row in one recv. The latter leaves showFileList and getFile in recv for ever.
CallReturns ==
  (cpc = "download" ~> cpc # "download") =>
    (cpc \in {"wait", "download"} ~>
       cpc \notin {"wait", "download"} \/ (link = "up" /\ (~clean \/ endLost)))

-----------------------------------------------------------------------------
(* The types of the variables. *)

\* The replies that end the answer to a request.
Verdicts == {"ACCEPT", "GOODBYE", "OK", "ERROR"}

Requests == [kind : Ops \cup {"CONNECT", "QUIT", "PART"}, n : Nat]
Replies == [kind : Steps \cup Verdicts \cup {"BUSY", "PART"}, n : Nat]

TypeOK ==
  /\ toServer \in Seq(Requests)
  /\ toClient \in Seq(Replies)
  /\ link \in {"up", "closed", "reset"}
  /\ sstate \in {"hello", "talk", "endless", "ended"}
  /\ out \in Seq(Replies)
  /\ cpc \in {"out", "idle", "wait", "download", "crashed"}
  /\ req \in Ops \cup {"none", "CONNECT", "QUIT"}
  /\ n \in Nat
  /\ shown \in Nat
  /\ result \in {"none", "ok", "fail"}
  /\ found \in Nat
  /\ glued \in Nat /\ endLost \in BOOLEAN
  /\ clean \in BOOLEAN
==============================================================================
