---------------------------- MODULE DialogueProofs ---------------------------
(***************************************************************************)
(* Theorems about one peer's dialogue with the index server, for any       *)
(* number of rows a query may find and any number of requests, however the *)
(* recvs divide what is sent. The invariant that is inductive is           *)
(* InStepInv.                                                              *)
(***************************************************************************)
EXTENDS Dialogue, TLAPS

-----------------------------------------------------------------------------
(* The inductive invariant. *)

\* The replies the client has still to receive, those not yet sent included.
Coming == toClient \o out

\* Between two calls nothing is on its way.
QuietBetweenCalls == cpc \in {"idle", "out"} => toServer = <<>> /\ Coming = <<>>

\* A request on its way is the current one, and nothing has been answered or shown yet.
OneRequest ==
  toServer # <<>> =>
    /\ toServer = <<Message(req, n)>>
    /\ Coming = <<>>
    /\ cpc = "wait"
    /\ shown = 0 /\ glued = 0 /\ result = "none"

\* The replies to come answer the current request: rows only if it is a query, and the
\* reply that ends the call last.
OneAnswer ==
  \A k \in 1..Len(Coming) :
    /\ req # "none" /\ Coming[k].n = n
    /\ Coming[k].kind \in IF req \in Queries THEN {"ROW", "ERRORROW", "OK"} ELSE Verdicts
    /\ Coming[k].kind \in Verdicts => k = Len(Coming)

\* The rows shown, those behind them in a recv, and those to come before the end of the
\* list are the rows found.
RowsAddUp ==
  req = "LIST" =>
    \A k \in 1..Len(Coming) : Coming[k].kind = "OK" => (shown + glued) + (k - 1) = found

\* The server sends nothing over a connection that has ended, and is sent nothing.
EndedIsSilent == link # "up" => toServer = <<>> /\ out = <<>>

InStepInv ==
  /\ TypeOK
  /\ clean => QuietBetweenCalls /\ OneRequest /\ OneAnswer /\ RowsAddUp /\ EndedIsSilent
  /\ ListAddsUp
  /\ CrashesHaveCause

-----------------------------------------------------------------------------
(* The replies to come. *)

\* The elements of a concatenation.
LEMMA ConcatElements ==
  ASSUME NEW S, NEW s \in Seq(S), NEW t \in Seq(S)
  PROVE  /\ s \o t \in Seq(S)
         /\ Len(s) \in Nat /\ Len(t) \in Nat
         /\ Len(s \o t) = Len(s) + Len(t)
         /\ \A k \in 1..Len(s \o t) :
              (s \o t)[k] = IF k <= Len(s) THEN s[k] ELSE t[k - Len(s)]
OBVIOUS

LEMMA EmptyConcat ==
  ASSUME NEW S, NEW s \in Seq(S), NEW t \in Seq(S)
  PROVE  s \o t = <<>> <=> s = <<>> /\ t = <<>>
OBVIOUS

\* Moving the first element of t to the end of s does not change what they hold together.
LEMMA MovedOn ==
  ASSUME NEW S, NEW s \in Seq(S), NEW t \in Seq(S), t # <<>>
  PROVE  /\ Append(s, Head(t)) \in Seq(S)
         /\ Tail(t) \in Seq(S)
         /\ Append(s, Head(t)) \o Tail(t) = s \o t
OBVIOUS

\* Taking the first k elements of s.
LEMMA TakenFirst ==
  ASSUME NEW S, NEW s \in Seq(S), NEW t \in Seq(S), NEW k \in 1..Len(s)
  PROVE  /\ SubSeq(s, k + 1, Len(s)) \in Seq(S)
         /\ \A j \in 1..k : j \in 1..Len(s \o t) /\ (s \o t)[j] = s[j]
         /\ Len(s \o t) \in Nat
         /\ Len(SubSeq(s, k + 1, Len(s)) \o t) = Len(s \o t) - k
         /\ \A j \in 1..(Len(s \o t) - k) :
              (SubSeq(s, k + 1, Len(s)) \o t)[j] = (s \o t)[j + k]
OBVIOUS

\* What a recv leaves on the way.
LEMMA LeftFacts ==
  ASSUME NEW S, NEW s \in Seq(S), NEW k \in 1..Len(s), NEW cut \in BOOLEAN,
         [s[k] EXCEPT !.kind = "PART"] \in S
  PROVE  /\ Left(s, k, cut) \in Seq(S)
         /\ ~cut => Left(s, k, cut) = SubSeq(s, k + 1, Len(s))
<1> DEFINE part == [s[k] EXCEPT !.kind = "PART"]
           rest == SubSeq(s, k + 1, Len(s))
<1>1. rest \in Seq(S)
  OBVIOUS
<1>2. <<part>> \in Seq(S) /\ <<>> \in Seq(S)
  OBVIOUS
<1>3. Left(s, k, cut) = (IF cut THEN <<part>> ELSE <<>>) \o rest
  BY DEF Left
<1> HIDE DEF part, rest
<1>4. <<part>> \o rest \in Seq(S) /\ <<>> \o rest = rest
  BY <1>1, <1>2
<1> QED
  BY <1>1, <1>3, <1>4 DEF rest

\* The replies to come are a sequence of replies.
LEMMA ComingFacts ==
  ASSUME TypeOK
  PROVE  /\ Coming \in Seq(Replies)
         /\ Len(Coming) \in Nat
         /\ Coming = <<>> <=> toClient = <<>> /\ out = <<>>
         /\ Coming = <<>> <=> Len(Coming) = 0
<1>1. Coming \in Seq(Replies)
  BY ConcatElements DEF Coming, TypeOK
<1>2. Coming = <<>> <=> toClient = <<>> /\ out = <<>>
  BY EmptyConcat DEF Coming, TypeOK
<1> QED
  BY <1>1, <1>2

-----------------------------------------------------------------------------
(* The invariant is kept: the client. *)

\* What the proofs use of the invariant between two calls.
LEMMA Quiet ==
  ASSUME InStepInv, clean, cpc \in {"idle", "out"}
  PROVE  toServer = <<>> /\ toClient = <<>> /\ out = <<>> /\ Coming = <<>>
BY ComingFacts DEF InStepInv, QuietBetweenCalls

\* A call begins.
LEMMA RequestKeeps ==
  ASSUME InStepInv, NEW op \in Ops \cup {"CONNECT", "QUIT"}, Request(op)
  PROVE  InStepInv'
<1>1. /\ cpc \in {"idle", "out"} /\ cpc' = "wait"
      /\ n' = n + 1 /\ req' = op /\ shown' = 0 /\ glued' = 0 /\ endLost' = FALSE /\ result' = "none"
      /\ toServer' = toServer \/ toServer' = Append(toServer, Message(op, n + 1))
      /\ UNCHANGED <<toClient, link, sstate, out, found, clean>>
  BY DEF Request, Chooses, serverVars
<1>2. TypeOK
  BY DEF InStepInv
<1>3. Message(op, n + 1) \in Requests
  BY <1>2 DEF TypeOK, Requests, Message
<1>4. TypeOK'
  <2>1. toServer' \in Seq(Requests)
    <3>1. toServer \in Seq(Requests)
      BY <1>2 DEF TypeOK
    <3>2. toServer' = toServer \/ toServer' = Append(toServer, Message(op, n + 1))
      BY <1>1
    <3> QED
      BY <1>3, <3>1, <3>2
  <2>2. endLost' \in BOOLEAN
    BY <1>1
  <2> QED
    BY <1>1, <1>2, <2>1, <2>2 DEF TypeOK
<1>5. Coming' = Coming
  BY <1>1 DEF Coming
<1>6. ASSUME clean' PROVE (QuietBetweenCalls /\ OneRequest /\ OneAnswer /\ RowsAddUp /\ EndedIsSilent)'
  <2>1. toServer = <<>> /\ Coming = <<>> /\ EndedIsSilent
    BY <1>1, <1>6, Quiet DEF InStepInv
  <2>2. Coming' = <<>> /\ Len(Coming') = 0
    BY <1>5, <2>1
  <2>3. toServer' = <<>> \/ toServer' = <<Message(req', n')>>
    BY <1>1, <2>1
  <2>4. EndedIsSilent'
    BY <1>1, <2>1 DEF EndedIsSilent, Request
  <2> QED
    BY <1>1, <2>2, <2>3, <2>4 DEF QuietBetweenCalls, OneRequest, OneAnswer, RowsAddUp
<1> QED
  BY <1>1, <1>4, <1>6 DEF InStepInv, ListAddsUp, CrashesHaveCause

\* A call that cannot send returns.
LEMMA RequestFailsKeeps ==
  ASSUME InStepInv, NEW op \in Ops \cup {"CONNECT", "QUIT"}, RequestFails(op)
  PROVE  InStepInv'
<1>1. /\ cpc \in {"idle", "out"} /\ cpc' \in {"idle", "out"}
      /\ n' = n + 1 /\ req' = op /\ shown' = 0 /\ glued' = 0 /\ endLost' = FALSE /\ result' = "fail"
      /\ toClient' = <<>> /\ link' = "reset" /\ sstate' = "ended"
      /\ UNCHANGED <<toServer, out, found, clean>>
  BY DEF RequestFails, Chooses, After
<1>2. TypeOK
  BY DEF InStepInv
<1>3. TypeOK'
  <2>1. endLost' \in BOOLEAN
    BY <1>1
  <2> QED
    BY <1>1, <1>2, <2>1 DEF TypeOK
<1>4. ASSUME clean' PROVE (QuietBetweenCalls /\ OneRequest /\ OneAnswer /\ RowsAddUp /\ EndedIsSilent)'
  <2>1. toServer' = <<>> /\ toClient' = <<>> /\ out' = <<>>
    BY <1>1, <1>4, Quiet
  <2>2. Coming' = <<>> /\ Len(Coming') = 0
    BY <2>1 DEF Coming
  <2> QED
    BY <2>1, <2>2 DEF QuietBetweenCalls, OneRequest, OneAnswer, RowsAddUp, EndedIsSilent
<1> QED
  BY <1>1, <1>3, <1>4 DEF InStepInv, ListAddsUp, CrashesHaveCause

\* What a recv returns, and what the call makes of it, while nothing is cut or fails:
\* the reply that ends the call is alone, and otherwise the call goes on with a row.
LEMMA CleanReceive ==
  ASSUME TypeOK, OneAnswer, NEW k \in 1..Len(toClient), NEW kinds,
         kinds = [i \in 1..k |-> toClient[i].kind],
         NEW verdict \in Outcomes(req, kinds),
         ~(verdict = "fail" /\ Contains(kinds, "ERRORROW"))
  PROVE  \/ /\ k = 1 /\ Len(Coming) = 1
            /\ verdict \in {"ok", "fail"}
            /\ req = "LIST" => Coming[1].kind = "OK"
         \/ verdict = "row" /\ req \in Queries
<1>1. /\ toClient \in Seq(Replies) /\ out \in Seq(Replies)
      /\ Len(toClient) \in Nat /\ k \in Nat
  BY DEF TypeOK
<1>2. \A i \in 1..k : i \in 1..Len(Coming) /\ kinds[i] = Coming[i].kind
  BY <1>1, TakenFirst DEF Coming
<1>3. /\ \A i \in 1..k : kinds[i] \in IF req \in Queries THEN {"ROW", "ERRORROW", "OK"} ELSE Verdicts
      /\ kinds[1] \in Verdicts => Len(Coming) = 1
  <2>1. 1 \in 1..k
    BY <1>1
  <2>2. \A i \in 1..Len(Coming) :
          /\ Coming[i].kind \in IF req \in Queries THEN {"ROW", "ERRORROW", "OK"} ELSE Verdicts
          /\ Coming[i].kind \in Verdicts => i = Len(Coming)
    BY DEF OneAnswer
  <2> HIDE DEF Verdicts, Queries
  <2>3. \A i \in 1..k :
          /\ kinds[i] \in IF req \in Queries THEN {"ROW", "ERRORROW", "OK"} ELSE Verdicts
          /\ kinds[i] \in Verdicts => i = Len(Coming)
    BY <1>2, <2>2
  <2> QED
    BY <2>1, <2>3
<1>4. kinds \in Seq(Verdicts \cup {"ROW", "ERRORROW"}) /\ DOMAIN kinds = 1..k /\ Head(kinds) = kinds[1]
  <2>1. kinds \in [1..k -> Verdicts \cup {"ROW", "ERRORROW"}]
    BY <1>3 DEF Verdicts
  <2>2. 1 \in 1..k
    BY <1>1
  <2>3. kinds \in Seq(Verdicts \cup {"ROW", "ERRORROW"}) /\ DOMAIN kinds = 1..k
    BY <1>1, <2>1
  <2> QED
    BY <2>2, <2>3
<1>5. /\ ~Contains(kinds, "PART")
      /\ Contains(kinds, "ERROR") => req \notin Queries
      /\ \A words : Begins(kinds, words) <=> kinds[1] \in words
  <2>1. \A x : Contains(kinds, x) => \E i \in 1..k : kinds[i] = x
    <3> SUFFICES ASSUME NEW x, Contains(kinds, x) PROVE \E i \in 1..k : kinds[i] = x
      OBVIOUS
    <3>1. Len(kinds) = k
      BY <1>1, <1>4
    <3> QED
      BY <3>1 DEF Contains
  <2>2. ~Contains(kinds, "PART")
    BY <1>3, <2>1 DEF Verdicts
  <2>3. Contains(kinds, "ERROR") => req \notin Queries
    BY <1>3, <2>1
  <2>4. \A words : Begins(kinds, words) <=> kinds[1] \in words
    BY <1>4 DEF Begins
  <2> QED
    BY <2>2, <2>3, <2>4
<1>6. verdict = Verdict(req, kinds)
  BY <1>5 DEF Outcomes
<1>7. 1 \in 1..k
  BY <1>1
<1>8. CASE kinds[1] \in Verdicts
  <2>1. Len(Coming) = 1
    BY <1>3, <1>8
  <2>2. k = 1
    BY <1>1, <1>2, <2>1
  <2>3. req \in Queries => kinds[1] = "OK"
    BY <1>3, <1>7, <1>8 DEF Verdicts
  <2>4. ~Contains(kinds, "ERRORROW")
    <3>1. kinds[1] # "ERRORROW" /\ Len(kinds) = 1
      BY <1>4, <1>8, <2>2 DEF Verdicts
    <3> QED
      BY <3>1 DEF Contains
  <2>5. (~Contains(kinds, "ERROR") /\ ~HasError(kinds)) \/ req \notin Queries
    BY <1>5, <2>4 DEF HasError
  <2>6. req \in Queries => Begins(kinds, {"OK", "OKROW"})
    BY <1>5, <2>3
  <2>7. req \in {"CONNECT", "QUIT", "ADD", "DELETE"} \/ req \in Queries
    <3>1. req # "none"
      BY <1>2, <1>7 DEF OneAnswer
    <3> QED
      BY <3>1 DEF TypeOK, Ops, Queries
  <2>8. verdict \in {"ok", "fail"}
    BY <1>6, <2>5, <2>6, <2>7 DEF Verdict, Queries
  <2> QED
    BY <1>2, <1>7, <2>1, <2>2, <2>3, <2>8 DEF Queries
<1>9. CASE kinds[1] \notin Verdicts
  <2>1. req \in Queries /\ kinds[1] \in {"ROW", "ERRORROW"}
    BY <1>3, <1>7, <1>9 DEF Verdicts
  <2>2. IsRow(kinds)
    BY <1>4, <1>7, <2>1 DEF IsRow, Rows
  <2>3. ~Begins(kinds, {"OK", "OKROW"})
    BY <1>5, <2>1
  <2>4. ~Contains(kinds, "ERROR")
    BY <1>5, <2>1
  <2>5. verdict \in {"fail", "row"} /\ (verdict = "fail" => HasError(kinds))
    BY <1>6, <2>1, <2>2, <2>3 DEF Verdict, Queries
  <2>6. verdict = "row"
    BY <2>4, <2>5 DEF HasError
  <2> QED
    BY <2>1, <2>6
<1> QED
  BY <1>8, <1>9

\* The client reads: the rest of the replies come as many places sooner.
LEMMA ReceiveKeeps ==
  ASSUME InStepInv, Receive
  PROVE  InStepInv'
<1> DEFINE Kinds(k, cut) == [i \in 1..k |-> IF cut /\ i = k THEN "PART" ELSE toClient[i].kind]
<1>1. TypeOK
  BY DEF InStepInv
<1>2. PICK chunk \in Chunks(toClient) :
        \E verdict \in Outcomes(req, Kinds(chunk[1], chunk[2])) :
          /\ toClient' = Left(toClient, chunk[1], chunk[2])
          /\ result' = IF verdict \in {"ok", "fail"} THEN verdict ELSE "none"
          /\ shown' = IF verdict = "row" THEN shown + 1 ELSE shown
          /\ cpc' = CASE verdict = "crash" -> "crashed"
                      [] verdict = "row" -> IF req = "LIST" THEN "wait" ELSE "download"
                      [] OTHER -> After(req)
          /\ glued' = glued + (chunk[1] - 1)
          /\ endLost' = (endLost \/ (verdict = "row" /\ Contains(Kinds(chunk[1], chunk[2]), "OK")))
          /\ clean' = (clean /\ ~chunk[2] /\ ~(verdict = "fail" /\ Contains(Kinds(chunk[1], chunk[2]), "ERRORROW")))
  BY DEF Receive
<1> DEFINE k == chunk[1]
           cut == chunk[2]
           kinds == Kinds(k, cut)
<1>3. k \in 1..Len(toClient) /\ cut \in BOOLEAN
  BY DEF Chunks
<1>4. PICK verdict \in Outcomes(req, kinds) :
          /\ toClient' = Left(toClient, k, cut)
          /\ result' = IF verdict \in {"ok", "fail"} THEN verdict ELSE "none"
          /\ shown' = IF verdict = "row" THEN shown + 1 ELSE shown
          /\ cpc' = CASE verdict = "crash" -> "crashed"
                      [] verdict = "row" -> IF req = "LIST" THEN "wait" ELSE "download"
                      [] OTHER -> After(req)
          /\ glued' = glued + (k - 1)
          /\ endLost' = (endLost \/ (verdict = "row" /\ Contains(kinds, "OK")))
          /\ clean' = (clean /\ ~cut /\ ~(verdict = "fail" /\ Contains(kinds, "ERRORROW")))
  BY <1>2
<1>5. cpc = "wait" /\ UNCHANGED <<toServer, link, req, n, sstate, out, found>>
  BY DEF Receive, serverVars
<1>6. ~cut => kinds = [i \in 1..k |-> toClient[i].kind]
  OBVIOUS
<1> HIDE DEF k, cut, kinds, Kinds
<1>7. toClient \in Seq(Replies) /\ out \in Seq(Replies) /\ Len(toClient) \in Nat /\ k \in Nat \ {0}
  BY <1>1, <1>3 DEF TypeOK
<1>8. /\ toClient' \in Seq(Replies)
      /\ ~cut => toClient' = SubSeq(toClient, k + 1, Len(toClient))
  <2>1. toClient[k] \in Replies
    BY <1>3, <1>7
  <2>2. [toClient[k] EXCEPT !.kind = "PART"] \in Replies
    BY <2>1 DEF Replies
  <2> QED
    BY <1>3, <1>4, <1>7, <2>2, LeftFacts
<1>9. TypeOK'
  <2>1. /\ result' \in {"none", "ok", "fail"} /\ cpc' \in {"out", "idle", "wait", "download", "crashed"}
        /\ shown' \in Nat /\ glued' \in Nat
    BY <1>1, <1>4, <1>7 DEF TypeOK, After
  <2>2. endLost' \in BOOLEAN
    BY <1>4
  <2>3. clean' \in BOOLEAN
    BY <1>4
  <2> QED
    BY <1>1, <1>5, <1>8, <2>1, <2>2, <2>3 DEF TypeOK
<1>10. ASSUME clean'
       PROVE  /\ (QuietBetweenCalls /\ OneRequest /\ OneAnswer /\ RowsAddUp /\ EndedIsSilent)'
              /\ cpc' # "crashed"
              /\ ListAddsUp'
  <2>1. clean /\ ~cut /\ ~(verdict = "fail" /\ Contains(kinds, "ERRORROW"))
    BY <1>4, <1>10
  <2>2. OneRequest /\ OneAnswer /\ RowsAddUp /\ EndedIsSilent
    BY <2>1 DEF InStepInv
  <2>3. /\ \A j \in 1..k : j \in 1..Len(Coming)
        /\ Len(Coming) \in Nat
        /\ Len(Coming') \in Nat /\ Len(Coming') = Len(Coming) - k
        /\ \A j \in 1..Len(Coming') : Coming'[j] = Coming[j + k]
    <3>1. Coming' = SubSeq(toClient, k + 1, Len(toClient)) \o out
      BY <1>5, <1>8, <2>1 DEF Coming
    <3>2. Coming' \in Seq(Replies)
      BY <1>5, <1>7, <1>8, ConcatElements DEF Coming
    <3>3. Coming = toClient \o out
      BY DEF Coming
    <3>4. Len(Coming') \in Nat
      BY <3>2
    <3> HIDE DEF Coming
    <3>0. toClient \in Seq(Replies) /\ out \in Seq(Replies) /\ k \in 1..Len(toClient)
      BY <1>3, <1>7
    <3>5. /\ \A j \in 1..k : j \in 1..Len(toClient \o out)
          /\ Len(toClient \o out) \in Nat
          /\ Len(SubSeq(toClient, k + 1, Len(toClient)) \o out) = Len(toClient \o out) - k
          /\ \A j \in 1..(Len(toClient \o out) - k) :
               (SubSeq(toClient, k + 1, Len(toClient)) \o out)[j] = (toClient \o out)[j + k]
      BY <3>0, TakenFirst
    <3>6. /\ \A j \in 1..k : j \in 1..Len(Coming)
          /\ Len(Coming) \in Nat
          /\ Len(Coming') = Len(Coming) - k
          /\ \A j \in 1..(Len(Coming) - k) : Coming'[j] = Coming[j + k]
      BY <3>1, <3>3, <3>5, Zenon
    <3> QED
      BY <3>4, <3>6
  <2>4. \/ /\ k = 1 /\ Len(Coming) = 1
           /\ verdict \in {"ok", "fail"}
           /\ req = "LIST" => Coming[1].kind = "OK"
        \/ verdict = "row" /\ req \in Queries
    BY <1>1, <1>3, <1>6, <2>1, <2>2, CleanReceive
  <2>5. toServer = <<>>
    <3>1. Len(Coming) # 0
      BY <1>7, <2>3
    <3> QED
      BY <1>1, <2>2, <3>1, ComingFacts DEF OneRequest
  <2>6. OneAnswer'
    <3> SUFFICES ASSUME NEW j \in 1..Len(Coming')
                 PROVE  /\ req # "none" /\ Coming'[j].n = n
                        /\ Coming'[j].kind \in IF req \in Queries THEN {"ROW", "ERRORROW", "OK"} ELSE Verdicts
                        /\ Coming'[j].kind \in Verdicts => j = Len(Coming')
      BY <1>5 DEF OneAnswer
    <3>1. j + k \in 1..Len(Coming) /\ (j + k = Len(Coming) => j = Len(Coming'))
      BY <1>7, <2>3
    <3> QED
      BY <2>2, <2>3, <3>1 DEF OneAnswer
  <2>7. OneRequest' /\ EndedIsSilent'
    BY <1>5, <1>8, <2>1, <2>2, <2>5 DEF OneRequest, EndedIsSilent
  <2>8. CASE verdict = "row" /\ req \in Queries
    <3>1. shown' = shown + 1 /\ result' = "none" /\ cpc' \in {"wait", "download"} /\ glued' = glued + (k - 1)
      BY <1>4, <2>8
    <3>2. RowsAddUp'
      <4> SUFFICES ASSUME req = "LIST", NEW j \in 1..Len(Coming'), Coming'[j].kind = "OK"
                   PROVE  ((shown + 1) + (glued + (k - 1))) + (j - 1) = found
        BY <1>5, <3>1 DEF RowsAddUp
      <4>1. j + k \in 1..Len(Coming) /\ Coming[j + k].kind = "OK"
        BY <1>7, <2>3
      <4>2. (shown + glued) + ((j + k) - 1) = found
        BY <2>2, <4>1 DEF RowsAddUp
      <4>3. shown \in Nat /\ glued \in Nat /\ found \in Nat /\ j \in Nat
        BY <1>1, <2>3 DEF TypeOK
      <4> QED
        BY <1>7, <4>2, <4>3
    <3> QED
      BY <2>6, <2>7, <3>1, <3>2 DEF QuietBetweenCalls, ListAddsUp
  <2>9. CASE /\ k = 1 /\ Len(Coming) = 1
             /\ verdict \in {"ok", "fail"}
             /\ req = "LIST" => Coming[1].kind = "OK"
    <3>1. Len(Coming') = 0
      BY <2>3, <2>9
    <3>2. Coming' = <<>>
      BY <1>9, <3>1, ComingFacts
    <3>3. shown' = shown /\ glued' = glued /\ cpc' \in {"idle", "out"}
      BY <1>1, <1>4, <2>9 DEF TypeOK, After
    <3>4. req = "LIST" => shown + glued = found
      <4>1. req = "LIST" => (shown + glued) + (1 - 1) = found
        BY <2>2, <2>9 DEF RowsAddUp
      <4>2. shown \in Nat /\ glued \in Nat
        BY <1>1 DEF TypeOK
      <4> QED
        BY <4>1, <4>2
    <3> QED
      BY <1>5, <2>5, <2>6, <2>7, <3>1, <3>2, <3>3, <3>4 DEF QuietBetweenCalls, RowsAddUp, ListAddsUp
  <2> QED
    BY <2>4, <2>8, <2>9
<1> QED
  BY <1>9, <1>10 DEF InStepInv, ListAddsUp, CrashesHaveCause

\* The end of the connection, and a download.
LEMMA CallAsideKeeps ==
  ASSUME InStepInv, ReceiveEnd \/ DownloadEnds \/ DownloadFails
  PROVE  InStepInv'
<1>1. /\ UNCHANGED <<toServer, toClient, link, sstate, out, found, req, n, shown, glued, endLost>>
      /\ clean' \in {clean, FALSE}
      /\ \/ ReceiveEnd /\ clean' = clean
         \/ DownloadEnds /\ clean' = clean
         \/ DownloadFails /\ clean' = FALSE
  BY DEF ReceiveEnd, DownloadEnds, DownloadFails, serverVars, behindVars
<1>2. TypeOK
  BY DEF InStepInv
<1>3. Coming' = Coming
  BY <1>1 DEF Coming
<1>4. /\ cpc' \in {"out", "idle", "wait", "crashed"}
      /\ result' \in {result, "fail"}
      /\ cpc \in {"wait", "download"}
  BY DEF ReceiveEnd, DownloadEnds, DownloadFails, After
<1>5. TypeOK'
  <2>1. clean' \in BOOLEAN /\ result' \in {"none", "ok", "fail"}
    BY <1>1, <1>2, <1>4 DEF TypeOK
  <2>2. cpc' \in {"out", "idle", "wait", "download", "crashed"}
    BY <1>4
  <2> QED
    BY <1>1, <1>2, <2>1, <2>2, Zenon DEF TypeOK
<1>6. ASSUME clean' PROVE (QuietBetweenCalls /\ OneRequest /\ OneAnswer /\ RowsAddUp /\ EndedIsSilent)' /\ ListAddsUp'
  <2>1. clean /\ OneRequest /\ OneAnswer /\ RowsAddUp /\ EndedIsSilent /\ ListAddsUp
    BY <1>1, <1>2, <1>6 DEF InStepInv, TypeOK
  <2>2. (OneAnswer /\ RowsAddUp /\ EndedIsSilent /\ ListAddsUp)'
    BY <1>1, <1>3, <1>4, <2>1 DEF OneAnswer, RowsAddUp, EndedIsSilent, ListAddsUp
  <2>3. CASE ReceiveEnd
    <3>1. toClient = <<>> /\ link # "up"
      BY <2>3 DEF ReceiveEnd
    <3>2. toServer = <<>> /\ Coming = <<>>
      BY <1>2, <2>1, <3>1, ComingFacts DEF EndedIsSilent
    <3> QED
      BY <1>1, <1>3, <2>2, <3>2 DEF QuietBetweenCalls, OneRequest
  <2>4. CASE DownloadEnds
    <3>1. cpc = "download" /\ cpc' = "wait"
      BY <2>4 DEF DownloadEnds
    <3>2. toServer = <<>>
      BY <2>1, <3>1 DEF OneRequest
    <3> QED
      BY <1>1, <2>2, <3>1, <3>2 DEF QuietBetweenCalls, OneRequest
  <2> QED
    BY <1>1, <1>6, <2>3, <2>4
<1>7. CrashesHaveCause'
  <2>1. CASE ReceiveEnd
    <3>1. cpc' = "crashed" => link' # "up" /\ link' # "reset"
      BY <2>1 DEF ReceiveEnd, After
    <3> QED
      BY <1>5, <3>1 DEF CrashesHaveCause, TypeOK
  <2> QED
    BY <1>1, <2>1 DEF DownloadEnds, DownloadFails, CrashesHaveCause
<1> QED
  BY <1>5, <1>6, <1>7 DEF InStepInv, ListAddsUp

-----------------------------------------------------------------------------
(* The invariant is kept: the session and the connection. *)

\* The replies to one request: the reply that ends the call is the last, and only a
\* query has rows.
LEMMA AnswerFacts ==
  ASSUME NEW op \in Ops \cup {"CONNECT", "QUIT", "junk"}, NEW steps \in Seq(Steps), NEW fails \in BOOLEAN
  PROVE  LET a == Answers(op, steps, fails)
         IN  /\ a \in Seq(Steps \cup Verdicts)
             /\ op \notin Queries /\ ~(fails /\ op = "DELETE") =>
                  Len(a) = 1 /\ a[1] \in Verdicts
             /\ op \in Queries /\ ~fails =>
                  /\ Len(a) = Len(steps) + 1
                  /\ \A k \in 1..Len(steps) : a[k] = steps[k]
                  /\ a[Len(a)] = "OK"
<1>1. CASE op \in Queries
  <2>1. Answers(op, steps, fails) = IF fails THEN steps ELSE Append(steps, "OK")
    BY <1>1 DEF Answers, Queries
  <2>2. steps \in Seq(Steps \cup Verdicts)
    OBVIOUS
  <2>3. Append(steps, "OK") \in Seq(Steps \cup Verdicts)
    <3>1. "OK" \in Steps \cup Verdicts
      BY DEF Verdicts
    <3> HIDE DEF Steps, Verdicts
    <3> QED
      BY <2>2, <3>1
  <2>4. /\ Len(Append(steps, "OK")) = Len(steps) + 1
        /\ \A k \in 1..Len(steps) : Append(steps, "OK")[k] = steps[k]
        /\ Append(steps, "OK")[Len(steps) + 1] = "OK"
    OBVIOUS
  <2> QED
    BY <1>1, <2>1, <2>2, <2>3, <2>4
<1>2. CASE op \notin Queries
  <2>1. Answers(op, steps, fails) \in {<<"ACCEPT">>, <<"GOODBYE">>, <<"ERROR">>, <<"OK">>, <<"ERROR", "OK">>}
    BY <1>2 DEF Answers
  <2>2. ~(fails /\ op = "DELETE") => Answers(op, steps, fails) \in {<<"ACCEPT">>, <<"GOODBYE">>, <<"ERROR">>, <<"OK">>}
    BY <1>2 DEF Answers
  <2>3. \A v \in Verdicts : <<v>> \in Seq(Steps \cup Verdicts) /\ Len(<<v>>) = 1 /\ <<v>>[1] = v
    OBVIOUS
  <2>4. <<"ERROR", "OK">> \in Seq(Steps \cup Verdicts)
    BY DEF Verdicts
  <2>5. Answers(op, steps, fails) \in Seq(Steps \cup Verdicts)
    BY <2>1, <2>3, <2>4 DEF Verdicts
  <2>6. ~(fails /\ op = "DELETE") => Len(Answers(op, steps, fails)) = 1 /\ Answers(op, steps, fails)[1] \in Verdicts
    BY <2>2, <2>3 DEF Verdicts
  <2> QED
    BY <1>2, <2>5, <2>6
<1> QED
  BY <1>1, <1>2

\* The steps of a query.
LEMMA StepsType ==
  ASSUME NEW steps \in BoundedSeq(Steps, MaxRows)
  PROVE  steps \in Seq(Steps) /\ Len(steps) \in Nat
<1>1. PICK k \in 0..MaxRows : steps \in [1..k -> Steps]
  BY DEF BoundedSeq, SeqOf
<1>2. k \in Nat
  BY DialogueAssumption
<1> QED
  BY <1>1, <1>2

\* What is sent in answer to a request that is not ignored.
LEMMA OutFacts ==
  ASSUME NEW kinds \in Seq(Steps \cup Verdicts), NEW k \in Nat
  PROVE  LET o == [i \in DOMAIN kinds |-> Message(kinds[i], k)]
         IN  /\ o \in Seq(Replies)
             /\ Len(o) = Len(kinds) /\ Len(kinds) \in Nat
             /\ \A i \in 1..Len(kinds) : o[i].kind = kinds[i] /\ o[i].n = k
<1> DEFINE o == [i \in DOMAIN kinds |-> Message(kinds[i], k)]
<1>1. DOMAIN kinds = 1..Len(kinds) /\ Len(kinds) \in Nat
  OBVIOUS
<1>2. \A i \in 1..Len(kinds) : Message(kinds[i], k) \in Replies
  BY DEF Message, Replies
<1>3. o \in [1..Len(kinds) -> Replies]
  BY <1>1, <1>2
<1>4. o \in Seq(Replies) /\ Len(o) = Len(kinds)
  BY <1>1, <1>3
<1> QED
  BY <1>1, <1>4 DEF Message

\* The session handles the first request.
LEMMA HandleKeeps ==
  ASSUME InStepInv, NEW steps \in BoundedSeq(Steps, MaxRows), NEW fails \in BOOLEAN, Handle(steps, fails)
  PROVE  InStepInv'
<1> DEFINE m == Head(toServer)
           bad == \E step \in Steps \ {"ROW", "ERRORROW"} : Contains(steps, step)
<1>1. /\ out = <<>>
      /\ sstate \in {"hello", "talk"}
      /\ UNCHANGED <<toClient, link, cpc, req, n, shown, glued, endLost, result>>
  BY DEF Handle, clientVars, behindVars
<1>2. TypeOK
  BY DEF InStepInv
<1>3. PICK chunk \in Chunks(toServer), op \in Ops \cup {"CONNECT", "QUIT", "junk"} :
        LET ignored == sstate = "hello" /\ op \notin {"CONNECT", "QUIT"}
            kinds == Answers(op, steps, fails)
        IN  /\ op \in ReadAs(m.kind, chunk[2] /\ chunk[1] = 1)
            /\ toServer' = Left(toServer, chunk[1], chunk[2])
            /\ sstate' = CASE op = "QUIT" -> "ended"
                           [] op = "CONNECT" -> "talk"
                           [] op \in Queries /\ fails -> "endless"
                           [] OTHER -> sstate
            /\ out' = IF ignored THEN <<>> ELSE [i \in DOMAIN kinds |-> Message(kinds[i], m.n)]
            /\ found' = IF op = "LIST" THEN Len(steps) ELSE found
            /\ clean' = (clean /\ ~chunk[2] /\ ~ignored /\ (fails => op = "ADD") /\ ~bad)
  BY DEF Handle
<1> DEFINE k == chunk[1]
           cut == chunk[2]
           kinds == Answers(op, steps, fails)
           answer == [i \in DOMAIN kinds |-> Message(kinds[i], m.n)]
           ignored == sstate = "hello" /\ op \notin {"CONNECT", "QUIT"}
<1>4. /\ op \in ReadAs(m.kind, cut /\ k = 1)
      /\ toServer' = Left(toServer, k, cut)
      /\ sstate' = CASE op = "QUIT" -> "ended"
                     [] op = "CONNECT" -> "talk"
                     [] op \in Queries /\ fails -> "endless"
                     [] OTHER -> sstate
      /\ out' = IF ignored THEN <<>> ELSE answer
      /\ found' = IF op = "LIST" THEN Len(steps) ELSE found
      /\ clean' = (clean /\ ~cut /\ ~ignored /\ (fails => op = "ADD") /\ ~bad)
  BY <1>3
<1>5. k \in 1..Len(toServer) /\ cut \in BOOLEAN
  BY DEF Chunks
<1> HIDE DEF k, cut, bad
<1>6. toServer \in Seq(Requests) /\ toServer # <<>> /\ Len(toServer) \in Nat
  <2>1. toServer \in Seq(Requests)
    BY <1>2 DEF TypeOK
  <2> QED
    BY <1>5, <2>1
<1>7. m \in Requests /\ m.kind \in Ops \cup {"CONNECT", "QUIT", "PART"} /\ m.n \in Nat
  <2>1. m \in Requests
    BY <1>6
  <2> QED
    BY <2>1 DEF Requests
<1>8. toServer' \in Seq(Requests)
      /\ (~cut => toServer' = SubSeq(toServer, k + 1, Len(toServer)))
  <2>1. toServer[k] \in Requests
    BY <1>5, <1>6
  <2>2. [toServer[k] EXCEPT !.kind = "PART"] \in Requests
    BY <2>1 DEF Requests
  <2> QED
    BY <1>4, <1>5, <1>6, <2>2, LeftFacts
<1>9. steps \in Seq(Steps) /\ Len(steps) \in Nat
  BY StepsType
<1>10. /\ kinds \in Seq(Steps \cup Verdicts)
       /\ op \notin Queries /\ ~(fails /\ op = "DELETE") =>
            Len(kinds) = 1 /\ kinds[1] \in Verdicts
       /\ op \in Queries /\ ~fails =>
            /\ Len(kinds) = Len(steps) + 1
            /\ \A j \in 1..Len(steps) : kinds[j] = steps[j]
            /\ kinds[Len(kinds)] = "OK"
  BY <1>9, AnswerFacts
<1> HIDE DEF kinds, m
<1>11. /\ answer \in Seq(Replies)
       /\ Len(answer) = Len(kinds) /\ Len(kinds) \in Nat
       /\ \A i \in 1..Len(kinds) : answer[i].kind = kinds[i] /\ answer[i].n = m.n
  BY <1>7, <1>10, OutFacts
<1> HIDE DEF answer
<1>12. TypeOK'
  <2>1. out' \in Seq(Replies)
    BY <1>4, <1>11
  <2>2. sstate' \in {"hello", "talk", "endless", "ended"}
    BY <1>1, <1>4
  <2>3. found' \in Nat
    BY <1>2, <1>4, <1>9 DEF TypeOK
  <2>4. clean' \in BOOLEAN
    BY <1>4
  <2> QED
    BY <1>1, <1>2, <1>8, <2>1, <2>2, <2>3, <2>4 DEF TypeOK
<1>13. ASSUME clean'
       PROVE  /\ (QuietBetweenCalls /\ OneRequest /\ OneAnswer /\ RowsAddUp /\ EndedIsSilent)'
              /\ result' = "none"
  <2>1. /\ clean /\ ~cut /\ (fails => op = "ADD") /\ ~bad
        /\ out' = answer
    BY <1>4, <1>13
  <2>2. OneRequest /\ EndedIsSilent
    BY <2>1 DEF InStepInv
  <2>3. /\ toServer = <<Message(req, n)>>
        /\ Coming = <<>> /\ cpc = "wait" /\ shown = 0 /\ glued = 0 /\ result = "none" /\ link = "up"
    BY <1>6, <2>2 DEF OneRequest, EndedIsSilent
  <2>4. m = Message(req, n) /\ m.kind = req /\ m.n = n
    BY <2>3 DEF m, Message
  <2>5. op = req /\ req \in Ops \cup {"CONNECT", "QUIT"}
    <3>1. req # "PART" /\ req \in Ops \cup {"CONNECT", "QUIT"}
      BY <1>2, <1>7, <2>4 DEF TypeOK, Ops
    <3> QED
      BY <1>4, <2>1, <2>4, <3>1 DEF ReadAs
  <2>6. toServer' = <<>>
    <3>1. Len(toServer) = 1
      BY <2>3
    <3>2. k = 1
      BY <1>5, <3>1
    <3>3. SubSeq(toServer, 2, 1) = <<>>
      BY <1>6
    <3> QED
      BY <1>8, <2>1, <3>1, <3>2, <3>3
  <2>7. Coming' = answer
    <3>1. toClient' = <<>>
      BY <1>1, <1>2, <2>3, ComingFacts
    <3>2. <<>> \o answer = answer
      BY <1>11
    <3> QED
      BY <2>1, <3>1, <3>2 DEF Coming
  <2>8. /\ \A j \in 1..Len(kinds) :
             /\ kinds[j] \in IF req \in Queries THEN {"ROW", "ERRORROW", "OK"} ELSE Verdicts
             /\ kinds[j] \in Verdicts => j = Len(kinds)
        /\ req = "LIST" => \A j \in 1..Len(kinds) : kinds[j] = "OK" => j = Len(steps) + 1
    <3>1. CASE req \notin Queries
      <4>1. Len(kinds) = 1 /\ kinds[1] \in Verdicts
        BY <1>10, <2>1, <2>5, <3>1
      <4>2. \A j \in 1..Len(kinds) : j = 1
        BY <4>1
      <4>3. req # "LIST"
        BY <3>1 DEF Queries
      <4> HIDE DEF Verdicts
      <4> QED
        BY <3>1, <4>1, <4>2, <4>3
    <3>2. CASE req \in Queries
      <4>1. /\ Len(kinds) = Len(steps) + 1
            /\ \A j \in 1..Len(steps) : kinds[j] = steps[j]
            /\ kinds[Len(kinds)] = "OK"
        BY <1>10, <2>1, <2>5, <3>2 DEF Queries
      <4>2. \A j \in 1..Len(steps) : kinds[j] \in {"ROW", "ERRORROW"}
        <5>1. \A j \in 1..Len(steps) : steps[j] \in Steps
          BY <1>9
        <5> QED
          BY <2>1, <4>1, <5>1 DEF bad, Contains
      <4>3. \A j \in 1..Len(kinds) : j \in 1..Len(steps) \/ j = Len(kinds)
        BY <1>9, <4>1
      <4>4. \A j \in 1..Len(kinds) :
              /\ kinds[j] \in {"ROW", "ERRORROW", "OK"}
              /\ kinds[j] \in Verdicts => j = Len(kinds)
        BY <4>1, <4>2, <4>3 DEF Verdicts
      <4>5. \A j \in 1..Len(kinds) : kinds[j] = "OK" => j = Len(steps) + 1
        BY <4>1, <4>4 DEF Verdicts
      <4> QED
        BY <3>2, <4>4, <4>5
    <3> QED
      BY <3>1, <3>2
  <2>9. OneAnswer'
    <3>1. \A j \in 1..Len(kinds) : answer[j].kind = kinds[j] /\ answer[j].n = n
      BY <1>11, <2>4
    <3>2. Len(answer) = Len(kinds) /\ req # "none"
      BY <1>11, <2>5 DEF Ops
    <3>3. req' = req /\ n' = n
      BY <1>1
    <3> SUFFICES ASSUME NEW j \in 1..Len(answer)
                 PROVE  /\ req # "none" /\ answer[j].n = n
                        /\ answer[j].kind \in IF req \in Queries THEN {"ROW", "ERRORROW", "OK"} ELSE Verdicts
                        /\ answer[j].kind \in Verdicts => j = Len(answer)
      BY <2>7, <3>3 DEF OneAnswer
    <3> HIDE DEF Verdicts, Queries
    <3> QED
      BY <2>8, <3>1, <3>2
  <2>10. RowsAddUp'
    <3> SUFFICES ASSUME req = "LIST", NEW j \in 1..Len(kinds), kinds[j] = "OK"
                 PROVE  (0 + 0) + (j - 1) = Len(steps)
      BY <1>1, <1>4, <1>11, <2>3, <2>5, <2>7 DEF RowsAddUp
    <3>1. j = Len(steps) + 1
      BY <2>8
    <3> QED
      BY <1>9, <3>1
  <2> QED
    BY <1>1, <2>3, <2>6, <2>9, <2>10 DEF QuietBetweenCalls, OneRequest, EndedIsSilent
<1>14. clean' => clean
  BY <1>4
<1> QED
  BY <1>1, <1>12, <1>13, <1>14 DEF InStepInv, ListAddsUp, CrashesHaveCause

\* The session sends a reply: it is one of those to come before and after.
LEMMA SendReplyKeeps ==
  ASSUME InStepInv, SendReply
  PROVE  InStepInv'
<1>1. /\ out # <<>>
      /\ toClient' = Append(toClient, Head(out))
      /\ out' = Tail(out)
      /\ UNCHANGED <<toServer, link, sstate, found, cpc, req, n, shown, glued, endLost, result, clean>>
  BY DEF SendReply, clientVars, behindVars
<1>2. toClient \in Seq(Replies) /\ out \in Seq(Replies)
  BY DEF InStepInv, TypeOK
<1>3. toClient' \in Seq(Replies) /\ out' \in Seq(Replies) /\ Coming' = Coming
  BY <1>1, <1>2, MovedOn DEF Coming
<1>4. TypeOK'
  <2>1. TypeOK
    BY DEF InStepInv
  <2>2. /\ toServer' \in Seq(Requests) /\ n' \in Nat /\ shown' \in Nat /\ found' \in Nat /\ glued' \in Nat
        /\ req' \in Ops \cup {"none", "CONNECT", "QUIT"}
    BY <1>1, <2>1, Zenon DEF TypeOK
  <2>3. /\ link' \in {"up", "closed", "reset"}
        /\ sstate' \in {"hello", "talk", "endless", "ended"}
        /\ cpc' \in {"out", "idle", "wait", "download", "crashed"}
        /\ result' \in {"none", "ok", "fail"}
    BY <1>1, <2>1, Zenon DEF TypeOK
  <2>4. endLost' \in BOOLEAN /\ clean' \in BOOLEAN
    BY <1>1, <2>1, Zenon DEF TypeOK
  <2> QED
    BY <1>3, <2>2, <2>3, <2>4 DEF TypeOK
<1>5. ASSUME clean PROVE (QuietBetweenCalls /\ OneRequest /\ OneAnswer /\ RowsAddUp /\ EndedIsSilent)'
  BY <1>1, <1>3, <1>5 DEF InStepInv, QuietBetweenCalls, OneRequest, OneAnswer, RowsAddUp, EndedIsSilent
<1> QED
  BY <1>1, <1>4, <1>5 DEF InStepInv, ListAddsUp, CrashesHaveCause

\* The connection ends: of the replies to come the first ones are left.
LEMMA LinkBreaksKeeps ==
  ASSUME InStepInv, LinkBreaks
  PROVE  InStepInv'
<1>1. /\ link = "up" /\ link' \in {"closed", "reset"} /\ sstate' = "ended"
      /\ toServer' = <<>> /\ out' = <<>>
      /\ toClient' \in {toClient, <<>>}
      /\ UNCHANGED <<found, cpc, req, n, shown, glued, endLost, result, clean>>
  BY DEF LinkBreaks, clientVars, behindVars
<1>2. toClient \in Seq(Replies) /\ out \in Seq(Replies) /\ TypeOK
  BY DEF InStepInv, TypeOK
<1>3. TypeOK'
  <2>1. <<>> \in Seq(Requests) /\ <<>> \in Seq(Replies)
    OBVIOUS
  <2>2. toServer' \in Seq(Requests) /\ out' \in Seq(Replies) /\ toClient' \in Seq(Replies)
    BY <1>1, <1>2, <2>1
  <2> QED
    BY <1>1, <1>2, <2>2 DEF TypeOK
<1>4. /\ Len(Coming') \in Nat /\ Len(Coming) \in Nat
      /\ Len(Coming') <= Len(Coming)
      /\ \A k \in 1..Len(Coming') : Coming'[k] = Coming[k]
      /\ Coming = <<>> => Coming' = <<>>
  <2>1. toClient' \o <<>> = toClient'
    BY <1>1, <1>2
  <2>2. Coming' = toClient \/ Coming' = <<>>
    BY <1>1, <2>1 DEF Coming
  <2> QED
    BY <1>2, <2>2, ConcatElements, ComingFacts DEF Coming
<1>5. ASSUME clean PROVE (QuietBetweenCalls /\ OneRequest /\ OneAnswer /\ RowsAddUp /\ EndedIsSilent)'
  <2>1. QuietBetweenCalls /\ OneAnswer /\ RowsAddUp
    BY <1>5 DEF InStepInv
  <2>2. \A k \in 1..Len(Coming') : k \in 1..Len(Coming) /\ (k = Len(Coming) => k = Len(Coming'))
    BY <1>4
  <2>3. OneAnswer'
    BY <1>1, <1>4, <2>1, <2>2 DEF OneAnswer
  <2>4. RowsAddUp'
    BY <1>1, <1>4, <2>1, <2>2 DEF RowsAddUp
  <2> QED
    BY <1>1, <1>4, <2>1, <2>3, <2>4 DEF QuietBetweenCalls, OneRequest, EndedIsSilent
<1>6. cpc = "crashed" => ~clean
  BY <1>1 DEF InStepInv, CrashesHaveCause
<1> QED
  BY <1>1, <1>3, <1>5, <1>6 DEF InStepInv, ListAddsUp, CrashesHaveCause

-----------------------------------------------------------------------------
(* The theorems. *)

\* InStepInv holds in every reachable state, however the recvs of the client and of the
\* session (recv_msg) divide the messages.
THEOREM DialogueInductive == Spec => []InStepInv
<1>1. Init => InStepInv
  <2> SUFFICES ASSUME Init PROVE InStepInv
    OBVIOUS
  <2>1. /\ toServer = <<>> /\ out = <<>> /\ link = "up" /\ sstate = "hello" /\ cpc = "out"
        /\ req = "none" /\ n = 0 /\ shown = 0 /\ result = "none" /\ found = 0 /\ glued = 0 /\ endLost = FALSE
        /\ toClient \in {<<>>, <<Message("BUSY", 0)>>} /\ clean = (toClient = <<>>)
    BY DEF Init
  <2>2. toClient \in Seq(Replies)
    <3>1. Message("BUSY", 0) \in Replies
      BY DEF Message, Replies
    <3>2. \A r \in Replies : <<r>> \in Seq(Replies)
      OBVIOUS
    <3>3. <<>> \in Seq(Replies)
      OBVIOUS
    <3> QED
      BY <2>1, <3>1, <3>2, <3>3
  <2>3. TypeOK
    <3>1. endLost \in BOOLEAN /\ clean \in BOOLEAN
      BY <2>1
    <3> QED
      BY <2>1, <2>2, <3>1 DEF TypeOK
  <2>4. ASSUME clean PROVE QuietBetweenCalls /\ OneRequest /\ OneAnswer /\ RowsAddUp /\ EndedIsSilent
    <3>1. toClient = <<>>
      BY <2>1, <2>4
    <3>2. Coming = <<>> /\ Len(Coming) = 0
      BY <2>1, <3>1, <2>3, ComingFacts
    <3> QED
      BY <2>1, <3>2 DEF QuietBetweenCalls, OneRequest, OneAnswer, RowsAddUp, EndedIsSilent
  <2> QED
    BY <2>1, <2>3, <2>4 DEF InStepInv, ListAddsUp, CrashesHaveCause
<1>2. InStepInv /\ [Next]_vars => InStepInv'
  <2> SUFFICES ASSUME InStepInv, [Next]_vars PROVE InStepInv'
    OBVIOUS
  <2>1. ASSUME NEW op \in Ops \cup {"CONNECT", "QUIT"}, Request(op) PROVE InStepInv'
    BY <2>1, RequestKeeps
  <2>2. ASSUME NEW op \in Ops \cup {"CONNECT", "QUIT"}, RequestFails(op) PROVE InStepInv'
    BY <2>2, RequestFailsKeeps
  <2>3. CASE Receive
    BY <2>3, ReceiveKeeps
  <2>4. CASE ReceiveEnd \/ DownloadEnds \/ DownloadFails
    BY <2>4, CallAsideKeeps
  <2>5. ASSUME NEW steps \in BoundedSeq(Steps, MaxRows), NEW fails \in BOOLEAN, Handle(steps, fails)
        PROVE  InStepInv'
    BY <2>5, HandleKeeps
  <2>6. CASE SendReply
    BY <2>6, SendReplyKeeps
  <2>7. CASE LinkBreaks
    BY <2>7, LinkBreaksKeeps
  <2>8. CASE UNCHANGED vars
    <3>1. Coming' = Coming
      BY <2>8 DEF vars, Coming
    <3> QED
      BY <2>8, <3>1 DEF vars, behindVars, InStepInv, TypeOK, QuietBetweenCalls, OneRequest, OneAnswer, RowsAddUp,
                        EndedIsSilent, ListAddsUp, CrashesHaveCause
  <2> QED
    BY <2>1, <2>2, <2>3, <2>4, <2>5, <2>6, <2>7, <2>8 DEF Next, Client, Calls, Download, Server
<1> QED
  BY <1>1, <1>2, PTL DEF Spec

\* InStep: as long as the connection is there, no message was cut and nothing has failed,
\* every reply on its way answers the client's current request, and a call that has returned (addFile,
\* deleteFile, showFileList, getFile) has left none of its replies for the next one.
THEOREM AlwaysInStep == Spec => []InStep
<1>1. InStepInv => InStep
  <2> SUFFICES ASSUME InStepInv, clean PROVE
        /\ \A i \in 1..Len(toClient) : toClient[i].n = n
        /\ cpc \in {"idle", "out"} => toServer = <<>> /\ toClient = <<>> /\ out = <<>>
    BY DEF InStep
  <2>1. toClient \in Seq(Replies) /\ out \in Seq(Replies) /\ OneAnswer
    BY DEF InStepInv, TypeOK
  <2>2. \A i \in 1..Len(toClient) : i \in 1..Len(Coming) /\ Coming[i] = toClient[i]
    BY <2>1, ConcatElements DEF Coming
  <2> QED
    BY <2>1, <2>2, Quiet DEF OneAnswer
<1> QED
  BY <1>1, DialogueInductive, PTL

\* ListAddsUp: when showFileList reports the end of the list it has shown every row the
\* server found but those that came behind another in one recv, also when the connection
\* was lost.
THEOREM ListAlwaysAddsUp == Spec => []ListAddsUp
<1>1. InStepInv => ListAddsUp
  BY DEF InStepInv
<1> QED
  BY <1>1, DialogueInductive, PTL

\* CrashesHaveCause: getFile meets a reply without words only after a failure, when a
\* message was cut, or when the server has closed the connection.
THEOREM DialogueCrashesHaveCause == Spec => []CrashesHaveCause
<1>1. InStepInv => CrashesHaveCause
  BY DEF InStepInv
<1> QED
  BY <1>1, DialogueInductive, PTL
==============================================================================
