-------------------------- MODULE FileTransferProofs --------------------------
(***************************************************************************)
(* Theorems about FileTransfer for every size of the buffer, of the name   *)
(* and of what the connection holds, every length of the file, and every   *)
(* number of bytes a recv may return. The invariant that is inductive is   *)
(* IInv.                                                                   *)
(***************************************************************************)
EXTENDS FileTransfer, TLAPS

-----------------------------------------------------------------------------
(* The inductive invariant behind WrittenInOrder and WholeIffUndisturbed. *)

\* The elements of s are b, b + 1, ...
Consecutive(s, b) == \A p \in 1..Len(s) : s[p] = b + p - 1

\* What has been sent. The stream ends with the last byte sent.
Progress ==
  /\ spc \in {"name", "open", "missing"} => sent = 0
  /\ spc = "closed" => sent = length
  /\ spc = "name" => rpc \notin {"data", "done"}
  /\ spc \in {"name", "broken"} => stream = <<>>
  /\ Consecutive(stream, (sent + 1) - Len(stream))

\* Until the name is received everything sent is still in the stream.
BeforeName ==
  rpc \in {"create", "name", "failed"} =>
    /\ written = <<>>
    /\ skipped = 0
    /\ mishaps \subseteq {"link"}
    /\ spc \notin {"name", "broken"} => Len(stream) = sent + NameLength

\* What is written comes before what is in the stream, and it is in order.
Ordered ==
  /\ \A p, q \in 1..Len(written) : p < q => written[p] < written[q]
  /\ spc # "broken" => \A p \in 1..Len(written) : written[p] <= sent - Len(stream)

\* As long as WriteFile writes all, the file on the disk begins behind what the first
\* recv took.
Contiguous == "write" \notin mishaps => Consecutive(written, (skipped - NameLength) + 1)

\* Neither the disk nor the connection has failed.
Sound == mishaps \cap {"write", "link"} = {}

\* A connection that broke stays so.
LinkIsBroken == "link" \in mishaps => spc = "broken"

\* Every byte sent is skipped, written or in the stream.
Accounted ==
  /\ LinkIsBroken
  /\ rpc \in {"create", "name", "data"} /\ spc = "broken" => "link" \in mishaps
  /\ rpc \in {"data", "done"} /\ "link" \notin mishaps =>
       ("name" \in mishaps <=> skipped # NameLength)
  /\ rpc \in {"data", "done"} /\ Sound /\ spc # "broken" =>
       (Len(written) + skipped) + Len(stream) = sent + NameLength

\* The receiver stops behind the last byte, unless a short recv stopped it.
StopsAtEnd ==
  /\ rpc # "done" => "short" \notin mishaps
  /\ rpc = "done" /\ Sound =>
       /\ "short" \in mishaps <=> Len(written) + skipped # length + NameLength
       /\ Len(written) + skipped <= length + NameLength
       /\ skipped < NameLength => Len(written) > 0

IInv ==
  /\ TypeOK
  /\ Progress /\ BeforeName
  /\ Ordered /\ Contiguous
  /\ Accounted /\ StopsAtEnd

-----------------------------------------------------------------------------
(* Lemmas on sequences of consecutive numbers. *)

LEMMA RunIsConsecutive ==
  ASSUME NEW a \in Int, NEW n \in Nat
  PROVE  /\ Run(a, n) \in Seq(Int)
         /\ Len(Run(a, n)) = n
         /\ Consecutive(Run(a, n), a + 1)
<1>1. Run(a, n) \in Seq(Int) /\ Len(Run(a, n)) = n
  BY DEF Run
<1>2. \A p \in 1..n : Run(a, n)[p] = (a + 1) + p - 1
  BY DEF Run
<1> QED
  BY <1>1, <1>2 DEF Consecutive

\* An element of a sequence, and its beginning.
LEMMA Elements ==
  ASSUME NEW S, NEW s \in Seq(S)
  PROVE  /\ \A p \in 1..Len(s) : s[p] \in S
         /\ \A n \in 0..Len(s) : SubSeq(s, 1, n) \in Seq(S)
OBVIOUS

\* Consecutive numbers within T.
LEMMA ConsecutiveType ==
  ASSUME NEW S, NEW s \in Seq(S), NEW b \in Int, NEW m \in Int, NEW T,
         Consecutive(s, b), b + Len(s) <= m + 1, b..m \subseteq T
  PROVE  s \in Seq(T)
<1>1. Len(s) \in Nat
  OBVIOUS
<1>2. ASSUME NEW p \in 1..Len(s) PROVE s[p] \in T
  <2>1. s[p] = b + p - 1
    BY DEF Consecutive
  <2>2. b + p - 1 \in b..m
    BY <1>1
  <2> QED
    BY <2>1, <2>2
<1> QED
  BY <1>1, <1>2

\* A run goes on with a run that starts where it ends.
LEMMA Concatenation ==
  ASSUME NEW S, NEW s \in Seq(S), NEW t \in Seq(S), NEW b \in Int,
         Consecutive(s, b), Consecutive(t, b + Len(s))
  PROVE  /\ s \o t \in Seq(S)
         /\ Len(s \o t) = Len(s) + Len(t)
         /\ Consecutive(s \o t, b)
<1>1. Len(s) \in Nat /\ Len(t) \in Nat /\ Len(s \o t) = Len(s) + Len(t)
  OBVIOUS
<1>2. ASSUME NEW p \in 1..Len(s \o t) PROVE (s \o t)[p] = b + p - 1
  <2>1. CASE p <= Len(s)
    BY <1>1, <2>1 DEF Consecutive
  <2>2. CASE p > Len(s)
    <3>1. p - Len(s) \in 1..Len(t)
      BY <1>1, <2>2
    <3>2. (s \o t)[p] = t[p - Len(s)]
      BY <1>1, <2>2
    <3>3. t[p - Len(s)] = (b + Len(s)) + (p - Len(s)) - 1
      BY <3>1 DEF Consecutive
    <3> QED
      BY <1>1, <3>2, <3>3
  <2> QED
    BY <1>1, <2>1, <2>2
<1>3. s \o t \in Seq(S)
  OBVIOUS
<1> QED
  BY <1>1, <1>2, <1>3 DEF Consecutive

\* The first k elements of a run, and the others.
LEMMA Split ==
  ASSUME NEW S, NEW s \in Seq(S), NEW k \in 0..Len(s), NEW b \in Int, Consecutive(s, b)
  PROVE  /\ SubSeq(s, 1, k) \in Seq(S)
         /\ Len(SubSeq(s, 1, k)) = k
         /\ Consecutive(SubSeq(s, 1, k), b)
         /\ SubSeq(s, k + 1, Len(s)) \in Seq(S)
         /\ Len(SubSeq(s, k + 1, Len(s))) = Len(s) - k
         /\ Consecutive(SubSeq(s, k + 1, Len(s)), b + k)
<1>1. Len(s) \in Nat /\ k \in Nat
  OBVIOUS
<1>2. /\ SubSeq(s, 1, k) \in Seq(S)
      /\ Len(SubSeq(s, 1, k)) = k
      /\ \A p \in 1..k : SubSeq(s, 1, k)[p] = s[p]
  OBVIOUS
<1>3. /\ SubSeq(s, k + 1, Len(s)) \in Seq(S)
      /\ Len(SubSeq(s, k + 1, Len(s))) = Len(s) - k
      /\ \A p \in 1..(Len(s) - k) : SubSeq(s, k + 1, Len(s))[p] = s[k + p]
  OBVIOUS
<1>4. Consecutive(SubSeq(s, 1, k), b)
  BY <1>1, <1>2 DEF Consecutive
<1>5. Consecutive(SubSeq(s, k + 1, Len(s)), b + k)
  <2>1. ASSUME NEW p \in 1..(Len(s) - k)
        PROVE  SubSeq(s, k + 1, Len(s))[p] = (b + k) + p - 1
    <3>1. k + p \in 1..Len(s)
      BY <1>1
    <3>2. s[k + p] = b + (k + p) - 1
      BY <3>1 DEF Consecutive
    <3> QED
      BY <1>1, <1>3, <3>2
  <2> QED
    BY <1>3, <2>1 DEF Consecutive
<1> QED
  BY <1>2, <1>3, <1>4, <1>5

\* The empty run.
LEMMA EmptyRun ==
  ASSUME NEW b
  PROVE  Len(<<>>) = 0 /\ Consecutive(<<>>, b)
  BY DEF Consecutive

-----------------------------------------------------------------------------
(* The invariant. *)

\* What TypeOK says of the numbers.
LEMMA Numbers ==
  ASSUME TypeOK
  PROVE  /\ length \in Nat /\ sent \in Nat /\ sent <= length
         /\ Buffer \in Nat /\ Buffer > 0 /\ NameLength \in Nat /\ NameLength > 0
         /\ skipped \in Nat /\ Len(stream) \in Nat /\ Len(written) \in Nat
         /\ First..length \subseteq Int
  BY BufferAssumption DEF TypeOK, First

\* The initial states satisfy the invariant.
LEMMA InitIInv == Init => IInv
<1> SUFFICES ASSUME Init PROVE IInv
  OBVIOUS
<1>1. Len(<<>>) = 0 /\ \A b : Consecutive(<<>>, b)
  BY EmptyRun
<1>2. TypeOK
  BY BufferAssumption DEF Init, TypeOK
<1> QED
  BY <1>1, <1>2 DEF Init, IInv, Progress, BeforeName, Ordered, Contiguous, Accounted, StopsAtEnd, LinkIsBroken

\* The name enters an empty stream.
LEMMA SendNameStep == IInv /\ SendName => IInv'
<1> SUFFICES ASSUME IInv, SendName PROVE IInv'
  OBVIOUS
<1>1. /\ TypeOK /\ Progress /\ BeforeName /\ Ordered /\ Contiguous /\ Accounted /\ StopsAtEnd
      /\ length \in Nat /\ sent \in Nat /\ NameLength \in Nat /\ NameLength > 0
  BY Numbers DEF IInv
<1>2. /\ spc = "name" /\ spc' = "open" /\ stream' = Run(0 - NameLength, NameLength)
      /\ UNCHANGED <<length, existing, rpc, skipped, written, sent, mishaps>>
  BY DEF SendName, receiverVars
<1>3. sent = 0 /\ rpc \notin {"data", "done"}
  BY <1>1, <1>2 DEF Progress
<1>4. /\ stream' \in Seq(Int) /\ Len(stream') = NameLength
      /\ Consecutive(stream', (0 - NameLength) + 1)
  BY <1>1, <1>2, RunIsConsecutive
<1>5. stream' \in Seq(First..length)
  <2>1. /\ (0 - NameLength) + 1 \in Int /\ ((0 - NameLength) + 1) + Len(stream') <= 0 + 1
        /\ ((0 - NameLength) + 1)..0 \subseteq First..length
    BY <1>1, <1>4 DEF First
  <2>2. 0 \in Int
    OBVIOUS
  <2> HIDE DEF First
  <2> QED
    BY <1>4, <2>1, <2>2, ConsecutiveType
<1>6. TypeOK'
  BY <1>1, <1>2, <1>5 DEF TypeOK
<1>7. Progress' /\ BeforeName'
  <2>1. (sent' + 1) - Len(stream') = (0 - NameLength) + 1
    BY <1>1, <1>2, <1>3, <1>4
  <2> QED
    BY <1>1, <1>2, <1>3, <1>4, <2>1 DEF Progress, BeforeName
<1>8. Ordered' /\ Contiguous'
  <2>1. rpc \in {"create", "name", "failed"} /\ written = <<>>
    BY <1>1, <1>3 DEF TypeOK, BeforeName
  <2> QED
    BY <1>1, <1>2, <2>1 DEF Ordered, Contiguous
<1>9. Accounted' /\ StopsAtEnd'
  BY <1>1, <1>2, <1>3 DEF Accounted, StopsAtEnd, Sound, LinkIsBroken
<1> QED
  BY <1>6, <1>7, <1>8, <1>9 DEF IInv

\* A piece is a run that starts where the stream ends.
LEMMA TransmitStep == IInv /\ TransmitPiece => IInv'
<1> SUFFICES ASSUME IInv, TransmitPiece PROVE IInv'
  OBVIOUS
<1>1. /\ TypeOK /\ Progress /\ BeforeName /\ Ordered /\ Contiguous /\ Accounted /\ StopsAtEnd
      /\ length \in Nat /\ sent \in Nat /\ Buffer \in Nat /\ NameLength \in Nat
      /\ skipped \in Nat /\ Len(stream) \in Nat /\ Len(written) \in Nat
  BY Numbers DEF IInv
<1>2. /\ sent < length /\ spc = "data"
      /\ UNCHANGED <<length, existing, rpc, skipped, written, spc, mishaps>>
  BY DEF TransmitPiece, receiverVars
<1>3. PICK n \in Nat : sent' = sent + n /\ sent' \in Nat /\ sent' <= length /\ n = sent' - sent
  <2>1. sent' \in Nat /\ sent' <= length /\ sent' - sent \in Nat /\ sent' = sent + (sent' - sent)
    BY <1>1, <1>2 DEF TransmitPiece, Least
  <2> QED
    BY <2>1
<1>4. stream' = stream \o Run(sent, n)
  BY <1>3 DEF TransmitPiece
<1>5. /\ Run(sent, n) \in Seq(Int)
      /\ Len(Run(sent, n)) = n
      /\ Consecutive(Run(sent, n), sent + 1)
  <2>1. sent \in Int /\ n \in Nat
    BY <1>1
  <2> QED
    BY <2>1, RunIsConsecutive
<1>6. Run(sent, n) \in Seq(First..length)
  <2>1. /\ sent + 1 \in Int
        /\ (sent + 1) + Len(Run(sent, n)) <= length + 1
        /\ (sent + 1)..length \subseteq First..length
    BY <1>1, <1>3, <1>5, BufferAssumption DEF First
  <2>2. length \in Int
    BY <1>1
  <2> HIDE DEF First
  <2> QED
    BY <1>5, <2>1, <2>2, ConsecutiveType
<1>7. stream \in Seq(First..length) /\ stream' \in Seq(First..length)
  BY <1>1, <1>4, <1>6 DEF TypeOK
<1>8. Len(stream') = Len(stream) + n /\ Consecutive(stream', (sent' + 1) - Len(stream'))
  <2>1. PICK b \in Int : b = (sent + 1) - Len(stream) /\ b + Len(stream) = sent + 1
    BY <1>1
  <2>2. Consecutive(stream, b) /\ Consecutive(Run(sent, n), b + Len(stream))
    BY <1>1, <1>5, <2>1 DEF Progress
  <2>3. /\ Len(stream \o Run(sent, n)) = Len(stream) + Len(Run(sent, n))
        /\ Consecutive(stream \o Run(sent, n), b)
    BY <1>6, <1>7, <2>2, Concatenation
  <2>4. Len(stream') = Len(stream) + n
    BY <1>4, <1>5, <2>3
  <2>5. (sent' + 1) - Len(stream') = b
    BY <1>1, <1>3, <2>1, <2>4
  <2> QED
    BY <1>4, <2>3, <2>4, <2>5
<1>9. sent' - Len(stream') = sent - Len(stream)
  BY <1>1, <1>3, <1>8
<1>10. TypeOK'
  BY <1>1, <1>2, <1>3, <1>7 DEF TypeOK
<1>11. Progress' /\ BeforeName'
  <2>1. Len(stream) = sent + NameLength => Len(stream') = sent' + NameLength
    BY <1>1, <1>3, <1>8
  <2> QED
    BY <1>1, <1>2, <1>8, <2>1 DEF Progress, BeforeName
<1>12. Ordered' /\ Contiguous' /\ StopsAtEnd'
  BY <1>1, <1>2, <1>9 DEF Ordered, Contiguous, StopsAtEnd, Sound
<1>13. Accounted'
  <2>1. (Len(written) + skipped) + Len(stream) = sent + NameLength
          => (Len(written) + skipped) + Len(stream') = sent' + NameLength
    BY <1>1, <1>3, <1>8
  <2> QED
    BY <1>1, <1>2, <2>1 DEF Accounted, Sound, LinkIsBroken
<1> QED
  BY <1>10, <1>11, <1>12, <1>13 DEF IInv

\* These steps of the sender move no byte.
LEMMA SenderMoves == IInv /\ (OpenFile \/ TransmitFails \/ Disconnect) => IInv'
<1> SUFFICES ASSUME IInv, OpenFile \/ TransmitFails \/ Disconnect PROVE IInv'
  OBVIOUS
<1>1. /\ UNCHANGED <<length, existing, rpc, skipped, written, sent, stream, mishaps>>
      /\ spc \in {"open", "data"} /\ spc' \in {"data", "missing", "failed", "closed"}
      /\ spc' = "missing" => spc = "open"
      /\ spc' = "closed" => sent = length
  BY DEF OpenFile, TransmitFails, Disconnect, receiverVars
<1>2. TypeOK' /\ Progress'
  BY <1>1 DEF IInv, TypeOK, Progress
<1>3. BeforeName' /\ Ordered' /\ Contiguous' /\ Accounted' /\ StopsAtEnd'
  BY <1>1 DEF IInv, BeforeName, Ordered, Contiguous, Accounted, StopsAtEnd, Sound, LinkIsBroken
<1> QED
  BY <1>2, <1>3 DEF IInv

\* A break empties the stream.
LEMMA BreakStep == IInv /\ Break => IInv'
<1> SUFFICES ASSUME IInv, Break PROVE IInv'
  OBVIOUS
<1>1. /\ spc' = "broken" /\ stream' = <<>>
      /\ mishaps' = IF rpc \in {"done", "failed"} THEN mishaps ELSE mishaps \cup {"link"}
      /\ UNCHANGED <<length, existing, rpc, skipped, written, sent>>
  BY DEF Break, receiverVars
<1>2. TypeOK'
  BY <1>1 DEF IInv, TypeOK
<1>3. Progress' /\ BeforeName'
  <2>1. Consecutive(<<>>, (sent' + 1) - Len(stream'))
    BY EmptyRun
  <2> QED
    BY <1>1, <2>1 DEF IInv, Progress, BeforeName
<1>4. Ordered' /\ Contiguous'
  BY <1>1 DEF IInv, Ordered, Contiguous
<1>5. Accounted' /\ StopsAtEnd'
  <2>1. rpc \in {"create", "name", "data", "done", "failed"}
    BY DEF IInv, TypeOK
  <2> QED
    BY <1>1, <2>1 DEF IInv, Accounted, StopsAtEnd, Sound, LinkIsBroken
<1> QED
  BY <1>2, <1>3, <1>4, <1>5 DEF IInv

\* The file is created, or it is not.
LEMMA CreateTargetStep == IInv /\ CreateTarget => IInv'
<1> SUFFICES ASSUME IInv, CreateTarget PROVE IInv'
  OBVIOUS
<1>1. /\ UNCHANGED <<length, existing, spc, sent, stream, skipped, written, mishaps>>
      /\ rpc = "create" /\ rpc' \in {"name", "failed"}
  BY DEF CreateTarget, senderVars
<1>2. TypeOK' /\ Progress' /\ BeforeName'
  BY <1>1 DEF IInv, TypeOK, Progress, BeforeName
<1>3. Ordered' /\ Contiguous' /\ Accounted' /\ StopsAtEnd'
  BY <1>1 DEF IInv, Ordered, Contiguous, Accounted, StopsAtEnd, Sound, LinkIsBroken
<1> QED
  BY <1>2, <1>3 DEF IInv

\* A recv of k bytes leaves the others, numbered as before.
LEMMA Received ==
  ASSUME TypeOK, Progress, stream # <<>>, NEW k \in Sizes
  PROVE  /\ k \in Nat /\ k > 0 /\ k <= Len(stream) /\ k <= Buffer
         /\ SubSeq(stream, k + 1, Len(stream)) \in Seq(First..length)
         /\ Len(SubSeq(stream, k + 1, Len(stream))) = Len(stream) - k
         /\ Consecutive(SubSeq(stream, k + 1, Len(stream)),
                        (sent + 1) - Len(SubSeq(stream, k + 1, Len(stream))))
<1>1. stream \in Seq(First..length) /\ Len(stream) \in Nat /\ sent \in Nat /\ Buffer \in Nat
  BY Numbers DEF TypeOK
<1>2. k \in Nat /\ k > 0 /\ k <= Len(stream) /\ k <= Buffer
  BY <1>1 DEF Sizes, Least
<1>3. (sent + 1) - Len(stream) \in Int /\ Consecutive(stream, (sent + 1) - Len(stream))
  BY <1>1 DEF Progress
<1>4. k \in 0..Len(stream)
  BY <1>1, <1>2
<1> DEFINE rest == SubSeq(stream, k + 1, Len(stream))
<1>5. /\ rest \in Seq(First..length) /\ Len(rest) = Len(stream) - k
      /\ Consecutive(rest, ((sent + 1) - Len(stream)) + k)
  BY <1>1, <1>3, <1>4, Split
<1> HIDE DEF rest
<1>6. ((sent + 1) - Len(stream)) + k = (sent + 1) - Len(rest)
  BY <1>1, <1>2, <1>5
<1>7. Consecutive(rest, (sent + 1) - Len(rest))
  BY <1>5, <1>6
<1> QED
  BY <1>2, <1>5, <1>7 DEF rest

\* The first recv takes the name, or some other number of bytes.
LEMMA RecvNameStep == IInv /\ RecvName => IInv'
<1> SUFFICES ASSUME IInv, RecvName PROVE IInv'
  OBVIOUS
<1>1. /\ TypeOK /\ Progress /\ BeforeName /\ Ordered /\ Contiguous /\ Accounted /\ StopsAtEnd
      /\ length \in Nat /\ sent \in Nat /\ NameLength \in Nat /\ skipped \in Nat /\ Len(stream) \in Nat
  BY Numbers DEF IInv
<1>2. /\ rpc = "name" /\ rpc' = "data"
      /\ UNCHANGED <<length, existing, spc, sent, written>>
  BY DEF RecvName, senderVars
<1>3. written = <<>> /\ skipped = 0 /\ mishaps \subseteq {"link"}
  BY <1>1, <1>2 DEF BeforeName
<1>4. /\ Ordered'
      /\ Contiguous'
  <2>1. written' = <<>>
    BY <1>2, <1>3
  <2> QED
    BY <2>1 DEF Ordered, Contiguous, Consecutive
<1>5. CASE /\ spc = "broken" /\ stream = <<>>
           /\ UNCHANGED <<stream, skipped, mishaps>>
  <2>1. TypeOK' /\ Progress' /\ BeforeName'
    BY <1>1, <1>2, <1>5 DEF TypeOK, Progress, BeforeName
  <2>2. "link" \in mishaps /\ "short" \notin mishaps
    BY <1>1, <1>2, <1>5 DEF Accounted, StopsAtEnd
  <2>3. Accounted' /\ StopsAtEnd'
    BY <1>2, <1>5, <2>2 DEF Accounted, StopsAtEnd, Sound, LinkIsBroken
  <2> QED
    BY <1>4, <2>1, <2>3 DEF IInv
<1>6. CASE /\ stream # <<>>
           /\ skipped' \in Sizes
           /\ stream' = SubSeq(stream, skipped' + 1, Len(stream))
           /\ mishaps' = IF skipped' = NameLength THEN mishaps ELSE mishaps \cup {"name"}
  <2>1. /\ skipped' \in Nat
        /\ stream' \in Seq(First..length)
        /\ Len(stream') = Len(stream) - skipped'
        /\ Consecutive(stream', (sent + 1) - Len(stream'))
    BY <1>1, <1>6, Received
  <2>2. spc \notin {"name", "broken"}
    BY <1>1, <1>6 DEF Progress
  <2>3. mishaps' \subseteq {"name", "link"} /\ ("name" \in mishaps' <=> skipped' # NameLength)
    BY <1>3, <1>6
  <2>4. TypeOK'
    BY <1>1, <1>2, <2>1, <2>3 DEF TypeOK
  <2>5. Progress' /\ BeforeName'
    BY <1>1, <1>2, <2>1, <2>2 DEF Progress, BeforeName
  <2>6. Accounted'
    <3>1. Len(stream) = sent + NameLength
      BY <1>1, <1>2, <2>2 DEF BeforeName
    <3>2. Len(written') = 0
      BY <1>2, <1>3
    <3>3. (Len(written') + skipped') + Len(stream') = sent + NameLength
      <4>1. PICK k \in Nat : k = skipped'
        BY <2>1
      <4>2. (0 + k) + (Len(stream) - k) = Len(stream)
        BY <1>1, <4>1
      <4>3. Len(stream') = Len(stream) - k
        BY <2>1, <4>1
      <4> QED
        BY <3>1, <3>2, <4>1, <4>2, <4>3
    <3>4. spc' = spc /\ sent' = sent /\ rpc' = "data"
      BY <1>2
    <3>5. LinkIsBroken'
      BY <1>1, <1>3, <1>6, <3>4 DEF Accounted, LinkIsBroken
    <3> QED
      BY <2>2, <2>3, <3>3, <3>4, <3>5 DEF Accounted
  <2>7. StopsAtEnd'
    BY <1>2, <2>3 DEF StopsAtEnd
  <2> QED
    BY <1>4, <2>4, <2>5, <2>6, <2>7 DEF IInv
<1> QED
  BY <1>5, <1>6 DEF RecvName

\* The file on the disk goes on with the first n of the bytes that come next.
LEMMA WrittenGoesOn ==
  ASSUME IInv, spc # "broken", NEW n \in 0..Len(stream)
  PROVE  /\ written \o SubSeq(stream, 1, n) \in Seq(First..length)
         /\ Len(written \o SubSeq(stream, 1, n)) = Len(written) + n
         /\ \A p, q \in 1..Len(written \o SubSeq(stream, 1, n)) :
              p < q => (written \o SubSeq(stream, 1, n))[p] < (written \o SubSeq(stream, 1, n))[q]
         /\ \A p \in 1..Len(written \o SubSeq(stream, 1, n)) :
              (written \o SubSeq(stream, 1, n))[p] <= (sent - Len(stream)) + n
         /\ Consecutive(SubSeq(stream, 1, n), (sent + 1) - Len(stream))
<1>1. /\ Progress /\ Ordered
      /\ stream \in Seq(First..length) /\ written \in Seq(First..length)
      /\ sent \in Nat /\ Len(stream) \in Nat /\ Len(written) \in Nat /\ First..length \subseteq Int
      /\ n \in Nat
  BY Numbers DEF IInv, TypeOK
<1> DEFINE piece == SubSeq(stream, 1, n)
           all == written \o piece
<1>2. /\ piece \in Seq(First..length) /\ Len(piece) = n
      /\ Consecutive(piece, (sent + 1) - Len(stream))
  <2>1. (sent + 1) - Len(stream) \in Int /\ Consecutive(stream, (sent + 1) - Len(stream))
    BY <1>1 DEF Progress
  <2> QED
    BY <1>1, <2>1, Split
<1>3. \A p \in 1..n : piece[p] = (sent - Len(stream)) + p
  <2>1. \A p \in 1..n : piece[p] = ((sent + 1) - Len(stream)) + p - 1
    BY <1>2 DEF Consecutive
  <2> HIDE DEF piece
  <2> QED
    BY <1>1, <2>1
<1> HIDE DEF piece
<1>4. /\ all \in Seq(First..length) /\ Len(all) = Len(written) + n
      /\ \A p \in 1..Len(written) : all[p] = written[p]
      /\ \A p \in 1..n : all[Len(written) + p] = piece[p]
  <2>1. PICK T : T = First..length
    OBVIOUS
  <2>2. written \in Seq(T) /\ piece \in Seq(T) /\ Len(piece) = n
    BY <1>1, <1>2, <2>1
  <2>3. /\ all \in Seq(T) /\ Len(all) = Len(written) + Len(piece)
        /\ \A p \in 1..Len(written) : all[p] = written[p]
        /\ \A p \in 1..Len(piece) : all[Len(written) + p] = piece[p]
    <3>1. all \in Seq(T) /\ Len(all) = Len(written) + Len(piece)
      BY <2>2
    <3>2. \A p \in 1..Len(written) : all[p] = written[p]
      BY <2>2
    <3>3. \A p \in 1..Len(piece) : all[Len(written) + p] = piece[p]
      BY <2>2
    <3> QED
      BY <3>1, <3>2, <3>3
  <2> HIDE DEF all
  <2> QED
    BY <2>1, <2>2, <2>3
<1> HIDE DEF all
<1>5. ASSUME NEW p \in 1..Len(all)
      PROVE  \/ p \in 1..Len(written) /\ all[p] = written[p] /\ all[p] <= sent - Len(stream)
             \/ /\ p > Len(written) /\ p - Len(written) \in 1..n
                /\ all[p] = (sent - Len(stream)) + (p - Len(written))
  <2>1. CASE p \in 1..Len(written)
    BY <1>1, <1>4, <2>1 DEF Ordered
  <2>2. CASE p \notin 1..Len(written)
    <3>1. p \in Nat /\ p > Len(written) /\ p - Len(written) \in 1..n
      BY <1>1, <1>4, <2>2
    <3>2. Len(written) + (p - Len(written)) = p
      BY <1>1, <3>1
    <3>3. all[p] = piece[p - Len(written)]
      BY <1>4, <3>1, <3>2
    <3> QED
      BY <1>3, <3>1, <3>3
  <2> QED
    BY <2>1, <2>2
<1>6. ASSUME NEW p \in 1..Len(all) PROVE all[p] \in Int /\ all[p] <= (sent - Len(stream)) + n
  <2>1. all[p] \in Int
    <3>1. all[p] \in First..length
      BY <1>4, <1>6, Elements
    <3> QED
      BY <1>1, <3>1
  <2> QED
    BY <1>1, <1>5, <2>1
<1>7. ASSUME NEW p \in 1..Len(all), NEW q \in 1..Len(all), p < q
      PROVE  all[p] < all[q]
  <2>1. all[p] \in Int /\ all[q] \in Int
    BY <1>6
  <2>2. CASE q \in 1..Len(written)
    <3>1. p \in 1..Len(written)
      BY <1>1, <1>7, <2>2
    <3>2. written[p] < written[q]
      BY <1>1, <1>7, <2>2, <3>1 DEF Ordered
    <3> QED
      BY <1>4, <2>2, <3>1, <3>2
  <2>3. CASE q \notin 1..Len(written)
    <3>1. q > Len(written) /\ all[q] = (sent - Len(stream)) + (q - Len(written))
      BY <1>5, <2>3
    <3>2. CASE p \in 1..Len(written)
      <4>1. all[p] <= sent - Len(stream)
        BY <1>1, <1>5, <3>2
      <4> QED
        BY <1>1, <2>1, <3>1, <4>1
    <3>3. CASE p \notin 1..Len(written)
      <4>1. all[p] = (sent - Len(stream)) + (p - Len(written))
        BY <1>5, <3>3
      <4> QED
        BY <1>1, <1>7, <3>1, <4>1
    <3> QED
      BY <3>2, <3>3
  <2> QED
    BY <2>2, <2>3
<1> QED
  BY <1>2, <1>4, <1>6, <1>7 DEF all, piece

\* What a recv returns is what comes next in the file; a short one is the last.
LEMMA RecvDataStep == IInv /\ RecvData => IInv'
<1> SUFFICES ASSUME IInv, RecvData PROVE IInv'
  OBVIOUS
<1>1. /\ TypeOK /\ Progress /\ BeforeName /\ Ordered /\ Contiguous /\ Accounted /\ StopsAtEnd
      /\ length \in Nat /\ sent \in Nat /\ sent <= length /\ NameLength \in Nat /\ NameLength > 0
      /\ skipped \in Nat /\ Buffer \in Nat /\ Len(stream) \in Nat /\ Len(written) \in Nat
  BY Numbers DEF IInv
<1>2. rpc = "data" /\ stream # <<>> /\ UNCHANGED <<length, existing, spc, sent, skipped>>
  BY DEF RecvData, senderVars
<1>3. spc \notin {"name", "broken"}
  BY <1>1, <1>2 DEF Progress
<1>4. PICK k \in Sizes : \E n \in 0..k :
        /\ written' = written \o SubSeq(stream, 1, n)
        /\ stream' = SubSeq(stream, k + 1, Len(stream))
        /\ rpc' = IF k < Buffer THEN "done" ELSE "data"
        /\ mishaps' = mishaps \cup Unnoticed(k, n)
  BY DEF RecvData
<1>4b. PICK n \in 0..k :
        /\ written' = written \o SubSeq(stream, 1, n)
        /\ stream' = SubSeq(stream, k + 1, Len(stream))
        /\ rpc' = IF k < Buffer THEN "done" ELSE "data"
        /\ mishaps' = mishaps \cup Unnoticed(k, n)
  BY <1>4
<1>5. /\ k \in Nat /\ k > 0 /\ k <= Len(stream) /\ k <= Buffer
      /\ stream' \in Seq(First..length)
      /\ Len(stream') = Len(stream) - k
      /\ Consecutive(stream', (sent + 1) - Len(stream'))
  BY <1>1, <1>2, <1>4b, Received
<1>6. n \in Nat /\ n <= k /\ n \in 0..Len(stream)
  BY <1>1, <1>4b, <1>5
<1>7. /\ written' \in Seq(First..length)
      /\ Len(written') = Len(written) + n
      /\ \A p, q \in 1..Len(written') : p < q => written'[p] < written'[q]
      /\ \A p \in 1..Len(written') : written'[p] <= (sent - Len(stream)) + n
  BY <1>3, <1>4b, <1>6, WrittenGoesOn
<1>8. /\ mishaps' \subseteq {"name", "short", "write", "link"}
      /\ "name" \in mishaps' <=> "name" \in mishaps
      /\ "link" \in mishaps' <=> "link" \in mishaps
      /\ "write" \in mishaps' <=> "write" \in mishaps \/ n < k
      /\ "short" \in mishaps' <=> k < Buffer /\ (k < Len(stream) \/ sent < length)
  BY <1>1, <1>2, <1>4b DEF TypeOK, StopsAtEnd, Unnoticed
<1>9. "write" \notin mishaps' => n = k
  BY <1>5, <1>6, <1>8
<1>10. TypeOK'
  BY <1>1, <1>2, <1>4b, <1>5, <1>7, <1>8 DEF TypeOK
<1>11. Progress' /\ BeforeName'
  BY <1>1, <1>2, <1>3, <1>4b, <1>5 DEF Progress, BeforeName
<1>12. Ordered'
  <2>1. ASSUME NEW p \in 1..Len(written') PROVE written'[p] <= sent - Len(stream')
    <3>1. written'[p] \in Int
      <4>1. written'[p] \in First..length
        BY <1>7, <2>1, Elements
      <4> QED
        BY <4>1, Numbers DEF IInv
    <3>2. written'[p] <= (sent - Len(stream)) + n
      BY <1>7
    <3> QED
      BY <1>1, <1>5, <1>6, <3>1, <3>2
  <2> QED
    BY <1>2, <1>7, <2>1 DEF Ordered
<1>13. Sound' => /\ Sound /\ n = k /\ "link" \notin mishaps
                 /\ (Len(written) + skipped) + Len(stream) = sent + NameLength
                 /\ (Len(written') + skipped) + Len(stream') = sent + NameLength
  <2> SUFFICES ASSUME Sound'
               PROVE  /\ Sound /\ n = k /\ "link" \notin mishaps
                      /\ (Len(written) + skipped) + Len(stream) = sent + NameLength
                      /\ (Len(written') + skipped) + Len(stream') = sent + NameLength
    OBVIOUS
  <2>1. Sound /\ n = k /\ "link" \notin mishaps
    BY <1>8, <1>9 DEF Sound
  <2>2. (Len(written) + skipped) + Len(stream) = sent + NameLength
    BY <1>1, <1>2, <1>3, <2>1 DEF Accounted
  <2>3. Len(written') = Len(written) + k /\ Len(stream') = Len(stream) - k
    BY <1>5, <1>7, <2>1
  <2>4. (Len(written') + skipped) + Len(stream') = sent + NameLength
    BY <1>1, <1>5, <2>2, <2>3
  <2> QED
    BY <2>1, <2>2, <2>4
<1>14. Contiguous'
  <2> SUFFICES ASSUME "write" \notin mishaps'
               PROVE  Consecutive(written', (skipped - NameLength) + 1)
    BY <1>2 DEF Contiguous
  <2>1. "write" \notin mishaps /\ Consecutive(written, (skipped - NameLength) + 1)
    BY <1>1, <1>8 DEF Contiguous
  <2>2. Sound
    <3>1. "link" \notin mishaps
      BY <1>1, <1>2, <1>3 DEF Accounted, LinkIsBroken
    <3> QED
      BY <2>1, <3>1 DEF Sound
  <2>3. (Len(written) + skipped) + Len(stream) = sent + NameLength
    BY <1>1, <1>2, <1>3, <2>2 DEF Accounted
  <2>4. (sent + 1) - Len(stream) = ((skipped - NameLength) + 1) + Len(written)
    BY <1>1, <2>3
  <2>5. Consecutive(SubSeq(stream, 1, n), ((skipped - NameLength) + 1) + Len(written))
    BY <1>3, <1>6, <2>4, WrittenGoesOn
  <2>6. SubSeq(stream, 1, n) \in Seq(First..length) /\ written \in Seq(First..length)
    <3>1. stream \in Seq(First..length) /\ written \in Seq(First..length)
      BY <1>1 DEF TypeOK
    <3> QED
      BY <1>6, <3>1, Elements
  <2>7. (skipped - NameLength) + 1 \in Int
    BY <1>1
  <2> QED
    BY <1>4b, <2>1, <2>5, <2>6, <2>7, Concatenation
<1>15. Accounted'
  <2>1. rpc' \in {"data", "done"}
    BY <1>4
  <2>2. "link" \notin mishaps => ("name" \in mishaps <=> skipped # NameLength)
    BY <1>1, <1>2 DEF Accounted
  <2>3. LinkIsBroken'
    BY <1>1, <1>2, <1>8 DEF Accounted, LinkIsBroken
  <2>4. "link" \notin mishaps' => ("name" \in mishaps' <=> skipped' # NameLength)
    BY <1>2, <1>8, <2>2
  <2>5. Sound' => (Len(written') + skipped') + Len(stream') = sent' + NameLength
    BY <1>2, <1>13
  <2> QED
    BY <1>2, <1>3, <2>1, <2>3, <2>4, <2>5 DEF Accounted
<1>16. StopsAtEnd'
  <2>1. CASE k = Buffer
    BY <1>1, <1>4b, <1>5, <1>8, <2>1 DEF StopsAtEnd
  <2>2. CASE k < Buffer
    <3>1. rpc' = "done"
      BY <1>4b, <2>2
    <3> SUFFICES ASSUME Sound'
                 PROVE  /\ "short" \in mishaps' <=> Len(written') + skipped # length + NameLength
                        /\ Len(written') + skipped <= length + NameLength
                        /\ skipped < NameLength => Len(written') > 0
      BY <1>2, <3>1 DEF StopsAtEnd
    <3>2. /\ (Len(written') + skipped) + Len(stream') = sent + NameLength
          /\ Len(written') = Len(written) + k
      BY <1>7, <1>13
    <3>3. Len(written') > 0
      BY <1>1, <1>5, <3>2
    <3>4. "short" \in mishaps' <=> Len(stream') # 0 \/ sent # length
      BY <1>1, <1>5, <1>8, <2>2
    <3>5. Len(stream') \in Nat /\ Len(written') \in Nat
      BY <1>1, <1>5, <3>2
    <3>7. Len(written') + skipped <= length + NameLength
      BY <1>1, <3>2, <3>5
    <3>6. (Len(stream') # 0 \/ sent # length) <=> Len(written') + skipped # length + NameLength
      BY <1>1, <3>2, <3>5
    <3> QED
      BY <3>3, <3>4, <3>6, <3>7
  <2> QED
    BY <1>1, <1>5, <2>1, <2>2
<1> QED
  BY <1>10, <1>11, <1>12, <1>14, <1>15, <1>16 DEF IInv

\* The end of the connection is the end of the file, unless it broke.
LEMMA RecvEndStep == IInv /\ RecvEnd => IInv'
<1> SUFFICES ASSUME IInv, RecvEnd PROVE IInv'
  OBVIOUS
<1>1. /\ TypeOK /\ Progress /\ Accounted /\ StopsAtEnd
      /\ length \in Nat /\ NameLength \in Nat /\ skipped \in Nat /\ Len(written) \in Nat
  BY Numbers DEF IInv
<1>2. /\ rpc = "data" /\ rpc' = "done" /\ stream = <<>> /\ spc \in {"closed", "broken"}
      /\ UNCHANGED <<length, existing, spc, sent, stream, skipped, written, mishaps>>
  BY DEF RecvEnd, senderVars
<1>3. TypeOK' /\ Progress' /\ BeforeName' /\ Ordered' /\ Contiguous' /\ Accounted'
  BY <1>2 DEF IInv, TypeOK, Progress, BeforeName, Ordered, Contiguous, Accounted, Sound, LinkIsBroken
<1>4. StopsAtEnd'
  <2> SUFFICES ASSUME Sound
               PROVE  /\ "short" \in mishaps <=> Len(written) + skipped # length + NameLength
                      /\ Len(written) + skipped <= length + NameLength
                      /\ skipped < NameLength => Len(written) > 0
    BY <1>2 DEF StopsAtEnd, Sound
  <2>1. spc = "closed"
    BY <1>1, <1>2 DEF Accounted, Sound
  <2>2. (Len(written) + skipped) + Len(stream) = sent + NameLength /\ sent = length /\ Len(stream) = 0
    BY <1>1, <1>2, <2>1 DEF Accounted, Progress
  <2>3. "short" \notin mishaps
    BY <1>1, <1>2 DEF StopsAtEnd
  <2> QED
    BY <1>1, <2>2, <2>3
<1> QED
  BY <1>3, <1>4 DEF IInv

\* A step that changes nothing.
LEMMA StutterStep == IInv /\ UNCHANGED vars => IInv'
<1> SUFFICES ASSUME IInv, UNCHANGED vars PROVE IInv'
  OBVIOUS
<1>1. UNCHANGED <<length, existing, spc, sent, stream, rpc, skipped, written, mishaps>>
  BY DEF vars
<1> QED
  BY <1>1 DEF IInv, TypeOK, Progress, BeforeName, Ordered, Contiguous, Accounted, StopsAtEnd, Sound, LinkIsBroken

\* Every step keeps the invariant.
LEMMA NextIInv == IInv /\ [Next]_vars => IInv'
  BY SendNameStep, TransmitStep, SenderMoves, BreakStep, CreateTargetStep, RecvNameStep,
     RecvDataStep, RecvEndStep, StutterStep
     DEF Next, Sender, Receiver

\* IInv, which numbers the bytes written and in flight, is an invariant (FileManage.cpp,
\* 58-148).
THEOREM Inductive == Spec => []IInv
  BY InitIInv, NextIInv, PTL DEF Spec

-----------------------------------------------------------------------------
(* What it implies. *)

\* The variables keep their types (FileManage.cpp, 101-148).
THEOREM TypeCorrect == Spec => []TypeOK
<1>1. IInv => TypeOK
  BY DEF IInv
<1> QED
  BY <1>1, Inductive, PTL

\* However recv cuts the stream, and whatever fails, the bytes recvFile has written are in
\* their order, and without a gap unless WriteFile failed (FileManage.cpp, 116-141).
THEOREM AlwaysWrittenInOrder == Spec => []WrittenInOrder
<1>1. IInv => WrittenInOrder
  <2> SUFFICES ASSUME IInv PROVE WrittenInOrder
    OBVIOUS
  <2>1. /\ skipped \in Nat /\ NameLength \in Nat /\ Len(written) \in Nat
        /\ written \in Seq(First..length) /\ DOMAIN written = 1..Len(written)
    BY Numbers DEF IInv, TypeOK
  <2>2. \A p, q \in DOMAIN written : p < q => written[p] < written[q]
    BY <2>1 DEF IInv, Ordered
  <2>3. ASSUME "write" \notin mishaps, NEW p \in DOMAIN written
        PROVE  written[p] = (skipped - NameLength) + p
    <3>1. written[p] = ((skipped - NameLength) + 1) + p - 1
      BY <2>1, <2>3 DEF IInv, Contiguous, Consecutive
    <3> QED
      BY <2>1, <3>1
  <2> QED
    BY <2>2, <2>3 DEF WrittenInOrder
<1> QED
  BY <1>1, Inductive, PTL

\* The old bytes behind the file: none exactly when the target was no longer than it.
LEMMA TailOfTarget ==
  ASSUME length \in Nat, existing \in Nat, NameLength \in Nat, written = File
  PROVE  Saved = File <=> existing <= length
<1> DEFINE Rest(n) == [i \in 1..n |-> Old]
<1>1. File \in Seq(Int) /\ Len(File) = length
  BY DEF File
<1>2. Saved = File \o Rest(existing - length)
  BY <1>1 DEF Saved
<1>3. CASE existing <= length
  <2>1. 1..(existing - length) = {}
    BY <1>3
  <2>2. Rest(existing - length) = <<>>
    BY <2>1
  <2> HIDE DEF Rest
  <2>3. File \o <<>> = File
    BY <1>1
  <2> QED
    BY <1>2, <1>3, <2>2, <2>3
<1>4. CASE existing > length
  <2>1. existing - length \in Nat /\ existing - length > 0
    BY <1>4
  <2>2. ASSUME NEW n \in Nat PROVE Rest(n) \in Seq(Int) /\ Len(Rest(n)) = n
    BY DEF Old
  <2> HIDE DEF Rest
  <2>3. Len(File \o Rest(existing - length)) = length + (existing - length)
    <3>1. PICK t \in Seq(Int) : t = Rest(existing - length) /\ Len(t) = existing - length
      BY <2>1, <2>2
    <3>2. Len(File \o t) = Len(File) + Len(t)
      BY <1>1
    <3> QED
      BY <1>1, <3>1, <3>2
  <2>4. length + (existing - length) # length
    BY <2>1
  <2> QED
    BY <1>1, <1>2, <1>4, <2>3, <2>4
<1> QED
  BY <1>3, <1>4

\* For a file, a name and a buffer of any length, a download that recvFile reports complete
\* on a sound connection and a sound disk is whole exactly when the first recv took the
\* name alone and no recv before the last was short (FileManage.cpp, 116-143).
THEOREM AlwaysWholeIffUndisturbed == Spec => []WholeIffUndisturbed
<1>1. IInv => WholeIffUndisturbed
  <2> SUFFICES ASSUME IInv, rpc = "done", Sound
               PROVE  /\ written = File <=> mishaps = {}
                      /\ written = File => (Saved = File <=> existing <= length)
    BY DEF WholeIffUndisturbed, Sound
  <2>1. /\ length \in Nat /\ existing \in Nat /\ NameLength \in Nat /\ skipped \in Nat
        /\ Len(written) \in Nat /\ written \in Seq(First..length)
        /\ mishaps \subseteq {"name", "short", "write", "link"}
    BY Numbers, BufferAssumption DEF IInv, TypeOK
  <2>2. /\ "write" \notin mishaps /\ "link" \notin mishaps
        /\ "name" \in mishaps <=> skipped # NameLength
        /\ "short" \in mishaps <=> Len(written) + skipped # length + NameLength
        /\ skipped < NameLength => Len(written) > 0
    BY DEF IInv, Sound, Accounted, StopsAtEnd
  <2>3. \A p \in 1..Len(written) : written[p] = ((skipped - NameLength) + 1) + p - 1
    BY <2>2 DEF IInv, Contiguous, Consecutive
  <2>4. File \in Seq(Int) /\ Len(File) = length /\ \A p \in 1..length : File[p] = p
    BY <2>1 DEF File
  <2>5. ASSUME mishaps = {} PROVE written = File
    <3>1. skipped = NameLength /\ Len(written) = length
      BY <2>1, <2>2, <2>5
    <3>2. \A p \in 1..Len(written) : written[p] = p
      BY <2>1, <2>3, <3>1
    <3> QED
      BY <2>1, <2>4, <3>1, <3>2 DEF File
  <2>6. ASSUME written = File PROVE mishaps = {}
    <3>1. Len(written) = length
      BY <2>4, <2>6
    <3>2. skipped = NameLength
      <4>1. CASE length = 0
        <5>1. ~(skipped < NameLength)
          BY <2>2, <3>1, <4>1
        <5>2. Len(written) + skipped <= length + NameLength
          BY DEF IInv, StopsAtEnd, Sound
        <5> QED
          BY <2>1, <3>1, <4>1, <5>1, <5>2
      <4>2. CASE length > 0
        <5>1. 1 \in 1..Len(written) /\ 1 \in 1..length
          BY <2>1, <3>1, <4>2
        <5>2. written[1] = ((skipped - NameLength) + 1) + 1 - 1 /\ written[1] = 1
          BY <2>3, <2>4, <2>6, <5>1
        <5> QED
          BY <2>1, <5>2
      <4> QED
        BY <2>1, <4>1, <4>2
    <3> QED
      BY <2>1, <2>2, <3>1, <3>2
  <2>7. written = File => (Saved = File <=> existing <= length)
    BY <2>1, TailOfTarget
  <2> QED
    BY <2>5, <2>6, <2>7
<1> QED
  BY <1>1, Inductive, PTL
==============================================================================
