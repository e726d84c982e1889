---------------------------- MODULE FileTransfer -----------------------------
(***************************************************************************)
(* One download: FileManage::sendFile at the peer that has the file and    *)
(* FileManage::recvFile at the peer that wants it, over one TCP connection. *)
(*                                                                         *)
(* The sender writes the file's name and then the file, and disconnects.   *)
(* The receiver takes the first recv for the name and the rest for data,   *)
(* and a recv that returns less than a full buffer for the end of the      *)
(* file. TCP promises neither: a recv returns some of what has arrived.    *)
(* mishaps keeps what has gone wrong in this way, or on the disk, or with  *)
(* the connection, and recvFile does not notice.                           *)
(***************************************************************************)
EXTENDS Integers, Sequences

CONSTANTS
  Buffer,     \* TRANS_FILE_LENGTH, in bytes: a small number stands for 1024
  NameLength, \* the length of the name with its end mark
  Window,     \* what the connection holds before a send blocks
  MaxLength   \* the longest file: a bound

ASSUME BufferAssumption ==
  /\ Buffer \in Nat \ {0}
  /\ NameLength \in Nat \ {0}
  /\ Window \in Nat \ {0}
  /\ MaxLength \in Nat

\* The bytes of the name are numbered up to 0, those of the file from 1.
First == 1 - NameLength

Old == 0 - NameLength  \* a byte on the disk that is of neither

VARIABLES
  length,   \* the length of the file
  existing, \* the length of what the target path already names, 0 when nothing
  spc,      \* the sender: "name", "open", "data", "closed", "missing", "failed" or "broken"
  sent,     \* the bytes TransmitFile has sent
  stream,   \* what is on its way
  rpc,      \* the receiver: "create", "name", "data", "done" or "failed"
  skipped,  \* what the first recv took
  written,  \* what WriteFile has written
  mishaps   \* "name": the first recv took another number of bytes than the name has;
            \* "short": a recv was short before the end; "write": WriteFile wrote less
            \* than it was given; "link": the connection broke under the receiver

vars == <<length, existing, spc, sent, stream, rpc, skipped, written, mishaps>>

senderVars == <<length, existing, spc, sent>>
receiverVars == <<length, existing, rpc, skipped, written>>

File == [i \in 1..length |-> i]

\* The n bytes behind the byte a.
Run(a, n) == [i \in 1..n |-> a + i]

Init ==
  /\ length \in 0..MaxLength
  /\ existing \in 0..MaxLength
  /\ spc = "name"
  /\ sent = 0
  /\ stream = <<>>
  /\ rpc = "create"
  /\ skipped = 0
  /\ written = <<>>
  /\ mishaps = {}

Least(a, b) == IF a < b THEN a ELSE b

-----------------------------------------------------------------------------
(* sendFile *)

SendName ==
  /\ spc = "name"
  /\ stream' = Run(0 - NameLength, NameLength)
  /\ spc' = "open"
  /\ UNCHANGED <<receiverVars, sent, mishaps>>

\* CreateFile. When the file is gone sendFile returns, and nobody closes the
\* connection.
OpenFile ==
  /\ spc = "open"
  /\ spc' \in {"data", "missing"}
  /\ UNCHANGED <<receiverVars, sent, stream, mishaps>>

\* TransmitFile, one send of at most TRANS_FILE_LENGTH bytes. It waits while the
\* connection is full.
TransmitPiece ==
  /\ spc = "data"
  /\ sent < length
  /\ Len(stream) < Window
  /\ sent' = Least(sent + Buffer, length)
  /\ stream' = stream \o Run(sent, sent' - sent)
  /\ UNCHANGED <<receiverVars, spc, mishaps>>

\* TransmitFile returns FALSE on a sound connection: the file is too long for it or
\* cannot be read. sendFile returns -1, and nobody closes the connection.
TransmitFails ==
  /\ spc = "data"
  /\ spc' = "failed"
  /\ UNCHANGED <<receiverVars, sent, stream, mishaps>>

\* TF_DISCONNECT
Disconnect ==
  /\ spc = "data"
  /\ sent = length
  /\ spc' = "closed"
  /\ UNCHANGED <<receiverVars, sent, stream, mishaps>>

\* The connection is reset, with it what the receiver has not read.
Break ==
  /\ spc # "broken"
  /\ spc' = "broken"
  /\ stream' = <<>>
  /\ mishaps' = IF rpc \in {"done", "failed"} THEN mishaps ELSE mishaps \cup {"link"}
  /\ UNCHANGED <<receiverVars, sent>>

-----------------------------------------------------------------------------
(* recvFile *)

\* OPEN_ALWAYS: an existing file is opened as it is, and not cut to nothing.
CreateTarget ==
  /\ rpc = "create"
  /\ rpc' \in {"name", "failed"}
  /\ UNCHANGED <<senderVars, stream, skipped, written, mishaps>>

\* How much a recv can return.
Sizes == 1..Least(Buffer, Len(stream))

\* The first recv. What follows the name in the buffer is dropped, and what it leaves
\* of the name is taken for data. The result is not looked at, so on a broken
\* connection it is followed by another recv.
RecvName ==
  /\ rpc = "name"
  /\ rpc' = "data"
  /\ \/ /\ spc = "broken"
        /\ stream = <<>>
        /\ UNCHANGED <<stream, skipped, mishaps>>
     \/ /\ stream # <<>>
        /\ skipped' \in Sizes
        /\ stream' = SubSeq(stream, skipped' + 1, Len(stream))
        /\ mishaps' = IF skipped' = NameLength THEN mishaps ELSE mishaps \cup {"name"}
  /\ UNCHANGED <<senderVars, written>>

\* What goes wrong, and is not noticed, with a recv of k bytes of which n are written.
Unnoticed(k, n) ==
  {m \in {"short", "write"} :
     \/ m = "short" /\ k < Buffer /\ (k < Len(stream) \/ sent < length)
     \/ m = "write" /\ n < k}

\* Mutant: a full buffer is taken for the end of the file as well.
RecvDataOnce ==
  /\ rpc = "data"
  /\ stream # <<>>
  /\ \E k \in Sizes : \E n \in 0..k :
       /\ written' = written \o SubSeq(stream, 1, n)
       /\ stream' = SubSeq(stream, k + 1, Len(stream))
       /\ rpc' = IF k <= Buffer THEN "done" ELSE "data"
       /\ mishaps' = mishaps \cup Unnoticed(k, n)
  /\ UNCHANGED <<senderVars, skipped>>

\* Mutant: only the last buffer is written.
RecvDataLast ==
  /\ rpc = "data"
  /\ stream # <<>>
  /\ \E k \in Sizes : \E n \in 0..k :
       /\ written' = IF k < Buffer THEN written \o SubSeq(stream, 1, n) ELSE written
       /\ stream' = SubSeq(stream, k + 1, Len(stream))
       /\ rpc' = IF k < Buffer THEN "done" ELSE "data"
       /\ mishaps' = mishaps \cup Unnoticed(k, n)
  /\ UNCHANGED <<senderVars, skipped>>

\* A recv that returns data: a short one ends the transfer. The result of WriteFile
\* is not looked at, so what it leaves out is missed by nobody.
RecvData ==
  /\ rpc = "data"
  /\ stream # <<>>
  /\ \E k \in Sizes : \E n \in 0..k :
       /\ written' = written \o SubSeq(stream, 1, n)
       /\ stream' = SubSeq(stream, k + 1, Len(stream))
       /\ rpc' = IF k < Buffer THEN "done" ELSE "data"
       /\ mishaps' = mishaps \cup Unnoticed(k, n)
  /\ UNCHANGED <<senderVars, skipped>>

\* Mutant: the end of the connection goes unnoticed unless it was an error.
RecvEndOnError ==
  /\ rpc = "data"
  /\ stream = <<>>
  /\ spc = "broken"
  /\ rpc' = "done"
  /\ UNCHANGED <<senderVars, stream, skipped, written, mishaps>>

\* A recv that returns 0 or an error: both end the transfer, which is reported as
\* complete.
RecvEnd ==
  /\ rpc = "data"
  /\ stream = <<>>
  /\ spc \in {"closed", "broken"}
  /\ rpc' = "done"
  /\ UNCHANGED <<senderVars, stream, skipped, written, mishaps>>

\* The target on the disk: what was written, and behind it what a longer file of that
\* name had there.
Saved == written \o [i \in 1..(existing - Len(written)) |-> Old]

Sender == SendName \/ OpenFile \/ TransmitPiece \/ TransmitFails \/ Disconnect

Receiver == CreateTarget \/ RecvName \/ RecvData \/ RecvEnd

Next == Sender \/ Receiver \/ Break

Spec == Init /\ [][Next]_vars

\* Both peers are scheduled and the connection delivers what was sent. It need not
\* break.
FairSpec == Spec /\ WF_vars(Sender) /\ WF_vars(Receiver)

-----------------------------------------------------------------------------
(* Properties *)

\* The types of the variables.
TypeOK ==
  /\ length \in 0..MaxLength
  /\ existing \in 0..MaxLength
  /\ spc \in {"name", "open", "data", "closed", "missing", "failed", "broken"}
  /\ sent \in 0..length
  /\ stream \in Seq(First..length)
  /\ rpc \in {"create", "name", "data", "done", "failed"}
  /\ skipped \in Nat
  /\ written \in Seq(First..length)
  /\ mishaps \subseteq {"name", "short", "write", "link"}

\* At every moment, also after an error, the bytes written are in their order and none
\* is written twice; and unless WriteFile failed none is left out behind what the
\* first recv took (FileManage.cpp, 116 and 134-141).
WrittenInOrder ==
  /\ \A p, q \in DOMAIN written : p < q => written[p] < written[q]
  /\ "write" \notin mishaps =>
       \A p \in DOMAIN written : written[p] = (skipped - NameLength) + p

\* FileManage.cpp, 127-143: on a sound connection and a sound disk, a download reported
\* as complete has left the whole file exactly when the first recv took the name alone
\* and no recv before the last was short; and nothing else is on the disk exactly
\* when the target path named no longer file before.
WholeIffUndisturbed ==
  rpc = "done" /\ mishaps \cap {"write", "link"} = {} =>
    /\ written = File <=> mishaps = {}
    /\ written = File => (Saved = File <=> existing <= length)

\* FileManage.cpp, 143: a download reported as complete has left the whole file on the
\* disk, when neither the connection nor the disk failed.
CompleteWhenDone ==
  rpc = "done" /\ mishaps \cap {"write", "link"} = {} => written = File

\* The receiver comes to an end, unless the sender cannot send the file and leaves the
\* connection open; and the sender does, unless the receiver stops reading before it.
TransferEnds ==
  /\ <>(rpc \in {"done", "failed"} \/ spc \in {"missing", "failed"})
  /\ <>(spc \notin {"name", "open", "data"} \/ rpc = "failed" \/ "short" \in mishaps)
==============================================================================
