--------------------------- MODULE PeerServerProofs ---------------------------
(***************************************************************************)
(* Theorems about PeerServer for any clients and any length of the array:  *)
(* the array holds the open sockets as long as the server listens, a scan  *)
(* neither blocks on a slot nor skips one, and the server stops listening  *)
(* or crashes only for a cause. The invariant that is inductive is IInv,   *)
(* for the last of them OutageInv.                                         *)
(***************************************************************************)
EXTENDS PeerServer, TLAPS

-----------------------------------------------------------------------------
(* The inductive invariant behind SlotsAreSockets, PickedReturns and ScanTurnsToAll. *)

\* No socket has two slots, and the listening one no other than the first.
OneSlotEach ==
  /\ \A j, k \in 1..Len(slots) : slots[j] = slots[k] => j = k
  /\ \A k \in 1..Len(slots) : slots[k] = Listener => k = 1

\* The sockets the thread has seen.
Known == shut \cup fdread \cup asked \cup Range(slots)

\* A client that is idle or waits for accept is new to the thread.
BacklogIsNew ==
  /\ \A j, k \in 1..Len(backlog) : backlog[j] = backlog[k] => j = k
  /\ \A k \in 1..Len(backlog) : conn[backlog[k]] # "idle"
  /\ \A c \in Clients : conn[c] = "idle" \/ c \in Range(backlog) => c \notin Known

\* While the server listens nothing is leaked.
SlotsAreOpen ==
  Listening /\ pc # "crashed" => Range(slots) = {Listener} \cup (Accepted \ shut)

\* The socket of a request is that of slot i, or the new one behind all others.
CurHasSlot ==
  pc \in {"recv", "send", "stalled"} =>
    /\ i \in 1..Len(slots)
    /\ IF i > 1 THEN cur = slots[i] /\ cur \in asked
       ELSE Len(slots) > 1 /\ cur = slots[Len(slots)] /\ cur \notin fdread \cup asked
            /\ slots[1] = Listener

\* The first slot the scan has not been at.
NextSlot == IF pc = "scan" THEN i ELSE i + 1

\* What select has reported was asked or is still to be asked, and not both.
ScanBehind ==
  /\ pc = "select" => fdread = {} /\ asked = {}
  /\ pc \in {"scan", "recv", "send", "stalled"} =>
       /\ \A s \in fdread \ asked : \E k \in NextSlot..Len(slots) : slots[k] = s
       /\ \A k \in NextSlot..Len(slots) : slots[k] \notin asked

\* What select has reported stays so until the scan comes to it.
StillReady ==
  Listening /\ pc # "crashed" =>
    /\ \A s \in fdread \ (asked \cup {Listener}) : Returns(s)
    /\ pc = "recv" /\ i > 1 => Returns(cur)

IInv ==
  /\ TypeOK
  /\ OneSlotEach
  /\ BacklogIsNew
  /\ SlotsAreOpen
  /\ CurHasSlot
  /\ ScanBehind
  /\ StillReady

-----------------------------------------------------------------------------
(* What OutagesHaveCause needs besides. *)

\* How far the request of a client is, and that the array never overflows.
RequestsInOrder ==
  /\ \A c \in Clients : path[c] = "read" => conn[c] # "idle" /\ c \notin Range(backlog)
  /\ \A c \in Clients : conn[c] = "served" => path[c] = "read"
  /\ pc = "recv" /\ i = 1 => path[cur] # "read"
  /\ pc = "send" => path[cur] = "read"
  /\ Len(slots) <= FdSetSize

OutageInv == IInv /\ RequestsInOrder /\ OutagesHaveCause

-----------------------------------------------------------------------------
(* Lemmas. *)

\* The range of a function, and of a sequence.
LEMMA ValuesOf ==
  ASSUME NEW s
  PROVE  \A x : x \in Range(s) <=> \E k \in DOMAIN s : s[k] = x
  BY DEF Range

LEMMA ElementsOf ==
  ASSUME NEW S, NEW s \in Seq(S)
  PROVE  \A x : x \in Range(s) <=> \E k \in 1..Len(s) : s[k] = x
<1>1. DOMAIN s = 1..Len(s)
  OBVIOUS
<1>2. \A x : x \in Range(s) <=> \E k \in DOMAIN s : s[k] = x
  BY ValuesOf
<1> QED
  BY <1>1, <1>2

\* The elements of a sequence.
LEMMA MembersOf ==
  ASSUME NEW S, NEW s \in Seq(S)
  PROVE  /\ Len(s) \in Nat
         /\ Range(s) \subseteq S
         /\ \A k \in 1..Len(s) : s[k] \in S /\ s[k] \in Range(s)
<1>1. Len(s) \in Nat /\ \A k \in 1..Len(s) : s[k] \in S
  OBVIOUS
<1>2. \A x : x \in Range(s) <=> \E k \in 1..Len(s) : s[k] = x
  BY ElementsOf
<1> QED
  BY <1>1, <1>2

\* What is left when slot i is removed: the last socket is in its place.
LEMMA RemovedSlots ==
  ASSUME NEW S, NEW s \in Seq(S), i \in 1..Len(s)
  PROVE  /\ Removed(s) \in Seq(S)
         /\ Len(Removed(s)) = Len(s) - 1
         /\ \A p \in 1..(Len(s) - 1) : Removed(s)[p] = IF p = i THEN s[Len(s)] ELSE s[p]
<1> DEFINE t == [s EXCEPT ![i] = s[Len(s)]]
<1>1. t \in Seq(S) /\ Len(t) = Len(s) /\ \A p \in 1..Len(s) : t[p] = IF p = i THEN s[Len(s)] ELSE s[p]
  OBVIOUS
<1>2. Removed(s) = SubSeq(t, 1, Len(t) - 1)
  BY DEF Removed, Front, Last
<1> HIDE DEF t
<1>3. Len(s) - 1 \in Nat
  OBVIOUS
<1> QED
  BY <1>1, <1>2, <1>3

\* Appending to a sequence.
LEMMA AppendSlot ==
  ASSUME NEW S, NEW s \in Seq(S), NEW x \in S
  PROVE  /\ Append(s, x) \in Seq(S)
         /\ Len(Append(s, x)) = Len(s) + 1
         /\ Append(s, x)[Len(s) + 1] = x
         /\ \A p \in 1..Len(s) : Append(s, x)[p] = s[p]
         /\ Range(Append(s, x)) = Range(s) \cup {x}
<1>1. /\ Append(s, x) \in Seq(S)
      /\ Len(Append(s, x)) = Len(s) + 1
      /\ Append(s, x)[Len(s) + 1] = x
      /\ \A p \in 1..Len(s) : Append(s, x)[p] = s[p]
      /\ Len(s) \in Nat
  OBVIOUS
<1> DEFINE t == Append(s, x)
<1> HIDE DEF t
<1>2. /\ t \in Seq(S) /\ Len(t) = Len(s) + 1 /\ t[Len(s) + 1] = x
      /\ \A p \in 1..Len(s) : t[p] = s[p]
  BY <1>1 DEF t
<1>3. 1..Len(t) = (1..Len(s)) \cup {Len(s) + 1}
  BY <1>1, <1>2
<1>4. \A y : y \in Range(t) <=> \E k \in 1..Len(t) : t[k] = y
  BY <1>2, ElementsOf
<1>5. \A y : y \in Range(s) <=> \E k \in 1..Len(s) : s[k] = y
  BY ElementsOf
<1>6. Range(t) = Range(s) \cup {x}
  BY <1>2, <1>3, <1>4, <1>5
<1> QED
  BY <1>1, <1>6 DEF t

\* Taking the first of a sequence whose elements differ.
LEMMA TakeFirst ==
  ASSUME NEW S, NEW s \in Seq(S), s # <<>>,
         \A j, k \in 1..Len(s) : s[j] = s[k] => j = k
  PROVE  /\ Head(s) \in S /\ Tail(s) \in Seq(S)
         /\ Range(s) = Range(Tail(s)) \cup {Head(s)} /\ Head(s) \notin Range(Tail(s))
         /\ \A k \in 1..Len(Tail(s)) : Tail(s)[k] \in Range(s)
         /\ \A j, k \in 1..Len(Tail(s)) : Tail(s)[j] = Tail(s)[k] => j = k
<1>1. /\ Len(s) \in Nat /\ Len(s) > 0
      /\ Head(s) = s[1] /\ Head(s) \in S
      /\ Tail(s) \in Seq(S) /\ Len(Tail(s)) = Len(s) - 1
      /\ \A k \in 1..(Len(s) - 1) : Tail(s)[k] = s[k + 1]
  OBVIOUS
<1> DEFINE t == Tail(s)
<1> HIDE DEF t
<1>2. t \in Seq(S) /\ Len(t) = Len(s) - 1 /\ \A k \in 1..(Len(s) - 1) : t[k] = s[k + 1]
  BY <1>1 DEF t
<1>3. \A y : y \in Range(t) <=> \E k \in 1..(Len(s) - 1) : s[k + 1] = y
  <2>1. \A y : y \in Range(t) <=> \E k \in 1..Len(t) : t[k] = y
    BY <1>2, ElementsOf
  <2> QED
    BY <1>2, <2>1
<1>4. \A y : y \in Range(s) <=> \E k \in 1..Len(s) : s[k] = y
  BY ElementsOf
<1>5. \A k \in 1..(Len(s) - 1) : k + 1 \in 1..Len(s) /\ k + 1 # 1
  BY <1>1
<1>6. \A k \in 1..Len(s) : k = 1 \/ (k - 1 \in 1..(Len(s) - 1) /\ (k - 1) + 1 = k)
  BY <1>1
<1>7. 1 \in 1..Len(s)
  BY <1>1
<1>8. Range(s) = Range(t) \cup {s[1]}
  <2> SUFFICES ASSUME NEW y PROVE y \in Range(s) <=> y \in Range(t) \cup {s[1]}
    OBVIOUS
  <2>1. ASSUME y \in Range(s) PROVE y \in Range(t) \cup {s[1]}
    <3>1. PICK k \in 1..Len(s) : s[k] = y
      BY <2>1, <1>4
    <3>2. CASE k = 1
      BY <3>1, <3>2
    <3>3. CASE k # 1
      BY <3>1, <3>3, <1>3, <1>6
    <3> QED
      BY <3>2, <3>3
  <2>2. ASSUME y \in Range(t) \cup {s[1]} PROVE y \in Range(s)
    BY <2>2, <1>3, <1>4, <1>5, <1>7
  <2> QED
    BY <2>1, <2>2
<1>9. s[1] \notin Range(t)
  BY <1>3, <1>5, <1>7
<1>10. \A k \in 1..Len(t) : t[k] \in Range(s)
  BY <1>2, <1>4, <1>5
<1>11. ASSUME NEW j \in 1..Len(t), NEW k \in 1..Len(t), t[j] = t[k] PROVE j = k
  <2>1. j + 1 \in 1..Len(s) /\ k + 1 \in 1..Len(s) /\ s[j + 1] = s[k + 1]
    BY <1>2, <1>5, <1>11
  <2>2. j + 1 = k + 1
    BY <2>1
  <2> QED
    BY <2>2, <1>2, <1>1
<1> QED
  BY <1>1, <1>2, <1>8, <1>9, <1>10, <1>11 DEF t

\* When recv on a client's socket returns.
LEMMA WhenRecvReturns ==
  ASSUME NEW c \in Clients
  PROVE  /\ Returns(c) <=> \/ c \in shut
                           \/ conn[c] \in {"served"} \cup Gone
                           \/ path[c] = "sent" /\ conn[c] \in Here
         /\ Returns(c)' <=> \/ c \in shut'
                            \/ conn'[c] \in {"served"} \cup Gone
                            \/ path'[c] = "sent" /\ conn'[c] \in Here
  BY DEF Returns, HasPath, AtEnd, Fails, Over, Disconnected, Gone, Here

\* The invariant for the two sequences, without Range.
LEMMA SlotFacts ==
  ASSUME IInv
  PROVE  /\ slots \in Seq(Sockets) /\ Len(slots) \in Nat
         /\ \A x : x \in Range(slots) <=> \E k \in 1..Len(slots) : slots[k] = x
         /\ \A k \in 1..Len(slots) : slots[k] \in Sockets /\ slots[k] \in Range(slots)
         /\ Range(slots) \subseteq Sockets
<1>1. slots \in Seq(Sockets)
  BY DEF IInv, TypeOK
<1>2. \A x : x \in Range(slots) <=> \E k \in 1..Len(slots) : slots[k] = x
  BY <1>1, ElementsOf
<1> QED
  BY <1>1, <1>2, MembersOf

LEMMA BacklogFacts ==
  ASSUME IInv
  PROVE  /\ backlog \in Seq(Clients) /\ Len(backlog) \in Nat
         /\ \A k \in 1..Len(backlog) : backlog[k] \in Clients /\ backlog[k] \in Range(backlog)
         /\ Range(backlog) \subseteq Clients
         /\ \A c \in Range(backlog) : conn[c] # "idle"
<1>1. backlog \in Seq(Clients)
  BY DEF IInv, TypeOK
<1>2. \A x : x \in Range(backlog) <=> \E k \in 1..Len(backlog) : backlog[k] = x
  BY <1>1, ElementsOf
<1>3. \A k \in 1..Len(backlog) : conn[backlog[k]] # "idle"
  BY DEF IInv, BacklogIsNew
<1>4. \A c \in Range(backlog) : conn[c] # "idle"
  BY <1>2, <1>3
<1> QED
  BY <1>1, <1>4, MembersOf

\* A request is one of a client whose socket has a slot.
LEMMA CurIsClient ==
  ASSUME IInv, pc \in {"recv", "send", "stalled"}
  PROVE  cur \in Clients /\ cur \in Range(slots) /\ i \in 1..Len(slots)
         /\ conn[cur] # "idle" /\ cur \notin Range(backlog)
<1>1. /\ i \in 1..Len(slots)
      /\ IF i > 1 THEN cur = slots[i] ELSE Len(slots) > 1 /\ cur = slots[Len(slots)]
  BY DEF IInv, CurHasSlot
<1>2. \A k \in 1..Len(slots) : slots[k] = Listener => k = 1
  BY DEF IInv, OneSlotEach
<1>3. Len(slots) \in Nat /\ \A k \in 1..Len(slots) : slots[k] \in Sockets /\ slots[k] \in Range(slots)
  BY SlotFacts
<1>4. PICK k \in 1..Len(slots) : cur = slots[k] /\ k # 1
  <2>1. CASE i > 1
    BY <2>1, <1>1
  <2>2. CASE ~(i > 1)
    BY <2>2, <1>1, <1>3
  <2> QED
    BY <2>1, <2>2
<1>5. cur \in Clients /\ cur \in Range(slots)
  BY <1>2, <1>3, <1>4 DEF Sockets
<1>6. cur \in Known
  BY <1>5 DEF Known
<1> QED
  BY <1>1, <1>5, <1>6 DEF IInv, BacklogIsNew

\* The thread's own part of the invariant holds on while the thread stays where it is.
LEMMA ThreadStays ==
  ASSUME IInv, UNCHANGED <<slots, fdread, i, cur, pc, asked>>
  PROVE  OneSlotEach' /\ CurHasSlot' /\ ScanBehind'
<1>1. OneSlotEach'
  BY DEF IInv, OneSlotEach
<1>2. CurHasSlot'
  BY DEF IInv, CurHasSlot
<1>3. ScanBehind'
  BY DEF IInv, ScanBehind, NextSlot
<1> QED
  BY <1>1, <1>2, <1>3

-----------------------------------------------------------------------------
(* The initial states. *)

LEMMA InitIInv == Init => IInv
<1> SUFFICES ASSUME Init PROVE IInv
  OBVIOUS
<1>1. slots = <<>> \/ slots = <<Listener>>
  BY DEF Init
<1>2. Listener \in Sockets
  BY DEF Sockets
<1>3. TypeOK
  <2>1. slots \in Seq(Sockets)
    <3>1. <<>> \in Seq(Sockets) /\ <<Listener>> \in Seq(Sockets)
      BY <1>2
    <3> QED
      BY <1>1, <3>1
  <2> QED
    BY <2>1, <1>2 DEF Init, TypeOK, Startups
<1>4. OneSlotEach
  BY <1>1 DEF OneSlotEach
<1>5. \A x \in Range(slots) : x = Listener
  BY <1>1, ValuesOf
<1>6. BacklogIsNew
  <2>1. Known \subseteq {Listener}
    BY <1>5 DEF Init, Known
  <2>2. backlog = <<>> /\ Len(backlog) = 0
    BY DEF Init
  <2> QED
    BY <2>1, <2>2, ServerAssumption DEF BacklogIsNew
<1>7. SlotsAreOpen
  <2>1. ASSUME Listening PROVE Range(slots) = {Listener}
    <3>1. slots = <<Listener>>
      BY <2>1, <1>1 DEF Listening
    <3>2. Listener \in Range(slots)
      BY <3>1, ValuesOf
    <3> QED
      BY <3>2, <1>5
  <2>2. Accepted = {}
    BY DEF Init, Accepted
  <2> QED
    BY <2>1, <2>2 DEF SlotsAreOpen
<1>8. CurHasSlot /\ ScanBehind /\ StillReady
  BY DEF Init, CurHasSlot, ScanBehind, StillReady
<1> QED
  BY <1>3, <1>4, <1>6, <1>7, <1>8 DEF IInv

-----------------------------------------------------------------------------
(* The clients' steps. *)

LEMMA ConnectStep ==
  ASSUME IInv, NEW c \in Clients, Connect(c)
  PROVE  IInv'
<1> USE DEF Connect, winsockVars, Here
<1>1. backlog' = Append(backlog, c) /\ backlog \in Seq(Clients) /\ Len(backlog) \in Nat
  BY BacklogFacts
<1>2. /\ backlog' \in Seq(Clients) /\ Len(backlog') = Len(backlog) + 1
      /\ backlog'[Len(backlog) + 1] = c
      /\ \A p \in 1..Len(backlog) : backlog'[p] = backlog[p]
      /\ Range(backlog') = Range(backlog) \cup {c}
  <2>1. /\ Append(backlog, c) \in Seq(Clients)
        /\ Len(Append(backlog, c)) = Len(backlog) + 1
        /\ Append(backlog, c)[Len(backlog) + 1] = c
        /\ \A p \in 1..Len(backlog) : Append(backlog, c)[p] = backlog[p]
        /\ Range(Append(backlog, c)) = Range(backlog) \cup {c}
    BY <1>1, AppendSlot
  <2> HIDE DEF Connect
  <2> QED
    BY <2>1, <1>1
<1>3. c \notin Range(backlog) /\ c \notin Known
  BY BacklogFacts DEF IInv, BacklogIsNew
<1>4. Accepted' = Accepted /\ Listening' = Listening /\ Known' = Known
  <2>1. conn' = [conn EXCEPT ![c] = "open"] /\ conn[c] = "idle"
    OBVIOUS
  <2>2. \A d \in Clients : conn'[d] # "idle" <=> conn[d] # "idle" \/ d = c
    BY <2>1 DEF IInv, TypeOK
  <2> QED
    BY <1>2, <2>1, <2>2 DEF Accepted, Listening, Known
<1>5. TypeOK'
  BY <1>2 DEF IInv, TypeOK
<1>6. BacklogIsNew'
  <2>1. ASSUME NEW k \in 1..Len(backlog') PROVE k \in 1..Len(backlog) \/ k = Len(backlog) + 1
    BY <1>1, <1>2
  <2>2. ASSUME NEW j \in 1..Len(backlog'), NEW k \in 1..Len(backlog'), backlog'[j] = backlog'[k]
        PROVE  j = k
    BY <2>1, <2>2, <1>2, <1>3, BacklogFacts DEF IInv, BacklogIsNew
  <2>3. ASSUME NEW k \in 1..Len(backlog') PROVE conn'[backlog'[k]] # "idle"
    BY <2>1, <1>2, BacklogFacts DEF IInv, BacklogIsNew, TypeOK
  <2>4. ASSUME NEW d \in Clients, conn'[d] = "idle" \/ d \in Range(backlog')
        PROVE  d \notin Known'
    BY <2>4, <1>2, <1>3, <1>4 DEF IInv, BacklogIsNew, TypeOK
  <2> QED
    BY <2>2, <2>3, <2>4 DEF BacklogIsNew
<1>7. SlotsAreOpen'
  BY <1>4 DEF IInv, SlotsAreOpen
<1>8. StillReady'
  <2>1. ASSUME NEW d \in Clients, d # c, Returns(d) PROVE Returns(d)'
    BY <2>1, WhenRecvReturns DEF IInv, TypeOK
  <2>2. \A s \in fdread : s # c
    BY <1>3 DEF Known
  <2>3. pc = "recv" => cur \in Clients /\ cur # c
    BY <1>3, CurIsClient DEF Known
  <2>4. fdread \subseteq Clients \cup {Listener}
    BY DEF IInv, TypeOK, Sockets
  <2> QED
    BY <2>1, <2>2, <2>3, <2>4, <1>4 DEF IInv, StillReady
<1> QED
  BY <1>5, <1>6, <1>7, <1>8, ThreadStays DEF IInv

LEMMA SendPathStep ==
  ASSUME IInv, NEW c \in Clients, SendPath(c)
  PROVE  IInv'
<1> USE DEF SendPath, winsockVars
<1>1. TypeOK'
  BY DEF IInv, TypeOK
<1>2. BacklogIsNew' /\ SlotsAreOpen' /\ Listening' = Listening
  BY DEF IInv, BacklogIsNew, SlotsAreOpen, Listening, Accepted, Known
<1>3. StillReady'
  <2>1. ASSUME NEW d \in Clients, Returns(d) PROVE Returns(d)'
    BY <2>1, WhenRecvReturns DEF IInv, TypeOK
  <2>2. fdread \subseteq Clients \cup {Listener} /\ (pc = "recv" => cur \in Clients)
    BY CurIsClient DEF IInv, TypeOK, Sockets
  <2> QED
    BY <2>1, <2>2, <1>2 DEF IInv, StillReady
<1> QED
  BY <1>1, <1>2, <1>3, ThreadStays DEF IInv

\* A client that has connected reads no more, or is gone.
LEMMA LeaveStep ==
  ASSUME IInv, NEW c \in Clients, GiveUp(c) \/ Leave(c)
  PROVE  IInv'
<1>1. PICK how \in Gone \cup {"deaf"} : conn' = [conn EXCEPT ![c] = how]
  BY DEF GiveUp, Leave
<1>0. /\ conn[c] \in Here
      /\ UNCHANGED <<path, answer, backlog, slots, shut, fdread, i, cur, pc, asked, started, cleanups>>
  BY DEF GiveUp, Leave, winsockVars, Here
<1> USE <1>0 DEF Here
<1>2. \A d \in Clients : conn'[d] = IF d = c THEN how ELSE conn[d]
  BY <1>1 DEF IInv, TypeOK
<1>3. \A d \in Clients : conn'[d] = "idle" <=> conn[d] = "idle"
  BY <1>2 DEF Gone
<1>4. TypeOK'
  BY <1>1 DEF IInv, TypeOK
<1>5. Accepted' = Accepted /\ Listening' = Listening /\ Known' = Known
  BY <1>3 DEF Accepted, Listening, Known
<1>6. BacklogIsNew'
  BY <1>3, <1>5, BacklogFacts DEF IInv, BacklogIsNew
<1>7. SlotsAreOpen'
  BY <1>5 DEF IInv, SlotsAreOpen
<1>8. StillReady'
  <2>1. ASSUME NEW d \in Clients, Returns(d) PROVE Returns(d)'
    BY <2>1, <1>2, WhenRecvReturns DEF Gone
  <2>2. fdread \subseteq Clients \cup {Listener} /\ (pc = "recv" => cur \in Clients)
    BY CurIsClient DEF IInv, TypeOK, Sockets
  <2> QED
    BY <2>1, <2>2, <1>5 DEF IInv, StillReady
<1> QED
  BY <1>4, <1>6, <1>7, <1>8, ThreadStays DEF IInv

\* PeerClient, in the same process.
LEMMA ConnectFailsStep ==
  ASSUME IInv, ConnectFails
  PROVE  IInv'
<1> USE DEF ConnectFails
<1>1. CASE cleanups' < Startups
  <2>1. UNCHANGED <<conn, path, backlog, slots, shut, fdread, i, cur, pc, asked>>
    BY <1>1
  <2>2. TypeOK'
    BY <2>1, <1>1 DEF IInv, TypeOK, Startups
  <2>3. BacklogIsNew' /\ SlotsAreOpen' /\ Listening' = Listening
    BY <2>1 DEF IInv, BacklogIsNew, SlotsAreOpen, Listening, Accepted, Known
  <2>4. StillReady'
    <3>1. ASSUME NEW d \in Clients, Returns(d) PROVE Returns(d)'
      BY <3>1, <2>1, WhenRecvReturns
    <3>2. fdread \subseteq Clients \cup {Listener} /\ (pc = "recv" => cur \in Clients)
      BY CurIsClient DEF IInv, TypeOK, Sockets
    <3> QED
      BY <3>1, <3>2, <2>1, <2>3 DEF IInv, StillReady
  <2> QED
    BY <2>1, <2>2, <2>3, <2>4, ThreadStays DEF IInv
<1>2. CASE ~(cleanups' < Startups)
  <2>1. /\ conn' = [d \in Clients |-> IF conn[d] \in Here THEN "cut" ELSE conn[d]]
        /\ backlog' = <<>>
        /\ shut' = shut \cup {Listener} \cup Range(slots)
        /\ UNCHANGED <<path, slots, fdread, i, cur, pc, asked>>
    BY <1>2
  <2>2. TypeOK'
    <3>1. shut' \subseteq Sockets
      BY <2>1, SlotFacts DEF IInv, TypeOK, Sockets
    <3> QED
      BY <2>1, <3>1 DEF IInv, TypeOK, Startups
  <2>3. ~Listening'
    BY <2>1 DEF Listening
  <2>4. BacklogIsNew'
    <3>1. Known' = Known \cup {Listener}
      BY <2>1 DEF Known
    <3>2. Len(backlog') = 0 /\ Range(backlog') = {}
      BY <2>1, ValuesOf
    <3>3. \A d \in Clients : conn'[d] = "idle" => conn[d] = "idle"
      BY <2>1
    <3> QED
      BY <3>1, <3>2, <3>3, ServerAssumption DEF IInv, BacklogIsNew
  <2> QED
    BY <2>1, <2>2, <2>3, <2>4, ThreadStays DEF IInv, SlotsAreOpen, StillReady
<1> QED
  BY <1>1, <1>2

-----------------------------------------------------------------------------
(* The thread's steps that change neither the clients nor the array. *)

\* What those steps keep.
LEMMA SocketsStay ==
  ASSUME IInv, UNCHANGED <<conn, backlog, slots, shut, winsockVars>>,
         path' \in [Clients -> {"unsent", "sent", "read"}],
         Known' \subseteq Known \cup {Listener}, pc # "crashed"
  PROVE  OneSlotEach' /\ BacklogIsNew' /\ SlotsAreOpen' /\ Listening' = Listening
<1>1. OneSlotEach' /\ Listening' = Listening
  BY DEF IInv, OneSlotEach, Listening
<1>2. BacklogIsNew'
  BY ServerAssumption DEF IInv, BacklogIsNew
<1>3. SlotsAreOpen'
  BY <1>1 DEF IInv, SlotsAreOpen, Accepted
<1> QED
  BY <1>1, <1>2, <1>3

LEMMA SelectStep ==
  ASSUME IInv, Select, UNCHANGED winsockVars
  PROVE  IInv'
<1>1. /\ pc = "select" /\ pc' = "scan" /\ i' = 1
      /\ UNCHANGED <<conn, path, answer, backlog, slots, shut, cur, asked>>
  BY DEF Select, clientVars
<1>2. fdread' \subseteq Range(slots)
  BY DEF Select, InSlots
<1>3. asked = {}
  BY <1>1 DEF IInv, ScanBehind
<1>4. TypeOK'
  BY <1>1, <1>2, SlotFacts DEF IInv, TypeOK, winsockVars
<1>5. OneSlotEach' /\ BacklogIsNew' /\ SlotsAreOpen' /\ Listening' = Listening
  <2>1. Known' \subseteq Known
    BY <1>1, <1>2 DEF Known
  <2> QED
    BY <1>1, <2>1, SocketsStay DEF IInv, TypeOK
<1>6. CurHasSlot' /\ ScanBehind'
  <2>1. \A s \in fdread' : \E k \in 1..Len(slots) : slots[k] = s
    BY <1>2, SlotFacts
  <2> QED
    BY <1>1, <1>3, <2>1 DEF CurHasSlot, ScanBehind, NextSlot
<1>7. StillReady'
  <2> SUFFICES ASSUME Listening, NEW s \in fdread', s # Listener PROVE Returns(s)'
    BY <1>1, <1>5 DEF StillReady
  <2>1. s \in Clients /\ s \in Range(slots)
    BY <1>2, SlotFacts DEF Sockets
  <2>2. Range(slots) = {Listener} \cup (Accepted \ shut)
    BY <1>1 DEF IInv, SlotsAreOpen
  <2>3. slots # <<>> /\ InSlots \cap shut = {}
    BY <2>2 DEF InSlots, Listening
  <2>4. Ready(s) \/ s \in Disconnected
    BY <2>3 DEF Select
  <2>5. Returns(s)
    BY <2>1, <2>4 DEF Ready, Returns, Fails, AtEnd, HasPath, Over, Gone
  <2> QED
    BY <2>1, <2>5, <1>1, WhenRecvReturns
<1> QED
  BY <1>4, <1>5, <1>6, <1>7 DEF IInv

LEMMA SkipStep ==
  ASSUME IInv, Skip, UNCHANGED winsockVars
  PROVE  IInv'
<1>1. /\ pc = "scan" /\ i <= Len(slots) /\ slots[i] \notin fdread /\ i' = i + 1
      /\ UNCHANGED <<conn, path, answer, backlog, slots, shut, fdread, cur, pc, asked>>
  BY DEF Skip, clientVars
<1>2. i \in Nat /\ i > 0 /\ Len(slots) \in Nat
  BY SlotFacts DEF IInv, TypeOK
<1>3. TypeOK'
  BY <1>1, <1>2 DEF IInv, TypeOK, winsockVars
<1>4. OneSlotEach' /\ BacklogIsNew' /\ SlotsAreOpen' /\ Listening' = Listening
  <2>1. Known' = Known
    BY <1>1 DEF Known
  <2> QED
    BY <1>1, <2>1, SocketsStay DEF IInv, TypeOK
<1>5. ScanBehind'
  <2>1. ASSUME NEW s \in fdread \ asked PROVE \E k \in (i + 1)..Len(slots) : slots[k] = s
    <3>1. PICK k \in i..Len(slots) : slots[k] = s
      BY <1>1 DEF IInv, ScanBehind, NextSlot
    <3> QED
      BY <3>1, <1>1, <1>2
  <2>2. \A k \in (i + 1)..Len(slots) : k \in i..Len(slots)
    BY <1>2
  <2> QED
    BY <2>1, <2>2, <1>1 DEF IInv, ScanBehind, NextSlot
<1>6. StillReady'
  <2>1. fdread \subseteq Clients \cup {Listener}
    BY DEF IInv, TypeOK, Sockets
  <2>2. ASSUME NEW d \in Clients, Returns(d) PROVE Returns(d)'
    BY <2>2, <1>1, WhenRecvReturns
  <2> QED
    BY <2>1, <2>2, <1>1, <1>4 DEF IInv, StillReady
<1> QED
  BY <1>1, <1>3, <1>4, <1>5, <1>6 DEF IInv, CurHasSlot

LEMMA EndScanStep ==
  ASSUME IInv, EndScan, UNCHANGED winsockVars
  PROVE  IInv'
<1>1. /\ pc = "scan" /\ pc' = "select" /\ fdread' = {} /\ asked' = {} /\ i' = 1
      /\ UNCHANGED <<conn, path, answer, backlog, slots, shut, cur>>
  BY DEF EndScan, clientVars
<1>2. TypeOK'
  BY <1>1 DEF IInv, TypeOK, winsockVars
<1>3. OneSlotEach' /\ BacklogIsNew' /\ SlotsAreOpen'
  <2>1. Known' \subseteq Known
    BY <1>1 DEF Known
  <2> QED
    BY <1>1, <2>1, SocketsStay DEF IInv, TypeOK
<1> QED
  BY <1>1, <1>2, <1>3 DEF IInv, CurHasSlot, ScanBehind, StillReady

\* A slot other than the first: what select has reported of it still holds.
LEMMA PickStep ==
  ASSUME IInv, Pick, UNCHANGED winsockVars
  PROVE  IInv'
<1>1. /\ pc = "scan" /\ pc' = "recv" /\ i \in 2..Len(slots) /\ slots[i] \in fdread
      /\ cur' = slots[i] /\ asked' = asked \cup {slots[i]}
      /\ UNCHANGED <<conn, path, answer, backlog, slots, shut, fdread, i>>
  BY DEF Pick, clientVars
<1>2. /\ i \in Nat /\ i > 1 /\ Len(slots) \in Nat /\ i \in 1..Len(slots)
      /\ slots[i] \in Sockets /\ slots[i] \in Range(slots)
  BY <1>1, SlotFacts DEF IInv, TypeOK
<1>3. \A k \in 1..Len(slots) : slots[k] = slots[i] => k = i
  BY <1>2 DEF IInv, OneSlotEach
<1>4. TypeOK'
  BY <1>1, <1>2 DEF IInv, TypeOK, winsockVars
<1>5. OneSlotEach' /\ BacklogIsNew' /\ SlotsAreOpen' /\ Listening' = Listening
  <2>1. Known' \subseteq Known
    BY <1>1, <1>2 DEF Known
  <2> QED
    BY <1>1, <2>1, SocketsStay DEF IInv, TypeOK
<1>6. CurHasSlot'
  BY <1>1, <1>2 DEF CurHasSlot
<1>7. ScanBehind'
  <2>1. ASSUME NEW s \in fdread' \ asked' PROVE \E k \in (i + 1)..Len(slots) : slots[k] = s
    <3>1. PICK k \in i..Len(slots) : slots[k] = s
      BY <1>1 DEF IInv, ScanBehind, NextSlot
    <3> QED
      BY <3>1, <1>1, <1>2
  <2>2. ASSUME NEW k \in (i + 1)..Len(slots) PROVE slots[k] \notin asked'
    <3>1. k \in i..Len(slots) /\ k \in 1..Len(slots) /\ k # i
      BY <1>2
    <3>2. slots[k] \notin asked
      BY <3>1, <1>1 DEF IInv, ScanBehind, NextSlot
    <3> QED
      BY <3>1, <3>2, <1>1, <1>3
  <2> QED
    BY <2>1, <2>2, <1>1 DEF ScanBehind, NextSlot
<1>8. StillReady'
  <2>1. slots[i] # Listener /\ slots[i] \in Clients
    BY <1>2 DEF IInv, OneSlotEach, Sockets
  <2>2. slots[i] \notin asked
    BY <1>1, <1>2 DEF IInv, ScanBehind, NextSlot
  <2>3. Listening => Returns(slots[i])
    BY <2>1, <2>2, <1>1 DEF IInv, StillReady
  <2>4. ASSUME NEW d \in Clients, Returns(d) PROVE Returns(d)'
    BY <2>4, <1>1, WhenRecvReturns
  <2>5. fdread \subseteq Clients \cup {Listener}
    BY DEF IInv, TypeOK, Sockets
  <2>6. \A s \in fdread' \ (asked' \cup {Listener}) : Listening => Returns(s)'
    BY <2>4, <2>5, <1>1 DEF IInv, StillReady
  <2>7. Listening => Returns(cur)'
    <3>1. /\ Disconnected' = Disconnected /\ cur' = slots[i]
          /\ conn' = conn /\ path' = path /\ shut' = shut
      BY <1>1 DEF Disconnected
    <3>2. Returns(cur)' <=> Returns(slots[i])
      BY <3>1 DEF Returns, HasPath, AtEnd, Fails, Over
    <3> QED
      BY <2>3, <3>2
  <2> QED
    BY <2>6, <2>7, <1>1, <1>5 DEF StillReady
<1> QED
  BY <1>4, <1>5, <1>6, <1>7, <1>8 DEF IInv

LEMMA RecvPathStep ==
  ASSUME IInv, RecvPath, UNCHANGED winsockVars
  PROVE  IInv'
<1>1. /\ pc = "recv" /\ pc' = "send" /\ path' = [path EXCEPT ![cur] = "read"]
      /\ UNCHANGED <<conn, answer, backlog, slots, shut, fdread, i, cur, asked>>
  BY DEF RecvPath
<1>2. TypeOK'
  BY <1>1 DEF IInv, TypeOK, winsockVars
<1>3. OneSlotEach' /\ BacklogIsNew' /\ SlotsAreOpen' /\ Listening' = Listening
  <2>1. Known' = Known
    BY <1>1 DEF Known
  <2> QED
    BY <1>1, <1>2, <2>1, SocketsStay DEF TypeOK
<1>4. CurHasSlot' /\ ScanBehind'
  BY <1>1 DEF IInv, CurHasSlot, ScanBehind, NextSlot
<1>5. StillReady'
  <2>1. cur \notin fdread \ asked
    BY <1>1 DEF IInv, CurHasSlot
  <2>2. ASSUME NEW d \in Clients, d # cur, Returns(d) PROVE Returns(d)'
    BY <2>2, <1>1, WhenRecvReturns DEF IInv, TypeOK
  <2>3. fdread \subseteq Clients \cup {Listener}
    BY DEF IInv, TypeOK, Sockets
  <2> QED
    BY <2>1, <2>2, <2>3, <1>1, <1>3 DEF IInv, StillReady
<1> QED
  BY <1>2, <1>3, <1>4, <1>5 DEF IInv

\* The scan goes on behind slot i, or the thread crashes.
LEMMA RecvFailsStep ==
  ASSUME IInv, RecvFails, UNCHANGED winsockVars
  PROVE  IInv'
<1>1. /\ pc = "recv" /\ pc' \in {"scan", "crashed"} /\ i' = i + 1 /\ cur' \in {Listener, cur}
      /\ UNCHANGED <<conn, path, answer, backlog, slots, shut, fdread, asked>>
  BY DEF RecvFails, StaleRequest, BodyEnds, clientVars
<1>2. i \in Nat /\ Listener \in Sockets
  BY DEF IInv, TypeOK, Sockets
<1>3. TypeOK'
  BY <1>1, <1>2 DEF IInv, TypeOK, winsockVars
<1>4. OneSlotEach' /\ BacklogIsNew' /\ SlotsAreOpen' /\ Listening' = Listening
  <2>1. Known' = Known
    BY <1>1 DEF Known
  <2> QED
    BY <1>1, <2>1, SocketsStay DEF IInv, TypeOK
<1>5. CurHasSlot' /\ ScanBehind'
  BY <1>1 DEF IInv, CurHasSlot, ScanBehind, NextSlot
<1>6. StillReady'
  <2>1. ASSUME NEW d \in Clients, Returns(d) PROVE Returns(d)'
    BY <2>1, <1>1, WhenRecvReturns
  <2>2. fdread \subseteq Clients \cup {Listener}
    BY DEF IInv, TypeOK, Sockets
  <2> QED
    BY <2>1, <2>2, <1>1, <1>4 DEF IInv, StillReady
<1> QED
  BY <1>3, <1>4, <1>5, <1>6 DEF IInv

-----------------------------------------------------------------------------
(* The steps that change the array or a client's end. *)

\* accept or recv fails at slot 1: the scan goes on, or the thread crashes.
LEMMA AcceptFailsStep ==
  ASSUME IInv, UNCHANGED winsockVars, Refuse \/ (Accept /\ ~Listening)
  PROVE  IInv'
<1>1. /\ pc = "scan" /\ i = 1 /\ slots # <<>> /\ slots[1] \in fdread
      /\ pc' \in {"scan", "crashed"} /\ i' = 2 /\ cur' \in {Listener, Invalid}
      /\ asked' = asked \cup {slots[1]}
      /\ UNCHANGED <<conn, path, answer, backlog, slots, shut, fdread>>
  <2>1. CASE Refuse
    BY <2>1 DEF Refuse, Listening, StaleRequest, BodyEnds, clientVars
  <2>2. CASE Accept /\ ~Listening
    BY <2>2 DEF Accept, StaleRequest, BodyEnds, clientVars
  <2> QED
    BY <2>1, <2>2
<1>2. Len(slots) \in Nat /\ 1 \in 1..Len(slots) /\ slots[1] \in Sockets /\ slots[1] \in Range(slots)
  BY <1>1, SlotFacts
<1>3. TypeOK'
  BY <1>1, <1>2 DEF IInv, TypeOK, winsockVars, Sockets
<1>4. OneSlotEach' /\ BacklogIsNew' /\ SlotsAreOpen' /\ Listening' = Listening
  <2>1. Known' = Known
    BY <1>1, <1>2 DEF Known
  <2> QED
    BY <1>1, <2>1, SocketsStay DEF IInv, TypeOK
<1>5. ScanBehind'
  <2>1. ASSUME NEW s \in fdread' \ asked' PROVE \E k \in 2..Len(slots) : slots[k] = s
    <3>1. PICK k \in 1..Len(slots) : slots[k] = s
      BY <1>1 DEF IInv, ScanBehind, NextSlot
    <3> QED
      BY <3>1, <1>1, <1>2
  <2>2. ASSUME NEW k \in 2..Len(slots) PROVE slots[k] \notin asked'
    <3>1. k \in 1..Len(slots) /\ k # 1
      BY <1>2
    <3>2. slots[k] \notin asked
      BY <3>1, <1>1 DEF IInv, ScanBehind, NextSlot
    <3>3. slots[k] # slots[1]
      BY <3>1, <1>2 DEF IInv, OneSlotEach
    <3> QED
      BY <3>2, <3>3, <1>1
  <2> QED
    BY <2>1, <2>2, <1>1 DEF ScanBehind, NextSlot
<1>6. CurHasSlot' /\ StillReady'
  <2>1. ASSUME NEW d \in Clients, Returns(d) PROVE Returns(d)'
    BY <2>1, <1>1, WhenRecvReturns
  <2>2. fdread \subseteq Clients \cup {Listener}
    BY DEF IInv, TypeOK, Sockets
  <2>3. StillReady'
    BY <2>1, <2>2, <1>1, <1>4 DEF IInv, StillReady
  <2> QED
    BY <2>3, <1>1 DEF CurHasSlot
<1> QED
  BY <1>3, <1>4, <1>5, <1>6 DEF IInv

\* What taking the first connection from the backlog leaves.
LEMMA Taken ==
  ASSUME IInv, backlog # <<>>
  PROVE  LET c == Head(backlog) IN
         /\ c \in Clients /\ conn[c] # "idle" /\ c \notin Known /\ c \in Range(backlog)
         /\ Tail(backlog) \in Seq(Clients)
         /\ Range(backlog) = Range(Tail(backlog)) \cup {c} /\ c \notin Range(Tail(backlog))
         /\ \A j, k \in 1..Len(Tail(backlog)) : Tail(backlog)[j] = Tail(backlog)[k] => j = k
         /\ \A k \in 1..Len(Tail(backlog)) : Tail(backlog)[k] \in Range(backlog)
<1>1. \A j, k \in 1..Len(backlog) : backlog[j] = backlog[k] => j = k
  BY DEF IInv, BacklogIsNew
<1>2. /\ Head(backlog) \in Clients /\ Tail(backlog) \in Seq(Clients)
      /\ Range(backlog) = Range(Tail(backlog)) \cup {Head(backlog)}
      /\ Head(backlog) \notin Range(Tail(backlog))
      /\ \A k \in 1..Len(Tail(backlog)) : Tail(backlog)[k] \in Range(backlog)
      /\ \A j, k \in 1..Len(Tail(backlog)) : Tail(backlog)[j] = Tail(backlog)[k] => j = k
  BY <1>1, BacklogFacts, TakeFirst
<1>3. Head(backlog) \notin Known /\ conn[Head(backlog)] # "idle"
  BY <1>2, BacklogFacts DEF IInv, BacklogIsNew
<1> QED
  BY <1>2, <1>3

\* A connection is accepted, and the array has room for it or not.
LEMMA AcceptedStep ==
  ASSUME IInv, Accept, Listening, UNCHANGED winsockVars
  PROVE  IInv'
<1> DEFINE c == Head(backlog)
           rest == Tail(backlog)
<1>1. /\ pc = "scan" /\ i = 1 /\ slots # <<>> /\ Listener \in fdread /\ backlog # <<>>
      /\ asked' = asked \cup {Listener} /\ cur' = c /\ backlog' = rest
      /\ UNCHANGED <<conn, path, answer, shut, fdread, i>>
      /\ \/ slots' = Append(slots, c) /\ pc' = "recv"
         \/ slots' = slots /\ pc' = "crashed"
  BY DEF Accept, Listening, clientVars
<1>2. /\ c \in Clients /\ conn[c] # "idle" /\ c \notin Known /\ c \in Range(backlog)
      /\ rest \in Seq(Clients)
      /\ Range(backlog) = Range(rest) \cup {c} /\ c \notin Range(rest)
      /\ \A j, k \in 1..Len(rest) : rest[j] = rest[k] => j = k
      /\ \A k \in 1..Len(rest) : rest[k] \in Range(backlog)
  BY <1>1, Taken
<1> HIDE DEF c, rest
<1>3. /\ Len(slots) \in Nat /\ 1 \in 1..Len(slots) /\ Listener \in Range(slots)
      /\ slots \in Seq(Sockets) /\ c \in Sockets
  BY <1>1, <1>2, SlotFacts DEF Sockets, Listening
<1>4. /\ Append(slots, c) \in Seq(Sockets)
      /\ Len(Append(slots, c)) = Len(slots) + 1
      /\ Append(slots, c)[Len(slots) + 1] = c
      /\ \A p \in 1..Len(slots) : Append(slots, c)[p] = slots[p]
      /\ Range(Append(slots, c)) = Range(slots) \cup {c}
  BY <1>3, AppendSlot
<1>5. c \notin Range(slots) /\ c \notin shut \cup fdread \cup asked /\ c # Listener
  BY <1>2, ServerAssumption DEF Known
<1>6. TypeOK'
  BY <1>1, <1>2, <1>3, <1>4 DEF IInv, TypeOK, winsockVars, Sockets
<1>7. BacklogIsNew'
  <2>1. Known' \subseteq Known \cup {c, Listener}
    BY <1>1, <1>4 DEF Known
  <2>2. \A k \in 1..Len(rest) : conn[rest[k]] # "idle"
    BY <1>2, BacklogFacts
  <2>3. ASSUME NEW d \in Clients, conn[d] = "idle" \/ d \in Range(rest)
        PROVE  d \notin Known \cup {c, Listener}
    BY <2>3, <1>2, ServerAssumption DEF IInv, BacklogIsNew
  <2> QED
    BY <2>1, <2>2, <2>3, <1>1, <1>2 DEF BacklogIsNew
<1>8. CASE slots' = slots /\ pc' = "crashed"
  BY <1>6, <1>7, <1>8
  DEF IInv, OneSlotEach, SlotsAreOpen, CurHasSlot, ScanBehind, StillReady
<1>9. CASE slots' = Append(slots, c) /\ pc' = "recv"
  <2>1. ASSUME NEW k \in 1..Len(slots') PROVE k \in 1..Len(slots) \/ k = Len(slots) + 1
    BY <1>3, <1>4, <1>9
  <2>2. slots # <<>> /\ slots' # <<>> /\ slots'[1] = Listener /\ Listening /\ Listening'
    BY <1>1, <1>3, <1>4, <1>9 DEF Listening
  <2>3. OneSlotEach'
    <3>1. ASSUME NEW j \in 1..Len(slots'), NEW k \in 1..Len(slots'), slots'[j] = slots'[k]
          PROVE  j = k
      BY <2>1, <3>1, <1>4, <1>5, <1>9, SlotFacts DEF IInv, OneSlotEach
    <3>2. ASSUME NEW k \in 1..Len(slots'), slots'[k] = Listener PROVE k = 1
      BY <2>1, <3>2, <1>4, <1>5, <1>9 DEF IInv, OneSlotEach
    <3> QED
      BY <3>1, <3>2 DEF OneSlotEach
  <2>4. SlotsAreOpen'
    <3>1. Range(slots) = {Listener} \cup (Accepted \ shut)
      BY <2>2, <1>1 DEF IInv, SlotsAreOpen
    <3>2. Accepted' = Accepted \cup {c}
      BY <1>1, <1>2 DEF Accepted
    <3> QED
      BY <3>1, <3>2, <1>1, <1>4, <1>5, <1>9 DEF SlotsAreOpen
  <2>5. CurHasSlot'
    <3>1. 1 \in 1..Len(slots') /\ Len(slots') > 1 /\ ~(i' > 1) /\ i' = 1
      BY <1>1, <1>3, <1>4, <1>9
    <3> QED
      BY <3>1, <2>2, <1>1, <1>4, <1>5, <1>9 DEF CurHasSlot
  <2>6. ScanBehind'
    <3>1. ASSUME NEW s \in fdread' \ asked' PROVE \E k \in 2..Len(slots') : slots'[k] = s
      <4>1. PICK k \in 1..Len(slots) : slots[k] = s
        BY <1>1 DEF IInv, ScanBehind, NextSlot
      <4>2. k # 1
        BY <4>1, <1>1, <2>2 DEF Listening
      <4> QED
        BY <4>1, <4>2, <1>3, <1>4, <1>9
    <3>2. ASSUME NEW k \in 2..Len(slots') PROVE slots'[k] \notin asked'
      <4>1. CASE k \in 1..Len(slots)
        <5>1. slots[k] \notin asked
          BY <4>1, <1>1 DEF IInv, ScanBehind, NextSlot
        <5>2. slots[k] # Listener
          BY <4>1 DEF IInv, OneSlotEach
        <5> QED
          BY <4>1, <5>1, <5>2, <1>1, <1>4, <1>9
      <4>2. CASE k = Len(slots) + 1
        BY <4>2, <1>1, <1>4, <1>5, <1>9
      <4> QED
        BY <4>1, <4>2, <1>3, <1>4, <1>9
    <3> QED
      BY <3>1, <3>2, <1>1, <1>9 DEF ScanBehind, NextSlot
  <2>7. StillReady'
    <3>1. ASSUME NEW d \in Clients, Returns(d) PROVE Returns(d)'
      BY <3>1, <1>1, WhenRecvReturns
    <3>2. fdread \subseteq Clients \cup {Listener}
      BY DEF IInv, TypeOK, Sockets
    <3> QED
      BY <3>1, <3>2, <2>2, <1>1 DEF IInv, StillReady
  <2> QED
    BY <1>6, <1>7, <2>3, <2>4, <2>5, <2>6, <2>7 DEF IInv
<1> QED
  BY <1>1, <1>8, <1>9

\* A socket is closed and slot i removed. They belong together unless i is 1, and
\* then the server listens no longer.
LEMMA RecvEndStep ==
  ASSUME IInv, RecvEnd, UNCHANGED winsockVars
  PROVE  IInv'
<1> DEFINE n == Len(slots)
<1>1. /\ pc = "recv" /\ pc' = "scan" /\ cur' = Listener
      /\ shut' = shut \cup {cur} /\ slots' = Removed(slots)
      /\ UNCHANGED <<conn, path, answer, backlog, fdread, i, asked>>
  BY DEF RecvEnd, BodyEnds, clientVars
<1>2. cur \in Clients /\ cur \in Range(slots) /\ i \in 1..n /\ n \in Nat /\ i \in Nat
  BY <1>1, CurIsClient, SlotFacts
<1>3. /\ slots' \in Seq(Sockets) /\ Len(slots') = n - 1
      /\ \A p \in 1..(n - 1) : slots'[p] = IF p = i THEN slots[n] ELSE slots[p]
  <2>1. slots \in Seq(Sockets)
    BY SlotFacts
  <2> QED
    BY <1>1, <1>2, <2>1, RemovedSlots
<1>4. \A x : x \in Range(slots') <=> \E p \in 1..(n - 1) : slots'[p] = x
  <2>1. \A x : x \in Range(slots') <=> \E p \in 1..Len(slots') : slots'[p] = x
    BY <1>3, ElementsOf
  <2> QED
    BY <1>3, <2>1
<1>5. \A j, k \in 1..n : slots[j] = slots[k] => j = k
  BY DEF IInv, OneSlotEach
<1>6. \A k \in 1..n : slots[k] \in Range(slots)
  BY SlotFacts
<1>7. Range(slots') = Range(slots) \ {slots[i]}
  <2>1. ASSUME NEW p \in 1..(n - 1) PROVE slots'[p] \in Range(slots) /\ slots'[p] # slots[i]
    <3>1. p \in 1..n /\ n \in 1..n /\ p # n
      BY <1>2
    <3>2. CASE p = i
      BY <3>1, <3>2, <1>3, <1>5, <1>6
    <3>3. CASE p # i
      BY <3>1, <3>3, <1>2, <1>3, <1>5, <1>6
    <3> QED
      BY <3>2, <3>3
  <2>2. ASSUME NEW x \in Range(slots), x # slots[i] PROVE x \in Range(slots')
    <3>1. PICK k \in 1..n : slots[k] = x
      BY SlotFacts
    <3>2. CASE k = n
      <4>1. i \in 1..(n - 1) /\ slots'[i] = x
        BY <3>1, <3>2, <2>2, <1>2, <1>3
      <4> QED
        BY <4>1, <1>4
    <3>3. CASE k # n
      <4>1. k \in 1..(n - 1) /\ slots'[k] = x
        BY <3>1, <3>3, <2>2, <1>2, <1>3
      <4> QED
        BY <4>1, <1>4
    <3> QED
      BY <3>2, <3>3
  <2> QED
    BY <2>1, <2>2, <1>4
<1>8. TypeOK'
  BY <1>1, <1>2, <1>3 DEF IInv, TypeOK, winsockVars, Sockets
<1>9. OneSlotEach'
  <2>1. ASSUME NEW j \in 1..(n - 1), NEW k \in 1..(n - 1), slots'[j] = slots'[k] PROVE j = k
    <3>1. j \in 1..n /\ k \in 1..n /\ n \in 1..n /\ j # n /\ k # n
      BY <1>2
    <3> QED
      BY <2>1, <3>1, <1>3, <1>5
  <2>2. ASSUME NEW k \in 1..(n - 1), slots'[k] = Listener PROVE k = 1
    <3>1. \A m \in Nat : \A p \in 1..(m - 1) : p \in 1..m /\ m \in 1..m /\ m # 1
      OBVIOUS
    <3>2. k \in 1..n /\ n \in 1..n /\ n # 1
      BY <3>1, <1>2
    <3> QED
      BY <2>2, <3>2, <1>3 DEF IInv, OneSlotEach
  <2> QED
    BY <2>1, <2>2, <1>3 DEF OneSlotEach
<1>10. BacklogIsNew'
  <2>1. Known' \subseteq Known
    BY <1>1, <1>2, <1>7 DEF Known
  <2> QED
    BY <1>1, <2>1 DEF IInv, BacklogIsNew
<1>11. Listening' => i > 1 /\ Listening /\ cur = slots[i]
  <2> SUFFICES ASSUME Listening' PROVE i > 1 /\ Listening /\ cur = slots[i]
    OBVIOUS
  <2>1. slots'[1] = Listener /\ 1 \in 1..(n - 1) /\ Listener \notin shut
    <3>1. slots' # <<>> /\ slots'[1] = Listener /\ Listener \notin shut
      BY <1>1 DEF Listening
    <3>2. Len(slots') # 0
      BY <3>1, <1>3
    <3> QED
      BY <3>1, <3>2, <1>2, <1>3
  <2>2. i # 1
    <3> SUFFICES ASSUME i = 1 PROVE FALSE
      OBVIOUS
    <3>1. slots[n] = Listener /\ n \in 1..n /\ n # 1
      BY <2>1, <1>2, <1>3
    <3> QED
      BY <3>1 DEF IInv, OneSlotEach
  <2>3. slots[1] = Listener /\ slots # <<>>
    <3>1. slots[1] = Listener
      BY <2>1, <2>2, <1>3
    <3>2. Len(slots) # 0
      BY <1>2
    <3> QED
      BY <3>1, <3>2
  <2> QED
    BY <2>1, <2>2, <2>3, <1>1, <1>2 DEF IInv, CurHasSlot, Listening
<1>12. SlotsAreOpen'
  <2> SUFFICES ASSUME Listening' PROVE Range(slots') = {Listener} \cup (Accepted' \ shut')
    BY DEF SlotsAreOpen
  <2>1. Range(slots) = {Listener} \cup (Accepted \ shut)
    BY <1>1, <1>11 DEF IInv, SlotsAreOpen
  <2>2. Accepted' = Accepted
    BY <1>1 DEF Accepted
  <2> QED
    BY <2>1, <2>2, <1>1, <1>2, <1>7, <1>11, ServerAssumption
<1>13. ScanBehind'
  <2>1. ASSUME NEW s \in fdread' \ asked' PROVE \E k \in i..(n - 1) : slots'[k] = s
    <3>1. PICK k \in (i + 1)..n : slots[k] = s
      BY <1>1 DEF IInv, ScanBehind, NextSlot
    <3>2. CASE k = n
      <4>1. i \in i..(n - 1) /\ i \in 1..(n - 1)
        BY <3>1, <3>2, <1>2
      <4> QED
        BY <3>1, <3>2, <4>1, <1>3
    <3>3. CASE k # n
      <4>1. k \in i..(n - 1) /\ k \in 1..(n - 1) /\ k # i
        BY <3>1, <3>3, <1>2
      <4> QED
        BY <3>1, <4>1, <1>3
    <3> QED
      BY <3>2, <3>3
  <2>2. ASSUME NEW k \in i..(n - 1) PROVE slots'[k] \notin asked'
    <3>1. \A p \in (i + 1)..n : slots[p] \notin asked
      BY <1>1 DEF IInv, ScanBehind, NextSlot
    <3>2. k \in 1..(n - 1) /\ n \in (i + 1)..n /\ (k # i => k \in (i + 1)..n)
      BY <1>2
    <3> QED
      BY <3>1, <3>2, <1>1, <1>3
  <2> QED
    BY <2>1, <2>2, <1>1, <1>3 DEF ScanBehind, NextSlot
<1>14. CurHasSlot' /\ StillReady'
  <2>1. CurHasSlot'
    BY <1>1 DEF CurHasSlot
  <2>2. ASSUME NEW d \in Clients, Returns(d) PROVE Returns(d)'
    BY <2>2, <1>1, WhenRecvReturns
  <2>3. fdread \subseteq Clients \cup {Listener}
    BY DEF IInv, TypeOK, Sockets
  <2> QED
    BY <2>1, <2>2, <2>3, <1>1, <1>11 DEF IInv, StillReady
<1> QED
  BY <1>8, <1>9, <1>10, <1>12, <1>13, <1>14 DEF IInv

\* TransmitFile waits for a client that reads no more.
LEMMA StallStep ==
  ASSUME IInv, Stall, UNCHANGED winsockVars
  PROVE  IInv'
<1>1. /\ pc = "send" /\ pc' = "stalled"
      /\ UNCHANGED <<conn, path, answer, backlog, slots, shut, fdread, i, cur, asked>>
  BY DEF Stall, clientVars
<1>2. TypeOK'
  BY <1>1 DEF IInv, TypeOK, winsockVars
<1>3. OneSlotEach' /\ BacklogIsNew' /\ SlotsAreOpen' /\ Listening' = Listening
  <2>1. Known' = Known
    BY <1>1 DEF Known
  <2> QED
    BY <1>1, <2>1, SocketsStay DEF IInv, TypeOK
<1>4. CurHasSlot' /\ ScanBehind'
  BY <1>1 DEF IInv, CurHasSlot, ScanBehind, NextSlot
<1>5. StillReady'
  <2>1. ASSUME NEW d \in Clients, Returns(d) PROVE Returns(d)'
    BY <2>1, <1>1, WhenRecvReturns
  <2>2. fdread \subseteq Clients \cup {Listener}
    BY DEF IInv, TypeOK, Sockets
  <2> QED
    BY <2>1, <2>2, <1>1, <1>3 DEF IInv, StillReady
<1> QED
  BY <1>2, <1>3, <1>4, <1>5 DEF IInv

\* An answered client keeps its slot; its connection may have ended.
LEMMA SendFileStep ==
  ASSUME IInv, SendFile \/ StallEnds, UNCHANGED winsockVars
  PROVE  IInv'
<1>1. /\ pc \in {"send", "stalled"} /\ pc' = "scan" /\ i' = i + 1 /\ cur' = Listener
      /\ conn' = [conn EXCEPT ![cur] = "served"] \/ conn' = conn
      /\ UNCHANGED <<path, backlog, slots, shut, fdread, asked>>
  BY DEF SendFile, StallEnds, Sent, BodyEnds, clientVars
<1>2. /\ cur \in Clients /\ conn[cur] # "idle" /\ cur \notin Range(backlog)
      /\ i \in Nat /\ Listener \in Sockets
  BY <1>1, CurIsClient DEF IInv, TypeOK, Sockets
<1>3. \A d \in Clients : conn'[d] = conn[d] \/ (d = cur /\ conn'[d] = "served")
  BY <1>1, <1>2 DEF IInv, TypeOK
<1>4. \A d \in Clients : conn'[d] = "idle" <=> conn[d] = "idle"
  BY <1>2, <1>3
<1>5. Accepted' = Accepted /\ Listening' = Listening /\ Known' = Known
  BY <1>1, <1>4 DEF Accepted, Listening, Known
<1>6. TypeOK'
  BY <1>1, <1>2 DEF IInv, TypeOK, winsockVars
<1>7. OneSlotEach' /\ BacklogIsNew' /\ SlotsAreOpen'
  <2>1. OneSlotEach'
    BY <1>1 DEF IInv, OneSlotEach
  <2>2. BacklogIsNew'
    BY <1>1, <1>4, <1>5, BacklogFacts DEF IInv, BacklogIsNew
  <2>3. SlotsAreOpen'
    BY <1>1, <1>5 DEF IInv, SlotsAreOpen
  <2> QED
    BY <2>1, <2>2, <2>3
<1>8. CurHasSlot' /\ ScanBehind'
  BY <1>1 DEF IInv, CurHasSlot, ScanBehind, NextSlot
<1>9. StillReady'
  <2>1. ASSUME NEW d \in Clients, Returns(d) PROVE Returns(d)'
    BY <2>1, <1>1, <1>3, WhenRecvReturns
  <2>2. fdread \subseteq Clients \cup {Listener}
    BY DEF IInv, TypeOK, Sockets
  <2> QED
    BY <2>1, <2>2, <1>1, <1>5 DEF IInv, StillReady
<1> QED
  BY <1>6, <1>7, <1>8, <1>9 DEF IInv

-----------------------------------------------------------------------------
(* The invariant. *)

LEMMA NextIInv == IInv /\ [Next]_vars => IInv'
<1> SUFFICES ASSUME IInv, [Next]_vars PROVE IInv'
  OBVIOUS
<1>1. CASE Server
  <2>1. UNCHANGED winsockVars
    BY <1>1 DEF Server
  <2>2. CASE Select
    BY <2>1, <2>2, SelectStep
  <2>3. CASE Skip
    BY <2>1, <2>3, SkipStep
  <2>4. CASE EndScan
    BY <2>1, <2>4, EndScanStep
  <2>5. CASE Accept
    BY <2>1, <2>5, AcceptFailsStep, AcceptedStep
  <2>11. CASE Refuse
    BY <2>1, <2>11, AcceptFailsStep
  <2>12. CASE Stall
    BY <2>1, <2>12, StallStep
  <2>6. CASE Pick
    BY <2>1, <2>6, PickStep
  <2>7. CASE RecvPath
    BY <2>1, <2>7, RecvPathStep
  <2>8. CASE RecvEnd
    BY <2>1, <2>8, RecvEndStep
  <2>9. CASE RecvFails
    BY <2>1, <2>9, RecvFailsStep
  <2>10. CASE SendFile \/ StallEnds
    BY <2>1, <2>10, SendFileStep
  <2> QED
    BY <1>1, <2>2, <2>3, <2>4, <2>5, <2>6, <2>7, <2>8, <2>9, <2>10, <2>11, <2>12 DEF Server
<1>2. CASE ConnectFails
  BY <1>2, ConnectFailsStep
<1>3. ASSUME NEW c \in Clients, Connect(c) \/ SendPath(c) \/ GiveUp(c) \/ Leave(c)
      PROVE  IInv'
  BY <1>3, ConnectStep, SendPathStep, LeaveStep
<1>4. CASE UNCHANGED vars
  <2>1. UNCHANGED <<conn, path, backlog, shut, cleanups>> /\ UNCHANGED <<slots, fdread, i, cur, pc, asked>>
    BY <1>4 DEF vars
  <2>2. TypeOK'
    BY <2>1 DEF IInv, TypeOK
  <2>3. BacklogIsNew' /\ SlotsAreOpen' /\ Listening' = Listening
    BY <2>1 DEF IInv, BacklogIsNew, SlotsAreOpen, Listening, Accepted, Known
  <2>4. StillReady'
    <3>1. ASSUME NEW d \in Clients, Returns(d) PROVE Returns(d)'
      BY <3>1, <2>1, WhenRecvReturns
    <3>2. fdread \subseteq Clients \cup {Listener} /\ (pc = "recv" => cur \in Clients)
      BY CurIsClient DEF IInv, TypeOK, Sockets
    <3> QED
      BY <3>1, <3>2, <2>1, <2>3 DEF IInv, StillReady
  <2> QED
    BY <2>1, <2>2, <2>3, <2>4, ThreadStays DEF IInv
<1> QED
  BY <1>1, <1>2, <1>3, <1>4 DEF Next

\* The invariant that is inductive holds in every reachable state.
THEOREM Inductive == Spec => []IInv
<1>1. Init => IInv
  BY InitIInv
<1>2. IInv /\ [Next]_vars => IInv'
  BY NextIInv
<1> QED
  BY <1>1, <1>2, PTL DEF Spec

\* As long as PeerServer listens, g_SocketArr holds the listening socket and the
\* accepted sockets that are not closed, each once, for any number of clients and any
\* FD_SETSIZE.
THEOREM SlotsAlwaysAreSockets == Spec => []SlotsAreSockets
<1>1. IInv => SlotsAreSockets
  <2> SUFFICES ASSUME IInv, Listening, pc # "crashed"
               PROVE  IsInjective(slots) /\ Range(slots) = {Listener} \cup (Accepted \ shut)
    BY DEF SlotsAreSockets
  <2>1. DOMAIN slots = 1..Len(slots)
    BY SlotFacts
  <2>2. IsInjective(slots)
    BY <2>1 DEF IInv, OneSlotEach, IsInjective
  <2> QED
    BY <2>2 DEF IInv, SlotsAreOpen
<1> QED
  BY <1>1, Inductive, PTL

\* As long as PeerServer listens, recv on the socket of a slot other than the first
\* does not block.
THEOREM PickedAlwaysReturns == Spec => []PickedReturns
<1>1. IInv => PickedReturns
  BY DEF IInv, StillReady, PickedReturns
<1> QED
  BY <1>1, Inductive, PTL

\* When a scan is at its end it has turned to every socket select has reported.
THEOREM ScansAlwaysTurnToAll == Spec => []ScanTurnsToAll
<1>1. IInv => ScanTurnsToAll
  <2> SUFFICES ASSUME IInv, pc = "scan", i > Len(slots), NEW s \in fdread, s \notin asked
               PROVE  FALSE
    BY DEF ScanTurnsToAll
  <2>1. \E k \in i..Len(slots) : slots[k] = s
    BY DEF IInv, ScanBehind, NextSlot
  <2> QED
    BY <2>1, SlotFacts DEF IInv, TypeOK
<1> QED
  BY <1>1, Inductive, PTL

-----------------------------------------------------------------------------
(* Outages. *)

\* What takes the server off its port.
Blamed == NoSockets \/ \E c \in shut \cap Clients : LeftEarly(c)

\* What a step of the thread does to the connections and requests.
LEMMA ServerChanges ==
  ASSUME IInv, Server
  PROVE  /\ UNCHANGED <<started, cleanups>>
         /\ shut \subseteq shut'
         /\ backlog' = backlog \/ (backlog # <<>> /\ backlog' = Tail(backlog))
         /\ \/ path' = path
            \/ path' = [path EXCEPT ![cur] = "read"] /\ pc = "recv" /\ pc' = "send" /\ HasPath(cur)
               /\ cur \in Clients /\ UNCHANGED <<conn, backlog, cur, slots, i>>
         /\ \/ conn' = conn
            \/ conn' = [conn EXCEPT ![cur] = "served"] /\ pc = "send" /\ pc' = "scan" /\ cur \in Clients
               /\ UNCHANGED <<path, backlog, slots>>
<1>1. UNCHANGED <<started, cleanups>>
  BY DEF Server, winsockVars
<1>2. pc \in {"recv", "send"} => cur \in Clients
  BY CurIsClient
<1>3. CASE Select \/ Skip \/ EndScan \/ Refuse \/ Pick \/ RecvEnd \/ RecvFails \/ Stall \/ StallEnds
  BY <1>1, <1>3 DEF Select, Skip, EndScan, Refuse, Pick, RecvEnd, RecvFails, Stall, StallEnds, StaleRequest, clientVars
<1>4. CASE Accept
  BY <1>1, <1>4 DEF Accept, StaleRequest, clientVars
<1>5. CASE RecvPath
  BY <1>1, <1>2, <1>5 DEF RecvPath
<1>6. CASE SendFile
  BY <1>1, <1>2, <1>6 DEF SendFile, Sent
<1> QED
  BY <1>3, <1>4, <1>5, <1>6 DEF Server

\* A client that left before its request was read stays one that did.
LEMMA EarlyStays ==
  ASSUME IInv, RequestsInOrder, [Next]_vars, NEW c \in Clients, LeftEarly(c)
  PROVE  LeftEarly(c)'
<1>1. conn[c] \in Gone /\ path[c] # "read" /\ (conn[c] = "closed" => path[c] = "unsent")
  BY DEF LeftEarly, Gone
<1>2. SUFFICES conn'[c] = conn[c] /\ path'[c] = path[c]
  BY <1>1 DEF LeftEarly
<1>3. conn \in [Clients -> {"idle", "cut", "served"} \cup Here \cup Gone]
      /\ path \in [Clients -> {"unsent", "sent", "read"}]
  BY DEF IInv, TypeOK
<1>4. CASE Server
  <2>1. pc = "send" => path[cur] = "read"
    BY DEF RequestsInOrder
  <2>2. ASSUME HasPath(c) PROVE FALSE
    BY <2>2, <1>1 DEF HasPath, Here, Gone
  <2> QED
    BY <1>1, <1>3, <1>4, <2>1, <2>2, ServerChanges
<1>5. CASE ConnectFails
  <2>1. path' = path /\ (conn' = conn \/ conn' = [d \in Clients |-> IF conn[d] \in Here THEN "cut" ELSE conn[d]])
    BY <1>5 DEF ConnectFails
  <2> QED
    BY <1>1, <2>1 DEF Gone, Here
<1>6. ASSUME NEW d \in Clients, Connect(d) \/ SendPath(d) \/ GiveUp(d) \/ Leave(d)
      PROVE  conn'[c] = conn[c] /\ path'[c] = path[c]
  <2>1. conn[d] \in {"idle", "open", "deaf"}
    BY <1>6 DEF Connect, SendPath, GiveUp, Leave, Here
  <2>2. c # d
    BY <1>1, <2>1 DEF Gone
  <2> QED
    BY <1>3, <1>6, <2>2 DEF Connect, SendPath, GiveUp, Leave
<1>7. CASE UNCHANGED vars
  BY <1>7 DEF vars
<1> QED
  BY <1>4, <1>5, <1>6, <1>7 DEF Next

\* What has taken the server off its port is not undone.
LEMMA BlameStays ==
  ASSUME IInv, RequestsInOrder, [Next]_vars
  PROVE  /\ Blamed => Blamed'
         /\ NoSockets => NoSockets'
         /\ (\E c \in Clients : LeftEarly(c)) => \E c \in Clients : LeftEarly(c)'
<1>1. started' = started /\ (cleanups = Startups => cleanups' = Startups) /\ shut \subseteq shut'
  <2>1. CASE Server
    BY <2>1, ServerChanges
  <2>2. CASE ConnectFails
    <3>1. cleanups < Startups /\ started' = started /\ shut \subseteq shut'
      BY <2>2 DEF ConnectFails
    <3> QED
      BY <3>1 DEF Startups
  <2>3. ASSUME NEW d \in Clients, Connect(d) \/ SendPath(d) \/ GiveUp(d) \/ Leave(d)
        PROVE  started' = started /\ cleanups' = cleanups /\ shut' = shut
    BY <2>3 DEF Connect, SendPath, GiveUp, Leave, winsockVars
  <2>4. CASE UNCHANGED vars
    BY <2>4 DEF vars, winsockVars
  <2> QED
    BY <2>1, <2>2, <2>3, <2>4 DEF Next
<1>2. NoSockets => NoSockets'
  BY <1>1 DEF NoSockets, Startups
<1> QED
  BY <1>1, <1>2, EarlyStays DEF Blamed

\* The requests stay in order at a step of the thread.
LEMMA ThreadKeepsRequests ==
  ASSUME IInv, RequestsInOrder, Server
  PROVE  RequestsInOrder'
<1>0. /\ path \in [Clients -> {"unsent", "sent", "read"}]
      /\ conn \in [Clients -> {"idle", "cut", "served"} \cup Here \cup Gone]
  BY DEF IInv, TypeOK
<1>1. Range(backlog') \subseteq Range(backlog)
  BY ServerChanges, Taken
<1>2. \A c \in Clients : path'[c] = "read" => conn'[c] # "idle" /\ c \notin Range(backlog')
  <2> SUFFICES ASSUME NEW c \in Clients, path'[c] = "read"
               PROVE  conn'[c] # "idle" /\ c \notin Range(backlog')
    OBVIOUS
  <2>1. conn[c] # "idle" /\ c \notin Range(backlog)
    <3>1. CASE path[c] = "read"
      BY <3>1 DEF RequestsInOrder
    <3>2. CASE path[c] # "read"
      <4>1. c = cur /\ pc = "recv"
        BY <3>2, <1>0, ServerChanges
      <4> QED
        BY <4>1, CurIsClient
    <3> QED
      BY <3>1, <3>2
  <2>2. conn'[c] = conn[c] \/ conn'[c] = "served"
    BY <1>0, ServerChanges
  <2> QED
    BY <1>1, <2>1, <2>2
<1>3. \A c \in Clients : conn'[c] = "served" => path'[c] = "read"
  <2> SUFFICES ASSUME NEW c \in Clients, conn'[c] = "served" PROVE path'[c] = "read"
    OBVIOUS
  <2>1. path[c] = "read"
    <3>1. conn[c] = "served" \/ (c = cur /\ pc = "send")
      BY <1>0, ServerChanges
    <3> QED
      BY <3>1 DEF RequestsInOrder
  <2> QED
    BY <1>0, <2>1, ServerChanges
<1>4. pc' = "send" => path'[cur'] = "read"
  <2>1. pc' = "send" => RecvPath
    BY DEF Server, Select, Skip, EndScan, Accept, Refuse, StaleRequest, Pick, RecvEnd, RecvFails,
           SendFile, Sent, Stall, StallEnds
  <2>2. RecvPath => cur' = cur /\ path' = [path EXCEPT ![cur] = "read"] /\ cur \in Clients
    BY CurIsClient DEF RecvPath
  <2> QED
    BY <1>0, <2>1, <2>2
<1>5. pc' = "recv" /\ i' = 1 => path'[cur'] # "read"
  <2> SUFFICES ASSUME pc' = "recv", i' = 1 PROVE path'[cur'] # "read"
    OBVIOUS
  <2>1. Accept
    BY DEF Server, Select, Skip, EndScan, Accept, Refuse, StaleRequest, Pick, RecvPath, RecvEnd,
           RecvFails, SendFile, Sent, Stall, StallEnds
  <2>2. backlog # <<>> /\ cur' = Head(backlog) /\ path' = path
    BY <2>1 DEF Accept, StaleRequest, clientVars
  <2>3. cur' \in Range(backlog) /\ cur' \in Clients
    BY <2>2, Taken
  <2> QED
    BY <2>2, <2>3 DEF RequestsInOrder
<1>6. Len(slots') <= FdSetSize
  <2>1. CASE Accept
    <3>1. slots' = slots \/ (Len(slots) < FdSetSize /\ slots' = Append(slots, Head(backlog)) /\ backlog # <<>>)
      BY <2>1 DEF Accept, StaleRequest
    <3>2. slots \in Seq(Sockets) /\ Len(slots) \in Nat
      BY SlotFacts
    <3>3. backlog # <<>> => Head(backlog) \in Sockets
      BY Taken DEF Sockets
    <3> QED
      BY <3>1, <3>2, <3>3, AppendSlot, ServerAssumption DEF RequestsInOrder
  <2>2. CASE RecvEnd
    <3>1. slots' = Removed(slots) /\ slots \in Seq(Sockets) /\ Len(slots) \in Nat /\ i \in 1..Len(slots)
      BY <2>2, CurIsClient, SlotFacts DEF RecvEnd
    <3>2. Len(slots') = Len(slots) - 1
      BY <3>1, RemovedSlots
    <3> QED
      BY <3>1, <3>2, ServerAssumption DEF RequestsInOrder
  <2>3. CASE \/ Select \/ Skip \/ EndScan \/ Refuse \/ Pick
             \/ RecvPath \/ RecvFails \/ SendFile \/ Stall \/ StallEnds
    BY <2>3 DEF Select, Skip, EndScan, Refuse, Pick, RecvPath, RecvFails, StaleRequest, SendFile,
                Stall, StallEnds, RequestsInOrder
  <2> QED
    BY <2>1, <2>2, <2>3 DEF Server
<1> QED
  BY <1>2, <1>3, <1>4, <1>5, <1>6 DEF RequestsInOrder

\* And at the steps of the clients and of PeerClient.
LEMMA RequestsStep ==
  ASSUME IInv, RequestsInOrder, [Next]_vars
  PROVE  RequestsInOrder'
<1>0. /\ path \in [Clients -> {"unsent", "sent", "read"}]
      /\ conn \in [Clients -> {"idle", "cut", "served"} \cup Here \cup Gone]
      /\ pc \in {"recv", "send"} => cur \in Clients
  BY CurIsClient DEF IInv, TypeOK
<1>1. CASE Server
  BY <1>1, ThreadKeepsRequests
<1>2. CASE ConnectFails
  <2>1. UNCHANGED <<path, slots, i, cur, pc>>
    BY <1>2 DEF ConnectFails
  <2>2. \A c \in Clients : conn'[c] = conn[c] \/ (conn[c] \in Here /\ conn'[c] = "cut")
    BY <1>2 DEF ConnectFails
  <2>3. Range(backlog') \subseteq Range(backlog)
    <3>1. backlog' = backlog \/ backlog' = <<>>
      BY <1>2 DEF ConnectFails
    <3>2. Range(<<>>) = {}
      BY DEF Range
    <3> QED
      BY <3>1, <3>2
  <2> QED
    BY <2>1, <2>2, <2>3 DEF RequestsInOrder, Here
<1>3. ASSUME NEW c \in Clients, Connect(c) PROVE RequestsInOrder'
  <2>1. /\ conn[c] = "idle" /\ conn' = [conn EXCEPT ![c] = "open"] /\ backlog' = Append(backlog, c)
        /\ UNCHANGED <<path, slots, i, cur, pc>>
    BY <1>3 DEF Connect
  <2>2. Range(backlog') = Range(backlog) \cup {c}
    BY <2>1, BacklogFacts, AppendSlot
  <2>3. path[c] # "read"
    BY <2>1 DEF RequestsInOrder
  <2> QED
    BY <1>0, <2>1, <2>2, <2>3 DEF RequestsInOrder
<1>4. ASSUME NEW c \in Clients, SendPath(c) \/ GiveUp(c) \/ Leave(c) PROVE RequestsInOrder'
  <2>1. /\ UNCHANGED <<backlog, slots, i, cur, pc>>
        /\ conn[c] \in Here
        /\ \/ path' = path /\ \E how \in Gone \cup {"deaf"} : conn' = [conn EXCEPT ![c] = how]
           \/ path[c] = "unsent" /\ path' = [path EXCEPT ![c] = "sent"] /\ conn' = conn
    BY <1>4 DEF SendPath, GiveUp, Leave, Here
  <2>2. \A d \in Clients : path'[d] = "read" <=> path[d] = "read"
    BY <1>0, <2>1
  <2>3. \A d \in Clients : (conn'[d] = "idle" <=> conn[d] = "idle") /\ (conn'[d] = "served" <=> conn[d] = "served")
    BY <1>0, <2>1 DEF Gone, Here
  <2> QED
    BY <1>0, <2>1, <2>2, <2>3 DEF RequestsInOrder
<1>5. CASE UNCHANGED vars
  BY <1>5 DEF vars, RequestsInOrder
<1> QED
  BY <1>1, <1>2, <1>3, <1>4, <1>5 DEF Next

\* The server stops listening over the second failed connect, or over a client that
\* is gone at the moment it is accepted.
LEMMA StopsListening ==
  ASSUME IInv, RequestsInOrder, [Next]_vars, Listening, ~Listening'
  PROVE  Blamed'
<1>1. slots # <<>> /\ slots[1] = Listener /\ Listener \notin shut
  BY DEF Listening
<1>2. CASE ConnectFails
  <2>1. slots' = slots /\ cleanups' = cleanups + 1 /\ (cleanups' < Startups => shut' = shut) /\ cleanups < Startups
    BY <1>2 DEF ConnectFails
  <2>2. ~(cleanups' < Startups)
    BY <2>1, <1>1 DEF Listening
  <2>3. cleanups' = Startups
    BY <2>1, <2>2 DEF IInv, TypeOK, Startups
  <2> QED
    BY <2>3 DEF Blamed, NoSockets, Startups
<1>3. CASE RecvEnd /\ UNCHANGED winsockVars
  <2>1. /\ pc = "recv" /\ AtEnd(cur) /\ slots' = Removed(slots) /\ shut' = shut \cup {cur}
        /\ UNCHANGED <<conn, path, i>>
    BY <1>3 DEF RecvEnd, clientVars
  <2>2. cur \in Clients /\ i \in 1..Len(slots) /\ slots \in Seq(Sockets) /\ Len(slots) \in Nat
    BY <2>1, CurIsClient, SlotFacts
  <2>3. CASE i = 1
    <3>1. (path[cur] # "read" /\ path[cur] # "sent") \/ (conn[cur] = "broken" /\ path[cur] # "read")
      BY <2>1, <2>3 DEF RequestsInOrder, AtEnd, HasPath, Gone
    <3>2. conn[cur] \in {"closed", "broken"} /\ path[cur] \in {"unsent", "sent", "read"}
      BY <2>1, <2>2 DEF AtEnd, Gone, IInv, TypeOK
    <3>3. LeftEarly(cur)
      BY <3>1, <3>2 DEF LeftEarly
    <3>4. PICK c \in Clients : c = cur
      BY <2>2
    <3>5. LeftEarly(c)' /\ c \in shut'
      BY <3>3, <3>4, <2>1 DEF LeftEarly
    <3> QED
      BY <3>5 DEF Blamed
  <2>4. CASE i # 1
    <3>0. \A n \in Nat : \A k \in 1..n : k # 1 => 1 \in 1..(n - 1) /\ n - 1 # 0
      OBVIOUS
    <3>1. 1 \in 1..(Len(slots) - 1) /\ Len(slots) - 1 # 0
      BY <2>2, <2>4, <3>0
    <3>2. slots'[1] = slots[1] /\ slots' # <<>>
      <4>1. Len(slots') = Len(slots) - 1 /\ slots'[1] = slots[1]
        BY <2>1, <2>2, <2>4, <3>1, RemovedSlots
      <4> QED
        BY <3>1, <4>1
    <3>3. Listening'
      BY <1>1, <2>1, <2>2, <3>2, ServerAssumption DEF Listening
    <3> QED
      BY <3>3
  <2> QED
    BY <2>3, <2>4
<1>4. CASE Accept /\ UNCHANGED winsockVars
  <2>1. /\ shut' = shut
        /\ slots' = slots \/ (slots' = Append(slots, Head(backlog)) /\ backlog # <<>>)
    BY <1>4 DEF Accept, StaleRequest
  <2>2. slots' = Append(slots, Head(backlog)) /\ backlog # <<>> => slots' # <<>> /\ slots'[1] = slots[1]
    <3> SUFFICES ASSUME slots' = Append(slots, Head(backlog)), backlog # <<>>
                 PROVE  slots' # <<>> /\ slots'[1] = slots[1]
      OBVIOUS
    <3>1. slots \in Seq(Sockets) /\ Head(backlog) \in Sockets /\ Len(slots) \in Nat /\ Len(slots) # 0
      BY <1>1, SlotFacts, Taken DEF Sockets
    <3>2. Len(slots') = Len(slots) + 1 /\ \A p \in 1..Len(slots) : slots'[p] = slots[p]
      BY <3>1, AppendSlot
    <3> QED
      BY <3>1, <3>2
  <2> QED
    BY <1>1, <2>1, <2>2 DEF Listening
<1>5. CASE \/ Select \/ Skip \/ EndScan \/ Refuse \/ Pick
           \/ RecvPath \/ RecvFails \/ SendFile \/ Stall \/ StallEnds
  BY <1>5 DEF Select, Skip, EndScan, Refuse, Pick, RecvPath, RecvFails, StaleRequest, SendFile,
              Stall, StallEnds, Listening
<1>6. ASSUME NEW c \in Clients, Connect(c) \/ SendPath(c) \/ GiveUp(c) \/ Leave(c) PROVE Blamed'
  BY <1>6 DEF Connect, SendPath, GiveUp, Leave, Listening
<1>7. CASE UNCHANGED vars
  BY <1>7 DEF vars, Listening
<1> QED
  BY <1>2, <1>3, <1>4, <1>5, <1>6, <1>7 DEF Next, Server

\* The thread crashes over a full array, over a failed accept, or over a request it never got.
LEMMA ThreadCrashes ==
  ASSUME IInv, RequestsInOrder, OutagesHaveCause, [Next]_vars, pc # "crashed", pc' = "crashed"
  PROVE  NoSockets \/ Len(slots') = FdSetSize \/ cur' = Invalid \/ \E c \in Clients : LeftEarly(c)
<1>0. ~Listening => NoSockets \/ \E c \in Clients : LeftEarly(c)
  BY DEF OutagesHaveCause
<1>1. Accept \/ Refuse \/ RecvFails
  <2>1. CASE Server
    BY <2>1 DEF Server, Select, Skip, EndScan, Pick, RecvPath, RecvEnd, SendFile, Sent, Stall, StallEnds
  <2>2. CASE ConnectFails
    BY <2>2 DEF ConnectFails
  <2>3. ASSUME NEW c \in Clients, Connect(c) \/ SendPath(c) \/ GiveUp(c) \/ Leave(c) PROVE FALSE
    BY <2>3 DEF Connect, SendPath, GiveUp, Leave
  <2>4. CASE UNCHANGED vars
    BY <2>4 DEF vars
  <2> QED
    BY <2>1, <2>2, <2>3, <2>4 DEF Next
<1>2. CASE Accept
  <2>1. CASE Listening
    <3>1. slots' = slots /\ ~(Len(slots) < FdSetSize)
      BY <1>2, <2>1 DEF Accept
    <3>2. Len(slots) \in Nat /\ Len(slots) <= FdSetSize
      BY SlotFacts DEF RequestsInOrder
    <3> QED
      BY <3>1, <3>2, ServerAssumption
  <2>2. CASE ~Listening
    BY <1>0, <2>2
  <2> QED
    BY <2>1, <2>2
<1>3. CASE RecvFails
  <2>1. pc = "recv" /\ Fails(cur) /\ \A c \in Clients : path[c] # "read"
    BY <1>3 DEF RecvFails, StaleRequest
  <2>2. cur \in Clients /\ cur \in Range(slots)
    BY <2>1, CurIsClient
  <2>3. CASE conn[cur] = "served"
    BY <2>1, <2>2, <2>3 DEF RequestsInOrder
  <2>4. CASE conn[cur] = "broken"
    BY <2>1, <2>2, <2>4 DEF LeftEarly
  <2>5. CASE cur \in shut
    <3>1. cur # Listener
      BY <2>2, ServerAssumption
    <3>2. ~Listening
      BY <2>1, <2>2, <2>5, <3>1 DEF IInv, SlotsAreOpen
    <3> QED
      BY <1>0, <3>2
  <2> QED
    BY <2>1, <2>3, <2>4, <2>5 DEF Fails, Over, Disconnected
<1>4. CASE Refuse
  BY <1>4 DEF Refuse, StaleRequest
<1> QED
  BY <1>1, <1>2, <1>3, <1>4

\* A thread that has crashed does nothing any more.
LEMMA CrashStays ==
  ASSUME [Next]_vars, pc = "crashed"
  PROVE  UNCHANGED <<slots, cur>>
<1>1. CASE Server
  BY <1>1 DEF Server, Select, Skip, EndScan, Accept, Refuse, Pick, RecvPath, RecvEnd, RecvFails,
              SendFile, Stall, StallEnds
<1>2. CASE ConnectFails
  BY <1>2 DEF ConnectFails
<1>3. ASSUME NEW c \in Clients, Connect(c) \/ SendPath(c) \/ GiveUp(c) \/ Leave(c)
      PROVE  UNCHANGED <<slots, cur>>
  BY <1>3 DEF Connect, SendPath, GiveUp, Leave
<1>4. CASE UNCHANGED vars
  BY <1>4 DEF vars
<1> QED
  BY <1>1, <1>2, <1>3, <1>4 DEF Next

\* OutagesHaveCause: PeerServer stops listening or crashes only when the constructor
\* failed, after two failed connects of PeerClient, when a client left before its
\* request was read, or when g_SocketArr is full; it crashes besides on what a failed
\* accept returned. For any number of clients.
THEOREM OutagesAlwaysHaveCause == Spec => []OutagesHaveCause
<1>1. Init => OutageInv
  <2> SUFFICES ASSUME Init PROVE IInv /\ RequestsInOrder /\ OutagesHaveCause
    BY DEF OutageInv
  <2>1. RequestsInOrder
    <3>1. path = [c \in Clients |-> "unsent"] /\ conn = [c \in Clients |-> "idle"] /\ pc = "select"
      BY DEF Init
    <3>2. Len(slots) <= FdSetSize
      BY ServerAssumption DEF Init
    <3> QED
      BY <3>1, <3>2 DEF RequestsInOrder
  <2>2. OutagesHaveCause
    BY DEF Init, OutagesHaveCause, Listening, NoSockets
  <2> QED
    BY <2>1, <2>2, InitIInv
<1>2. OutageInv /\ [Next]_vars => OutageInv'
  <2> SUFFICES ASSUME IInv, RequestsInOrder, OutagesHaveCause, [Next]_vars
               PROVE  IInv' /\ RequestsInOrder' /\ OutagesHaveCause'
    BY DEF OutageInv
  <2>1. ~Listening' => Blamed'
    <3>1. ~Listening => Blamed
      BY DEF OutagesHaveCause, Blamed
    <3> QED
      BY <3>1, StopsListening, BlameStays
  <2>2. pc' = "crashed" => NoSockets' \/ Len(slots') = FdSetSize \/ cur' = Invalid \/ \E c \in Clients : LeftEarly(c)'
    <3>1. CASE pc = "crashed"
      BY <3>1, CrashStays, BlameStays DEF OutagesHaveCause
    <3>2. CASE pc # "crashed"
      BY <3>2, ThreadCrashes, BlameStays
    <3> QED
      BY <3>1, <3>2
  <2>3. OutagesHaveCause'
    BY <2>1, <2>2 DEF OutagesHaveCause, Blamed
  <2> QED
    BY <2>3, NextIInv, RequestsStep
<1>3. OutageInv => OutagesHaveCause
  BY DEF OutageInv
<1> QED
  BY <1>1, <1>2, <1>3, PTL DEF Spec

==============================================================================
