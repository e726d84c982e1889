--------------------------- MODULE PoolOnListProofs ---------------------------
(***************************************************************************)
(* Theorems about the pool's queue as the linked list it is kept in, for   *)
(* any finite set of workers, any jobs and any memory. They rest on IInv,  *)
(* which the composition keeps because each of its steps is one of the     *)
(* pool's; the invariant that is inductive here is ListIInv.               *)
(***************************************************************************)
EXTENDS PoolOnList, ThreadPoolProofs, WellFoundedInduction

-----------------------------------------------------------------------------
(* The inductive invariant, together with IInv of the pool. *)

\* The blocks in the list.
Listed == {order[i] : i \in 1..Len(order)}

\* The types of the variables of the list.
ListTypeOK ==
  /\ order \in Seq(Blocks)
  /\ {head, tail, newjob_p, curjob} \subseteq Blocks \cup {NULL}
  /\ next \in [Blocks -> Blocks \cup {NULL}] /\ prev \in [Blocks -> Blocks \cup {NULL}]
  /\ heap \subseteq Blocks /\ taken \subseteq Blocks
  /\ content \in [Blocks -> Jobs \cup {NoJob}]
  /\ held \in [Workers -> Blocks \cup {NULL}]
  /\ emptying \in {"no", "loop", "done", "crashed"}

\* From tail along prev the list holds order. The fields next are right only until
\* thpool_jobqueue_empty begins.
ListLinked ==
  /\ jobsN = Len(order)
  /\ \A i, k \in 1..Len(order) : order[i] = order[k] => i = k
  /\ order = <<>> => tail = NULL /\ (emptying = "no" => head = NULL)
  /\ order # <<>> =>
       /\ tail = order[1] /\ head = order[Len(order)] /\ prev[head] = NULL
       /\ emptying = "no" => next[tail] = NULL
  /\ \A i \in 1..(Len(order) - 1) :
       /\ prev[order[i]] = order[i + 1]
       /\ emptying = "no" => next[order[i + 1]] = order[i]

\* The places a block can be in exclude each other.
PlacesApart ==
  /\ heap = Listed \cup taken \cup ({newjob_p} \ {NULL})
  /\ Listed \cap taken = {}
  /\ newjob_p \notin Listed \cup taken

\* The blocks hold the jobs of the pool.
BlocksHoldJobs ==
  /\ jobqueue = [i \in 1..Len(order) |-> content[order[i]]]
  /\ taken = {held[w] : w \in Holders}
  /\ \A w \in Workers :
       /\ job_p[w] # NoJob => content[held[w]] = job_p[w]
       /\ pc[w] = "remove" => order # <<>> /\ held[w] = order[1]
  /\ \A a \in Adders :
       newJob[a] # NoJob => newjob_p # NULL /\ content[newjob_p] = newJob[a]

\* No block is in two places, counted.
BlocksCounted ==
  Cardinality(heap) = Len(order) + Cardinality(taken) + Cardinality({newjob_p} \ {NULL})

\* thpool_jobqueue_empty runs in its phase of thpool_destroy and frees the oldest job.
EmptyingPhase ==
  /\ emptying = "no" <=> dpc \notin {"empty", "emptied", "freed"}
  /\ emptying = "done" => dpc = "freed" /\ order = <<>>
  /\ emptying = "loop" /\ curjob # NULL => order # <<>> /\ curjob = order[1]

\* All of them.
ListInv ==
  /\ ListTypeOK
  /\ ListLinked
  /\ PlacesApart
  /\ BlocksCounted
  /\ BlocksHoldJobs
  /\ EmptyingPhase

ListIInv == IInv /\ ListInv

-----------------------------------------------------------------------------
(* A walk along a link field. *)

\* A set of natural numbers has a least one: induction, in the form the provers can use.
LEMMA LeastNat ==
  ASSUME NEW S, S \subseteq Nat, S # {}
  PROVE  \E x \in S : \A y \in S : ~(y < x)
<1> DEFINE R == OpToRel(<, Nat)
<1>1. IsWellFoundedOn(R, Nat)
  BY NatLessThanWellFounded
<1>2. \A x, y \in Nat : y < x => <<y, x>> \in R
  BY DEF OpToRel
<1> HIDE DEF R
<1>3. PICK x \in S : \A y \in S : <<y, x>> \notin R
  BY <1>1, WFMin
<1> QED
  BY <1>2, <1>3

\* Walk leads along a sequence if each link does.
LEMMA WalkFollows ==
  ASSUME NEW start, NEW link, NEW s, jobsN \in Nat, s = [i \in 1..jobsN |-> s[i]],
         jobsN > 0 => s[1] = start,
         \A i \in 1..(jobsN - 1) : s[i] # NULL /\ link[s[i]] = s[i + 1]
  PROVE  List!Walk(start, link) = s
<1> DEFINE n == jobsN
           step(g) == [i \in 1..n |->
                         IF i = 1 THEN start ELSE IF g[i - 1] = NULL THEN NULL ELSE link[g[i - 1]]]
           at == CHOOSE g : g = step(g)
<1>1. \A i \in 1..n : i = 1 \/ (i - 1 \in 1..(n - 1) /\ (i - 1) + 1 = i)
  OBVIOUS
<1>2. ASSUME NEW i \in 1..n PROVE s[i] = step(s)[i]
  <2>1. CASE i = 1
    BY <2>1
  <2>2. CASE i # 1
    <3>1. i - 1 \in 1..(n - 1) /\ (i - 1) + 1 = i
      BY <2>2, <1>1
    <3>2. s[i - 1] # NULL /\ link[s[i - 1]] = s[(i - 1) + 1]
      BY <3>1
    <3>3. link[s[i - 1]] = s[i]
      BY <3>1, <3>2
    <3> QED
      BY <2>2, <3>2, <3>3
  <2> QED
    BY <2>1, <2>2
<1>3. s = step(s)
  BY <1>2
<1>4. at = step(at)
  BY <1>3
<1>5. List!Walk(start, link) = [i \in 1..n |-> at[i]]
  BY DEF List!Walk
<1> HIDE DEF at
<1>6. \A i \in 1..n : at[i] = IF i = 1 THEN start ELSE IF at[i - 1] = NULL THEN NULL ELSE link[at[i - 1]]
  BY <1>4
<1>7. \A i \in 1..n : at[i] = s[i]
  <2> DEFINE bad == {i \in 1..n : at[i] # s[i]}
  <2>1. SUFFICES ASSUME bad # {} PROVE FALSE
    OBVIOUS
  <2>2. PICK i \in bad : \A k \in bad : ~(k < i)
    <3>1. bad \subseteq Nat
      OBVIOUS
    <3> HIDE DEF bad
    <3> QED
      BY <2>1, <3>1, LeastNat
  <2>3. i \in 1..n /\ at[i] # s[i]
    BY <2>2
  <2>4. i # 1
    BY <1>6, <2>3
  <2>5. i - 1 \in 1..(n - 1) /\ i - 1 \in 1..n /\ (i - 1) + 1 = i /\ i - 1 < i
    BY <1>1, <2>3, <2>4
  <2>6. at[i - 1] = s[i - 1]
    BY <2>2, <2>5
  <2>7. s[i - 1] # NULL /\ link[s[i - 1]] = s[i]
    <3>1. s[i - 1] # NULL /\ link[s[i - 1]] = s[(i - 1) + 1]
      BY <2>5
    <3> QED
      BY <2>5, <3>1
  <2> QED
    BY <1>6, <2>3, <2>4, <2>6, <2>7
<1> QED
  BY <1>5, <1>7

-----------------------------------------------------------------------------
(* What the invariant says about the walks. *)

\* Facts about order the proofs below use.
LEMMA OrderFacts ==
  ASSUME ListTypeOK, ListLinked
  PROVE  /\ jobsN \in Nat /\ jobsN = Len(order)
         /\ \A i \in 1..jobsN : order[i] \in Blocks /\ order[i] # NULL /\ order[i] \in Listed
         /\ order = [i \in 1..jobsN |-> order[i]]
         /\ order = <<>> <=> jobsN = 0
<1>1. order \in Seq(Blocks) /\ jobsN = Len(order)
  BY DEF ListTypeOK, ListLinked
<1>2. /\ Len(order) \in Nat /\ \A i \in 1..Len(order) : order[i] \in Blocks
      /\ order = [i \in 1..Len(order) |-> order[i]]
      /\ order = <<>> <=> Len(order) = 0
  BY <1>1
<1> QED
  BY <1>1, <1>2, ListAssumption DEF Listed

\* From tail along prev: what thpool_jobqueue_removelast leaves for the next peek.
LEMMA TailWalk ==
  ASSUME ListTypeOK, ListLinked
  PROVE  List!TailWalkIsQueue
<1>1. jobsN > 0 => order[1] = tail
  BY OrderFacts DEF ListLinked
<1>2. \A i \in 1..(jobsN - 1) : order[i] # NULL /\ prev[order[i]] = order[i + 1]
  BY OrderFacts DEF ListLinked
<1> QED
  BY <1>1, <1>2, OrderFacts, WalkFollows DEF List!TailWalkIsQueue

\* From head along next, until thpool_jobqueue_empty begins.
LEMMA HeadWalk ==
  ASSUME ListTypeOK, ListLinked
  PROVE  HeadWalkIsQueue
<1> DEFINE n == jobsN
           back == [i \in 1..n |-> order[n + 1 - i]]
<1>0. SUFFICES ASSUME emptying = "no"
               PROVE  /\ List!Walk(head, next) = [i \in 1..Len(order) |-> order[Len(order) + 1 - i]]
                      /\ IF order = <<>> THEN head = NULL /\ tail = NULL
                         ELSE next[tail] = NULL /\ prev[head] = NULL
  BY DEF HeadWalkIsQueue, List!HeadWalkIsQueue
<1>1. n \in Nat /\ n = Len(order)
  BY OrderFacts
<1>2. n > 0 => back[1] = head
  <2>1. n > 0 => 1 \in 1..n /\ n + 1 - 1 = n
    BY <1>1
  <2> QED
    BY <1>1, <2>1, OrderFacts DEF ListLinked
<1>3. ASSUME NEW i \in 1..(n - 1) PROVE back[i] # NULL /\ next[back[i]] = back[i + 1]
  <2>1. /\ i \in 1..n /\ i + 1 \in 1..n /\ n + 1 - i \in 1..n /\ n - i \in 1..(n - 1)
        /\ n + 1 - i = (n - i) + 1 /\ n + 1 - (i + 1) = n - i
    BY <1>1
  <2>2. back[i] = order[(n - i) + 1] /\ back[i + 1] = order[n - i]
    BY <2>1
  <2>3. next[order[(n - i) + 1]] = order[n - i]
    BY <1>0, <1>1, <2>1 DEF ListLinked
  <2> QED
    BY <2>1, <2>2, <2>3, OrderFacts
<1>4. List!Walk(head, next) = back
  <2>1. back = [i \in 1..n |-> back[i]]
    OBVIOUS
  <2>2. \A i \in 1..(jobsN - 1) : back[i] # NULL /\ next[back[i]] = back[i + 1]
    BY <1>3
  <2>3. jobsN > 0 => back[1] = head
    BY <1>2
  <2>4. jobsN \in Nat /\ back = [i \in 1..jobsN |-> back[i]]
    BY <1>1, <2>1
  <2> HIDE DEF back
  <2> QED
    BY <2>2, <2>3, <2>4, WalkFollows
<1> QED
  BY <1>0, <1>1, <1>4 DEF ListLinked

-----------------------------------------------------------------------------
(* Sequences of blocks and the jobs written in them. *)

\* The elements of a sequence with one more at its end.
LEMMA AppendAt ==
  ASSUME NEW B, NEW s \in Seq(B), NEW b \in B
  PROVE  /\ Append(s, b) \in Seq(B) /\ Len(s) \in Nat /\ Len(Append(s, b)) = Len(s) + 1
         /\ Append(s, b) # <<>>
         /\ Append(s, b)[Len(s) + 1] = b
         /\ \A i \in 1..Len(s) : Append(s, b)[i] = s[i]
<1>1. Append(s, b) \in Seq(B) /\ Len(s) \in Nat /\ Len(Append(s, b)) = Len(s) + 1
  OBVIOUS
<1> QED
  BY <1>1

\* The elements of a sequence without its first.
LEMMA TailAt ==
  ASSUME NEW B, NEW s \in Seq(B), s # <<>>
  PROVE  /\ Tail(s) \in Seq(B) /\ Len(s) \in Nat /\ Len(s) >= 1 /\ Len(Tail(s)) = Len(s) - 1
         /\ Head(s) = s[1] /\ s[1] \in B
         /\ \A i \in 1..(Len(s) - 1) : Tail(s)[i] = s[i + 1]
OBVIOUS

\* The jobs of a longer list.
LEMMA AppendMap ==
  ASSUME NEW B, NEW s \in Seq(B), NEW b \in B, NEW f, NEW J, NEW q \in Seq(J), NEW x \in J,
         q = [i \in 1..Len(s) |-> f[s[i]]], x = f[b]
  PROVE  Append(q, x) = [i \in 1..Len(Append(s, b)) |-> f[Append(s, b)[i]]]
<1> DEFINE r == Append(s, b)
           p == Append(q, x)
<1>1. Len(q) = Len(s)
  OBVIOUS
<1>2. /\ Len(s) \in Nat /\ Len(r) = Len(s) + 1 /\ r[Len(s) + 1] = b
      /\ \A i \in 1..Len(s) : r[i] = s[i]
  BY AppendAt
<1>3. /\ Len(p) = Len(s) + 1 /\ p[Len(s) + 1] = x /\ p \in Seq(J)
      /\ \A i \in 1..Len(s) : p[i] = q[i]
  BY <1>1, AppendAt
<1>4. p = [i \in 1..Len(p) |-> p[i]]
  BY <1>3
<1> HIDE DEF r, p
<1>5. \A i \in 1..(Len(s) + 1) : i \in 1..Len(s) \/ i = Len(s) + 1
  BY <1>2
<1>6. \A i \in 1..(Len(s) + 1) : p[i] = f[r[i]]
  BY <1>2, <1>3, <1>5
<1>7. p = [i \in 1..Len(r) |-> f[r[i]]]
  BY <1>2, <1>3, <1>4, <1>6
<1> QED
  BY <1>7 DEF r, p

\* The jobs of the list without its first block, whatever becomes of that block.
LEMMA TailMap ==
  ASSUME NEW B, NEW s \in Seq(B), s # <<>>, NEW f, NEW g, NEW J, NEW q \in Seq(J),
         q = [i \in 1..Len(s) |-> f[s[i]]],
         \A i \in 1..(Len(s) - 1) : g[s[i + 1]] = f[s[i + 1]]
  PROVE  /\ q # <<>>
         /\ Tail(q) = [i \in 1..Len(Tail(s)) |-> g[Tail(s)[i]]]
<1> DEFINE r == Tail(s)
           p == Tail(q)
<1>1. Len(q) = Len(s) /\ Len(s) \in Nat /\ Len(s) >= 1
  OBVIOUS
<1>2. q # <<>>
  BY <1>1
<1>3. /\ Len(r) = Len(s) - 1
      /\ \A i \in 1..(Len(s) - 1) : r[i] = s[i + 1]
  BY TailAt
<1>4. /\ Len(p) = Len(s) - 1 /\ p \in Seq(J)
      /\ \A i \in 1..(Len(s) - 1) : p[i] = q[i + 1]
  BY <1>1, <1>2, TailAt
<1>5. p = [i \in 1..Len(p) |-> p[i]]
  BY <1>4
<1> HIDE DEF r, p
<1>6. \A i \in 1..(Len(s) - 1) : i + 1 \in 1..Len(s)
  BY <1>1
<1>7. \A i \in 1..(Len(s) - 1) : p[i] = g[r[i]]
  BY <1>3, <1>4, <1>6
<1>8. p = [i \in 1..Len(r) |-> g[r[i]]]
  BY <1>3, <1>4, <1>5, <1>7
<1> QED
  BY <1>2, <1>8 DEF r, p

-----------------------------------------------------------------------------
(* What the operations do to the links. *)

\* Fields of blocks that are not in the list do not matter.
LEMMA LinksStay ==
  ASSUME ListTypeOK, ListLinked, UNCHANGED <<order, head, tail, jobsN, emptying>>,
         \A x \in Listed : next'[x] = next[x] /\ prev'[x] = prev[x]
  PROVE  ListLinked'
<1> DEFINE n == Len(order)
<1>1. /\ n \in Nat /\ (order # <<>> => n >= 1)
      /\ \A i \in 1..n : order[i] \in Listed
  BY OrderFacts DEF ListTypeOK
<1>2. \A i \in 1..(n - 1) : i \in 1..n /\ i + 1 \in 1..n
  BY <1>1
<1>3. order # <<>> => head \in Listed /\ tail \in Listed
  BY <1>1 DEF ListLinked
<1>4. \A i \in 1..(n - 1) : /\ prev'[order[i]] = prev[order[i]]
                            /\ next'[order[i + 1]] = next[order[i + 1]]
  BY <1>1, <1>2
<1>5. order # <<>> => prev'[head] = prev[head] /\ next'[tail] = next[tail]
  BY <1>3
<1>6. /\ jobsN' = Len(order)
      /\ \A i, k \in 1..n : order[i] = order[k] => i = k
      /\ order = <<>> => tail = NULL /\ (emptying = "no" => head = NULL)
  BY DEF ListLinked
<1>7. order # <<>> =>
        /\ tail = order[1] /\ head = order[n] /\ prev'[head] = NULL
        /\ emptying = "no" => next'[tail] = NULL
  BY <1>5 DEF ListLinked
<1>8. \A i \in 1..(n - 1) :
        /\ prev'[order[i]] = order[i + 1]
        /\ emptying = "no" => next'[order[i + 1]] = order[i]
  BY <1>4 DEF ListLinked
<1> QED
  BY <1>6, <1>7, <1>8 DEF ListLinked

\* thpool_jobqueue_add
LEMMA AddLinks ==
  ASSUME ListTypeOK, ListLinked, newjob_p \notin Listed, List!Add
  PROVE  ListLinked'
<1> DEFINE n == Len(order)
           b == newjob_p
<1>1. b \in Blocks /\ order' = Append(order, b) /\ head' = b /\ emptying' = emptying
  BY DEF List!Add, ListTypeOK
<1>2. /\ n \in Nat /\ Len(order') = n + 1 /\ order'[n + 1] = b /\ order' # <<>>
      /\ \A i \in 1..n : order'[i] = order[i]
  BY <1>1, AppendAt DEF ListTypeOK
<1>3. jobsN = n /\ jobsN' = n + 1
  BY OrderFacts DEF List!Add
<1>4. \A i \in 1..n : order[i] \in Blocks /\ order[i] \in Listed /\ order[i] # b
  BY <1>3, OrderFacts
<1>5. Distinct(order')
  BY <1>1, AppendElems DEF ListTypeOK, ListLinked, Distinct, Elems, Listed
<1>6. CASE n = 0
  <2>1. tail' = b /\ prev'[b] = NULL /\ next'[b] = NULL
    BY <1>1, <1>3, <1>6 DEF List!Add, ListTypeOK
  <2>2. \A i \in 1..(Len(order') - 1) : FALSE
    BY <1>2, <1>6
  <2> QED
    BY <1>1, <1>2, <1>3, <1>5, <1>6, <2>1, <2>2 DEF ListLinked, Distinct
<1>7. CASE n # 0
  <2>0. n >= 1 /\ 1 \in 1..n /\ n \in 1..n /\ order # <<>>
    BY <1>2, <1>7
  <2>1. /\ tail' = tail /\ tail = order[1] /\ head = order[n] /\ head \in Blocks /\ head # b
        /\ prev' = [prev EXCEPT ![b] = NULL, ![head] = b] /\ next' = [next EXCEPT ![b] = head]
    BY <1>3, <1>4, <1>7, <2>0 DEF List!Add, ListLinked
  <2>2. /\ prev'[b] = NULL /\ prev'[head] = b /\ \A x \in Blocks : x # b /\ x # head => prev'[x] = prev[x]
        /\ next'[b] = head /\ \A x \in Blocks : x # b => next'[x] = next[x]
    BY <1>1, <2>1 DEF ListTypeOK
  <2>3. tail' = order'[1] /\ head' = order'[Len(order')] /\ prev'[head'] = NULL
    BY <1>1, <1>2, <2>0, <2>1, <2>2
  <2>4. emptying = "no" => next'[tail'] = NULL
    BY <1>4, <2>0, <2>1, <2>2 DEF ListLinked
  <2>5. ASSUME NEW i \in 1..n
        PROVE  /\ prev'[order'[i]] = order'[i + 1]
               /\ emptying = "no" => next'[order'[i + 1]] = order'[i]
    <3>1. CASE i = n
      BY <1>2, <2>0, <2>1, <2>2, <3>1
    <3>2. CASE i # n
      <4>1. i \in 1..(n - 1) /\ i + 1 \in 1..n
        BY <1>2, <3>2
      <4>2. order[i] # head
        BY <2>0, <2>1, <3>2 DEF ListLinked
      <4>3. /\ prev[order[i]] = order[i + 1]
            /\ emptying = "no" => next[order[i + 1]] = order[i]
        BY <4>1 DEF ListLinked
      <4>4. order'[i] = order[i] /\ order'[i + 1] = order[i + 1]
        BY <1>2, <4>1
      <4>5. prev'[order[i]] = prev[order[i]] /\ next'[order[i + 1]] = next[order[i + 1]]
        BY <1>4, <2>2, <4>1, <4>2
      <4> QED
        BY <4>3, <4>4, <4>5
    <3> QED
      BY <3>1, <3>2
  <2>6. Len(order') - 1 = n
    BY <1>2
  <2> QED
    BY <1>1, <1>2, <1>3, <1>5, <2>3, <2>4, <2>5, <2>6 DEF ListLinked, Distinct
<1> QED
  BY <1>6, <1>7

\* Facts about the list without its oldest block.
LEMMA TailFacts ==
  ASSUME ListTypeOK, ListLinked, order # <<>>, order' = Tail(order)
  PROVE  /\ Len(order) >= 1 /\ order' \in Seq(Blocks) /\ Len(order') = Len(order) - 1
         /\ \A i \in 1..(Len(order) - 1) : order'[i] = order[i + 1]
         /\ tail = order[1] /\ tail \in Blocks /\ tail \in Listed /\ tail # NULL
         /\ Distinct(order')
         /\ Listed = Listed' \cup {tail} /\ tail \notin Listed'
         /\ \A i \in 1..(Len(order) - 1) : order[i + 1] \in Blocks /\ order[i + 1] # tail
         /\ order' = <<>> <=> Len(order) = 1
         /\ Len(order) # 1 => prev[tail] = order[2] /\ order'[1] = order[2] /\ order[2] \in Blocks
         /\ Len(order) = 1 => prev[tail] = NULL /\ head = tail
<1> DEFINE n == Len(order)
<1>1. /\ order' \in Seq(Blocks) /\ n \in Nat /\ n >= 1 /\ Len(order') = n - 1
      /\ \A i \in 1..(n - 1) : order'[i] = order[i + 1]
      /\ Head(order) = order[1]
  BY TailAt DEF ListTypeOK
<1>2. tail = order[1] /\ prev[head] = NULL /\ head = order[n]
  BY DEF ListLinked
<1>3. \A i \in 1..n : order[i] \in Blocks /\ order[i] # NULL /\ order[i] \in Listed
  BY <1>1, OrderFacts
<1>4. tail \in Blocks /\ tail \in Listed /\ tail # NULL
  BY <1>1, <1>2, <1>3
<1>5. Distinct(order') /\ Elems(order) = Elems(order') \cup {tail} /\ tail \notin Elems(order')
  BY <1>1, <1>2, TailElems DEF ListTypeOK, ListLinked, Distinct
<1>6. Listed = Elems(order) /\ Listed' = Elems(order')
  BY DEF Listed, Elems
<1>7. ASSUME NEW i \in 1..(n - 1) PROVE order[i + 1] \in Blocks /\ order[i + 1] # tail
  <2>1. 1 \in 1..n /\ i + 1 \in 1..n /\ i + 1 # 1
    BY <1>1
  <2> QED
    BY <1>2, <1>3, <2>1 DEF ListLinked
<1>8. order' = <<>> <=> n = 1
  BY <1>1
<1>9. ASSUME n # 1 PROVE prev[tail] = order[2] /\ order'[1] = order[2] /\ order[2] \in Blocks
  <2>1. 1 \in 1..(n - 1) /\ 1 + 1 = 2
    BY <1>1, <1>9
  <2>2. prev[order[1]] = order[1 + 1] /\ order'[1] = order[1 + 1] /\ order[1 + 1] \in Blocks
    BY <1>1, <1>7, <2>1 DEF ListLinked
  <2> QED
    BY <1>2, <2>1, <2>2
<1> QED
  BY <1>1, <1>2, <1>4, <1>5, <1>6, <1>7, <1>8, <1>9

\* thpool_jobqueue_removelast
LEMMA TakeLinks ==
  ASSUME ListTypeOK, ListLinked, order # <<>>, List!Take
  PROVE  ListLinked'
<1> DEFINE n == Len(order)
<1>1. /\ order' = Tail(order) /\ emptying = "no" /\ emptying' = "no" /\ prev' = prev
      /\ jobsN = n /\ n \in Nat /\ jobsN' = n - 1
  BY OrderFacts DEF List!Take
<1>2. /\ n >= 1 /\ Len(order') = n - 1 /\ Distinct(order')
      /\ \A i \in 1..(n - 1) : order'[i] = order[i + 1]
      /\ order' = <<>> <=> n = 1
  BY <1>1, TailFacts
<1>3. CASE n = 1
  <2>1. tail' = NULL /\ head' = NULL /\ order' = <<>>
    BY <1>1, <1>2, <1>3 DEF List!Take
  <2>2. \A i \in 1..(Len(order') - 1) : FALSE
    BY <1>2, <1>3
  <2> QED
    BY <1>1, <1>2, <2>1, <2>2 DEF ListLinked, Distinct
<1>4. CASE n # 1
  <2>1. prev[tail] = order[2] /\ order'[1] = order[2] /\ order[2] \in Blocks
    BY <1>1, <1>4, TailFacts
  <2>2. tail' = order[2] /\ head' = head /\ next' = [next EXCEPT ![order[2]] = NULL]
    BY <1>1, <1>4, <2>1 DEF List!Take
  <2>3. next'[order[2]] = NULL /\ \A x \in Blocks : x # order[2] => next'[x] = next[x]
    BY <2>1, <2>2 DEF ListTypeOK
  <2>4. n - 1 \in 1..(n - 1) /\ (n - 1) + 1 = n
    BY <1>2, <1>1, <1>4
  <2>5. head = order[n] /\ prev[head] = NULL /\ order'[n - 1] = order[n]
    <3>1. order'[n - 1] = order[(n - 1) + 1]
      BY <1>2, <2>4
    <3> QED
      BY <1>1, <2>4, <3>1 DEF ListLinked
  <2>6. ASSUME NEW i \in 1..(n - 1 - 1)
        PROVE  prev'[order'[i]] = order'[i + 1] /\ next'[order'[i + 1]] = order'[i]
    <3>1. /\ i \in 1..(n - 1) /\ i + 1 \in 1..(n - 1) /\ i + 1 \in 1..n /\ (i + 1) + 1 \in 1..n
          /\ 2 \in 1..n /\ (i + 1) + 1 # 2
      BY <1>1
    <3>2. order'[i] = order[i + 1] /\ order'[i + 1] = order[(i + 1) + 1]
      BY <1>2, <3>1
    <3>3. prev[order[i + 1]] = order[(i + 1) + 1] /\ next[order[(i + 1) + 1]] = order[i + 1]
      BY <1>1, <3>1 DEF ListLinked
    <3>4. order[(i + 1) + 1] # order[2] /\ order[(i + 1) + 1] \in Blocks
      BY <1>1, <3>1, OrderFacts DEF ListLinked
    <3> QED
      BY <1>1, <2>3, <3>2, <3>3, <3>4
  <2> QED
    BY <1>1, <1>2, <1>4, <2>1, <2>2, <2>3, <2>5, <2>6 DEF ListLinked, Distinct
<1> QED
  BY <1>3, <1>4

\* One iteration of thpool_jobqueue_empty.
LEMMA EmptyOneLinks ==
  ASSUME ListTypeOK, ListLinked, order # <<>>, curjob = tail, List!EmptyOne
  PROVE  ListLinked'
<1> DEFINE n == Len(order)
<1>1. /\ order' = Tail(order) /\ emptying' = "loop" /\ head' = head
      /\ jobsN = n /\ n \in Nat /\ jobsN' = n - 1 /\ tail' = prev[tail]
  BY OrderFacts DEF List!EmptyOne
<1>2. /\ n >= 1 /\ Len(order') = n - 1 /\ Distinct(order')
      /\ \A i \in 1..(n - 1) : order'[i] = order[i + 1]
      /\ order' = <<>> <=> n = 1
      /\ \A i \in 1..(n - 1) : order[i + 1] \in Blocks /\ order[i + 1] # tail
  BY <1>1, TailFacts
<1>3. \A x \in Blocks : x # tail => prev'[x] = prev[x]
  BY DEF List!EmptyOne, List!Free, ListTypeOK
<1>4. CASE n = 1
  <2>1. tail' = NULL /\ order' = <<>>
    BY <1>1, <1>2, <1>4, TailFacts
  <2>2. \A i \in 1..(Len(order') - 1) : FALSE
    BY <1>2, <1>4
  <2> QED
    BY <1>1, <1>2, <2>1, <2>2 DEF ListLinked, Distinct
<1>5. CASE n # 1
  <2>1. tail' = order'[1]
    BY <1>1, <1>5, TailFacts
  <2>2. n - 1 \in 1..(n - 1) /\ (n - 1) + 1 = n
    BY <1>2, <1>1, <1>5
  <2>3. head = order'[n - 1] /\ prev'[head] = NULL
    <3>1. order'[n - 1] = order[(n - 1) + 1] /\ order[(n - 1) + 1] \in Blocks /\ order[(n - 1) + 1] # tail
      BY <1>2, <2>2
    <3>2. head = order[n] /\ prev[head] = NULL
      BY DEF ListLinked
    <3> QED
      BY <1>3, <2>2, <3>1, <3>2
  <2>4. ASSUME NEW i \in 1..(n - 1 - 1)
        PROVE  prev'[order'[i]] = order'[i + 1]
    <3>1. i \in 1..(n - 1) /\ i + 1 \in 1..(n - 1)
      BY <1>1
    <3>2. order'[i] = order[i + 1] /\ order'[i + 1] = order[(i + 1) + 1]
      BY <1>2, <3>1
    <3>3. prev[order[i + 1]] = order[(i + 1) + 1]
      BY <3>1 DEF ListLinked
    <3> QED
      BY <1>2, <1>3, <3>1, <3>2, <3>3
  <2> QED
    BY <1>1, <1>2, <1>5, <2>1, <2>3, <2>4 DEF ListLinked, Distinct
<1> QED
  BY <1>4, <1>5

-----------------------------------------------------------------------------
(* The pool and its list together. *)

\* One thread adds jobs.
LEMMA OneAdder == \A a, b \in Adders : a = b
<1> SUFFICES ASSUME NEW a \in Adders, NEW b \in Adders, a # b PROVE FALSE
  OBVIOUS
<1>1. IsFiniteSet(Adders) /\ Cardinality(Adders) \in Nat /\ Cardinality(Adders) <= 1
  BY PoolAssumption, ListAssumption, FS_CardinalityType
<1>2. IsFiniteSet(Adders \ {a}) /\ Cardinality(Adders \ {a}) = Cardinality(Adders) - 1
  BY <1>1, FS_RemoveElement
<1>3. IsFiniteSet((Adders \ {a}) \ {b}) /\ Cardinality((Adders \ {a}) \ {b}) = Cardinality(Adders \ {a}) - 1
  BY <1>2, FS_RemoveElement
<1>4. Cardinality((Adders \ {a}) \ {b}) \in Nat
  BY <1>3, FS_CardinalityType
<1> QED
  BY <1>1, <1>2, <1>3, <1>4

\* A worker with a job has its block, which is allocated; no two workers have the same.
LEMMA HeldBlocks ==
  ASSUME ListIInv
  PROVE  /\ \A w \in Workers : job_p[w] # NoJob =>
              held[w] \in Blocks /\ held[w] \in heap /\ held[w] \in Listed \cup taken
         /\ \A w \in Holders : w \in Workers /\ job_p[w] # NoJob /\ held[w] \in taken
         /\ \A v, w \in Holders : held[v] = held[w] => v = w
         /\ Listed \subseteq Blocks /\ NULL \notin Listed
<1> USE DEF ListIInv, ListInv
<1>1. \A w \in Workers : job_p[w] # NoJob => pc[w] = "remove" \/ w \in Holders
  BY DEF IInv, HandsFull, Holders
<1>2. \A w \in Holders : w \in Workers /\ job_p[w] # NoJob /\ held[w] \in taken
  BY DEF IInv, HandsFull, Holders, BlocksHoldJobs
<1>3. Listed \subseteq Blocks /\ NULL \notin Listed
  BY OrderFacts DEF Listed
<1>4. order # <<>> => order[1] \in Listed
  <2>1. order # <<>> => 1 \in 1..jobsN
    BY OrderFacts
  <2> QED
    BY <2>1, OrderFacts
<1>5. \A w \in Workers : pc[w] = "remove" => held[w] \in Listed
  BY <1>4 DEF BlocksHoldJobs
<1>6. \A w \in Workers : job_p[w] # NoJob => held[w] \in Listed \cup taken
  BY <1>1, <1>2, <1>5
<1>7. Listed \cup taken \subseteq heap /\ heap \subseteq Blocks
  BY DEF PlacesApart, ListTypeOK
<1>8. ASSUME NEW v \in Holders, NEW w \in Holders, held[v] = held[w] PROVE v = w
  <2>1. job_p[v] = job_p[w]
    BY <1>2, <1>8 DEF BlocksHoldJobs
  <2> QED
    BY <2>1 DEF IInv, JobsInOnePlace
<1> QED
  BY <1>2, <1>3, <1>6, <1>7, <1>8

\* The sets of blocks are finite.
LEMMA BlocksFinite ==
  ASSUME ListTypeOK
  PROVE  /\ IsFiniteSet(heap) /\ Cardinality(heap) \in Nat
         /\ IsFiniteSet(taken) /\ Cardinality(taken) \in Nat
         /\ Cardinality({}) = 0 /\ \A b : Cardinality({b}) = 1
<1>1. IsFiniteSet(heap) /\ IsFiniteSet(taken)
  BY ListAssumption, FS_Subset DEF ListTypeOK
<1>2. Cardinality({}) = 0 /\ \A b : Cardinality({b}) = 1
  BY FS_EmptySet, FS_Singleton
<1> QED
  BY <1>1, <1>2, FS_CardinalityType

\* The block about to be added counts for one.
LEMMA NewCounts ==
  \A b : Cardinality({b} \ {NULL}) = IF b = NULL THEN 0 ELSE 1
<1> TAKE b
<1>1. CASE b = NULL
  <2>1. {b} \ {NULL} = {}
    BY <1>1
  <2> QED
    BY <1>1, <2>1, FS_EmptySet
<1>2. CASE b # NULL
  <2>1. {b} \ {NULL} = {b}
    BY <1>2
  <2> QED
    BY <1>2, <2>1, FS_Singleton
<1> QED
  BY <1>1, <1>2

\* Steps of the pool that leave the list alone and move nobody in or out of it.
LEMMA ListAside ==
  ASSUME ListIInv, UNCHANGED <<listVars, blockVars>>, UNCHANGED <<jobqueue, job_p, newJob>>,
         Holders' = Holders, \A w \in Workers : pc'[w] = "remove" => pc[w] = "remove",
         dpc' \in {"empty", "emptied", "freed"} <=> dpc \in {"empty", "emptied", "freed"},
         dpc = "freed" => dpc' = "freed"
  PROVE  ListInv'
<1> USE DEF ListIInv, ListInv
<1>1. UNCHANGED <<head, tail, jobsN, next, prev, heap, newjob_p, taken, curjob, emptying, order, content, held>>
  BY DEF listVars, blockVars
<1>2. ListTypeOK'
  BY <1>1 DEF ListTypeOK
<1>3. ListLinked'
  BY <1>1 DEF ListLinked
<1>4. PlacesApart' /\ BlocksCounted'
  BY <1>1 DEF PlacesApart, BlocksCounted, Listed
<1>5. BlocksHoldJobs'
  BY <1>1 DEF BlocksHoldJobs
<1>6. EmptyingPhase'
  BY <1>1 DEF EmptyingPhase
<1> QED
  BY <1>2, <1>3, <1>4, <1>5, <1>6

\* malloc of a job.
LEMMA AllocStep ==
  ASSUME ListIInv, NEW a \in Adders, NEW j \in Jobs, AllocOnHeap(a, j)
  PROVE  ListInv'
<1> USE DEF ListIInv, ListInv
<1>0. PICK b \in Blocks : List!Malloc(b) /\ content' = [content EXCEPT ![b] = j]
  BY DEF AllocOnHeap
<1>1. /\ UNCHANGED <<head, tail, jobsN, next, prev, taken, curjob, emptying, order, held>>
      /\ newjob_p = NULL /\ b \notin heap /\ heap' = heap \cup {b} /\ newjob_p' = b
  BY <1>0 DEF List!Malloc, List!links, AllocOnHeap
<1>2. UNCHANGED <<jobqueue, pc, job_p, dpc>> /\ newJob' = [newJob EXCEPT ![a] = j]
  BY DEF AllocOnHeap, AllocJob, queueVars, workerVars, destroyVars
<1>3. b # NULL /\ content'[b] = j /\ \A x \in Blocks : x # b => content'[x] = content[x]
  BY <1>0, ListAssumption DEF ListTypeOK
<1>4. ListTypeOK'
  BY <1>0, <1>1 DEF ListTypeOK
<1>5. ListLinked'
  BY <1>1 DEF ListLinked
<1>6. Listed' = Listed /\ Holders' = Holders
  BY <1>1, <1>2 DEF Listed, Holders
<1>7. PlacesApart'
  BY <1>1, <1>3, <1>6 DEF PlacesApart
<1>8. BlocksCounted'
  <2>1. Cardinality(heap') = Cardinality(heap) + 1
    BY <1>1, BlocksFinite, FS_AddElement
  <2>2. {newjob_p} \ {NULL} = {} /\ {newjob_p'} \ {NULL} = {b}
    BY <1>1, <1>3
  <2>3. Cardinality({newjob_p} \ {NULL}) = 0 /\ Cardinality({newjob_p'} \ {NULL}) = 1
    BY <2>2, BlocksFinite
  <2>4. Len(order) \in Nat /\ Cardinality(taken) \in Nat /\ Len(order') = Len(order) /\ taken' = taken
    BY <1>1, OrderFacts, BlocksFinite
  <2> QED
    BY <2>1, <2>3, <2>4 DEF BlocksCounted
<1>9. BlocksHoldJobs'
  <2>1. \A i \in 1..Len(order) : content'[order[i]] = content[order[i]]
    BY <1>1, <1>3, OrderFacts DEF PlacesApart
  <2>2. jobqueue' = [i \in 1..Len(order') |-> content'[order'[i]]]
    BY <1>1, <1>2, <2>1 DEF BlocksHoldJobs
  <2>3. taken' = {held'[w] : w \in Holders'}
    BY <1>1, <1>6 DEF BlocksHoldJobs
  <2>4. \A w \in Workers : job_p'[w] # NoJob => content'[held'[w]] = job_p'[w]
    BY <1>1, <1>2, <1>3, HeldBlocks DEF BlocksHoldJobs
  <2>5. \A w \in Workers : pc'[w] = "remove" => order' # <<>> /\ held'[w] = order'[1]
    BY <1>1, <1>2 DEF BlocksHoldJobs
  <2>6. \A x \in Adders : newJob'[x] # NoJob => newjob_p' # NULL /\ content'[newjob_p'] = newJob'[x]
    <3>1. newJob'[a] = j
      BY <1>2 DEF IInv, TypeOK
    <3> QED
      BY <1>1, <1>3, <3>1, OneAdder
  <2> QED
    BY <2>2, <2>3, <2>4, <2>5, <2>6 DEF BlocksHoldJobs
<1>10. EmptyingPhase'
  BY <1>1, <1>2 DEF EmptyingPhase
<1> QED
  BY <1>4, <1>5, <1>7, <1>8, <1>9, <1>10

\* thpool_jobqueue_add: the links.
LEMMA LinkStep ==
  ASSUME ListIInv, NEW a \in Adders, LinkInList(a)
  PROVE  ListInv'
<1> USE DEF ListIInv, ListInv
<1>0. UNCHANGED <<content, held, pc, job_p, dpc>> /\ apc[a] = "link" /\ newJob[a] # NoJob
  BY DEF LinkInList, LinkJob, blockVars, workerVars, destroyVars, IInv, HandsFull
<1>1. CASE dpc = "freed"
  <2>1. UNCHANGED <<listVars, blockVars>> /\ UNCHANGED <<jobqueue, newJob>>
    BY <1>1 DEF LinkInList, LinkJob
  <2> QED
    BY <1>0, <2>1, ListAside DEF Holders
<1>2. CASE dpc # "freed"
  <2> DEFINE b == newjob_p
             n == Len(order)
  <2>1. List!Add /\ jobqueue' = Append(jobqueue, newJob[a]) /\ newJob' = [newJob EXCEPT ![a] = NoJob]
    BY <1>2 DEF LinkInList, LinkJob
  <2>2. /\ b # NULL /\ b \in Blocks /\ content[b] = newJob[a] /\ newjob_p' = NULL
        /\ order' = Append(order, b) /\ UNCHANGED <<heap, taken, curjob, emptying>>
    BY <1>0, <2>1 DEF List!Add, ListTypeOK, BlocksHoldJobs
  <2>3. /\ order' \in Seq(Blocks) /\ n \in Nat /\ Len(order') = n + 1 /\ order' # <<>>
        /\ order # <<>> => order'[1] = order[1]
    <3>1. /\ order' \in Seq(Blocks) /\ n \in Nat /\ Len(order') = n + 1 /\ order' # <<>>
          /\ \A i \in 1..n : order'[i] = order[i]
      BY <2>2, AppendAt DEF ListTypeOK
    <3>2. order # <<>> => 1 \in 1..n
      BY OrderFacts
    <3> QED
      BY <3>1, <3>2
  <2>4. Listed' = Listed \cup {b} /\ b \notin Listed /\ b \notin taken
    <3>1. Elems(order') = Elems(order) \cup {b}
      BY <2>2, AppendElems DEF ListTypeOK
    <3> QED
      BY <3>1 DEF Listed, Elems, PlacesApart
  <2>5. ListTypeOK'
    <3>1. head' \in Blocks /\ tail' \in Blocks \cup {NULL} /\ head \in Blocks \cup {NULL}
      BY <2>1, <2>2 DEF List!Add, ListTypeOK
    <3>2. next' \in [Blocks -> Blocks \cup {NULL}] /\ prev' \in [Blocks -> Blocks \cup {NULL}]
      BY <2>1, <2>2, <3>1 DEF List!Add, ListTypeOK
    <3> QED
      BY <1>0, <2>2, <2>3, <3>1, <3>2 DEF ListTypeOK
  <2>6. ListLinked'
    BY <2>1, <2>4, AddLinks
  <2>7. PlacesApart'
    BY <2>2, <2>4, HeldBlocks, ListAssumption DEF PlacesApart, ListTypeOK
  <2>8. BlocksCounted'
    <3>1. {newjob_p} \ {NULL} = {b} /\ {newjob_p'} \ {NULL} = {}
      BY <2>2
    <3>2. Cardinality({newjob_p} \ {NULL}) = 1 /\ Cardinality({newjob_p'} \ {NULL}) = 0
      BY <3>1, BlocksFinite
    <3>3. Cardinality(heap) \in Nat /\ Cardinality(taken) \in Nat /\ heap' = heap /\ taken' = taken
      BY <2>2, BlocksFinite
    <3> QED
      BY <2>3, <3>2, <3>3 DEF BlocksCounted
  <2>9. BlocksHoldJobs'
    <3>1. jobqueue' = [i \in 1..Len(order') |-> content'[order'[i]]]
      <4>1. jobqueue \in Seq(Jobs) /\ newJob[a] \in Jobs /\ order \in Seq(Blocks)
        BY <1>0 DEF IInv, TypeOK, ListTypeOK
      <4>2. jobqueue = [i \in 1..Len(order) |-> content[order[i]]]
        BY DEF BlocksHoldJobs
      <4>3. Append(jobqueue, newJob[a]) =
              [i \in 1..Len(Append(order, b)) |-> content[Append(order, b)[i]]]
        BY <2>2, <4>1, <4>2, AppendMap
      <4> QED
        BY <1>0, <2>1, <2>2, <4>3
    <3>2. Holders' = Holders
      BY <1>0 DEF Holders
    <3>3. \A x \in Adders : newJob'[x] = NoJob
      BY <2>1, OneAdder DEF IInv, TypeOK
    <3> QED
      BY <1>0, <2>2, <2>3, <3>1, <3>2, <3>3 DEF BlocksHoldJobs
  <2>10. EmptyingPhase'
    BY <1>0, <1>2, <2>2, <2>3 DEF EmptyingPhase
  <2> QED
    BY <2>5, <2>6, <2>7, <2>8, <2>9, <2>10
<1> QED
  BY <1>1, <1>2

\* thpool_jobqueue_peek
LEMMA PeekStep ==
  ASSUME ListIInv, IInv', NEW w \in Workers, PeekTail(w)
  PROVE  ListInv'
<1> USE DEF ListIInv, ListInv
<1>1. /\ UNCHANGED <<head, tail, jobsN, next, prev, heap, newjob_p, taken, curjob, emptying, order, content>>
      /\ UNCHANGED <<jobqueue, newJob, dpc>> /\ held' = [held EXCEPT ![w] = tail]
  BY DEF PeekTail, PeekJob, listVars, queueVars, adderVars, destroyVars
<1>2. /\ pc[w] = "peek" /\ jobqueue # <<>> /\ job_p' = [job_p EXCEPT ![w] = Head(jobqueue)]
      /\ pc' = [pc EXCEPT ![w] = "remove"]
  BY DEF PeekTail, PeekJob, IInv, NeverNullJob
<1>3. /\ order # <<>> /\ tail = order[1] /\ tail \in Blocks /\ Head(jobqueue) = content[tail]
  <2>1. jobqueue \in Seq(Jobs) /\ jobqueue = [i \in 1..Len(order) |-> content[order[i]]] /\ Len(order) \in Nat
    BY OrderFacts DEF IInv, TypeOK, BlocksHoldJobs
  <2>2. Head(jobqueue) = jobqueue[1] /\ Len(jobqueue) = Len(order) /\ Len(jobqueue) >= 1
    BY <1>2, <2>1
  <2>3. order # <<>> /\ 1 \in 1..Len(order)
    BY <2>1, <2>2, OrderFacts
  <2> QED
    BY <2>1, <2>2, <2>3, OrderFacts DEF ListLinked
<1>4. /\ job_p'[w] = content[tail] /\ held'[w] = tail /\ pc'[w] = "remove"
      /\ \A v \in Workers : v # w => job_p'[v] = job_p[v] /\ held'[v] = held[v] /\ pc'[v] = pc[v]
  BY <1>1, <1>2, <1>3 DEF IInv, TypeOK, ListTypeOK
<1>5. Holders' = Holders /\ w \notin Holders
  BY <1>2, <1>4 DEF Holders
<1>6. ListTypeOK'
  BY <1>1, <1>3 DEF ListTypeOK
<1>7. ListLinked'
  BY <1>1 DEF ListLinked
<1>8. PlacesApart' /\ BlocksCounted'
  BY <1>1 DEF PlacesApart, BlocksCounted, Listed
<1>9. BlocksHoldJobs'
  <2>1. taken' = {held'[v] : v \in Holders'}
    <3>1. \A v \in Holders : held'[v] = held[v]
      BY <1>4, <1>5 DEF Holders
    <3> QED
      BY <1>1, <1>5, <3>1 DEF BlocksHoldJobs
  <2>2. \A v \in Workers :
          /\ job_p'[v] # NoJob => content'[held'[v]] = job_p'[v]
          /\ pc'[v] = "remove" => order' # <<>> /\ held'[v] = order'[1]
    BY <1>1, <1>3, <1>4 DEF BlocksHoldJobs
  <2> QED
    BY <1>1, <2>1, <2>2 DEF BlocksHoldJobs
<1>10. EmptyingPhase'
  BY <1>1 DEF EmptyingPhase
<1> QED
  BY <1>6, <1>7, <1>8, <1>9, <1>10

\* thpool_jobqueue_removelast
LEMMA RemoveStep ==
  ASSUME ListIInv, NEW w \in Workers, RemoveFromList(w)
  PROVE  ListInv'
<1> USE DEF ListIInv, ListInv
<1> DEFINE n == Len(order)
<1>1. /\ UNCHANGED <<content, held, job_p, newJob, dpc>> /\ pc[w] = "remove" /\ pc' = [pc EXCEPT ![w] = "unlock"]
      /\ jobqueue # <<>> /\ jobqueue' = Tail(jobqueue)
  BY DEF RemoveFromList, RemoveLast, blockVars, adderVars, destroyVars, IInv, PeekedFirst
<1>2. /\ List!Take /\ order # <<>> /\ held[w] = order[1]
      /\ order' = Tail(order) /\ taken' = taken \cup {tail}
      /\ UNCHANGED <<prev, heap, newjob_p, curjob, emptying>> /\ emptying = "no"
  BY <1>1 DEF RemoveFromList, List!Take, BlocksHoldJobs
<1>3. /\ n >= 1 /\ order' \in Seq(Blocks) /\ Len(order') = n - 1 /\ n \in Nat /\ jobsN = n
      /\ tail = order[1] /\ tail \in Blocks /\ tail # NULL
      /\ Listed = Listed' \cup {tail} /\ tail \notin Listed'
      /\ n # 1 => prev[tail] = order[2] /\ order[2] \in Blocks
      /\ \A i \in 1..(n - 1) : order[i + 1] \in Blocks /\ order[i + 1] # tail
  BY <1>2, TailFacts, OrderFacts
<1>4. ListTypeOK'
  <2>1. /\ tail' \in Blocks \cup {NULL} /\ head' \in Blocks \cup {NULL}
        /\ next' \in [Blocks -> Blocks \cup {NULL}]
    BY <1>2, <1>3 DEF List!Take, ListTypeOK
  <2> QED
    BY <1>1, <1>2, <1>3, <2>1 DEF ListTypeOK
<1>5. ListLinked'
  BY <1>2, TakeLinks
<1>6. tail \notin taken /\ tail # newjob_p
  BY <1>3 DEF PlacesApart
<1>7. PlacesApart'
  BY <1>2, <1>3, <1>6 DEF PlacesApart
<1>8. BlocksCounted'
  <2>1. Cardinality(taken') = Cardinality(taken) + 1
    BY <1>2, <1>6, BlocksFinite, FS_AddElement
  <2>2. Cardinality({newjob_p'} \ {NULL}) = Cardinality({newjob_p} \ {NULL})
    BY <1>2
  <2>3. Cardinality({newjob_p} \ {NULL}) \in Nat
    <3>1. Cardinality({newjob_p} \ {NULL}) = IF newjob_p = NULL THEN 0 ELSE 1
      BY NewCounts, Zenon
    <3> QED
      BY <3>1
  <2>4. Cardinality(taken) \in Nat /\ heap' = heap
    BY <1>2, BlocksFinite
  <2> QED
    BY <1>3, <2>1, <2>2, <2>3, <2>4 DEF BlocksCounted
<1>9. BlocksHoldJobs'
  <2>1. jobqueue' = [i \in 1..Len(order') |-> content'[order'[i]]]
    <3>1. jobqueue \in Seq(Jobs) /\ order \in Seq(Blocks) /\ jobqueue = [i \in 1..n |-> content[order[i]]]
      BY DEF IInv, TypeOK, ListTypeOK, BlocksHoldJobs
    <3>2. Tail(jobqueue) = [i \in 1..Len(Tail(order)) |-> content[Tail(order)[i]]]
      BY <1>2, <3>1, TailMap
    <3> QED
      BY <1>1, <1>2, <3>2
  <2>2. Holders' = Holders \cup {w}
    BY <1>1 DEF Holders, IInv, TypeOK
  <2>3. taken' = {held'[v] : v \in Holders'}
    BY <1>1, <1>2, <1>3, <2>2 DEF BlocksHoldJobs
  <2>4. \A v \in Workers : pc'[v] = "remove" => FALSE
    <3>1. ASSUME NEW v \in Workers, pc'[v] = "remove" PROVE FALSE
      <4>1. v # w /\ pc[v] = "remove"
        BY <1>1, <3>1 DEF IInv, TypeOK
      <4>2. mutex = v /\ mutex = w
        BY <1>1, <4>1 DEF IInv, MutexHeld
      <4> QED
        BY <4>1, <4>2
    <3> QED
      BY <3>1
  <2> QED
    BY <1>1, <1>2, <2>1, <2>3, <2>4 DEF BlocksHoldJobs
<1>10. EmptyingPhase'
  BY <1>1, <1>2 DEF EmptyingPhase
<1> QED
  BY <1>4, <1>5, <1>7, <1>8, <1>9, <1>10

\* free(job_p) by the worker
LEMMA FreeStep ==
  ASSUME ListIInv, NEW w \in Workers, FreeHeld(w)
  PROVE  ListInv'
<1> USE DEF ListIInv, ListInv
<1> DEFINE b == held[w]
<1>1. /\ UNCHANGED <<jobqueue, newJob, dpc>> /\ pc[w] = "run" /\ pc' = [pc EXCEPT ![w] = "loop"]
      /\ job_p' = [job_p EXCEPT ![w] = NoJob]
      /\ content' = [content EXCEPT ![b] = NoJob] /\ held' = [held EXCEPT ![w] = NULL]
  BY DEF FreeHeld, FinishJob, queueVars, adderVars, destroyVars
<1>2. /\ UNCHANGED <<head, tail, jobsN, newjob_p, curjob, emptying, order>>
      /\ b \in taken /\ taken' = taken \ {b} /\ heap' = heap \ {b}
  BY DEF FreeHeld, List!FreeTaken, List!Free
<1>3. PICK m \in Junk, p \in Junk : next' = [next EXCEPT ![b] = m] /\ prev' = [prev EXCEPT ![b] = p]
  BY DEF FreeHeld, List!FreeTaken, List!Free
<1>4. /\ b \in Blocks /\ b \notin Listed /\ b # newjob_p /\ w \in Holders /\ b \in heap
  BY <1>1, <1>2 DEF PlacesApart, ListTypeOK, Holders
<1>5. /\ content'[b] = NoJob /\ \A x \in Blocks : x # b => content'[x] = content[x]
      /\ \A x \in Blocks : x # b => next'[x] = next[x] /\ prev'[x] = prev[x]
  BY <1>1, <1>3, <1>4 DEF ListTypeOK
<1>6. /\ job_p'[w] = NoJob /\ pc'[w] = "loop"
      /\ \A v \in Workers : v # w => job_p'[v] = job_p[v] /\ held'[v] = held[v] /\ pc'[v] = pc[v]
  BY <1>1 DEF IInv, TypeOK, ListTypeOK
<1>7. Holders' = Holders \ {w} /\ Listed' = Listed
  BY <1>2, <1>6 DEF Holders, Listed
<1>8. ListTypeOK'
  <2>1. next' \in [Blocks -> Blocks \cup {NULL}] /\ prev' \in [Blocks -> Blocks \cup {NULL}]
    BY <1>3, ListAssumption DEF ListTypeOK
  <2> QED
    BY <1>1, <1>2, <2>1 DEF ListTypeOK
<1>9. ListLinked'
  <2>1. \A x \in Listed : next'[x] = next[x] /\ prev'[x] = prev[x]
    BY <1>4, <1>5, HeldBlocks
  <2> QED
    BY <1>2, <2>1, LinksStay
<1>10. PlacesApart'
  BY <1>2, <1>4, <1>7 DEF PlacesApart
<1>11. BlocksCounted'
  <2>1. Cardinality(taken') = Cardinality(taken) - 1 /\ Cardinality(heap') = Cardinality(heap) - 1
    BY <1>2, <1>4, BlocksFinite, FS_RemoveElement
  <2>2. Cardinality({newjob_p'} \ {NULL}) = Cardinality({newjob_p} \ {NULL})
    BY <1>2
  <2>3. Cardinality({newjob_p} \ {NULL}) \in Nat
    <3>1. Cardinality({newjob_p} \ {NULL}) = IF newjob_p = NULL THEN 0 ELSE 1
      BY NewCounts, Zenon
    <3> QED
      BY <3>1
  <2>4. Cardinality(taken) \in Nat /\ Cardinality(heap) \in Nat /\ Len(order') = Len(order) /\ Len(order) \in Nat
    BY <1>2, BlocksFinite, OrderFacts
  <2> QED
    BY <2>1, <2>2, <2>3, <2>4 DEF BlocksCounted
<1>12. BlocksHoldJobs'
  <2>1. jobqueue' = [i \in 1..Len(order') |-> content'[order'[i]]]
    <3>1. \A i \in 1..Len(order) : content'[order[i]] = content[order[i]]
      BY <1>4, <1>5, OrderFacts
    <3> QED
      BY <1>1, <1>2, <3>1 DEF BlocksHoldJobs
  <2>2. \A v \in Holders' : held'[v] = held[v] /\ held[v] # b
    BY <1>4, <1>6, <1>7, HeldBlocks
  <2>3. taken' = {held'[v] : v \in Holders'}
    <3>1. taken = {held[v] : v \in Holders}
      BY DEF BlocksHoldJobs
    <3> QED
      BY <1>2, <1>4, <1>7, <2>2, <3>1
  <2>4. ASSUME NEW v \in Workers, job_p'[v] # NoJob PROVE content'[held'[v]] = job_p'[v]
    <3>1. v # w /\ job_p[v] # NoJob /\ job_p'[v] = job_p[v] /\ held'[v] = held[v]
      BY <1>6, <2>4
    <3>2. pc[v] = "remove" \/ v \in Holders
      BY <3>1 DEF IInv, HandsFull, Holders
    <3>3. held[v] # b
      <4>1. CASE v \in Holders
        BY <1>4, <3>1, <4>1, HeldBlocks
      <4>2. CASE pc[v] = "remove"
        <5>1. held[v] = order[1] /\ order # <<>>
          BY <4>2 DEF BlocksHoldJobs
        <5>2. 1 \in 1..jobsN
          BY <5>1, OrderFacts
        <5> QED
          BY <1>4, <5>1, <5>2, OrderFacts
      <4> QED
        BY <3>2, <4>1, <4>2
    <3> QED
      BY <1>5, <3>1, <3>3, HeldBlocks DEF BlocksHoldJobs
  <2>5. \A v \in Workers : pc'[v] = "remove" => order' # <<>> /\ held'[v] = order'[1]
    BY <1>2, <1>6 DEF BlocksHoldJobs
  <2>6. \A x \in Adders : newJob'[x] # NoJob => newjob_p' # NULL /\ content'[newjob_p'] = newJob'[x]
    BY <1>1, <1>2, <1>4, <1>5 DEF BlocksHoldJobs, ListTypeOK
  <2> QED
    BY <2>1, <2>3, <2>4, <2>5, <2>6 DEF BlocksHoldJobs
<1>13. EmptyingPhase'
  BY <1>1, <1>2 DEF EmptyingPhase
<1> QED
  BY <1>8, <1>9, <1>10, <1>11, <1>12, <1>13

\* The entry of thpool_jobqueue_empty, when the workers have been joined.
LEMMA StartEmptyStep ==
  ASSUME ListIInv, StartEmptying
  PROVE  ListInv'
<1> USE DEF ListIInv, ListInv
<1>1. /\ UNCHANGED <<head, tail, jobsN, next, prev, heap, newjob_p, taken, order, content, held>>
      /\ UNCHANGED <<jobqueue, pc, job_p, newJob>> /\ dpc' \in {"empty", "emptied"} /\ emptying' = "loop"
      /\ curjob' = tail
  BY DEF StartEmptying, JoinAll, List!StartEmpty, List!links, List!callers, blockVars, queueVars, workerVars,
     adderVars
<1>2. ListTypeOK'
  BY <1>1 DEF ListTypeOK
<1>3. ListLinked'
  BY <1>1 DEF ListLinked
<1>4. PlacesApart' /\ BlocksCounted'
  BY <1>1 DEF PlacesApart, BlocksCounted, Listed
<1>5. BlocksHoldJobs'
  BY <1>1 DEF BlocksHoldJobs, Holders
<1>6. EmptyingPhase'
  BY <1>1 DEF EmptyingPhase, ListLinked
<1> QED
  BY <1>2, <1>3, <1>4, <1>5, <1>6

\* One iteration of thpool_jobqueue_empty. No worker has a job any more.
LEMMA EmptyOneStep ==
  ASSUME ListIInv, EmptyOneOfList
  PROVE  ListInv'
<1> USE DEF ListIInv, ListInv
<1> DEFINE b == curjob
           n == Len(order)
<1>1. /\ UNCHANGED <<pc, job_p, newJob>> /\ dpc = "empty" /\ dpc' \in {"empty", "emptied"}
      /\ jobqueue' = Tail(jobqueue)
      /\ content' = [content EXCEPT ![b] = NoJob] /\ held' = held
  BY DEF EmptyOneOfList, EmptyOne, workerVars, adderVars
<1>2. /\ List!EmptyOne /\ UNCHANGED <<head, newjob_p, taken, emptying>> /\ emptying = "loop" /\ curjob # NULL
      /\ order' = Tail(order) /\ heap' = heap \ {b} /\ tail' = prev[b] /\ curjob' = prev[b]
  BY DEF EmptyOneOfList, List!EmptyOne, List!Free, List!callers
<1>3. PICK m \in Junk, p \in Junk : next' = [next EXCEPT ![b] = m] /\ prev' = [prev EXCEPT ![b] = p]
  BY <1>2 DEF List!EmptyOne, List!Free
<1>4. order # <<>> /\ b = order[1] /\ b = tail
  BY <1>2 DEF EmptyingPhase, ListLinked
<1>5. /\ n >= 1 /\ order' \in Seq(Blocks) /\ Len(order') = n - 1 /\ n \in Nat /\ jobsN = n
      /\ b \in Blocks /\ b \in Listed
      /\ Listed = Listed' \cup {b} /\ b \notin Listed'
      /\ n # 1 => prev[b] = order'[1] /\ order'[1] \in Blocks
      /\ n = 1 => prev[b] = NULL
      /\ order' = <<>> <=> n = 1
      /\ \A i \in 1..(n - 1) : order[i + 1] \in Blocks /\ order[i + 1] # b
  BY <1>2, <1>4, TailFacts, OrderFacts
<1>6. \A w \in Workers : pc[w] = "done" /\ job_p[w] = NoJob
  BY <1>1 DEF IInv, DestroyPhases, HandsFull
<1>7. Holders = {} /\ Holders' = {}
  BY <1>1, <1>6 DEF Holders
<1>8. taken = {}
  BY <1>7 DEF BlocksHoldJobs
<1>9. b \in heap /\ b # newjob_p
  BY <1>5 DEF PlacesApart
<1>10. ListTypeOK'
  <2>1. next' \in [Blocks -> Blocks \cup {NULL}] /\ prev' \in [Blocks -> Blocks \cup {NULL}]
    BY <1>3, ListAssumption DEF ListTypeOK
  <2>2. prev[b] \in Blocks \cup {NULL}
    BY <1>5 DEF ListTypeOK
  <2>3. content' \in [Blocks -> Jobs \cup {NoJob}] /\ held' \in [Workers -> Blocks \cup {NULL}]
    BY <1>1 DEF ListTypeOK
  <2>4. order' \in Seq(Blocks) /\ {head', tail', newjob_p', curjob'} \subseteq Blocks \cup {NULL}
    BY <1>2, <1>5, <2>2 DEF ListTypeOK
  <2>5. heap' \subseteq Blocks /\ taken' \subseteq Blocks /\ emptying' \in {"no", "loop", "done", "crashed"}
    BY <1>2 DEF ListTypeOK
  <2> HIDE DEF ListIInv, ListInv
  <2> QED
    BY <2>1, <2>3, <2>4, <2>5 DEF ListTypeOK
<1>11. ListLinked'
  BY <1>2, <1>4, EmptyOneLinks
<1>12. PlacesApart'
  BY <1>2, <1>5, <1>8, <1>9 DEF PlacesApart
<1>13. BlocksCounted'
  <2>1. Cardinality(heap') = Cardinality(heap) - 1
    BY <1>2, <1>9, BlocksFinite, FS_RemoveElement
  <2>2. Cardinality({newjob_p'} \ {NULL}) = Cardinality({newjob_p} \ {NULL})
    BY <1>2
  <2>3. Cardinality({newjob_p} \ {NULL}) \in Nat
    <3>1. Cardinality({newjob_p} \ {NULL}) = IF newjob_p = NULL THEN 0 ELSE 1
      BY NewCounts, Zenon
    <3> QED
      BY <3>1
  <2>4. Cardinality(taken') = Cardinality(taken) /\ Cardinality(taken) \in Nat /\ Cardinality(heap) \in Nat
    BY <1>2, BlocksFinite
  <2> QED
    BY <1>5, <2>1, <2>2, <2>3, <2>4 DEF BlocksCounted
<1>14. BlocksHoldJobs'
  <2>1. jobqueue' = [i \in 1..Len(order') |-> content'[order'[i]]]
    <3>1. jobqueue \in Seq(Jobs) /\ order \in Seq(Blocks) /\ jobqueue = [i \in 1..n |-> content[order[i]]]
      BY DEF IInv, TypeOK, ListTypeOK, BlocksHoldJobs
    <3>2. \A i \in 1..(n - 1) : content'[order[i + 1]] = content[order[i + 1]]
      BY <1>1, <1>5 DEF ListTypeOK
    <3>3. Tail(jobqueue) = [i \in 1..Len(Tail(order)) |-> content'[Tail(order)[i]]]
      BY <1>4, <3>1, <3>2, TailMap
    <3> QED
      BY <1>1, <1>2, <3>3
  <2>2. taken' = {held'[w] : w \in Holders'}
    BY <1>2, <1>7, <1>8
  <2>3. \A w \in Workers : job_p'[w] = NoJob /\ pc'[w] # "remove"
    BY <1>1, <1>6
  <2>4. \A x \in Adders : newJob'[x] # NoJob => newjob_p' # NULL /\ content'[newjob_p'] = newJob'[x]
    BY <1>1, <1>2, <1>9 DEF BlocksHoldJobs, ListTypeOK
  <2> QED
    BY <2>1, <2>2, <2>3, <2>4 DEF BlocksHoldJobs
<1>15. EmptyingPhase'
  BY <1>1, <1>2, <1>5 DEF EmptyingPhase
<1> QED
  BY <1>10, <1>11, <1>12, <1>13, <1>14, <1>15

\* The end of thpool_jobqueue_empty, or the read through its null pointer.
LEMMA EndEmptyStep ==
  ASSUME ListIInv, EndEmptying
  PROVE  ListInv'
<1> USE DEF ListIInv, ListInv
<1>1. /\ UNCHANGED <<jobsN, next, prev, heap, newjob_p, taken, order, curjob, content, held>>
      /\ UNCHANGED <<jobqueue, pc, job_p, newJob>>
  BY DEF EndEmptying, FreePool, List!EmptyEnd, List!EmptyCrash, List!links, List!callers, blockVars, queueVars,
     workerVars, adderVars
<1>2. dpc = "emptied" /\ dpc' \in {"emptied", "freed"} /\ (jobqueue = <<>> => dpc' = "freed")
  BY DEF EndEmptying, FreePool
<1>3. jobsN = 0 <=> jobqueue = <<>>
  <2>1. jobqueue = [i \in 1..Len(order) |-> content[order[i]]] /\ jobqueue \in Seq(Jobs) /\ Len(order) \in Nat
        /\ jobsN = Len(order)
    BY OrderFacts DEF BlocksHoldJobs, IInv, TypeOK
  <2> QED
    BY <2>1
<1>4. \/ emptying' = "done" /\ tail' = NULL /\ head' = NULL /\ order = <<>> /\ dpc' = "freed"
      \/ emptying' = "crashed" /\ tail' = tail /\ head' = head
  BY <1>2, <1>3, OrderFacts DEF EndEmptying, List!EmptyEnd, List!EmptyCrash
<1>5. ListTypeOK'
  BY <1>1, <1>4 DEF ListTypeOK
<1>6. ListLinked'
  BY <1>1, <1>4 DEF ListLinked
<1>7. PlacesApart' /\ BlocksCounted'
  BY <1>1 DEF PlacesApart, BlocksCounted, Listed
<1>8. BlocksHoldJobs'
  BY <1>1 DEF BlocksHoldJobs, Holders
<1>9. EmptyingPhase'
  BY <1>1, <1>2, <1>4 DEF EmptyingPhase
<1> QED
  BY <1>5, <1>6, <1>7, <1>8, <1>9

\* A post lets a blocked worker go, which moves nobody in or out of the list.
LEMMA PostAside ==
  ASSUME TypeOK, SemPost
  PROVE  Holders' = Holders /\ \A w \in Workers : pc'[w] = "remove" => pc[w] = "remove"
<1>1. CASE pc' = pc
  BY <1>1 DEF Holders
<1>2. ASSUME NEW v \in Blocked, pc' = [pc EXCEPT ![v] = "woken"]
      PROVE  Holders' = Holders /\ \A w \in Workers : pc'[w] = "remove" => pc[w] = "remove"
  <2>1. pc[v] = "blocked" /\ pc'[v] = "woken" /\ \A w \in Workers : w # v => pc'[w] = pc[w]
    BY <1>2 DEF Blocked, TypeOK
  <2> QED
    BY <2>1 DEF Holders
<1> QED
  BY <1>1, <1>2 DEF SemPost

\* The steps of the pool that do not touch the list.
LEMMA AsideStep ==
  ASSUME ListIInv, UNCHANGED <<listVars, blockVars>>,
         \/ \E w \in Workers : LoopTest(w) \/ SemWait(w) \/ Recheck(w) \/ LockQueue(w) \/ UnlockQueue(w)
         \/ \E a \in Adders : AllocFails(a) \/ LockForAdd(a) \/ AddRaces(a) \/ PostJob(a) \/ UnlockAfterAdd(a)
         \/ StopKeepalive \/ PostOnce \/ SemDestroy
         \/ UNCHANGED vars
  PROVE  ListInv'
<1>0. TypeOK
  BY DEF ListIInv, IInv
<1>1. UNCHANGED <<jobqueue, job_p, newJob>>
  BY DEF LoopTest, SemWait, Recheck, LockQueue, UnlockQueue, AllocFails, LockForAdd, AddRaces, PostJob,
     UnlockAfterAdd, StopKeepalive, PostOnce, SemDestroy, vars, queueVars, workerVars, adderVars
<1>2. Holders' = Holders /\ \A w \in Workers : pc'[w] = "remove" => pc[w] = "remove"
  <2>1. ASSUME NEW w \in Workers, LoopTest(w) \/ SemWait(w) \/ Recheck(w) \/ LockQueue(w) \/ UnlockQueue(w)
        PROVE  Holders' = Holders /\ \A v \in Workers : pc'[v] = "remove" => pc[v] = "remove"
    <3>1. /\ \A v \in Workers : v # w => pc'[v] = pc[v]
          /\ \/ pc'[w] = pc[w]
             \/ pc[w] \in {"loop", "enter", "woken", "lock"}
                /\ pc'[w] \in {"enter", "done", "woken", "blocked", "lock", "peek"}
             \/ pc[w] = "unlock" /\ pc'[w] = "run"
      BY <1>0, <2>1 DEF LoopTest, SemWait, Recheck, LockQueue, UnlockQueue, TypeOK
    <3> QED
      BY <3>1 DEF Holders
  <2>2. ASSUME NEW a \in Adders,
               AllocFails(a) \/ LockForAdd(a) \/ AddRaces(a) \/ PostJob(a) \/ UnlockAfterAdd(a)
        PROVE  pc' = pc \/ SemPost
    BY <2>2 DEF AllocFails, LockForAdd, AddRaces, PostJob, UnlockAfterAdd, workerVars
  <2>3. StopKeepalive \/ PostOnce \/ SemDestroy \/ UNCHANGED vars => pc' = pc \/ SemPost
    BY DEF StopKeepalive, PostOnce, SemDestroy, vars, workerVars
  <2>4. pc' = pc => Holders' = Holders /\ \A w \in Workers : pc'[w] = "remove" => pc[w] = "remove"
    BY DEF Holders
  <2> QED
    BY <1>0, <2>1, <2>2, <2>3, <2>4, PostAside
<1>3. \/ dpc' = dpc
      \/ dpc \in {"idle", "post"} /\ dpc' \in {"post", "join"}
  BY DEF LoopTest, SemWait, Recheck, LockQueue, UnlockQueue, AllocFails, LockForAdd, AddRaces, PostJob,
     UnlockAfterAdd, StopKeepalive, PostOnce, SemDestroy, vars, destroyVars
<1> QED
  BY <1>1, <1>2, <1>3, ListAside

-----------------------------------------------------------------------------
(* The invariant *)

\* It holds at the start.
LEMMA ListInit0 ==
  ASSUME ListInit
  PROVE  ListIInv
<1>1. /\ order = <<>> /\ jobsN = 0 /\ head = NULL /\ tail = NULL /\ newjob_p = NULL /\ curjob = NULL
      /\ heap = {} /\ taken = {} /\ emptying = "no"
      /\ next \in [Blocks -> Junk] /\ prev \in [Blocks -> Junk]
      /\ content = [b \in Blocks |-> NoJob] /\ held = [w \in Workers |-> NULL]
  BY DEF ListInit, List!Init
<1>2. /\ jobqueue = <<>> /\ dpc = "idle" /\ pc = [w \in Workers |-> "loop"]
      /\ job_p = [w \in Workers |-> NoJob] /\ newJob = [a \in Adders |-> NoJob]
  BY DEF ListInit, Init
<1>3. IInv
  BY InitIInv DEF ListInit
<1>4. ListTypeOK
  BY <1>1, ListAssumption DEF ListTypeOK
<1>5. Listed = {} /\ Len(order) = 0
  BY <1>1 DEF Listed
<1>6. ListLinked
  BY <1>1, <1>5 DEF ListLinked
<1>7. PlacesApart
  BY <1>1, <1>5 DEF PlacesApart
<1>8. BlocksCounted
  <2>1. Cardinality(heap) = 0 /\ Cardinality(taken) = 0 /\ Cardinality({newjob_p} \ {NULL}) = 0
    BY <1>1, NewCounts, FS_EmptySet
  <2> QED
    BY <1>5, <2>1 DEF BlocksCounted
<1>9. BlocksHoldJobs
  <2>1. Holders = {}
    BY <1>2 DEF Holders
  <2>2. jobqueue = [i \in 1..Len(order) |-> content[order[i]]]
    BY <1>2, <1>5
  <2> QED
    BY <1>1, <1>2, <2>1, <2>2 DEF BlocksHoldJobs
<1>10. EmptyingPhase
  BY <1>1, <1>2 DEF EmptyingPhase
<1> QED
  BY <1>3, <1>4, <1>6, <1>7, <1>8, <1>9, <1>10 DEF ListIInv, ListInv

\* Every step of the pool on its list is a step of the pool.
LEMMA StepOfPool == [ListNext]_allVars => [Next]_vars
<1>1. \A w \in Workers : WorkerOnList(w) => Worker(w)
  BY DEF WorkerOnList, PeekTail, RemoveFromList, FreeHeld, Worker
<1>2. \A a \in Adders : AdderOnList(a) => Adder(a)
  BY DEF AdderOnList, AllocOnHeap, LinkInList, Adder
<1>3. DestroyerOnList => Destroyer
  BY DEF DestroyerOnList, StartEmptying, EmptyOneOfList, EndEmptying, Destroyer
<1>4. UNCHANGED allVars => UNCHANGED vars
  BY DEF allVars
<1> QED
  BY <1>1, <1>2, <1>3, <1>4 DEF ListNext, Next

\* The invariant of the pool on its list.
THEOREM ListInductive == ListSpec => []ListIInv
<1>1. ListInit => ListIInv
  BY ListInit0
<1>2. ListIInv /\ [ListNext]_allVars => ListIInv'
  <2> SUFFICES ASSUME ListIInv, [ListNext]_allVars PROVE ListIInv'
    OBVIOUS
  <2>0. IInv /\ ListInv
    BY DEF ListIInv
  <2>1. [Next]_vars /\ IInv'
    <3>1. [Next]_vars
      BY StepOfPool
    <3> QED
      BY <2>0, <3>1, NextIInv
  <2>2. ASSUME UNCHANGED allVars PROVE ListInv'
    <3>1. UNCHANGED <<listVars, blockVars>> /\ UNCHANGED vars
      BY <2>2 DEF allVars
    <3> QED
      BY <3>1, AsideStep
  <2>3. ASSUME NEW w \in Workers, WorkerOnList(w) PROVE ListInv'
    <3>1. CASE PeekTail(w)
      BY <2>0, <2>1, <3>1, PeekStep
    <3>2. CASE RemoveFromList(w)
      BY <2>0, <2>1, <3>2, RemoveStep
    <3>3. CASE FreeHeld(w)
      BY <2>0, <2>1, <3>3, FreeStep
    <3>4. CASE /\ LoopTest(w) \/ SemWait(w) \/ Recheck(w) \/ LockQueue(w) \/ UnlockQueue(w)
               /\ UNCHANGED <<listVars, blockVars>>
      BY <2>0, <2>1, <3>4, AsideStep
    <3> QED
      BY <2>3, <3>1, <3>2, <3>3, <3>4 DEF WorkerOnList
  <2>4. ASSUME NEW a \in Adders, AdderOnList(a) PROVE ListInv'
    <3>1. ASSUME NEW j \in Jobs, AllocOnHeap(a, j) PROVE ListInv'
      BY <2>0, <2>1, <3>1, AllocStep
    <3>2. CASE LinkInList(a)
      BY <2>0, <2>1, <3>2, LinkStep
    <3>3. CASE /\ AllocFails(a) \/ LockForAdd(a) \/ AddRaces(a) \/ PostJob(a) \/ UnlockAfterAdd(a)
               /\ UNCHANGED <<listVars, blockVars>>
      BY <2>0, <2>1, <3>3, AsideStep
    <3> QED
      BY <2>4, <3>1, <3>2, <3>3 DEF AdderOnList
  <2>5. ASSUME DestroyerOnList PROVE ListInv'
    <3>1. CASE StartEmptying
      BY <2>0, <2>1, <3>1, StartEmptyStep
    <3>2. CASE EmptyOneOfList
      BY <2>0, <2>1, <3>2, EmptyOneStep
    <3>3. CASE EndEmptying
      BY <2>0, <2>1, <3>3, EndEmptyStep
    <3>4. CASE (StopKeepalive \/ PostOnce \/ SemDestroy) /\ UNCHANGED <<listVars, blockVars>>
      BY <2>0, <2>1, <3>4, AsideStep
    <3> QED
      BY <2>5, <3>1, <3>2, <3>3, <3>4 DEF DestroyerOnList
  <2>6. ASSUME Over /\ UNCHANGED <<listVars, blockVars>> PROVE ListInv'
    BY <2>0, <2>1, <2>6, AsideStep DEF Over
  <2>7. ListInv'
    BY <2>2, <2>3, <2>4, <2>5, <2>6 DEF ListNext
  <2> QED
    BY <2>1, <2>7 DEF ListIInv
<1> QED
  BY <1>1, <1>2, PTL DEF ListSpec

-----------------------------------------------------------------------------
(* What the run checks. *)

\* ListIsQueue: the list is the pool's queue, each worker runs the job of the block it has
\* taken off it, and a block that is reused never changes a job under way (thpool.c).
THEOREM ListAlwaysIsQueue == ListSpec => []ListIsQueue
<1>1. ListIInv => ListIsQueue
  BY TailWalk DEF ListIInv, ListInv, BlocksHoldJobs, ListIsQueue
<1> QED
  BY <1>1, ListInductive, PTL

\* HeadWalkIsQueue: from head along next the list is the same backwards, until it is
\* emptied (thpool_jobqueue_add and _removelast).
THEOREM HeadWalkAlwaysIsQueue == ListSpec => []HeadWalkIsQueue
<1>1. ListIInv => HeadWalkIsQueue
  BY HeadWalk DEF ListIInv, ListInv
<1> QED
  BY <1>1, ListInductive, PTL

\* HeapAccounted: every allocated block is in the list, with a worker or about to be added,
\* and in one of these places only; when the queue is emptied none of its blocks is left.
THEOREM HeapAlwaysAccounted == ListSpec => []HeapAccounted
<1>1. ListIInv => HeapAccounted
  <2> SUFFICES ASSUME ListIInv PROVE HeapAccounted
    OBVIOUS
  <2>1. emptying = "done" => Listed = {}
    <3>1. order = <<>> => \A i \in 1..Len(order) : FALSE
      OBVIOUS
    <3> QED
      BY <3>1 DEF ListIInv, ListInv, EmptyingPhase, Listed
  <2>2. PlacesApart /\ BlocksCounted
    BY DEF ListIInv, ListInv
  <2>3. heap = Listed \cup taken \cup ({newjob_p} \ {NULL})
    BY <2>2 DEF PlacesApart
  <2>4. Cardinality(heap) = Len(order) + Cardinality(taken) + Cardinality({newjob_p} \ {NULL})
    BY <2>2 DEF BlocksCounted
  <2>5. /\ heap = {order[i] : i \in 1..Len(order)} \cup taken \cup ({newjob_p} \ {NULL})
        /\ emptying = "done" => {order[i] : i \in 1..Len(order)} = {}
    BY <2>1, <2>3 DEF Listed
  <2>6. \A S : List!Cardinality(S) = Cardinality(S)
    BY DEF List!Cardinality, Cardinality
  <2> QED
    BY <2>4, <2>5, <2>6, Zenon DEF HeapAccounted, List!HeapAccounted
<1> QED
  BY <1>1, ListInductive, PTL

\* The composition is the pool: it only adds the list (and the pool's theorems hold of it).
THEOREM ListRefinesPool == ListSpec => Spec
<1>1. ListInit => Init
  BY DEF ListInit
<1> QED
  BY <1>1, StepOfPool, PTL DEF ListSpec, Spec

=============================================================================
