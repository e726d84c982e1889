---------------------------- MODULE FileHashProofs ----------------------------
(***************************************************************************)
(* Theorems about the hash of a file, for any file, any size of a block,   *)
(* of a word of the bit count and of a piece, and wherever reads fail: the *)
(* context always holds exactly the bytes SHA1Update was given, and what   *)
(* SHA1Transform has been given in the end is the padded message. The      *)
(* invariant that is inductive is HashInv; most of the work is in          *)
(* UpdateStep, what SHA1Update does to the context.                        *)
(*                                                                         *)
(* And about the digest: SHA1Transform is the standard's function of the   *)
(* words of a block (RoundStep, with what the variables and the sixteen    *)
(* words stand for in each round), so that what getFileHash returns is     *)
(* SHA-1 of the file, but for the order of the bytes in a word.            *)
(***************************************************************************)
EXTENDS FileHash, SequenceTheorems, WellFoundedInduction, TLAPS

-----------------------------------------------------------------------------
(* The inductive invariant. *)

\* count is the number of bits that went into the context, in every phase.
CountOfStream == count.high * Low + count.low = Len(Stream) * Bits

\* SHA1Final adds the mark and the zeros to the whole file, and the number of bits,
\* written down before, at last.
PaddingSoFar ==
  /\ pc \in {"open", "no file"} => read = 0 /\ Stream = <<>>
  /\ pc \in {"final", "pad", "length", "done"} => read = Len(file)
  /\ pc = "pad" => \E zeros \in 0..Zeros : Stream = Marked(zeros)
  /\ pc = "length" => Stream = Marked(Zeros)
  /\ pc \in {"pad", "length"} => final = LengthField

HashInv ==
  /\ TypeOK
  /\ CountOfStream
  /\ BlocksAreFile
  /\ PaddingSoFar
  /\ HashedIsPadded

-----------------------------------------------------------------------------
(* Division with a remainder, and the two words of the bit count. *)

\* The quotient and the remainder, and that they make up the number.
LEMMA DivMod ==
  ASSUME NEW a \in Nat, NEW b \in Nat \ {0}
  PROVE  /\ a \div b \in Nat /\ a % b \in 0..(b - 1)
         /\ a = (a \div b) * b + (a % b)
OBVIOUS

\* A positive multiple is at least as large as what is multiplied.
LEMMA ProductOfSuccessor ==
  ASSUME NEW b \in Nat \ {0}, NEW d \in Nat \ {0}
  PROVE  d * b >= b
OBVIOUS

\* A number's only way of being a multiple and a rest is div and mod.
LEMMA DivModUnique ==
  ASSUME NEW b \in Nat \ {0}, NEW q \in Nat, NEW r \in 0..(b - 1)
  PROVE  /\ (q * b + r) % b = r
         /\ (q * b + r) \div b = q
<1> DEFINE a == q * b + r
           p == a \div b
           s == a % b
<1>0. q * b \in Nat /\ a \in Nat
  OBVIOUS
<1>1. p \in Nat /\ s \in 0..(b - 1) /\ a = p * b + s
  BY <1>0, DivMod
<1> HIDE DEF p, s
<1>2. (p - q) * b = r - s /\ (q - p) * b = s - r
  BY <1>1
<1>3. r - s < b /\ s - r < b
  BY <1>1
<1>4. ~(p > q)
  <2> SUFFICES ASSUME p > q PROVE FALSE
    OBVIOUS
  <2>1. p - q \in Nat \ {0}
    BY <1>1
  <2>2. (p - q) * b >= b
    BY <2>1, ProductOfSuccessor
  <2> QED
    BY <1>1, <1>2, <1>3, <2>2
<1>5. ~(q > p)
  <2> SUFFICES ASSUME q > p PROVE FALSE
    OBVIOUS
  <2>1. q - p \in Nat \ {0}
    BY <1>1
  <2>2. (q - p) * b >= b
    BY <2>1, ProductOfSuccessor
  <2> QED
    BY <1>1, <1>2, <1>3, <2>2
<1>6. p = q
  BY <1>1, <1>4, <1>5
<1>7. s = r
  BY <1>1, <1>6
<1> QED
  BY <1>6, <1>7 DEF p, s

\* Only the remainder of what was there matters for the place after a sum.
LEMMA ModOfSum ==
  ASSUME NEW a \in Nat, NEW n \in Nat, NEW b \in Nat \ {0}
  PROVE  ((a % b) + n) % b = (a + n) % b
<1> DEFINE q == a \div b
           r == a % b
           p == (r + n) \div b
           s == (r + n) % b
<1>1. q \in Nat /\ r \in Nat /\ a = q * b + r
  BY DivMod
<1>2. r + n \in Nat
  BY <1>1
<1> HIDE DEF q, r
<1>3. p \in Nat /\ s \in 0..(b - 1) /\ r + n = p * b + s
  BY <1>2, DivMod
<1> HIDE DEF p, s
<1>4. a + n = (q + p) * b + s /\ q + p \in Nat
  BY <1>1, <1>3
<1>5. (a + n) % b = s
  BY <1>3, <1>4, DivModUnique
<1> QED
  BY <1>5 DEF s, r

\* count[0] and count[1] hold the number of bits.
LEMMA CountGrows ==
  ASSUME NEW n \in Nat, count.low \in 0..(Low - 1), count.high \in Nat
  PROVE  /\ Count(n).low \in 0..(Low - 1) /\ Count(n).high \in Nat
         /\ Count(n).high * Low + Count(n).low = count.high * Low + count.low + n * Bits
<1> DEFINE w == n * Bits
           d == w \div Low
           m == w % Low
           low == count.low
           low1 == (low + w) % Low
           carry == IF low1 < m THEN 1 ELSE 0
<1>0. Low \in Nat \ {0} /\ Bits \in Nat \ {0} /\ w \in Nat
  BY HashAssumption
<1>1. d \in Nat /\ m \in 0..(Low - 1) /\ w = d * Low + m
  BY <1>0, DivMod
<1>2. Count(n) = [low |-> low1, high |-> count.high + carry + d]
  BY DEF Count
<1>3. low \in 0..(Low - 1)
  OBVIOUS
<1> HIDE DEF w, d, m, low
<1>4. CASE low + m < Low
  <2>1. low + w = d * Low + (low + m) /\ low + m \in 0..(Low - 1)
    BY <1>0, <1>1, <1>3, <1>4
  <2>2. low1 = low + m
    <3>1. (d * Low + (low + m)) % Low = low + m
      BY <1>0, <1>1, <2>1, DivModUnique
    <3> QED
      BY <2>1, <3>1
  <2>3. carry = 0
    BY <1>0, <1>1, <1>3, <2>2
  <2>4. (count.high + 0 + d) * Low = count.high * Low + d * Low
    BY <1>0, <1>1
  <2> HIDE DEF low1, carry
  <2> QED
    BY <1>0, <1>1, <1>2, <1>3, <2>1, <2>2, <2>3, <2>4 DEF low, w
<1>5. CASE ~(low + m < Low)
  <2>1. (d + 1) * Low = d * Low + Low
    BY <1>0, <1>1
  <2>2. low + w = (d + 1) * Low + (low + m - Low) /\ low + m - Low \in 0..(Low - 1) /\ d + 1 \in Nat
    BY <1>0, <1>1, <1>3, <1>5, <2>1
  <2>3. low1 = low + m - Low
    BY <1>0, <2>2, DivModUnique
  <2>4. carry = 1
    BY <1>0, <1>1, <1>3, <2>3
  <2>5. (count.high + 1 + d) * Low = count.high * Low + (d + 1) * Low
    BY <1>0, <1>1
  <2> HIDE DEF low1, carry
  <2> QED
    BY <1>0, <1>1, <1>2, <1>3, <2>1, <2>2, <2>3, <2>4, <2>5 DEF low, w
<1> QED
  BY <1>4, <1>5

\* The place in the buffer follows from the number of bytes counted.
LEMMA PlaceOfCount ==
  ASSUME NEW total \in Nat, NEW c, c.low \in 0..(Low - 1), c.high \in Nat,
         c.high * Low + c.low = total * Bits
  PROVE  (c.low \div Bits) % Block = total % Block
<1>0. Low \in Nat \ {0} /\ Bits \in Nat \ {0} /\ Block \in Nat \ {0} /\ Low % (Block * Bits) = 0
  BY HashAssumption DEF Field
<1> DEFINE b == Block * Bits
<1>1. b \in Nat \ {0} /\ Low % b = 0
  BY <1>0
<1> DEFINE d == Low \div b
           k == c.high * d
           rest == total - k * Block
<1> HIDE DEF b
<1>2. d \in Nat /\ Low = d * b
  <2>1. d \in Nat /\ Low = d * b + (Low % b)
    BY <1>0, <1>1, DivMod
  <2> HIDE DEF d
  <2> QED
    BY <1>1, <2>1
<1> HIDE DEF d
<1>3. k \in Nat /\ c.high * Low = (k * Block) * Bits /\ k * Block \in Nat
  <2>1. k \in Nat /\ k * Block \in Nat
    BY <1>0, <1>2
  <2>2. c.high * (d * (Block * Bits)) = ((c.high * d) * Block) * Bits
    BY <1>0, <1>2
  <2> QED
    BY <1>2, <2>1, <2>2 DEF b
<1> HIDE DEF k
<1>4. rest \in Int /\ c.low = rest * Bits
  BY <1>0, <1>3
<1>5. rest \in Nat
  BY <1>0, <1>4
<1>6. rest * Bits + 0 = rest * Bits /\ 0 \in 0..(Bits - 1)
  BY <1>0, <1>5
<1>7. c.low \div Bits = rest
  BY <1>0, <1>4, <1>5, <1>6, DivModUnique
<1> DEFINE q == rest \div Block
           r == rest % Block
<1>8. q \in Nat /\ r \in 0..(Block - 1) /\ rest = q * Block + r
  BY <1>0, <1>5, DivMod
<1>9. (c.low \div Bits) % Block = r
  BY <1>7
<1>10. total = rest + k * Block
  BY <1>3
<1> HIDE DEF rest, q, r
<1>11. total = (q + k) * Block + r /\ q + k \in Nat
  BY <1>0, <1>3, <1>8, <1>10
<1>12. total % Block = r
  BY <1>0, <1>8, <1>11, DivModUnique
<1> QED
  BY <1>9, <1>12

-----------------------------------------------------------------------------
(* Parts of sequences *)

\* A part of a sequence, its length and its elements.
LEMMA Part ==
  ASSUME NEW S, NEW s \in Seq(S), NEW m \in 1..(Len(s) + 1), NEW n \in (m - 1)..Len(s)
  PROVE  /\ SubSeq(s, m, n) \in Seq(S) /\ Len(SubSeq(s, m, n)) = n - m + 1
         /\ \A i \in 1..(n - m + 1) : SubSeq(s, m, n)[i] = s[m + i - 1]
<1>1. Len(s) \in Nat /\ m \in Int /\ n \in Int /\ \A i \in m..n : s[i] \in S
  OBVIOUS
<1> QED
  BY <1>1, SubSeqProperties

\* s \o t as the provers should see it: a term, not a function to be expanded.
Cat(s, t) == s \o t

\* What is put together of two sequences, and how long it is.
LEMMA CatType ==
  ASSUME NEW S, NEW s \in Seq(S), NEW t \in Seq(S)
  PROVE  Cat(s, t) \in Seq(S) /\ Len(Cat(s, t)) = Len(s) + Len(t)
BY ConcatProperties DEF Cat

\* Putting together is associative.
LEMMA CatAssociative ==
  ASSUME NEW S, NEW a \in Seq(S), NEW b \in Seq(S), NEW c \in Seq(S)
  PROVE  Cat(Cat(a, b), c) = Cat(a, Cat(b, c))
BY ConcatAssociative DEF Cat

\* The elements of a concatenation are those of the one, then those of the other.
LEMMA CatElement ==
  ASSUME NEW S, NEW s \in Seq(S), NEW t \in Seq(S)
  PROVE  \A i \in 1..Len(Cat(s, t)) :
           Cat(s, t)[i] = IF i <= Len(s) THEN s[i] ELSE t[i - Len(s)]
BY ConcatProperties DEF Cat

\* Appending to the second appends to the whole.
LEMMA CatAppend ==
  ASSUME NEW S, NEW s \in Seq(S), NEW t \in Seq(S), NEW e \in S
  PROVE  Cat(s, Append(t, e)) = Append(Cat(s, t), e)
<1> DEFINE te == Append(t, e)
           st == Cat(s, t)
           one == <<e>>
<1>1. te = Cat(t, one) /\ one \in Seq(S)
  BY AppendIsConcat DEF Cat
<1>2. Append(st, e) = Cat(st, one)
  <2>1. st \in Seq(S)
    BY CatType
  <2> HIDE DEF st
  <2> QED
    BY <2>1, AppendIsConcat DEF Cat
<1> HIDE DEF te, one
<1>3. Cat(st, one) = Cat(s, Cat(t, one))
  BY <1>1, CatAssociative
<1> HIDE DEF st
<1>4. Cat(s, te) = Append(st, e)
  BY <1>1, <1>2, <1>3, Zenon
<1> QED
  BY <1>4 DEF te, st

\* Nothing added is nothing changed.
LEMMA CatEmpty ==
  ASSUME NEW S, NEW s \in Seq(S)
  PROVE  Cat(s, <<>>) = s /\ Cat(<<>>, s) = s
BY ConcatEmptySeq DEF Cat

\* The first sequence is the beginning of the whole.
LEMMA CatPrefix ==
  ASSUME NEW S, NEW s \in Seq(S), NEW t \in Seq(S)
  PROVE  SubSeq(Cat(s, t), 1, Len(s)) = s
<1> DEFINE u == Cat(s, t)
           v == SubSeq(u, 1, Len(s))
<1>1. u \in Seq(S) /\ Len(u) = Len(s) + Len(t) /\ \A i \in 1..Len(s) : u[i] = s[i]
  BY ConcatProperties DEF Cat
<1> HIDE DEF u
<1>2. v \in Seq(S) /\ Len(v) = Len(s) /\ \A i \in 1..Len(s) : v[i] = u[i]
  <2>1. Len(s) \in Nat /\ Len(t) \in Nat
    OBVIOUS
  <2>2. 1 \in 1..(Len(u) + 1) /\ Len(s) \in (1 - 1)..Len(u)
    BY <1>1, <2>1
  <2>3. Len(s) - 1 + 1 = Len(s) /\ \A i \in 1..Len(s) : 1 + i - 1 = i
    BY <2>1
  <2> QED
    BY <1>1, <2>2, <2>3, Part
<1> HIDE DEF v
<1>3. v = s
  BY <1>1, <1>2, SeqEqual
<1> QED
  BY <1>3 DEF u, v

\* The buffer's head and the three parts of the data, as they are digested and as they came.
LEMMA Regroup ==
  ASSUME NEW S, NEW s \in Seq(S), NEW head \in Seq(S), NEW front \in Seq(S),
         NEW mid \in Seq(S), NEW tail \in Seq(S)
  PROVE  Cat(Cat(Cat(s, Cat(head, front)), mid), tail)
           = Cat(Cat(s, head), Cat(Cat(front, mid), tail))
<1> DEFINE x == Cat(s, head)
           y == Cat(front, mid)
<1>1. x \in Seq(S) /\ y \in Seq(S)
  BY CatType
<1>2. Cat(s, Cat(head, front)) = Cat(x, front)
  BY CatAssociative
<1>3. Cat(Cat(x, front), mid) = Cat(x, y)
  BY <1>1, CatAssociative
<1>4. Cat(Cat(x, y), tail) = Cat(x, Cat(y, tail))
  BY <1>1, CatAssociative
<1> QED
  BY <1>2, <1>3, <1>4

\* memcpy into the buffer behind its used part: no overrun, and the used part grows by the data.
LEMMA PutFits ==
  ASSUME NEW S, NEW buf \in Seq(S), Len(buf) = Block, NEW at \in 0..Block,
         NEW data \in Seq(S), at + Len(data) <= Block
  PROVE  /\ Put(buf, at, data) \in Seq(S) /\ Len(Put(buf, at, data)) = Block
         /\ SubSeq(Put(buf, at, data), 1, at + Len(data)) = Cat(SubSeq(buf, 1, at), data)
<1> DEFINE a == SubSeq(buf, 1, at)
           n == Len(data)
           b == SubSeq(buf, at + n + 1, Block)
           p == Put(buf, at, data)
           ad == Cat(a, data)
<1>0. Block \in Nat /\ n \in Nat
  BY HashAssumption
<1>1. a \in Seq(S) /\ Len(a) = at
  BY <1>0, Part
<1>2. b \in Seq(S) /\ Len(b) = Block - (at + n)
  <2>1. at + n + 1 \in 1..(Len(buf) + 1) /\ Block \in ((at + n + 1) - 1)..Len(buf)
    BY <1>0
  <2>2. Block - (at + n + 1) + 1 = Block - (at + n)
    BY <1>0
  <2> QED
    BY <2>1, <2>2, Part
<1>3. p = Cat(ad, b)
  BY DEF Put, Cat
<1> HIDE DEF a, b, p
<1>4. ad \in Seq(S) /\ Len(ad) = at + n
  BY <1>1, CatType
<1> HIDE DEF ad
<1>5. p \in Seq(S) /\ Len(p) = Block
  <2>1. p \in Seq(S)
    BY <1>2, <1>3, <1>4, CatType
  <2>2. Len(p) = Len(ad) + Len(b)
    BY <1>2, <1>3, <1>4, CatType
  <2>3. Len(ad) + Len(b) = Block
    BY <1>0, <1>2, <1>4
  <2> QED
    BY <2>1, <2>2, <2>3
<1>6. SubSeq(p, 1, at + n) = ad
  BY <1>2, <1>3, <1>4, CatPrefix
<1> QED
  BY <1>5, <1>6 DEF a, ad, p

-----------------------------------------------------------------------------
(* The blocks one after the other. *)

\* A set of natural numbers has a least one: induction, in the form the provers can use.
LEMMA LeastNat ==
  ASSUME NEW S, S \subseteq Nat, S # {}
  PROVE  \E x \in S : \A y \in S : ~(y < x)
<1> DEFINE R == OpToRel(<, Nat)
<1>1. IsWellFoundedOn(R, Nat)
  BY NatLessThanWellFounded
<1>2. \A x, y \in Nat : y < x => <<y, x>> \in R
  BY DEF OpToRel
<1> HIDE DEF R
<1>3. PICK x \in S : \A y \in S : <<y, x>> \notin R
  BY <1>1, WFMin
<1> QED
  BY <1>2, <1>3

\* f[i] is the concatenation of the first i sequences of s.
Flattens(f, s, S) ==
  /\ f \in [1..Len(s) -> Seq(S)]
  /\ \A i \in 1..Len(s) : f[i] = IF i = 1 THEN s[i] ELSE f[i - 1] \o s[i]

\* FlattenSeq chooses a function with its equation: there is no other.
LEMMA FlattenedBy ==
  ASSUME NEW S, NEW s \in Seq(Seq(S)), s # <<>>, NEW f, Flattens(f, s, S)
  PROVE  FlattenSeq(s) = f[Len(s)]
<1> DEFINE n == Len(s)
           step(h) == [i \in 1..n |-> IF i = 1 THEN s[i] ELSE h[i - 1] \o s[i]]
           g == CHOOSE h : h = step(h)
<1>0. n \in Nat /\ n # 0 /\ n \in 1..n
  OBVIOUS
<1>1. f = step(f)
  BY DEF Flattens
<1>2. g = step(g)
  BY <1>1
<1>3. FlattenSeq(s) = g[n]
  BY <1>0 DEF FlattenSeq
<1> HIDE DEF g
<1>4. \A i \in 1..n : g[i] = IF i = 1 THEN s[i] ELSE g[i - 1] \o s[i]
  BY <1>2
<1>5. \A i \in 1..n : f[i] = IF i = 1 THEN s[i] ELSE f[i - 1] \o s[i]
  BY DEF Flattens
<1>6. \A i \in 1..n : g[i] = f[i]
  <2> DEFINE bad == {i \in 1..n : g[i] # f[i]}
  <2>1. SUFFICES ASSUME bad # {} PROVE FALSE
    OBVIOUS
  <2>2. PICK i \in bad : \A k \in bad : ~(k < i)
    <3>1. bad \subseteq Nat
      OBVIOUS
    <3> HIDE DEF bad
    <3> QED
      BY <2>1, <3>1, LeastNat
  <2>3. i \in 1..n /\ g[i] # f[i]
    BY <2>2
  <2>4. i # 1
    BY <1>4, <1>5, <2>3
  <2>5. i - 1 \in 1..n /\ i - 1 < i
    BY <2>3, <2>4
  <2>6. g[i - 1] = f[i - 1]
    BY <2>2, <2>5
  <2> QED
    BY <1>4, <1>5, <2>3, <2>4, <2>6
<1> QED
  BY <1>0, <1>3, <1>6

\* One more sequence, one more step of the function.
LEMMA FlattenExtends ==
  ASSUME NEW S, NEW s \in Seq(Seq(S)), NEW b \in Seq(S), NEW f, Flattens(f, s, S)
  PROVE  \E g : /\ Flattens(g, Append(s, b), S)
                /\ g[Len(s) + 1] = IF s = <<>> THEN b ELSE f[Len(s)] \o b
<1> DEFINE n == Len(s)
           t == Append(s, b)
           last == IF s = <<>> THEN b ELSE f[n] \o b
           g == [i \in 1..(n + 1) |-> IF i = n + 1 THEN last ELSE f[i]]
<1>1. n \in Nat /\ Len(t) = n + 1 /\ t[n + 1] = b /\ \A i \in 1..n : t[i] = s[i]
  OBVIOUS
<1>2. s # <<>> => n \in 1..n /\ n # 0
  OBVIOUS
<1>3. s = <<>> => n = 0
  OBVIOUS
<1>4. f \in [1..n -> Seq(S)] /\ \A i \in 1..n : f[i] = IF i = 1 THEN s[i] ELSE f[i - 1] \o s[i]
  BY DEF Flattens
<1>5. last \in Seq(S)
  <2>1. s # <<>> => f[n] \in Seq(S)
    BY <1>2, <1>4
  <2> QED
    BY <2>1, ConcatProperties
<1> HIDE DEF last, t, n
<1>6. g \in [1..(n + 1) -> Seq(S)]
  <2>1. \A i \in 1..(n + 1) : i = n + 1 \/ i \in 1..n
    BY <1>1
  <2> QED
    BY <1>4, <1>5, <2>1
<1>7. ASSUME NEW i \in 1..(n + 1) PROVE g[i] = IF i = 1 THEN t[i] ELSE g[i - 1] \o t[i]
  <2>1. CASE i = n + 1
    <3>1. CASE s = <<>>
      BY <1>1, <1>3, <2>1, <3>1 DEF last
    <3>2. CASE s # <<>>
      <4>1. i - 1 = n /\ i # 1 /\ n \in 1..(n + 1) /\ n # n + 1 /\ i \in 1..(n + 1)
        BY <1>1, <1>2, <2>1, <3>2
      <4>2. g[i] = last /\ g[i - 1] = f[n]
        BY <2>1, <4>1
      <4> QED
        BY <1>1, <2>1, <3>2, <4>1, <4>2 DEF last, n
    <3> QED
      BY <3>1, <3>2
  <2>2. CASE i # n + 1
    <3>1. i \in 1..n
      BY <1>1, <2>2
    <3>2. i # 1 => i - 1 \in 1..n /\ i - 1 \in 1..(n + 1) /\ i - 1 # n + 1
      BY <1>1, <3>1
    <3>3. g[i] = f[i] /\ (i # 1 => g[i - 1] = f[i - 1])
      BY <2>2, <3>2
    <3> QED
      BY <1>1, <1>4, <3>1, <3>3
  <2> QED
    BY <2>1, <2>2
<1>8. Flattens(g, t, S)
  BY <1>1, <1>6, <1>7 DEF Flattens
<1>9. g[n + 1] = last
  BY <1>1
<1> QED
  BY <1>8, <1>9 DEF n, t, last

\* There is such a function, by the shortest sequence that has none.
LEMMA FlattenedExists ==
  ASSUME NEW S, NEW s \in Seq(Seq(S))
  PROVE  \E f : Flattens(f, s, S)
<1> DEFINE Good(t) == \E f : Flattens(f, t, S)
           bad == {n \in Nat : \E t \in Seq(Seq(S)) : Len(t) = n /\ ~Good(t)}
<1> HIDE DEF Good
<1>1. bad = {}
  <2> SUFFICES ASSUME bad # {} PROVE FALSE
    OBVIOUS
  <2>1. PICK n \in bad : \A m \in bad : ~(m < n)
    <3>1. bad \subseteq Nat
      OBVIOUS
    <3> HIDE DEF bad
    <3> QED
      BY <3>1, LeastNat
  <2>2. PICK t \in Seq(Seq(S)) : Len(t) = n /\ ~Good(t)
    BY <2>1
  <2>3. t # <<>>
    <3> SUFFICES ASSUME t = <<>> PROVE Good(t)
      BY <2>2
    <3>1. Flattens(<<>>, <<>>, S)
      BY DEF Flattens
    <3> QED
      BY <3>1 DEF Good
  <2>4. PICK u \in Seq(Seq(S)), b \in Seq(S) : t = Append(u, b)
    BY <2>3, SequenceEmptyOrAppend
  <2>5. Len(u) \in Nat /\ Len(u) < n
    BY <2>2, <2>4
  <2>6. Good(u)
    BY <2>1, <2>5
  <2>7. Good(t)
    BY <2>4, <2>6, FlattenExtends DEF Good
  <2> QED
    BY <2>2, <2>7
<1>2. Good(s)
  <2>1. Len(s) \in Nat
    OBVIOUS
  <2> QED
    BY <1>1, <2>1
<1> QED
  BY <1>2 DEF Good

\* What one more block adds to the bytes of the blocks.
LEMMA FlattenAppend ==
  ASSUME NEW S, NEW s \in Seq(Seq(S)), NEW b \in Seq(S)
  PROVE  /\ FlattenSeq(s) \in Seq(S)
         /\ FlattenSeq(Append(s, b)) = Cat(FlattenSeq(s), b)
<1>1. PICK f : Flattens(f, s, S)
  BY FlattenedExists
<1>2. PICK g : /\ Flattens(g, Append(s, b), S)
               /\ g[Len(s) + 1] = IF s = <<>> THEN b ELSE f[Len(s)] \o b
  BY <1>1, FlattenExtends
<1>3. Append(s, b) \in Seq(Seq(S)) /\ Append(s, b) # <<>> /\ Len(Append(s, b)) = Len(s) + 1
  BY AppendProperties
<1>4. FlattenSeq(Append(s, b)) = g[Len(s) + 1]
  BY <1>2, <1>3, FlattenedBy
<1>5. CASE s = <<>>
  <2>1. FlattenSeq(s) = <<>>
    BY <1>5 DEF FlattenSeq
  <2>2. <<>> \o b = b /\ <<>> \in Seq(S)
    BY ConcatEmptySeq
  <2>3. FlattenSeq(Append(s, b)) = b
    BY <1>2, <1>4, <1>5
  <2> QED
    BY <2>1, <2>2, <2>3 DEF Cat
<1>6. CASE s # <<>>
  <2>1. FlattenSeq(s) = f[Len(s)]
    BY <1>1, <1>6, FlattenedBy
  <2>2. Len(s) \in 1..Len(s)
    BY <1>6
  <2>3. f[Len(s)] \in Seq(S)
    BY <1>1, <2>2 DEF Flattens
  <2>4. f[Len(s)] \o b \in Seq(S)
    BY <2>3, ConcatProperties
  <2>5. g[Len(s) + 1] = f[Len(s)] \o b
    BY <1>2, <1>6
  <2>6. FlattenSeq(Append(s, b)) = FlattenSeq(s) \o b
    BY <1>3, <1>4, <2>1, <2>5
  <2>7. FlattenSeq(s) \in Seq(S)
    BY <2>1, <2>3
  <2> QED
    BY <2>6, <2>7 DEF Cat
<1> QED
  BY <1>5, <1>6

\* One more whole block of data is the next Block bytes of it.
LEMMA OneMoreWhole ==
  ASSUME NEW S, NEW data \in Seq(S), NEW from \in Nat, NEW k \in Nat,
         from + (k + 1) * Block <= Len(data)
  PROVE  LET block == SubSeq(data, from + k * Block + 1, from + (k + 1) * Block)
         IN  /\ block \in Seq(S) /\ Len(block) = Block
             /\ Whole(data, from, k + 1) = Append(Whole(data, from, k), block)
             /\ SubSeq(data, from + 1, from + (k + 1) * Block)
                  = Cat(SubSeq(data, from + 1, from + k * Block), block)
<1> DEFINE block == SubSeq(data, from + k * Block + 1, from + (k + 1) * Block)
           n == k * Block
<1>0. Block \in Nat \ {0} /\ n \in Nat /\ (k + 1) * Block = n + Block /\ Len(data) \in Nat
  BY HashAssumption DEF Field
<1>1. block = SubSeq(data, from + n + 1, from + n + Block)
  BY <1>0
<1> HIDE DEF n
<1>2. \A i \in (from + n + 1)..(from + n + Block) : data[i] \in S
  BY <1>0
<1>3. block \in Seq(S) /\ Len(block) = Block
  BY <1>0, <1>1, <1>2, SubSeqProperties
<1>4. Whole(data, from, k + 1) = Append(Whole(data, from, k), block)
  <2> DEFINE w(b) == SubSeq(data, from + (b-1) * Block + 1, from + b * Block)
  <2>1. w(k + 1) = block
    <3>1. (k + 1) - 1 = k
      OBVIOUS
    <3> QED
      BY <3>1
  <2> HIDE DEF w, block
  <2>2. [b \in 1..(k + 1) |-> w(b)] = Append([b \in 1..k |-> w(b)], block)
    BY <2>1
  <2> QED
    BY <2>2 DEF Whole, w
<1>5. SubSeq(data, from + 1, from + n) \o SubSeq(data, from + n + 1, from + n + Block)
        = SubSeq(data, from + 1, from + n + Block)
  <2>1. /\ from + 1 \in 1..(Len(data) + 1)
        /\ from + n \in ((from + 1) - 1)..Len(data)
        /\ from + n + Block \in (from + n)..Len(data)
    BY <1>0
  <2> QED
    BY <2>1, ConcatAdjacentSubSeq
<1>6. SubSeq(data, from + 1, from + (k + 1) * Block) = SubSeq(data, from + 1, from + k * Block) \o block
  BY <1>0, <1>1, <1>5 DEF n
<1> QED
  BY <1>3, <1>4, <1>6 DEF Cat

\* Whole blocks taken from data are so many bytes of it, by the least number of blocks for
\* which they are not.
LEMMA FlattenWhole ==
  ASSUME NEW S, NEW s \in Seq(Seq(S)), NEW data \in Seq(S), NEW from \in Nat, NEW k \in Nat,
         from + k * Block <= Len(data)
  PROVE  /\ Whole(data, from, k) \in Seq(Seq(S)) /\ Len(Whole(data, from, k)) = k
         /\ \A b \in 1..k : Len(Whole(data, from, k)[b]) = Block
         /\ FlattenSeq(Cat(s, Whole(data, from, k)))
              = Cat(FlattenSeq(s), SubSeq(data, from + 1, from + k * Block))
<1>0. Block \in Nat \ {0} /\ Len(data) \in Nat
  BY HashAssumption DEF Field
<1> DEFINE w(n) == Whole(data, from, n)
           part(n) == SubSeq(data, from + 1, from + n * Block)
           f == FlattenSeq(s)
           Good(n) == /\ w(n) \in Seq(Seq(S)) /\ Len(w(n)) = n
                      /\ \A b \in 1..n : Len(w(n)[b]) = Block
                      /\ part(n) \in Seq(S)
                      /\ FlattenSeq(Cat(s, w(n))) = Cat(f, part(n))
           bad == {n \in 0..k : ~Good(n)}
<1>1. f \in Seq(S)
  <2>1. <<>> \in Seq(S)
    OBVIOUS
  <2> QED
    BY <2>1, FlattenAppend
<1>2. Good(0)
  <2>1. w(0) = <<>>
    BY DEF Whole
  <2>2. part(0) = <<>>
    <3>1. from + 0 * Block = from /\ from < from + 1
      BY <1>0
    <3> QED
      BY <3>1, SubSeqEmpty
  <2>3. Cat(s, <<>>) = s /\ Cat(f, <<>>) = f
    BY <1>1, CatEmpty
  <2>4. <<>> \in Seq(S) /\ <<>> \in Seq(Seq(S)) /\ Len(<<>>) = 0 /\ 1..0 = {}
    OBVIOUS
  <2> HIDE DEF w, part
  <2> QED
    BY <2>1, <2>2, <2>3, <2>4
<1>3. ASSUME NEW n \in Nat, n + 1 <= k, Good(n) PROVE Good(n + 1)
  <2> DEFINE block == SubSeq(data, from + n * Block + 1, from + (n + 1) * Block)
             u == w(n)
             v == w(n + 1)
             t == part(n)
             next == part(n + 1)
  <2>1. from + (n + 1) * Block <= Len(data)
    <3> DEFINE x == k * Block
               y == (n + 1) * Block
               z == (k - (n + 1)) * Block
    <3>1. x \in Int /\ y \in Int /\ z \in Int /\ z >= 0 /\ x = y + z
      BY <1>0, <1>3
    <3>2. from + x <= Len(data)
      OBVIOUS
    <3> HIDE DEF x, y, z
    <3>3. from + y <= Len(data)
      BY <1>0, <3>1, <3>2
    <3> QED
      BY <3>3 DEF y
  <2>2. block \in Seq(S) /\ Len(block) = Block
    BY <2>1, OneMoreWhole
  <2>3. v = Append(u, block) /\ next = Cat(t, block)
    <3>1. v = Append(u, block)
      BY <2>1, OneMoreWhole
    <3>2. next = Cat(t, block)
      BY <2>1, OneMoreWhole
    <3> QED
      BY <3>1, <3>2
  <2>4. u \in Seq(Seq(S)) /\ Len(u) = n /\ t \in Seq(S) /\ FlattenSeq(Cat(s, u)) = Cat(f, t)
    BY <1>3
  <2>5. \A b \in 1..n : Len(u[b]) = Block
    BY <1>3
  <2> HIDE DEF u, v, t, next, f, w, part, block
  <2>6. FlattenSeq(Cat(s, v)) = Cat(FlattenSeq(Cat(s, u)), block)
    <3>1. Cat(s, v) = Append(Cat(s, u), block)
      <4>1. \A x \in Seq(Seq(S)), b \in Seq(S) : Cat(s, Append(x, b)) = Append(Cat(s, x), b)
        BY CatAppend
      <4> QED
        BY <2>2, <2>3, <2>4, <4>1
    <3>2. Cat(s, u) \in Seq(Seq(S))
      BY <2>4, CatType
    <3> QED
      BY <2>2, <3>1, <3>2, FlattenAppend
  <2>7. FlattenSeq(Cat(s, v)) = Cat(f, next)
    BY <1>1, <2>2, <2>3, <2>4, <2>6, CatAssociative
  <2>8. next \in Seq(S)
    BY <2>2, <2>3, <2>4, CatType
  <2>9. /\ v \in Seq(Seq(S)) /\ Len(v) = n + 1
        /\ v[n + 1] = block /\ \A b \in 1..n : v[b] = u[b]
    <3>1. \A x \in Seq(Seq(S)), b \in Seq(S) :
            /\ Append(x, b) \in Seq(Seq(S)) /\ Len(Append(x, b)) = Len(x) + 1
            /\ Append(x, b)[Len(x) + 1] = b /\ \A i \in 1..Len(x) : Append(x, b)[i] = x[i]
      BY AppendProperties
    <3> QED
      BY <2>2, <2>3, <2>4, <3>1
  <2>10. \A b \in 1..(n + 1) : Len(v[b]) = Block
    <3>1. \A b \in 1..(n + 1) : b = n + 1 \/ b \in 1..n
      OBVIOUS
    <3> QED
      BY <2>2, <2>5, <2>9, <3>1
  <2> QED
    BY <2>7, <2>8, <2>9, <2>10 DEF v, next
<1>4. Good(k)
  <2> HIDE DEF Good
  <2>1. bad = {}
    <3> SUFFICES ASSUME bad # {} PROVE FALSE
      OBVIOUS
    <3>1. PICK n \in bad : \A m \in bad : ~(m < n)
      <4>1. bad \subseteq Nat
        OBVIOUS
      <4> HIDE DEF bad
      <4> QED
        BY <4>1, LeastNat
    <3>2. n # 0
      BY <1>2, <3>1
    <3>3. n - 1 \in 0..k /\ n - 1 \in Nat /\ (n - 1) + 1 = n /\ n <= k /\ n - 1 < n
      BY <3>1, <3>2
    <3>4. Good(n - 1)
      BY <3>1, <3>3
    <3>5. Good((n - 1) + 1)
      BY <1>3, <3>3, <3>4
    <3> QED
      BY <3>1, <3>3, <3>5
  <2> QED
    BY <2>1
<1> QED
  BY <1>4

\* What SHA1Update digests when the buffer fills up: the filled block, then whole ones.
LEMMA FlattenBlocks ==
  ASSUME NEW S, NEW s \in Seq(Seq(S)), NEW b \in Seq(S), NEW data \in Seq(S),
         NEW from \in Nat, NEW k \in Nat, from + k * Block <= Len(data), Len(b) = Block,
         \A i \in 1..Len(s) : Len(s[i]) = Block
  PROVE  /\ Cat(s, Cat(<<b>>, Whole(data, from, k))) \in Seq(Seq(S))
         /\ \A i \in 1..Len(Cat(s, Cat(<<b>>, Whole(data, from, k)))) :
              Len(Cat(s, Cat(<<b>>, Whole(data, from, k)))[i]) = Block
         /\ FlattenSeq(Cat(s, Cat(<<b>>, Whole(data, from, k))))
              = Cat(Cat(FlattenSeq(s), b), SubSeq(data, from + 1, from + k * Block))
<1> DEFINE w == Whole(data, from, k)
           u == Append(s, b)
           t == Cat(s, Cat(<<b>>, w))
           mid == SubSeq(data, from + 1, from + k * Block)
<1>1. u \in Seq(Seq(S)) /\ Len(u) = Len(s) + 1 /\ u[Len(s) + 1] = b /\ \A i \in 1..Len(s) : u[i] = s[i]
  BY AppendProperties
<1>2. \A i \in 1..Len(u) : Len(u[i]) = Block
  <2>1. Len(s) \in Nat
    OBVIOUS
  <2>2. \A n \in Nat : \A i \in 1..(n + 1) : i = n + 1 \/ i \in 1..n
    OBVIOUS
  <2> HIDE DEF u
  <2> QED
    BY <1>1, <2>1, <2>2
<1>3. w \in Seq(Seq(S)) /\ Len(w) = k /\ \A i \in 1..k : Len(w[i]) = Block
  BY FlattenWhole
<1>4. FlattenSeq(u) = Cat(FlattenSeq(s), b)
  BY FlattenAppend
<1>5. FlattenSeq(Cat(u, w)) = Cat(FlattenSeq(u), mid)
  <2> HIDE DEF u
  <2> QED
    BY <1>1, FlattenWhole
<1>6. t = Cat(u, w)
  <2>1. u = Cat(s, <<b>>) /\ <<b>> \in Seq(Seq(S))
    BY AppendIsConcat DEF Cat
  <2>2. t = Cat(s, Cat(<<b>>, w))
    OBVIOUS
  <2> DEFINE one == <<b>>
  <2> HIDE DEF u, w, t, one
  <2>3. \A x, y, z \in Seq(Seq(S)) : Cat(Cat(x, y), z) = Cat(x, Cat(y, z))
    BY CatAssociative
  <2>4. s \in Seq(Seq(S))
    OBVIOUS
  <2> QED
    BY <1>3, <2>1, <2>2, <2>3, <2>4 DEF one
<1> HIDE DEF u, w, t, mid
<1>7. t \in Seq(Seq(S)) /\ Len(t) = Len(u) + Len(w)
  BY <1>1, <1>3, <1>6, CatType
<1>8. ASSUME NEW i \in 1..Len(t) PROVE Len(t[i]) = Block
  <2>1. t[i] = IF i <= Len(u) THEN u[i] ELSE w[i - Len(u)]
    <3>1. \A j \in 1..Len(Cat(u, w)) : Cat(u, w)[j] = IF j <= Len(u) THEN u[j] ELSE w[j - Len(u)]
      <4>1. u \in Seq(Seq(S)) /\ w \in Seq(Seq(S))
        BY <1>1, <1>3
      <4> QED
        BY <4>1, CatElement
    <3> QED
      BY <1>6, <3>1, Zenon
  <2>2. Len(u) \in Nat /\ Len(w) \in Nat
    BY <1>1, <1>3
  <2>3. \/ i \in 1..Len(u) /\ i <= Len(u)
        \/ i - Len(u) \in 1..Len(w) /\ ~(i <= Len(u))
    BY <1>7, <2>2
  <2> QED
    BY <1>2, <1>3, <2>1, <2>3
<1>9. FlattenSeq(t) = Cat(Cat(FlattenSeq(s), b), mid)
  BY <1>4, <1>5, <1>6
<1> QED
  BY <1>7, <1>8, <1>9 DEF w, mid, t

-----------------------------------------------------------------------------
(* SHA1Update *)

\* The types of what the context holds.
LEMMA StreamType ==
  ASSUME TypeOK
  PROVE  /\ Block \in Nat \ {0} /\ Place \in 0..(Block - 1)
         /\ Digested \in Seq(Byte)
         /\ SubSeq(buffer, 1, Place) \in Seq(Byte) /\ Len(SubSeq(buffer, 1, Place)) = Place
         /\ Stream = Cat(Digested, SubSeq(buffer, 1, Place))
         /\ Stream \in Seq(Byte) /\ Len(Stream) \in Nat
<1>1. Block \in Nat \ {0} /\ Bits \in Nat \ {0} /\ Low \in Nat \ {0}
  BY HashAssumption DEF Field
<1>2. Place \in 0..(Block - 1)
  <2>1. count.low \in Nat
    <3>1. count.low \in 0..(Low - 1)
      BY DEF TypeOK
    <3> QED
      BY <1>1, <3>1
  <2>2. count.low \div Bits \in Nat
    BY <1>1, <2>1, DivMod
  <2> QED
    BY <1>1, <2>2, DivMod DEF Place
<1>3. Digested \in Seq(Byte)
  <2>1. digested \in Seq(Seq(Byte))
    BY DEF TypeOK
  <2>2. <<>> \in Seq(Byte)
    OBVIOUS
  <2> QED
    BY <2>1, <2>2, FlattenAppend DEF Digested
<1>4. SubSeq(buffer, 1, Place) \in Seq(Byte) /\ Len(SubSeq(buffer, 1, Place)) = Place
  <2>1. buffer \in Seq(Byte) /\ Len(buffer) = Block
    BY DEF TypeOK
  <2> QED
    BY <1>1, <1>2, <2>1, Part
<1>5. Stream = Cat(Digested, SubSeq(buffer, 1, Place))
  BY DEF Stream, Cat
<1>6. Cat(Digested, SubSeq(buffer, 1, Place)) \in Seq(Byte)
  BY <1>3, <1>4, CatType
<1>7. Stream \in Seq(Byte)
  BY <1>5, <1>6
<1>8. Len(Stream) \in Nat
  BY <1>7
<1> QED
  BY <1>1, <1>2, <1>3, <1>4, <1>5, <1>7, <1>8

\* SHA1Update counts the bits and moves the place on.
LEMMA UpdateCounts ==
  ASSUME TypeOK, CountOfStream, NEW data \in Seq(Byte), Update(data)
  PROVE  /\ count'.low \in 0..(Low - 1) /\ count'.high \in Nat
         /\ count'.high * Low + count'.low = (Len(Stream) + Len(data)) * Bits
         /\ Place' = (Place + Len(data)) % Block
<1> DEFINE n == Len(data)
           len == Len(Stream)
<1>1. Bits \in Nat \ {0} /\ Low \in Nat \ {0} /\ Block \in Nat \ {0} /\ n \in Nat /\ len \in Nat
  BY HashAssumption, StreamType DEF Field
<1>2. count' = Count(n)
  BY DEF Update
<1>3. count.low \in 0..(Low - 1) /\ count.high \in Nat
  BY DEF TypeOK
<1>4. count.high * Low + count.low = len * Bits
  BY DEF CountOfStream
<1> HIDE DEF n, len
<1>5. /\ count'.low \in 0..(Low - 1) /\ count'.high \in Nat
      /\ count'.high * Low + count'.low = len * Bits + n * Bits
  BY <1>1, <1>2, <1>3, <1>4, CountGrows
<1>6. len * Bits + n * Bits = (len + n) * Bits /\ len + n \in Nat
  BY <1>1
<1>7. Place = len % Block
  BY <1>1, <1>3, <1>4, PlaceOfCount DEF Place
<1>8. Place' = (len + n) % Block
  <2> DEFINE c == count'
  <2>1. c.low \in 0..(Low - 1) /\ c.high \in Nat /\ c.high * Low + c.low = (len + n) * Bits
    BY <1>5, <1>6
  <2> HIDE DEF c
  <2>2. (c.low \div Bits) % Block = (len + n) % Block
    BY <1>6, <2>1, PlaceOfCount
  <2> QED
    BY <2>2 DEF Place, c
<1>9. Place' = (Place + n) % Block
  BY <1>1, <1>7, <1>8, ModOfSum
<1> QED
  BY <1>5, <1>6, <1>9 DEF n, len

\* The data in three parts.
LEMMA SplitData ==
  ASSUME NEW S, NEW data \in Seq(S), NEW j \in Nat, NEW m \in j..Len(data)
  PROVE  /\ SubSeq(data, 1, j) \in Seq(S) /\ SubSeq(data, j + 1, m) \in Seq(S)
         /\ SubSeq(data, m + 1, Len(data)) \in Seq(S)
         /\ data = Cat(Cat(SubSeq(data, 1, j), SubSeq(data, j + 1, m)), SubSeq(data, m + 1, Len(data)))
<1> DEFINE n == Len(data)
<1>1. n \in Nat /\ j <= n /\ m <= n /\ m \in Nat
  OBVIOUS
<1>2. /\ 1 \in 1..(n + 1) /\ j \in (1 - 1)..n /\ j + 1 \in 1..(n + 1) /\ m \in ((j + 1) - 1)..n
      /\ m + 1 \in 1..(n + 1) /\ n \in ((m + 1) - 1)..n /\ m \in j..n /\ n \in m..n /\ m \in (1 - 1)..n
  BY <1>1
<1>3. /\ SubSeq(data, 1, j) \in Seq(S) /\ SubSeq(data, j + 1, m) \in Seq(S)
      /\ SubSeq(data, m + 1, n) \in Seq(S)
  BY <1>2, Part
<1>4. Cat(SubSeq(data, 1, j), SubSeq(data, j + 1, m)) = SubSeq(data, 1, m)
  BY <1>2, ConcatAdjacentSubSeq DEF Cat
<1>5. Cat(SubSeq(data, 1, m), SubSeq(data, m + 1, n)) = SubSeq(data, 1, n)
  BY <1>2, ConcatAdjacentSubSeq DEF Cat
<1>6. SubSeq(data, 1, n) = data
  BY SubSeqFull
<1> QED
  BY <1>3, <1>4, <1>5, <1>6, Zenon

\* SHA1Update adds the data, and nothing else, to what the context was given, whatever
\* the place in the buffer and the length of the data.
LEMMA UpdateStep ==
  ASSUME TypeOK, CountOfStream, NEW data \in Seq(Byte), Update(data)
  PROVE  /\ count'.low \in 0..(Low - 1) /\ count'.high \in Nat
         /\ buffer' \in Seq(Byte) /\ Len(buffer') = Block
         /\ digested' \in Seq(Seq(Byte)) /\ \A k \in 1..Len(digested') : Len(digested'[k]) = Block
         /\ Stream' = Cat(Stream, data)
         /\ CountOfStream'
         /\ Place' = (Place + Len(data)) % Block
<1> DEFINE n == Len(data)
           j == Place
           head == SubSeq(buffer, 1, j)
           fill == Block - j
           whole == (n - fill) \div Block
           last == fill + whole * Block
           front == SubSeq(data, 1, fill)
           mid == SubSeq(data, fill + 1, last)
           tail == SubSeq(data, last + 1, n)
           first == Put(buffer, j, front)
           D == Digested
<1>1. /\ count'.low \in 0..(Low - 1) /\ count'.high \in Nat
      /\ count'.high * Low + count'.low = (Len(Stream) + n) * Bits
      /\ Place' = (j + n) % Block
  BY UpdateCounts
<1>2. /\ Block \in Nat \ {0} /\ j \in 0..(Block - 1) /\ n \in Nat /\ D \in Seq(Byte)
      /\ head \in Seq(Byte) /\ Stream = Cat(D, head) /\ Stream \in Seq(Byte)
  BY StreamType
<1>3. /\ buffer \in Seq(Byte) /\ Len(buffer) = Block /\ digested \in Seq(Seq(Byte))
      /\ \A k \in 1..Len(digested) : Len(digested[k]) = Block
  BY DEF TypeOK
<1>4. Stream' = Cat(Digested', SubSeq(buffer', 1, Place'))
  BY DEF Stream, Cat
<1>5. ASSUME ~(j + n >= Block)
      PROVE  /\ buffer' \in Seq(Byte) /\ Len(buffer') = Block
             /\ digested' \in Seq(Seq(Byte)) /\ \A k \in 1..Len(digested') : Len(digested'[k]) = Block
             /\ Stream' = Cat(Cat(D, head), data)
  <2>1. buffer' = Put(buffer, j, data) /\ digested' = digested
    BY <1>5 DEF Update
  <2>2. Place' = j + n
    <3>1. j + n \in 0..(Block - 1)
      BY <1>2, <1>5
    <3>2. (0 * Block + (j + n)) % Block = j + n
      BY <1>2, <3>1, DivModUnique
    <3> QED
      BY <1>1, <1>2, <3>2
  <2>3. /\ Put(buffer, j, data) \in Seq(Byte) /\ Len(Put(buffer, j, data)) = Block
        /\ SubSeq(Put(buffer, j, data), 1, j + n) = Cat(head, data)
    <3>1. j \in 0..Block /\ j + n <= Block
      BY <1>2, <1>5
    <3> HIDE DEF j
    <3> QED
      BY <1>3, <3>1, PutFits
  <2>4. Digested' = D
    BY <2>1 DEF Digested
  <2>5. Stream' = Cat(D, Cat(head, data))
    BY <1>4, <2>1, <2>2, <2>3, <2>4, Zenon
  <2>6. Cat(Cat(D, head), data) = Cat(D, Cat(head, data))
    <3> HIDE DEF D, head
    <3> QED
      BY <1>2, CatAssociative
  <2> QED
    BY <1>3, <2>1, <2>3, <2>5, <2>6, Zenon
<1>6. ASSUME j + n >= Block
      PROVE  /\ buffer' \in Seq(Byte) /\ Len(buffer') = Block
             /\ digested' \in Seq(Seq(Byte)) /\ \A k \in 1..Len(digested') : Len(digested'[k]) = Block
             /\ Stream' = Cat(Cat(D, head), data)
  <2>1. buffer' = Put(Junk, 0, tail) /\ digested' = Cat(digested, Cat(<<first>>, Whole(data, fill, whole)))
    BY <1>6 DEF Update, Cat
  <2>2. /\ fill \in 1..Block /\ whole \in Nat /\ last \in fill..n /\ n - last \in 0..(Block - 1)
        /\ Place' = n - last /\ fill + whole * Block = last
    <3> DEFINE r == (n - fill) % Block
               wb == whole * Block
    <3>1. fill \in 1..Block /\ n - fill \in Nat
      BY <1>2, <1>6
    <3>2. whole \in Nat /\ r \in 0..(Block - 1) /\ n - fill = whole * Block + r
      BY <1>2, <3>1, DivMod
    <3> HIDE DEF whole, r
    <3>3. wb \in Nat
      BY <1>2, <3>2
    <3>4. (whole + 1) * Block = wb + Block /\ whole + 1 \in Nat
      BY <1>2, <3>2
    <3>5. j + n = (whole + 1) * Block + r
      BY <1>2, <3>1, <3>2, <3>3, <3>4
    <3>6. Place' = r
      <4>1. ((whole + 1) * Block + r) % Block = r
        BY <1>2, <3>2, <3>4, DivModUnique
      <4> QED
        BY <1>1, <3>5, <4>1
    <3> HIDE DEF wb
    <3>7. last = fill + wb
      BY DEF wb
    <3> HIDE DEF last
    <3>8. n - fill = wb + r
      BY <3>2 DEF wb
    <3>9. n - last = r /\ last \in fill..n
      BY <1>2, <3>1, <3>2, <3>3, <3>7, <3>8
    <3> QED
      BY <3>1, <3>2, <3>6, <3>9 DEF last
  <2> HIDE DEF whole, last, fill
  <2>3. /\ front \in Seq(Byte) /\ mid \in Seq(Byte) /\ tail \in Seq(Byte)
        /\ data = Cat(Cat(front, mid), tail)
    BY <1>2, <2>2, SplitData
  <2>4. Len(front) = fill /\ Len(tail) = n - last
    <3>1. /\ 1 \in 1..(n + 1) /\ fill \in (1 - 1)..n /\ last + 1 \in 1..(n + 1) /\ n \in ((last + 1) - 1)..n
          /\ fill - 1 + 1 = fill /\ n - (last + 1) + 1 = n - last
      BY <1>2, <2>2
    <3> QED
      BY <3>1, Part
  <2> HIDE DEF front, tail
  <2>5. first \in Seq(Byte) /\ Len(first) = Block /\ first = Cat(head, front)
    <3>1. j \in 0..Block /\ j + Len(front) = Block
      BY <1>2, <2>4 DEF fill
    <3> HIDE DEF j
    <3>2. first \in Seq(Byte) /\ Len(first) = Block /\ SubSeq(first, 1, j + Len(front)) = Cat(head, front)
      BY <1>3, <2>3, <3>1, PutFits
    <3>3. SubSeq(first, 1, Block) = first
      BY <3>2, SubSeqFull
    <3> QED
      BY <3>1, <3>2, <3>3, Zenon
  <2>6. buffer' \in Seq(Byte) /\ Len(buffer') = Block /\ SubSeq(buffer', 1, Place') = tail
    <3>1. Junk \in Seq(Byte) /\ Len(Junk) = Block
      BY <1>2, HashAssumption DEF Junk
    <3>2. 0 \in 0..Block /\ 0 + Len(tail) <= Block /\ 0 + Len(tail) = Place'
      BY <1>2, <2>2, <2>4
    <3>3. /\ buffer' \in Seq(Byte) /\ Len(buffer') = Block
          /\ SubSeq(buffer', 1, 0 + Len(tail)) = Cat(SubSeq(Junk, 1, 0), tail)
      BY <2>1, <2>3, <3>1, <3>2, PutFits
    <3>4. SubSeq(Junk, 1, 0) = <<>>
      BY SubSeqEmpty
    <3>5. Cat(<<>>, tail) = tail
      BY <2>3, CatEmpty
    <3> QED
      BY <3>2, <3>3, <3>4, <3>5, Zenon
  <2> HIDE DEF first
  <2>7. /\ digested' \in Seq(Seq(Byte)) /\ \A k \in 1..Len(digested') : Len(digested'[k]) = Block
        /\ FlattenSeq(digested') = Cat(Cat(FlattenSeq(digested), first), mid)
    <3> DEFINE t == Cat(digested, Cat(<<first>>, Whole(data, fill, whole)))
    <3>1. fill \in Nat /\ fill + whole * Block <= Len(data) /\ fill + whole * Block = last
      BY <1>2, <2>2
    <3>2. /\ t \in Seq(Seq(Byte)) /\ \A i \in 1..Len(t) : Len(t[i]) = Block
          /\ FlattenSeq(t) = Cat(Cat(FlattenSeq(digested), first), SubSeq(data, fill + 1, fill + whole * Block))
      <4>1. digested \in Seq(Seq(Byte)) /\ first \in Seq(Byte) /\ data \in Seq(Byte)
        BY <1>3, <2>5
      <4>2. whole \in Nat /\ fill \in Nat /\ fill + whole * Block <= Len(data) /\ Len(first) = Block
        BY <2>2, <2>5, <3>1
      <4>3. \A i \in 1..Len(digested) : Len(digested[i]) = Block
        BY <1>3
      <4> QED
        BY ONLY <4>1, <4>2, <4>3, FlattenBlocks
    <3> QED
      BY <2>1, <3>1, <3>2, Zenon
  <2>8. Stream' = Cat(Cat(Cat(D, Cat(head, front)), mid), tail)
    BY <1>4, <2>5, <2>6, <2>7, Zenon DEF Digested
  <2>9. Cat(Cat(Cat(D, Cat(head, front)), mid), tail) = Cat(Cat(D, head), Cat(Cat(front, mid), tail))
    <3> HIDE DEF D, head, mid
    <3> QED
      BY <1>2, <2>3, Regroup
  <2> QED
    BY <2>3, <2>6, <2>7, <2>8, <2>9, Zenon
<1>7. /\ buffer' \in Seq(Byte) /\ Len(buffer') = Block
      /\ digested' \in Seq(Seq(Byte)) /\ \A k \in 1..Len(digested') : Len(digested'[k]) = Block
      /\ Stream' = Cat(Stream, data)
  BY <1>2, <1>5, <1>6, Zenon
<1>8. CountOfStream'
  <2>1. Len(Cat(Stream, data)) = Len(Stream) + n
    BY <1>2, CatType
  <2>2. Len(Stream') = Len(Stream) + n
    BY <1>7, <2>1, Zenon
  <2> QED
    BY <1>1, <2>2 DEF CountOfStream
<1> QED
  BY <1>1, <1>7, <1>8
-----------------------------------------------------------------------------
(* The padding *)

\* The file and how much of it was read.
LEMMA FileIsBytes ==
  ASSUME TypeOK
  PROVE  file \in Seq(Byte) /\ Len(file) \in Nat /\ read \in 0..Len(file)
<1>1. file \in Seq(Byte)
  BY HashAssumption DEF TypeOK
<1>2. read \in 0..Len(file)
  BY DEF TypeOK
<1> QED
  BY <1>1, <1>2

\* The place in the buffer is where the last block of the stream ends.
LEMMA PlaceOfStream ==
  ASSUME TypeOK, CountOfStream
  PROVE  Place = Len(Stream) % Block
<1>1. count.low \in 0..(Low - 1) /\ count.high \in Nat
  BY DEF TypeOK
<1>2. count.high * Low + count.low = Len(Stream) * Bits
  BY DEF CountOfStream
<1>3. Len(Stream) \in Nat
  BY StreamType
<1> QED
  BY <1>1, <1>2, <1>3, PlaceOfCount DEF Place

\* The loop of SHA1Final stops at the first place where the length fits: after as many
\* zeros as Padded has, and not before.
LEMMA LastZero ==
  ASSUME NEW len \in Nat, NEW zeros, zeros = ((2 * Block) - 1 - Field - (len % Block)) % Block
  PROVE  /\ zeros \in Nat
         /\ \A k \in 0..zeros : ((len + 1 + k) % Block = Block - Field) <=> (k = zeros)
<1> DEFINE r == len % Block
<1>0. Block \in Nat \ {0} /\ Block > 8 /\ Field = 8
  BY HashAssumption DEF Field
<1>1. r \in 0..(Block - 1)
  BY <1>0, DivMod
<1>2. ASSUME NEW k \in Nat PROVE (len + 1 + k) % Block = (r + (1 + k)) % Block
  <2> DEFINE n == 1 + k
  <2>1. n \in Nat /\ len + 1 + k = len + n
    OBVIOUS
  <2> HIDE DEF n
  <2>2. (r + n) % Block = (len + n) % Block
    BY <1>0, <2>1, ModOfSum
  <2>3. (len + 1 + k) % Block = (r + n) % Block
    BY <2>1, <2>2
  <2> QED
    BY <2>3 DEF n
<1>3. zeros = ((2 * Block) - 9 - r) % Block
  <2>1. (2 * Block) - 1 - Field - r = (2 * Block) - 9 - r
    BY <1>0, <1>1
  <2> QED
    BY <2>1
<1> HIDE DEF r
<1>4. \A m \in 0..(Block - 1) : (0 * Block + m) % Block = m /\ 0 * Block + m = m
  BY <1>0, DivModUnique
<1>5. \A m \in 0..(Block - 1) : (1 * Block + m) % Block = m /\ 1 * Block + m = Block + m
  BY <1>0, DivModUnique
<1>6. CASE r + 9 <= Block
  <2>1. (2 * Block) - 9 - r = 1 * Block + (Block - 9 - r) /\ Block - 9 - r \in 0..(Block - 1)
    BY <1>0, <1>1, <1>6
  <2>2. zeros = Block - 9 - r
    BY <1>3, <1>5, <2>1
  <2>3. ASSUME NEW k \in 0..zeros PROVE ((len + 1 + k) % Block = Block - Field) <=> (k = zeros)
    <3>1. k \in Nat /\ r + (1 + k) \in 0..(Block - 1)
      BY <1>0, <1>1, <2>1, <2>2
    <3>2. (len + 1 + k) % Block = r + (1 + k)
      BY <1>2, <1>4, <3>1
    <3> QED
      BY <1>0, <1>1, <2>2, <3>1, <3>2
  <2> QED
    BY <2>1, <2>2, <2>3
<1>7. CASE ~(r + 9 <= Block)
  <2>1. (2 * Block) - 9 - r \in 0..(Block - 1)
    BY <1>0, <1>1, <1>7
  <2>2. zeros = (2 * Block) - 9 - r
    BY <1>3, <1>4, <2>1
  <2>3. ASSUME NEW k \in 0..zeros PROVE ((len + 1 + k) % Block = Block - Field) <=> (k = zeros)
    <3>1. k \in Nat
      BY <1>0, <2>1, <2>2
    <3>2. CASE r + (1 + k) < Block
      <4>1. (len + 1 + k) % Block = r + (1 + k)
        BY <1>0, <1>1, <1>2, <1>4, <3>1, <3>2
      <4> QED
        BY <1>0, <1>1, <1>7, <2>2, <3>1, <3>2, <4>1
    <3>3. CASE ~(r + (1 + k) < Block)
      <4>1. r + (1 + k) = Block + (r + (1 + k) - Block) /\ r + (1 + k) - Block \in 0..(Block - 1)
        BY <1>0, <1>1, <2>1, <2>2, <3>1, <3>3
      <4>2. (len + 1 + k) % Block = r + (1 + k) - Block
        BY <1>2, <1>5, <3>1, <4>1
      <4> QED
        BY <1>0, <1>1, <2>2, <3>1, <4>2
    <3> QED
      BY <3>2, <3>3
  <2> QED
    BY <2>1, <2>2, <2>3
<1> QED
  BY <1>6, <1>7

\* The file, the mark and the zeros, and one zero more.
LEMMA MarkedStep ==
  ASSUME file \in Seq(Byte), NEW k \in Nat
  PROVE  /\ Marked(k) \in Seq(Byte) /\ Len(Marked(k)) = Len(file) + 1 + k
         /\ Cat(Marked(k), <<0>>) = Marked(k + 1)
         /\ Marked(0) = Cat(file, <<128>>)
<1> DEFINE z(n) == [i \in 1..n |-> 0]
           mark == <<128>>
           base == Cat(file, mark)
           one == <<0>>
<1>1. mark \in Seq(Byte) /\ Len(mark) = 1 /\ one \in Seq(Byte)
  BY DEF Byte
<1>2. \A n \in Nat : z(n) \in Seq(Byte) /\ Len(z(n)) = n
  BY DEF Byte
<1>3. base \in Seq(Byte) /\ Len(base) = Len(file) + 1
  <2> HIDE DEF mark
  <2> QED
    BY <1>1, CatType
<1>4. \A n \in Nat : Marked(n) = Cat(base, z(n))
  BY DEF Marked, Cat
<1>5. Cat(z(k), one) = z(k + 1)
  <2>1. Append(z(k), 0) = z(k + 1)
    OBVIOUS
  <2>2. Append(z(k), 0) = Cat(z(k), one)
    BY <1>2, AppendIsConcat DEF Cat, Byte
  <2> QED
    BY <2>1, <2>2, Zenon
<1>6. z(0) = <<>>
  OBVIOUS
<1>7. Cat(base, <<>>) = base
  BY <1>3, CatEmpty
<1> HIDE DEF z, base, one
<1>8. Marked(k) \in Seq(Byte) /\ Len(Marked(k)) = Len(file) + 1 + k
  <2>1. Cat(base, z(k)) \in Seq(Byte) /\ Len(Cat(base, z(k))) = Len(base) + Len(z(k))
    BY <1>2, <1>3, CatType
  <2> QED
    BY <1>2, <1>3, <1>4, <2>1
<1>9. Cat(Marked(k), one) = Marked(k + 1)
  <2>1. Cat(Cat(base, z(k)), one) = Cat(base, Cat(z(k), one))
    BY <1>1, <1>2, <1>3, CatAssociative
  <2>2. k + 1 \in Nat
    OBVIOUS
  <2> QED
    BY <1>4, <1>5, <2>1, <2>2, Zenon
<1>10. Marked(0) = base
  <2>1. 0 \in Nat
    OBVIOUS
  <2> QED
    BY <1>4, <1>6, <1>7, <2>1, Zenon
<1> QED
  BY <1>8, <1>9, <1>10 DEF base, one

\* A word is four bytes.
LEMMA WordBytesType ==
  ASSUME NEW w \in Nat
  PROVE  WordBytes(w) \in Seq(Byte) /\ Len(WordBytes(w)) = 4
<1>1. \A d \in Nat \ {0} : (w \div d) % 256 \in 0..255
  BY DivMod
<1>2. w % 256 \in 0..255
  OBVIOUS
<1> DEFINE a == (w \div 16777216) % 256
           b == (w \div 65536) % 256
           c == (w \div 256) % 256
           d == w % 256
<1>3. a \in Byte /\ b \in Byte /\ c \in Byte /\ d \in Byte
  BY <1>1, <1>2 DEF Byte
<1> HIDE DEF a, b, c, d
<1>4. <<a, b, c, d>> \in Seq(Byte) /\ Len(<<a, b, c, d>>) = 4
  BY <1>3
<1> QED
  BY <1>4 DEF WordBytes, a, b, c, d

\* finalcount is the number of bits of the file, in two words of four bytes.
LEMMA LengthFieldWritten ==
  ASSUME TypeOK
  PROVE  /\ LengthField \in Seq(Byte) /\ Len(LengthField) = Field
         /\ CountOfStream /\ Len(Stream) = Len(file) => FinalCount(count) = LengthField
<1> DEFINE bits == Len(file) * Bits
           hi == bits \div Low
           lo == bits % Low
<1>1. Low \in Nat \ {0} /\ Bits \in Nat \ {0} /\ Len(file) \in Nat
  BY FileIsBytes, HashAssumption
<1>2. bits \in Nat
  BY <1>1
<1>3. LengthField = Cat(WordBytes(hi), WordBytes(lo))
  BY DEF LengthField, Cat
<1> HIDE DEF bits
<1>4. hi \in Nat /\ lo \in 0..(Low - 1) /\ lo \in Nat
  <2>1. hi \in Nat /\ lo \in 0..(Low - 1)
    BY <1>1, <1>2, DivMod
  <2> HIDE DEF hi, lo
  <2> QED
    BY <1>1, <2>1
<1>5. ASSUME CountOfStream, Len(Stream) = Len(file) PROVE FinalCount(count) = LengthField
  <2>1. count.high * Low + count.low = bits
    BY <1>5 DEF CountOfStream, bits
  <2>2. count.low \in 0..(Low - 1) /\ count.high \in Nat
    BY DEF TypeOK
  <2>3. hi = count.high /\ lo = count.low
    BY <1>1, <2>1, <2>2, DivModUnique
  <2>4. FinalCount(count) = Cat(WordBytes(count.high), WordBytes(count.low))
    BY DEF FinalCount, Cat
  <2> QED
    BY <1>3, <2>3, <2>4, Zenon
<1> HIDE DEF hi, lo
<1>6. Cat(WordBytes(hi), WordBytes(lo)) \in Seq(Byte) /\ Len(Cat(WordBytes(hi), WordBytes(lo))) = 4 + 4
  <2> DEFINE wh == WordBytes(hi)
             wl == WordBytes(lo)
  <2>1. wh \in Seq(Byte) /\ Len(wh) = 4 /\ wl \in Seq(Byte) /\ Len(wl) = 4
    BY <1>4, WordBytesType
  <2> HIDE DEF wh, wl
  <2>2. Cat(wh, wl) \in Seq(Byte) /\ Len(Cat(wh, wl)) = Len(wh) + Len(wl)
    BY <2>1, CatType
  <2>3. Len(Cat(wh, wl)) = 4 + 4
    BY <2>1, <2>2
  <2> QED
    BY <2>2, <2>3 DEF wh, wl
<1>7. LengthField \in Seq(Byte) /\ Len(LengthField) = Field
  <2>1. Field = 4 + 4
    BY DEF Field
  <2> QED
    BY <1>3, <1>6, <2>1, Zenon
<1> QED
  BY <1>5, <1>7
-----------------------------------------------------------------------------
(* The invariant *)

\* The context after SHA1Init.
LEMMA InitInv == Init => HashInv
<1> SUFFICES ASSUME Init PROVE HashInv
  OBVIOUS
<1>1. Block \in Nat \ {0} /\ Bits \in Nat \ {0} /\ Low \in Nat \ {0}
  BY HashAssumption DEF Field
<1>2. TypeOK
  <2>1. Junk \in Seq(Byte) /\ Len(Junk) = Block
    BY <1>1, HashAssumption DEF Junk
  <2>2. file \in Files /\ read = 0
    BY DEF Init
  <2>3. file \in Seq(Byte)
    BY <2>2, HashAssumption
  <2>4. read \in 0..Len(file)
    BY <2>2, <2>3
  <2>5. {cut, broken} \subseteq BOOLEAN /\ pc = "open"
    BY DEF Init
  <2>6. buffer \in Seq(Byte) /\ Len(buffer) = Block
    BY <2>1 DEF Init
  <2>7. count.low = 0 /\ count.high = 0
    BY DEF Init
  <2>8. count.low \in 0..(Low - 1) /\ count.high \in Nat
    BY <1>1, <2>7
  <2>9. digested \in Seq(Seq(Byte)) /\ \A k \in 1..Len(digested) : Len(digested[k]) = Block
    BY DEF Init
  <2>10. final \in Seq(Byte)
    BY DEF Init
  <2> QED
    BY <2>2, <2>4, <2>5, <2>6, <2>8, <2>9, <2>10 DEF TypeOK
<1>3. Stream = <<>>
  <2>1. count.low = 0
    BY DEF Init
  <2>2. Place = 0
    <3>1. 0 * Bits + 0 = 0 /\ (0 * Bits + 0) \div Bits = 0
      BY <1>1, DivModUnique
    <3>2. 0 * Block + 0 = 0 /\ (0 * Block + 0) % Block = 0
      BY <1>1, DivModUnique
    <3> QED
      BY <2>1, <3>1, <3>2 DEF Place
  <2>3. SubSeq(buffer, 1, 0) = <<>>
    BY SubSeqEmpty
  <2>4. Digested = <<>>
    BY DEF Digested, FlattenSeq, Init
  <2> QED
    BY <2>2, <2>3, <2>4 DEF Stream
<1>4. CountOfStream
  <2>1. count.low = 0 /\ count.high = 0 /\ Len(Stream) = 0
    BY <1>3 DEF Init
  <2> QED
    BY <1>1, <2>1 DEF CountOfStream
<1>5. BlocksAreFile /\ HashedIsPadded
  BY DEF Init, BlocksAreFile, HashedIsPadded
<1>6. PaddingSoFar
  BY <1>3 DEF Init, PaddingSoFar
<1> QED
  BY <1>2, <1>4, <1>5, <1>6 DEF HashInv

\* A step that leaves the context alone leaves what it has been given alone.
LEMMA SameStream ==
  ASSUME UNCHANGED <<buffer, count, digested>>
  PROVE  Place' = Place /\ Stream' = Stream /\ (CountOfStream => CountOfStream')
<1>1. Place' = Place
  BY DEF Place
<1>2. Stream' = Stream
  BY <1>1 DEF Stream, Digested
<1> QED
  BY <1>1, <1>2 DEF CountOfStream

\* A file that opens is read from its beginning.
LEMMA OpenStep == HashInv /\ Open => HashInv'
<1> SUFFICES ASSUME HashInv, Open PROVE HashInv'
  OBVIOUS
<1>1. TypeOK /\ CountOfStream /\ read = 0 /\ Stream = <<>>
  BY DEF HashInv, PaddingSoFar, Open
<1>2. /\ pc' \in {"read", "no file"} /\ UNCHANGED <<file, read, cut, broken, buffer, count, digested, final>>
  BY DEF Open, fileVars
<1>3. TypeOK'
  BY <1>1, <1>2 DEF TypeOK
<1>4. Stream' = <<>> /\ CountOfStream'
  BY <1>1, <1>2, SameStream
<1>5. BlocksAreFile'
  <2>1. SubSeq(file, 1, 0) = <<>>
    BY SubSeqEmpty
  <2> QED
    BY <1>1, <1>2, <1>4, <2>1 DEF BlocksAreFile
<1>6. PaddingSoFar' /\ HashedIsPadded'
  BY <1>1, <1>2, <1>4 DEF PaddingSoFar, HashedIsPadded
<1> QED
  BY <1>3, <1>4, <1>5, <1>6 DEF HashInv

\* Whatever fread returns, it is the next bytes of the file.
LEMMA PieceDigested ==
  ASSUME HashInv, pc = "read", NEW n \in 0..(Len(file) - read),
         Update(SubSeq(file, read + 1, read + n)), read' = read + n,
         UNCHANGED <<file, final>>, {cut', broken'} \subseteq BOOLEAN,
         \/ pc' = "read"
         \/ pc' = "final" /\ read' = Len(file)
  PROVE  HashInv'
<1> DEFINE data == SubSeq(file, read + 1, read + n)
<1>1. TypeOK /\ CountOfStream /\ Stream = SubSeq(file, 1, read)
  BY DEF HashInv, BlocksAreFile
<1>2. file \in Seq(Byte) /\ Len(file) \in Nat /\ read \in 0..Len(file)
  BY <1>1, FileIsBytes
<1>3. /\ 1 \in 1..(Len(file) + 1) /\ read \in (1 - 1)..Len(file) /\ read + n \in read..Len(file)
      /\ read + 1 \in 1..(Len(file) + 1) /\ read + n \in ((read + 1) - 1)..Len(file)
      /\ read + n \in 0..Len(file)
  BY <1>2
<1>4. data \in Seq(Byte)
  BY <1>2, <1>3, Part
<1>5. Cat(SubSeq(file, 1, read), data) = SubSeq(file, 1, read + n)
  BY <1>2, <1>3, ConcatAdjacentSubSeq DEF Cat
<1> HIDE DEF data
<1>6. Update(data)
  BY DEF data
<1>7. /\ count'.low \in 0..(Low - 1) /\ count'.high \in Nat
      /\ buffer' \in Seq(Byte) /\ Len(buffer') = Block
      /\ digested' \in Seq(Seq(Byte)) /\ \A k \in 1..Len(digested') : Len(digested'[k]) = Block
      /\ Stream' = Cat(Stream, data) /\ CountOfStream'
  BY <1>1, <1>4, <1>6, UpdateStep
<1>8. TypeOK'
  <2>1. file' \in Files /\ final' \in Seq(Byte)
    BY <1>1 DEF TypeOK
  <2>2. read' \in 0..Len(file')
    BY <1>3
  <2>3. pc' \in {"open", "read", "final", "pad", "length", "done", "no file"}
    OBVIOUS
  <2> QED
    BY <1>7, <2>1, <2>2, <2>3 DEF TypeOK
<1>9. Stream' = SubSeq(file', 1, read')
  <2>1. file' = file
    OBVIOUS
  <2> QED
    BY <1>1, <1>5, <1>7, <2>1, Zenon
<1>10. BlocksAreFile'
  BY <1>9 DEF BlocksAreFile
<1>11. PaddingSoFar' /\ HashedIsPadded'
  BY DEF PaddingSoFar, HashedIsPadded
<1> QED
  BY <1>7, <1>8, <1>10, <1>11 DEF HashInv

\* fread without an error.
LEMMA ReadStep == HashInv /\ Read => HashInv'
<1> SUFFICES ASSUME HashInv, Read PROVE HashInv'
  OBVIOUS
<1>1. TypeOK /\ pc = "read"
  BY DEF HashInv, Read
<1>2. file \in Seq(Byte) /\ Len(file) \in Nat /\ read \in 0..Len(file) /\ Chunk \in Nat \ {0}
  BY <1>1, FileIsBytes, HashAssumption
<1>3. Piece \in 0..(Len(file) - read) /\ (Piece < Chunk => Piece = Len(file) - read)
  BY <1>2 DEF Piece, Least
<1>4. /\ Update(SubSeq(file, read + 1, read + Piece)) /\ read' = read + Piece
      /\ UNCHANGED <<file, final>> /\ UNCHANGED <<cut, broken>>
      /\ pc' = IF Piece < Chunk THEN "final" ELSE "read"
  BY DEF Read
<1>5. {cut', broken'} \subseteq BOOLEAN
  BY <1>1, <1>4 DEF TypeOK
<1>6. pc' = "read" \/ (pc' = "final" /\ read' = Len(file))
  BY <1>2, <1>3, <1>4
<1> QED
  BY <1>1, <1>3, <1>4, <1>5, <1>6, PieceDigested

\* A read cut short by an error.
LEMMA ReadFailsStep == HashInv /\ ReadFails => HashInv'
<1> SUFFICES ASSUME HashInv, ReadFails PROVE HashInv'
  OBVIOUS
<1>1. TypeOK /\ pc = "read"
  BY DEF HashInv, ReadFails
<1>2. file \in Seq(Byte) /\ Len(file) \in Nat /\ read \in 0..Len(file) /\ Chunk \in Nat \ {0}
  BY <1>1, FileIsBytes, HashAssumption
<1>3. PICK n \in Cuts : /\ n <= Piece
                        /\ Update(SubSeq(file, read + 1, read + n))
                        /\ read' = read + n
  BY DEF ReadFails
<1>4. n \in 0..(Len(file) - read)
  <2>1. Piece \in 0..(Len(file) - read)
    BY <1>2 DEF Piece, Least
  <2>2. n \in Nat
    BY HashAssumption
  <2> QED
    BY <1>2, <1>3, <2>1, <2>2
<1>5. UNCHANGED <<file, final>> /\ cut' = TRUE /\ broken' = broken /\ pc' = "read"
  BY <1>1 DEF ReadFails
<1>6. {cut', broken'} \subseteq BOOLEAN
  BY <1>1, <1>5 DEF TypeOK
<1> QED
  BY <1>1, <1>3, <1>4, <1>5, <1>6, PieceDigested

\* A read error that stays.
LEMMA ReadBreaksStep == HashInv /\ ReadBreaks => HashInv'
<1> SUFFICES ASSUME HashInv, ReadBreaks PROVE HashInv'
  OBVIOUS
<1>1. /\ pc = "read" /\ broken' = TRUE
      /\ UNCHANGED <<file, read, cut, buffer, count, digested, final, pc>>
  BY DEF ReadBreaks
<1>2. TypeOK'
  BY <1>1 DEF HashInv, TypeOK
<1>3. Stream' = Stream /\ CountOfStream'
  BY <1>1, SameStream DEF HashInv
<1>4. BlocksAreFile'
  BY <1>1, <1>3 DEF HashInv, BlocksAreFile
<1>5. PaddingSoFar' /\ HashedIsPadded'
  BY <1>1 DEF PaddingSoFar, HashedIsPadded
<1> QED
  BY <1>2, <1>3, <1>4, <1>5 DEF HashInv

\* SHA1Final writes the length down before it adds the mark.
LEMMA StartFinalStep == HashInv /\ StartFinal => HashInv'
<1> SUFFICES ASSUME HashInv, StartFinal PROVE HashInv'
  OBVIOUS
<1> DEFINE mark == <<128>>
<1>1. TypeOK /\ CountOfStream /\ Stream = SubSeq(file, 1, read) /\ read = Len(file)
  BY DEF HashInv, BlocksAreFile, PaddingSoFar, StartFinal
<1>2. /\ final' = FinalCount(count) /\ Update(mark) /\ pc' = "pad"
      /\ UNCHANGED <<file, read, cut, broken>>
  BY DEF StartFinal, fileVars
<1>3. file \in Seq(Byte) /\ Len(file) \in Nat
  BY <1>1, FileIsBytes
<1>4. Stream = file
  BY <1>1, <1>3, SubSeqFull
<1>5. mark \in Seq(Byte)
  BY DEF Byte
<1>6. Cat(file, mark) = Marked(0)
  BY <1>3, MarkedStep
<1> HIDE DEF mark
<1>7. /\ count'.low \in 0..(Low - 1) /\ count'.high \in Nat
      /\ buffer' \in Seq(Byte) /\ Len(buffer') = Block
      /\ digested' \in Seq(Seq(Byte)) /\ \A k \in 1..Len(digested') : Len(digested'[k]) = Block
      /\ Stream' = Cat(Stream, mark) /\ CountOfStream'
  BY <1>1, <1>2, <1>5, UpdateStep
<1>8. final' = LengthField /\ LengthField \in Seq(Byte)
  BY <1>1, <1>2, <1>4, LengthFieldWritten
<1>9. LengthField' = LengthField
  BY <1>2 DEF LengthField
<1>10. TypeOK'
  BY <1>1, <1>2, <1>7, <1>8 DEF TypeOK
<1>11. Stream' = Marked(0)
  BY <1>4, <1>6, <1>7, Zenon
<1>12. Marked(0)' = Marked(0)
  BY <1>2 DEF Marked
<1>13. \E zeros \in 0..Zeros' : Stream' = Marked(zeros)'
  <2>1. Zeros' \in Nat
    <3>1. Zeros' = Zeros
      BY <1>2 DEF Zeros
    <3>2. Zeros \in Nat
      BY <1>3, LastZero DEF Zeros
    <3> QED
      BY <3>1, <3>2
  <2>2. 0 \in 0..Zeros'
    BY <2>1
  <2> QED
    BY <1>11, <1>12, <2>2, Zenon
<1>14. BlocksAreFile' /\ HashedIsPadded'
  BY <1>2 DEF BlocksAreFile, HashedIsPadded
<1>15. PaddingSoFar'
  BY <1>1, <1>2, <1>8, <1>9, <1>13 DEF PaddingSoFar
<1> QED
  BY <1>7, <1>10, <1>14, <1>15 DEF HashInv

\* In the padding the place in the buffer tells whether another zero is due.
LEMMA PlaceInPadding ==
  ASSUME HashInv, NEW k \in 0..Zeros, Stream = Marked(k)
  PROVE  k \in Nat /\ Zeros \in Nat /\ (Place = Block - Field <=> k = Zeros)
<1>1. TypeOK /\ CountOfStream
  BY DEF HashInv
<1>2. file \in Seq(Byte) /\ Len(file) \in Nat
  BY <1>1, FileIsBytes
<1>3. /\ Zeros \in Nat
      /\ \A z \in 0..Zeros : ((Len(file) + 1 + z) % Block = Block - Field) <=> (z = Zeros)
  BY <1>2, LastZero DEF Zeros
<1>4. k \in Nat
  BY <1>3
<1>5. Len(Stream) = Len(file) + 1 + k
  BY <1>2, <1>4, MarkedStep
<1>6. Place = (Len(file) + 1 + k) % Block
  BY <1>1, <1>5, PlaceOfStream
<1> QED
  BY <1>3, <1>4, <1>6

\* Zeros, until the length fits.
LEMMA PadZeroStep == HashInv /\ PadZero => HashInv'
<1> SUFFICES ASSUME HashInv, PadZero PROVE HashInv'
  OBVIOUS
<1> DEFINE zero == <<0>>
<1>1. TypeOK /\ CountOfStream /\ read = Len(file) /\ final = LengthField
  BY DEF HashInv, PaddingSoFar, PadZero
<1>2. pc = "pad" /\ UNCHANGED <<file, read, cut, broken, final>>
  BY DEF PadZero, fileVars
<1>3. PICK k \in 0..Zeros : Stream = Marked(k)
  BY <1>2 DEF HashInv, PaddingSoFar
<1>4. k \in Nat /\ Zeros \in Nat /\ (Place = Block - Field <=> k = Zeros)
  BY <1>3, PlaceInPadding
<1>5. file \in Seq(Byte) /\ Len(file) \in Nat
  BY <1>1, FileIsBytes
<1>6. LengthField' = LengthField /\ Zeros' = Zeros /\ \A z : Marked(z)' = Marked(z)
  BY <1>2 DEF LengthField, Zeros, Marked
<1>7. ASSUME Place # Block - Field PROVE HashInv'
  <2>1. Update(zero) /\ pc' = "pad"
    BY <1>2, <1>7 DEF PadZero
  <2>2. zero \in Seq(Byte)
    BY DEF Byte
  <2>3. Cat(Marked(k), zero) = Marked(k + 1)
    BY <1>4, <1>5, MarkedStep
  <2> HIDE DEF zero
  <2>4. /\ count'.low \in 0..(Low - 1) /\ count'.high \in Nat
        /\ buffer' \in Seq(Byte) /\ Len(buffer') = Block
        /\ digested' \in Seq(Seq(Byte)) /\ \A i \in 1..Len(digested') : Len(digested'[i]) = Block
        /\ Stream' = Cat(Stream, zero) /\ CountOfStream'
    BY <1>1, <2>1, <2>2, UpdateStep
  <2>5. TypeOK'
    BY <1>1, <1>2, <2>1, <2>4 DEF TypeOK
  <2>6. Stream' = Marked(k + 1)'
    BY <1>3, <1>6, <2>3, <2>4, Zenon
  <2>7. k + 1 \in 0..Zeros'
    BY <1>3, <1>4, <1>6, <1>7
  <2>8. \E zeros \in 0..Zeros' : Stream' = Marked(zeros)'
    BY <2>6, <2>7
  <2>9. BlocksAreFile' /\ HashedIsPadded'
    BY <2>1 DEF BlocksAreFile, HashedIsPadded
  <2>10. PaddingSoFar'
    BY <1>1, <1>2, <1>6, <2>1, <2>8 DEF PaddingSoFar
  <2> QED
    BY <2>4, <2>5, <2>9, <2>10 DEF HashInv
<1>8. ASSUME Place = Block - Field PROVE HashInv'
  <2>1. pc' = "length" /\ UNCHANGED <<buffer, count, digested>>
    BY <1>8 DEF PadZero
  <2>2. TypeOK'
    BY <1>1, <1>2, <2>1 DEF TypeOK
  <2>3. Stream' = Stream /\ CountOfStream'
    BY <1>1, <2>1, SameStream
  <2>4. Stream' = Marked(Zeros)'
    <3>1. Marked(Zeros)' = Marked(Zeros)
      BY <1>2 DEF Marked, Zeros
    <3> QED
      BY <1>3, <1>4, <1>8, <2>3, <3>1, Zenon
  <2>5. BlocksAreFile' /\ HashedIsPadded'
    BY <2>1 DEF BlocksAreFile, HashedIsPadded
  <2>6. PaddingSoFar'
    BY <1>1, <1>2, <1>6, <2>1, <2>4 DEF PaddingSoFar
  <2> QED
    BY <2>2, <2>3, <2>5, <2>6 DEF HashInv
<1> QED
  BY <1>7, <1>8

\* The length ends the last block, and nothing is left in the buffer.
LEMMA PadLengthStep == HashInv /\ PadLength => HashInv'
<1> SUFFICES ASSUME HashInv, PadLength PROVE HashInv'
  OBVIOUS
<1>1. TypeOK /\ CountOfStream /\ read = Len(file) /\ final = LengthField /\ Stream = Marked(Zeros)
  BY DEF HashInv, PaddingSoFar, PadLength
<1>2. /\ pc' = "done" /\ Update(final)
      /\ UNCHANGED <<file, read, cut, broken, final>>
  BY DEF PadLength, fileVars
<1>3. final \in Seq(Byte) /\ Len(final) = Field
  BY <1>1, LengthFieldWritten
<1>4. /\ count'.low \in 0..(Low - 1) /\ count'.high \in Nat
      /\ buffer' \in Seq(Byte) /\ Len(buffer') = Block
      /\ digested' \in Seq(Seq(Byte)) /\ \A i \in 1..Len(digested') : Len(digested'[i]) = Block
      /\ Stream' = Cat(Stream, final) /\ CountOfStream'
      /\ Place' = (Place + Len(final)) % Block
  BY <1>1, <1>2, <1>3, UpdateStep
<1>5. TypeOK'
  BY <1>1, <1>2, <1>4 DEF TypeOK
<1>6. Block \in Nat \ {0} /\ Field = 8 /\ Block > 8
  BY HashAssumption DEF Field
<1>7. Place' = 0
  <2>1. Zeros \in Nat
    <3>1. Len(file) \in Nat
      BY <1>1, FileIsBytes
    <3> QED
      BY <3>1, LastZero DEF Zeros
  <2>2. Zeros \in 0..Zeros
    BY <2>1
  <2>3. Place = Block - Field
    BY <1>1, <2>2, PlaceInPadding
  <2>4. Place + Len(final) = Block
    BY <1>3, <1>6, <2>3
  <2>5. (1 * Block + 0) % Block = 0 /\ 1 * Block + 0 = Block
    BY <1>6, DivModUnique
  <2> QED
    BY <1>4, <2>4, <2>5
<1>8. Stream' = Digested'
  <2>1. Stream' = Cat(Digested', SubSeq(buffer', 1, Place'))
    BY DEF Stream, Cat
  <2>2. SubSeq(buffer', 1, 0) = <<>>
    BY SubSeqEmpty
  <2>3. <<>> \in Seq(Byte)
    OBVIOUS
  <2>4. FlattenSeq(digested') \in Seq(Byte)
    BY <1>4, <2>3, FlattenAppend
  <2>5. Digested' \in Seq(Byte)
    BY <2>4 DEF Digested
  <2>6. Cat(Digested', <<>>) = Digested'
    BY <2>5, CatEmpty
  <2> QED
    BY <1>7, <2>1, <2>2, <2>6, Zenon
<1>9. Padded' = Cat(Marked(Zeros), LengthField)
  BY <1>2 DEF Padded, Cat, Marked, Zeros, LengthField
<1>10. HashedIsPadded'
  <2>1. Digested' = Padded'
    BY <1>1, <1>4, <1>8, <1>9, Zenon
  <2> QED
    BY <2>1 DEF HashedIsPadded
<1>11. BlocksAreFile' /\ PaddingSoFar'
  BY <1>1, <1>2 DEF BlocksAreFile, PaddingSoFar
<1> QED
  BY <1>4, <1>5, <1>10, <1>11 DEF HashInv

\* Nothing happens.
LEMMA IdleStep == HashInv /\ UNCHANGED vars => HashInv'
<1> SUFFICES ASSUME HashInv, UNCHANGED vars PROVE HashInv'
  OBVIOUS
<1>1. UNCHANGED <<file, read, cut, broken, buffer, count, digested, final, pc>>
  BY DEF vars
<1>2. Place' = Place /\ Stream' = Stream /\ CountOfStream'
  BY <1>1, SameStream DEF HashInv
<1>3. TypeOK'
  BY <1>1 DEF HashInv, TypeOK
<1>4. BlocksAreFile'
  BY <1>1, <1>2 DEF HashInv, BlocksAreFile
<1>5. HashedIsPadded'
  BY <1>1 DEF HashInv, HashedIsPadded, Digested, Padded, Marked, Zeros, LengthField
<1>6. LengthField' = LengthField /\ Zeros' = Zeros /\ \A z : Marked(z)' = Marked(z)
  BY <1>1 DEF LengthField, Zeros, Marked
<1>7. Marked(Zeros)' = Marked(Zeros)
  BY <1>1 DEF Zeros, Marked
<1>8. PaddingSoFar'
  BY <1>1, <1>2, <1>6, <1>7 DEF HashInv, PaddingSoFar
<1> QED
  BY <1>2, <1>3, <1>4, <1>5, <1>8 DEF HashInv

\* HashInv holds throughout: Spec keeps the context, the bit count and the phase of the
\* hash in step (SHA1Update, SHA1Final, getFileHash).
THEOREM HashInductive == Spec => []HashInv
<1>1. Init => HashInv
  BY InitInv
<1>2. HashInv /\ [Next]_vars => HashInv'
  BY OpenStep, ReadStep, ReadFailsStep, ReadBreaksStep, StartFinalStep, PadZeroStep,
     PadLengthStep, IdleStep DEF Next
<1> QED
  BY <1>1, <1>2, PTL DEF Spec

\* While the file is read, the blocks digested and the used part of the buffer are what
\* has been read (SHA1Update, called by getFileHash for every piece).
THEOREM BlocksAlwaysAreFile == Spec => []BlocksAreFile
<1>1. HashInv => BlocksAreFile
  BY DEF HashInv
<1> QED
  BY <1>1, HashInductive, PTL

\* The two words of count are the number of bits read, carries included (SHA1Update).
THEOREM CountAlwaysIsLength == Spec => []CountIsLength
<1>1. HashInv => CountIsLength
  <2> SUFFICES ASSUME HashInv, pc \in {"read", "final"}
      PROVE count.high * Low + count.low = read * Bits
    BY DEF CountIsLength
  <2>1. TypeOK /\ CountOfStream /\ Stream = SubSeq(file, 1, read)
    BY DEF HashInv, BlocksAreFile
  <2>2. file \in Seq(Byte) /\ read \in 0..Len(file) /\ Len(file) \in Nat
    BY <2>1, FileIsBytes
  <2>3. Len(SubSeq(file, 1, read)) = read
    <3>1. 1 \in 1..(Len(file) + 1) /\ read \in (1 - 1)..Len(file) /\ read - 1 + 1 = read
      BY <2>2
    <3> QED
      BY <2>2, <3>1, Part
  <2> QED
    BY <2>1, <2>3 DEF CountOfStream
<1> QED
  BY <1>1, HashInductive, PTL

\* The variables keep their types, so no write goes past the buffer; and what has been
\* digested when SHA1Final returns is the padded message of the standard.
THEOREM HashedAlwaysPadded == Spec => [](TypeOK /\ HashedIsPadded)
<1>1. HashInv => TypeOK /\ HashedIsPadded
  BY DEF HashInv
<1> QED
  BY <1>1, HashInductive, PTL

-----------------------------------------------------------------------------
(* Words of 32 bits, and their binary digits. *)

\* What it is to be a half of a word.
LEMMA HalfIs == Half \in Nat /\ \A h : h \in 0..(Half - 1) <=> h \in Nat /\ h < 65536
<1>1. \A H \in Nat : \A h : h \in 0..(H - 1) <=> h \in Nat /\ h < H
  OBVIOUS
<1>2. Half \in Nat
  BY DEF Half
<1>3. \A h : h \in 0..(Half - 1) <=> h \in Nat /\ h < Half
  BY <1>1, <1>2
<1>4. \A h \in Nat : h < Half <=> h < 65536
  BY DEF Half
<1> QED
  BY <1>2, <1>3, <1>4

\* A word has two halves.
LEMMA LongIs ==
  /\ \A a, b \in Nat : a < 65536 /\ b < 65536 => <<a, b>> \in Long
  /\ \A x \in Long : \E a, b \in Nat : a < 65536 /\ b < 65536 /\ x = <<a, b>>
BY HalfIs DEF Long

\* A half has the binary digits it is made of.
LEMMA OnesOfFromOnes ==
  ASSUME NEW S \in SUBSET Places
  PROVE  /\ FromOnes(S) \in Nat /\ FromOnes(S) < 65536
         /\ Ones(FromOnes(S)) = S
<1> DEFINE digit(k) == IF k \in S THEN 1 ELSE 0
<1>0. \A k \in 1..16 : digit(k) \in {0, 1} /\ (digit(k) = 1 <=> k \in S)
  OBVIOUS
<1>1. \A k \in 1..16 : (IF k \in S THEN Weight[k] ELSE 0) = Weight[k] * digit(k)
  BY DEF Weight
<1> HIDE DEF digit
<1>2. PICK b1 \in {0, 1}, b2 \in {0, 1}, b3 \in {0, 1}, b4 \in {0, 1} :
         b1 = digit(1) /\ b2 = digit(2) /\ b3 = digit(3) /\ b4 = digit(4)
  BY <1>0
<1>3. PICK b5 \in {0, 1}, b6 \in {0, 1}, b7 \in {0, 1}, b8 \in {0, 1} :
         b5 = digit(5) /\ b6 = digit(6) /\ b7 = digit(7) /\ b8 = digit(8)
  BY <1>0
<1>4. PICK b9 \in {0, 1}, b10 \in {0, 1}, b11 \in {0, 1}, b12 \in {0, 1} :
         b9 = digit(9) /\ b10 = digit(10) /\ b11 = digit(11) /\ b12 = digit(12)
  BY <1>0
<1>5. PICK b13 \in {0, 1}, b14 \in {0, 1}, b15 \in {0, 1}, b16 \in {0, 1} :
         b13 = digit(13) /\ b14 = digit(14) /\ b15 = digit(15) /\ b16 = digit(16)
  BY <1>0
<1> DEFINE sum == b1 + 2 * b2 + 4 * b3 + 8 * b4 + 16 * b5 + 32 * b6 + 64 * b7 + 128 * b8
                  + 256 * b9 + 512 * b10 + 1024 * b11 + 2048 * b12 + 4096 * b13 + 8192 * b14
                  + 16384 * b15 + 32768 * b16
<1>6. FromOnes(S) = sum
  <2> DEFINE d(k) == IF k \in S THEN Weight[k] ELSE 0
  <2>1. FromOnes(S) = d(1) + d(2) + d(3) + d(4) + d(5) + d(6) + d(7) + d(8) + d(9) + d(10) + d(11)
                    + d(12) + d(13) + d(14) + d(15) + d(16)
    BY DEF FromOnes
  <2>2. \A k \in 1..16 : d(k) = Weight[k] * digit(k)
    BY <1>1
  <2> HIDE DEF d
  <2>3. /\ d(1) = b1 /\ d(2) = 2 * b2 /\ d(3) = 4 * b3 /\ d(4) = 8 * b4
        /\ d(5) = 16 * b5 /\ d(6) = 32 * b6 /\ d(7) = 64 * b7 /\ d(8) = 128 * b8
        /\ d(9) = 256 * b9 /\ d(10) = 512 * b10 /\ d(11) = 1024 * b11 /\ d(12) = 2048 * b12
        /\ d(13) = 4096 * b13 /\ d(14) = 8192 * b14 /\ d(15) = 16384 * b15 /\ d(16) = 32768 * b16
    BY <2>2, <1>2, <1>3, <1>4, <1>5 DEF Weight
  <2>4. d(1) + d(2) + d(3) + d(4)
        = b1 + 2 * b2 + 4 * b3 + 8 * b4
    BY <2>3
  <2>5. d(1) + d(2) + d(3) + d(4) + d(5) + d(6) + d(7) + d(8)
        = b1 + 2 * b2 + 4 * b3 + 8 * b4 + 16 * b5 + 32 * b6 + 64 * b7 + 128 * b8
    BY <2>3, <2>4
  <2>6. d(1) + d(2) + d(3) + d(4) + d(5) + d(6) + d(7) + d(8) + d(9) + d(10) + d(11) + d(12)
        = b1 + 2 * b2 + 4 * b3 + 8 * b4 + 16 * b5 + 32 * b6 + 64 * b7 + 128 * b8 + 256 * b9
          + 512 * b10 + 1024 * b11 + 2048 * b12
    BY <2>3, <2>5
  <2> QED
    BY <2>1, <2>3, <2>6
<1>7. sum \in Nat /\ sum < 65536
  OBVIOUS
<1>8. (sum \div 1) % 2 = b1
  <2> DEFINE low == 0
             high == b2 + 2 * b3 + 4 * b4 + 8 * b5 + 16 * b6 + 32 * b7 + 64 * b8 + 128 * b9
                     + 256 * b10 + 512 * b11 + 1024 * b12 + 2048 * b13 + 4096 * b14 + 8192 * b15
                     + 16384 * b16
  <2>1. low \in Nat /\ high \in Nat /\ low < 1 /\ sum = low + 1 * (b1 + 2 * high)
    OBVIOUS
  <2> HIDE DEF low, high, sum
  <2> QED
    BY <2>1
<1>9. (sum \div 2) % 2 = b2
  <2> DEFINE low == b1
             high == b3 + 2 * b4 + 4 * b5 + 8 * b6 + 16 * b7 + 32 * b8 + 64 * b9 + 128 * b10
                     + 256 * b11 + 512 * b12 + 1024 * b13 + 2048 * b14 + 4096 * b15 + 8192 * b16
  <2>1. low \in Nat /\ high \in Nat /\ low < 2 /\ sum = low + 2 * (b2 + 2 * high)
    OBVIOUS
  <2> HIDE DEF low, high, sum
  <2> QED
    BY <2>1
<1>10. (sum \div 4) % 2 = b3
  <2> DEFINE low == b1 + 2 * b2
             high == b4 + 2 * b5 + 4 * b6 + 8 * b7 + 16 * b8 + 32 * b9 + 64 * b10 + 128 * b11
                     + 256 * b12 + 512 * b13 + 1024 * b14 + 2048 * b15 + 4096 * b16
  <2>1. low \in Nat /\ high \in Nat /\ low < 4 /\ sum = low + 4 * (b3 + 2 * high)
    OBVIOUS
  <2> HIDE DEF low, high, sum
  <2> QED
    BY <2>1
<1>11. (sum \div 8) % 2 = b4
  <2> DEFINE low == b1 + 2 * b2 + 4 * b3
             high == b5 + 2 * b6 + 4 * b7 + 8 * b8 + 16 * b9 + 32 * b10 + 64 * b11 + 128 * b12
                     + 256 * b13 + 512 * b14 + 1024 * b15 + 2048 * b16
  <2>1. low \in Nat /\ high \in Nat /\ low < 8 /\ sum = low + 8 * (b4 + 2 * high)
    OBVIOUS
  <2> HIDE DEF low, high, sum
  <2> QED
    BY <2>1
<1>12. (sum \div 16) % 2 = b5
  <2> DEFINE low == b1 + 2 * b2 + 4 * b3 + 8 * b4
             high == b6 + 2 * b7 + 4 * b8 + 8 * b9 + 16 * b10 + 32 * b11 + 64 * b12 + 128 * b13
                     + 256 * b14 + 512 * b15 + 1024 * b16
  <2>1. low \in Nat /\ high \in Nat /\ low < 16 /\ sum = low + 16 * (b5 + 2 * high)
    OBVIOUS
  <2> HIDE DEF low, high, sum
  <2> QED
    BY <2>1
<1>13. (sum \div 32) % 2 = b6
  <2> DEFINE low == b1 + 2 * b2 + 4 * b3 + 8 * b4 + 16 * b5
             high == b7 + 2 * b8 + 4 * b9 + 8 * b10 + 16 * b11 + 32 * b12 + 64 * b13 + 128 * b14
                     + 256 * b15 + 512 * b16
  <2>1. low \in Nat /\ high \in Nat /\ low < 32 /\ sum = low + 32 * (b6 + 2 * high)
    OBVIOUS
  <2> HIDE DEF low, high, sum
  <2> QED
    BY <2>1
<1>14. (sum \div 64) % 2 = b7
  <2> DEFINE low == b1 + 2 * b2 + 4 * b3 + 8 * b4 + 16 * b5 + 32 * b6
             high == b8 + 2 * b9 + 4 * b10 + 8 * b11 + 16 * b12 + 32 * b13 + 64 * b14 + 128 * b15
                     + 256 * b16
  <2>1. low \in Nat /\ high \in Nat /\ low < 64 /\ sum = low + 64 * (b7 + 2 * high)
    OBVIOUS
  <2> HIDE DEF low, high, sum
  <2> QED
    BY <2>1
<1>15. (sum \div 128) % 2 = b8
  <2> DEFINE low == b1 + 2 * b2 + 4 * b3 + 8 * b4 + 16 * b5 + 32 * b6 + 64 * b7
             high == b9 + 2 * b10 + 4 * b11 + 8 * b12 + 16 * b13 + 32 * b14 + 64 * b15 + 128 * b16
  <2>1. low \in Nat /\ high \in Nat /\ low < 128 /\ sum = low + 128 * (b8 + 2 * high)
    OBVIOUS
  <2> HIDE DEF low, high, sum
  <2> QED
    BY <2>1
<1>16. (sum \div 256) % 2 = b9
  <2> DEFINE low == b1 + 2 * b2 + 4 * b3 + 8 * b4 + 16 * b5 + 32 * b6 + 64 * b7 + 128 * b8
             high == b10 + 2 * b11 + 4 * b12 + 8 * b13 + 16 * b14 + 32 * b15 + 64 * b16
  <2>1. low \in Nat /\ high \in Nat /\ low < 256 /\ sum = low + 256 * (b9 + 2 * high)
    OBVIOUS
  <2> HIDE DEF low, high, sum
  <2> QED
    BY <2>1
<1>17. (sum \div 512) % 2 = b10
  <2> DEFINE low == b1 + 2 * b2 + 4 * b3 + 8 * b4 + 16 * b5 + 32 * b6 + 64 * b7 + 128 * b8
                    + 256 * b9
             high == b11 + 2 * b12 + 4 * b13 + 8 * b14 + 16 * b15 + 32 * b16
  <2>1. low \in Nat /\ high \in Nat /\ low < 512 /\ sum = low + 512 * (b10 + 2 * high)
    OBVIOUS
  <2> HIDE DEF low, high, sum
  <2> QED
    BY <2>1
<1>18. (sum \div 1024) % 2 = b11
  <2> DEFINE low == b1 + 2 * b2 + 4 * b3 + 8 * b4 + 16 * b5 + 32 * b6 + 64 * b7 + 128 * b8
                    + 256 * b9 + 512 * b10
             high == b12 + 2 * b13 + 4 * b14 + 8 * b15 + 16 * b16
  <2>1. low \in Nat /\ high \in Nat /\ low < 1024 /\ sum = low + 1024 * (b11 + 2 * high)
    OBVIOUS
  <2> HIDE DEF low, high, sum
  <2> QED
    BY <2>1
<1>19. (sum \div 2048) % 2 = b12
  <2> DEFINE low == b1 + 2 * b2 + 4 * b3 + 8 * b4 + 16 * b5 + 32 * b6 + 64 * b7 + 128 * b8
                    + 256 * b9 + 512 * b10 + 1024 * b11
             high == b13 + 2 * b14 + 4 * b15 + 8 * b16
  <2>1. low \in Nat /\ high \in Nat /\ low < 2048 /\ sum = low + 2048 * (b12 + 2 * high)
    OBVIOUS
  <2> HIDE DEF low, high, sum
  <2> QED
    BY <2>1
<1>20. (sum \div 4096) % 2 = b13
  <2> DEFINE low == b1 + 2 * b2 + 4 * b3 + 8 * b4 + 16 * b5 + 32 * b6 + 64 * b7 + 128 * b8
                    + 256 * b9 + 512 * b10 + 1024 * b11 + 2048 * b12
             high == b14 + 2 * b15 + 4 * b16
  <2>1. low \in Nat /\ high \in Nat /\ low < 4096 /\ sum = low + 4096 * (b13 + 2 * high)
    OBVIOUS
  <2> HIDE DEF low, high, sum
  <2> QED
    BY <2>1
<1>21. (sum \div 8192) % 2 = b14
  <2> DEFINE low == b1 + 2 * b2 + 4 * b3 + 8 * b4 + 16 * b5 + 32 * b6 + 64 * b7 + 128 * b8
                    + 256 * b9 + 512 * b10 + 1024 * b11 + 2048 * b12 + 4096 * b13
             high == b15 + 2 * b16
  <2>1. low \in Nat /\ high \in Nat /\ low < 8192 /\ sum = low + 8192 * (b14 + 2 * high)
    OBVIOUS
  <2> HIDE DEF low, high, sum
  <2> QED
    BY <2>1
<1>22. (sum \div 16384) % 2 = b15
  <2> DEFINE low == b1 + 2 * b2 + 4 * b3 + 8 * b4 + 16 * b5 + 32 * b6 + 64 * b7 + 128 * b8
                    + 256 * b9 + 512 * b10 + 1024 * b11 + 2048 * b12 + 4096 * b13 + 8192 * b14
             high == b16
  <2>1. low \in Nat /\ high \in Nat /\ low < 16384 /\ sum = low + 16384 * (b15 + 2 * high)
    OBVIOUS
  <2> HIDE DEF low, high, sum
  <2> QED
    BY <2>1
<1>23. (sum \div 32768) % 2 = b16
  <2> DEFINE low == b1 + 2 * b2 + 4 * b3 + 8 * b4 + 16 * b5 + 32 * b6 + 64 * b7 + 128 * b8
                    + 256 * b9 + 512 * b10 + 1024 * b11 + 2048 * b12 + 4096 * b13 + 8192 * b14
                    + 16384 * b15
             high == 0
  <2>1. low \in Nat /\ high \in Nat /\ low < 32768 /\ sum = low + 32768 * (b16 + 2 * high)
    OBVIOUS
  <2> HIDE DEF low, high, sum
  <2> QED
    BY <2>1
<1> HIDE DEF sum
<1>24. \A k \in 1..16 : (sum \div Weight[k]) % 2 = digit(k)
  BY <1>2, <1>3, <1>4, <1>5, <1>8, <1>9, <1>10, <1>11, <1>12, <1>13, <1>14, <1>15, <1>16,
     <1>17, <1>18, <1>19, <1>20, <1>21, <1>22, <1>23 DEF Weight
<1>25. Ones(sum) = S
  BY <1>0, <1>24 DEF Ones, Places
<1> QED
  BY <1>6, <1>7, <1>25

\* The digits of a half that an operation makes of others.
LEMMA HalvesAre ==
  /\ \A g, h : Ones(Differing(g, h)) = SymDiff(Ones(g), Ones(h))
  /\ \A g, h : Ones(Common(g, h)) = Ones(g) \cap Ones(h)
  /\ \A g, h : Ones(Either(g, h)) = Ones(g) \cup Ones(h)
  /\ \A h : Ones(Missing(h)) = Places \ Ones(h)
<1>1. \A h : Ones(h) \in SUBSET Places
  BY DEF Ones
<1>2. \A S, T \in SUBSET Places :
        /\ SymDiff(S, T) \in SUBSET Places /\ S \cap T \in SUBSET Places
        /\ S \cup T \in SUBSET Places /\ Places \ S \in SUBSET Places
  BY DEF SymDiff
<1> QED
  BY <1>1, <1>2, OnesOfFromOnes DEF Differing, Common, Either, Missing

\* The logical operations make words.
LEMMA LogicalType ==
  ASSUME NEW x, NEW y
  PROVE  XOR(x, y) \in Long /\ AND(x, y) \in Long /\ OR(x, y) \in Long /\ NOT(x) \in Long
<1>1. \A h : Ones(h) \in SUBSET Places
  BY DEF Ones
<1>2. \A S, T \in SUBSET Places :
        /\ SymDiff(S, T) \in SUBSET Places /\ S \cap T \in SUBSET Places
        /\ S \cup T \in SUBSET Places /\ Places \ S \in SUBSET Places
  BY DEF SymDiff
<1>3. \A g, h : /\ Differing(g, h) \in Nat /\ Differing(g, h) < 65536
                /\ Common(g, h) \in Nat /\ Common(g, h) < 65536
                /\ Either(g, h) \in Nat /\ Either(g, h) < 65536
                /\ Missing(h) \in Nat /\ Missing(h) < 65536
  BY <1>1, <1>2, OnesOfFromOnes DEF Differing, Common, Either, Missing
<1> QED
  BY <1>3, LongIs DEF XOR, AND, OR, NOT

\* The set identities behind the code's shorter forms.
LEMMA MixHalves ==
  ASSUME NEW w, NEW x, NEW y
  PROVE  /\ Differing(Common(w, Differing(x, y)), y) = Differing(Common(w, x), Common(Missing(w), y))
         /\ Either(Common(Either(w, x), y), Common(w, x))
              = Differing(Common(w, x), Differing(Common(w, y), Common(x, y)))
         /\ Differing(Differing(w, x), y) = Differing(w, Differing(x, y))
<1> DEFINE W == Ones(w)
           X == Ones(x)
           Y == Ones(y)
<1>1. Ones(Differing(w, x)) = SymDiff(W, X) /\ Ones(Differing(x, y)) = SymDiff(X, Y)
  BY HalvesAre, Zenon
<1>2. Ones(Common(w, x)) = W \cap X /\ Ones(Common(w, y)) = W \cap Y /\ Ones(Common(x, y)) = X \cap Y
  BY HalvesAre, Zenon
<1>3. Ones(Either(w, x)) = W \cup X /\ Ones(Missing(w)) = Places \ W
  BY HalvesAre, Zenon
<1>4. Ones(Common(w, Differing(x, y))) = W \cap SymDiff(X, Y)
  <2>1. Ones(Common(w, Differing(x, y))) = W \cap Ones(Differing(x, y))
    BY HalvesAre, Zenon
  <2> QED
    BY <1>1, <2>1, Zenon
<1>5. Ones(Common(Missing(w), y)) = (Places \ W) \cap Y
  <2>1. Ones(Common(Missing(w), y)) = Ones(Missing(w)) \cap Y
    BY HalvesAre, Zenon
  <2> QED
    BY <1>3, <2>1, Zenon
<1>6. Ones(Common(Either(w, x), y)) = (W \cup X) \cap Y
  <2>1. Ones(Common(Either(w, x), y)) = Ones(Either(w, x)) \cap Y
    BY HalvesAre, Zenon
  <2> QED
    BY <1>3, <2>1, Zenon
<1>7. Ones(Differing(Common(w, y), Common(x, y))) = SymDiff(W \cap Y, X \cap Y)
  <2>1. Ones(Differing(Common(w, y), Common(x, y))) = SymDiff(Ones(Common(w, y)), Ones(Common(x, y)))
    BY HalvesAre, Zenon
  <2> QED
    BY <1>2, <2>1, Zenon
<1>8. Y \subseteq Places
  BY DEF Ones
<1>9. Differing(Common(w, Differing(x, y)), y) = Differing(Common(w, x), Common(Missing(w), y))
  <2>1. SymDiff(W \cap SymDiff(X, Y), Y) = SymDiff(W \cap X, (Places \ W) \cap Y)
    <3> HIDE DEF W, X, Y
    <3> QED
      BY <1>8 DEF SymDiff
  <2> QED
    BY <1>2, <1>4, <1>5, <2>1, Zenon DEF Differing
<1>10. Either(Common(Either(w, x), y), Common(w, x))
         = Differing(Common(w, x), Differing(Common(w, y), Common(x, y)))
  <2>1. ((W \cup X) \cap Y) \cup (W \cap X) = SymDiff(W \cap X, SymDiff(W \cap Y, X \cap Y))
    <3> HIDE DEF W, X, Y
    <3> QED
      BY DEF SymDiff
  <2>2. Either(Common(Either(w, x), y), Common(w, x)) = FromOnes(((W \cup X) \cap Y) \cup (W \cap X))
    BY <1>2, <1>6, Zenon DEF Either
  <2>3. Differing(Common(w, x), Differing(Common(w, y), Common(x, y)))
          = FromOnes(SymDiff(W \cap X, SymDiff(W \cap Y, X \cap Y)))
    <3>1. \A g, h : Differing(g, h) = FromOnes(SymDiff(Ones(g), Ones(h)))
      BY DEF Differing
    <3> QED
      BY <1>2, <1>7, <3>1, Zenon
  <2> QED
    BY <2>1, <2>2, <2>3
<1>11. Differing(Differing(w, x), y) = Differing(w, Differing(x, y))
  <2>1. SymDiff(SymDiff(W, X), Y) = SymDiff(W, SymDiff(X, Y))
    <3> HIDE DEF W, X, Y
    <3> QED
      BY DEF SymDiff
  <2>2. \A g, h : Differing(g, h) = FromOnes(SymDiff(Ones(g), Ones(h)))
    BY DEF Differing
  <2> QED
    BY <1>1, <2>1, <2>2, Zenon
<1> QED
  BY <1>9, <1>10, <1>11

\* What the code's macros do with three registers is what the standard's functions do.
LEMMA MixIs ==
  ASSUME NEW w, NEW x, NEW y
  PROVE  /\ XOR(AND(w, XOR(x, y)), y) = Choice(w, x, y)
         /\ OR(AND(OR(w, x), y), AND(w, x)) = Majority(w, x, y)
         /\ XOR(XOR(w, x), y) = Parity(w, x, y)
<1>1. XOR(AND(w, XOR(x, y)), y) = Choice(w, x, y)
  BY MixHalves DEF Choice, XOR, AND, NOT
<1>2. OR(AND(OR(w, x), y), AND(w, x)) = Majority(w, x, y)
  BY MixHalves DEF Majority, XOR, AND, OR
<1>3. XOR(XOR(w, x), y) = Parity(w, x, y)
  BY MixHalves DEF Parity, XOR
<1> QED
  BY <1>1, <1>2, <1>3

\* Addition modulo 2^32 can be done in any order.
LEMMA PlusIs ==
  /\ \A x, y \in Long : Plus(x, y) \in Long /\ Plus(x, y) = Plus(y, x)
  /\ \A x, y, z \in Long : Plus(Plus(x, y), z) = Plus(x, Plus(y, z))
<1>0. \A a, b, c, d \in Nat : Plus(<<a, b>>, <<c, d>>) = <<(a + c + ((b + d) \div 65536)) % 65536, (b + d) % 65536>>
  BY DEF Plus, Half
<1>1. ASSUME NEW x \in Long, NEW y \in Long
      PROVE  Plus(x, y) \in Long /\ Plus(x, y) = Plus(y, x)
  <2>1. PICK a \in Nat, b \in Nat : x = <<a, b>>
    BY LongIs
  <2>2. PICK c \in Nat, d \in Nat : y = <<c, d>>
    BY LongIs
  <2> DEFINE p == (a + c + ((b + d) \div 65536)) % 65536
             q == (b + d) % 65536
  <2>3. p = (c + a + ((d + b) \div 65536)) % 65536 /\ q = (d + b) % 65536
    OBVIOUS
  <2>4. p \in Nat /\ p < 65536 /\ q \in Nat /\ q < 65536
    OBVIOUS
  <2>5. Plus(x, y) = <<p, q>>
    BY <1>0, <2>1, <2>2
  <2> HIDE DEF p, q
  <2>6. Plus(y, x) = <<p, q>>
    BY <1>0, <2>1, <2>2, <2>3
  <2> QED
    BY <2>4, <2>5, <2>6, LongIs
<1>2. ASSUME NEW x \in Long, NEW y \in Long, NEW z \in Long
      PROVE  Plus(Plus(x, y), z) = Plus(x, Plus(y, z))
  <2>1. PICK a \in Nat, b \in Nat : x = <<a, b>>
    BY LongIs
  <2>2. PICK c \in Nat, d \in Nat : y = <<c, d>>
    BY LongIs
  <2>3. PICK e \in Nat, f \in Nat : z = <<e, f>>
    BY LongIs
  <2> DEFINE p == (a + c + ((b + d) \div 65536)) % 65536
             q == (b + d) % 65536
             r == (c + e + ((d + f) \div 65536)) % 65536
             s == (d + f) % 65536
  <2>4. (q + f) % 65536 = (b + s) % 65536
    OBVIOUS
  <2>5. (p + e + ((q + f) \div 65536)) % 65536 = (a + r + ((b + s) \div 65536)) % 65536
    OBVIOUS
  <2>6. Plus(x, y) = <<p, q>> /\ Plus(y, z) = <<r, s>>
    BY <1>0, <2>1, <2>2, <2>3
  <2>7. p \in Nat /\ q \in Nat /\ r \in Nat /\ s \in Nat
    OBVIOUS
  <2> HIDE DEF p, q, r, s
  <2>8. Plus(<<p, q>>, z) = <<(p + e + ((q + f) \div 65536)) % 65536, (q + f) % 65536>>
    BY <1>0, <2>3, <2>7
  <2>9. Plus(x, <<r, s>>) = <<(a + r + ((b + s) \div 65536)) % 65536, (b + s) % 65536>>
    BY <1>0, <2>1, <2>7
  <2> QED
    BY <2>4, <2>5, <2>6, <2>8, <2>9
<1> QED
  BY <1>1, <1>2

\* The bits shifted out of one half fit into the place the other half leaves.
LEMMA ShiftedFits ==
  ASSUME NEW c \in Nat, NEW d \in Nat, c < 65536, d < 65536
  PROVE  /\ ((c * 2) % 65536) + (d \div 32768) < 65536
         /\ ((c * 32) % 65536) + (d \div 2048) < 65536
         /\ ((c * 16384) % 65536) + (d \div 4) < 65536
<1>1. ((c * 2) % 65536) + (d \div 32768) < 65536
  OBVIOUS
<1>2. ((c * 32) % 65536) + (d \div 2048) < 65536
  OBVIOUS
<1>3. ((c * 16384) % 65536) + (d \div 4) < 65536
  OBVIOUS
<1> QED
  BY <1>1, <1>2, <1>3

\* A rotated word is a word.
LEMMA RolType ==
  ASSUME NEW x \in Long
  PROVE  rol(x, 1) \in Long /\ rol(x, 5) \in Long /\ rol(x, 30) \in Long
<1>1. PICK a \in Nat, b \in Nat : a < 65536 /\ b < 65536 /\ x = <<a, b>>
  BY LongIs
<1>2. ASSUME NEW c \in Nat, NEW d \in Nat, c < 65536, d < 65536
      PROVE  /\ Shifted(c, d, 1) \in Nat /\ Shifted(c, d, 1) < 65536
             /\ Shifted(c, d, 5) \in Nat /\ Shifted(c, d, 5) < 65536
             /\ Shifted(c, d, 14) \in Nat /\ Shifted(c, d, 14) < 65536
  <2>1. /\ Shifted(c, d, 1) = ((c * 2) % 65536) + (d \div 32768)
        /\ Shifted(c, d, 5) = ((c * 32) % 65536) + (d \div 2048)
        /\ Shifted(c, d, 14) = ((c * 16384) % 65536) + (d \div 4)
    BY DEF Shifted, Weight, Half
  <2>2. /\ (c * 2) % 65536 \in Nat /\ d \div 32768 \in Nat
        /\ (c * 32) % 65536 \in Nat /\ d \div 2048 \in Nat
        /\ (c * 16384) % 65536 \in Nat /\ d \div 4 \in Nat
    OBVIOUS
  <2> QED
    BY <1>2, <2>1, <2>2, ShiftedFits
<1> DEFINE Pair(c, d, n) == <<Shifted(c, d, n), Shifted(d, c, n)>>
<1>3. rol(x, 1) = Pair(a, b, 1) /\ rol(x, 5) = Pair(a, b, 5) /\ rol(x, 30) = Pair(b, a, 14)
  BY <1>1 DEF rol
<1>4. ASSUME NEW c \in Nat, NEW d \in Nat, c < 65536, d < 65536
      PROVE  Pair(c, d, 1) \in Long /\ Pair(c, d, 5) \in Long /\ Pair(c, d, 14) \in Long
  <2>1. \A g, h \in Nat : g < 65536 /\ h < 65536 => <<g, h>> \in Long
    BY LongIs
  <2>2. Pair(c, d, 1) \in Long
    BY <1>2, <1>4, <2>1
  <2>3. Pair(c, d, 5) \in Long
    BY <1>2, <1>4, <2>1
  <2>4. Pair(c, d, 14) \in Long
    BY <1>2, <1>4, <2>1
  <2> QED
    BY <2>2, <2>3, <2>4
<1> HIDE DEF Pair
<1> QED
  BY <1>1, <1>3, <1>4

\* left counts the steps there are still to do.
Counts(S, step, left) ==
  /\ step \in [S -> S]
  /\ left \in [S -> Nat]
  /\ \A s \in S : left[s] # 0 => left[step[s]] = left[s] - 1

\* f does them.
Iterates(f, S, step, left) == f = [s \in S |-> IF left[s] = 0 THEN s ELSE f[step[s]]]

\* A set that contains an element whenever it contains the one a step leads to, and all
\* those with no step to do, contains everything.
LEMMA Descent ==
  ASSUME NEW S, NEW step, NEW left, Counts(S, step, left), NEW T,
         \A s \in S : left[s] = 0 => s \in T,
         \A s \in S : left[s] # 0 /\ step[s] \in T => s \in T
  PROVE  S \subseteq T
<1> DEFINE bad == {n \in Nat : \E s \in S : s \notin T /\ left[s] = n}
<1> SUFFICES ASSUME bad # {} PROVE FALSE
  BY DEF Counts
<1>1. PICK n \in bad : \A m \in bad : ~(m < n)
  <2>1. bad \subseteq Nat
    OBVIOUS
  <2> HIDE DEF bad
  <2> QED
    BY <2>1, LeastNat
<1>2. PICK s \in S : s \notin T /\ left[s] = n /\ n \in Nat
  BY <1>1
<1>3. n # 0
  BY <1>2
<1>4. step[s] \in S /\ step[s] \notin T /\ left[step[s]] = n - 1
  BY <1>2, <1>3 DEF Counts
<1>5. n - 1 \in Nat /\ n - 1 < n
  BY <1>2, <1>3
<1>6. n - 1 \in bad
  BY <1>4, <1>5
<1> QED
  BY <1>1, <1>5, <1>6

\* The function a recursive definition chooses exists.
LEMMA IterationExists ==
  ASSUME NEW S, NEW step, NEW left, Counts(S, step, left)
  PROVE  \E f : Iterates(f, S, step, left)
<1> DEFINE Path(p, s) == /\ p \in [Nat -> S] /\ p[0] = s
                         /\ \A i \in Nat : i < left[s] => p[i + 1] = step[p[i]]
           Ends(s) == {t \in S : \E p : Path(p, s) /\ p[left[s]] = t}
           f == [s \in S |-> CHOOSE t : t \in Ends(s)]
           T == {s \in S : Ends(s) # {}}
<1>1. ASSUME NEW s \in S, left[s] = 0
      PROVE  Ends(s) = {s}
  <2> DEFINE p == [i \in Nat |-> s]
  <2>1. Path(p, s) /\ p[left[s]] = s
    BY <1>1
  <2>2. \A q : Path(q, s) => q[left[s]] = s
    BY <1>1
  <2> QED
    BY <2>1, <2>2
<1>2. ASSUME NEW s \in S, left[s] # 0
      PROVE  Ends(s) = Ends(step[s])
  <2> DEFINE n == left[s]
             u == step[s]
  <2>1. u \in S /\ n \in Nat /\ n - 1 \in Nat /\ left[u] = n - 1
    BY <1>2 DEF Counts
  <2>2. ASSUME NEW p, Path(p, s)
        PROVE  \E q : Path(q, u) /\ q[left[u]] = p[n]
    <3> DEFINE q == [i \in Nat |-> p[i + 1]]
    <3>1. p \in [Nat -> S] /\ p[0] = s /\ \A i \in Nat : i < n => p[i + 1] = step[p[i]]
      BY <2>2
    <3>2. q \in [Nat -> S]
      BY <3>1
    <3>3. q[0] = u
      BY <2>1, <3>1
    <3>4. \A i \in Nat : i < left[u] => q[i + 1] = step[q[i]]
      <4>1. \A i \in Nat : i < n - 1 => i + 1 \in Nat /\ i + 1 < n
        BY <2>1
      <4> HIDE DEF n
      <4> QED
        BY <2>1, <3>1, <4>1
    <3>5. q[left[u]] = p[n]
      BY <2>1
    <3> QED
      BY <3>2, <3>3, <3>4, <3>5
  <2>3. ASSUME NEW q, Path(q, u)
        PROVE  \E p : Path(p, s) /\ p[n] = q[left[u]]
    <3> DEFINE p == [i \in Nat |-> IF i = 0 THEN s ELSE q[i - 1]]
    <3>1. q \in [Nat -> S] /\ q[0] = u /\ \A i \in Nat : i < n - 1 => q[i + 1] = step[q[i]]
      BY <2>1, <2>3
    <3>2. p \in [Nat -> S] /\ p[0] = s
      BY <3>1
    <3>3. \A i \in Nat : p[i + 1] = q[i]
      BY <3>1
    <3>4. \A i \in Nat : i < n => p[i + 1] = step[p[i]]
      <4> SUFFICES ASSUME NEW i \in Nat, i < n PROVE p[i + 1] = step[p[i]]
        OBVIOUS
      <4>1. CASE i = 0
        BY <3>1, <3>2, <3>3, <4>1
      <4>2. CASE i # 0
        <5>1. i - 1 \in Nat /\ i - 1 < n - 1 /\ (i - 1) + 1 = i
          BY <2>1, <4>2
        <5>2. q[(i - 1) + 1] = step[q[i - 1]]
          BY <3>1, <5>1
        <5>3. p[i + 1] = q[i] /\ p[i] = q[i - 1]
          BY <3>3, <4>2
        <5> QED
          BY <5>1, <5>2, <5>3
      <4> QED
        BY <4>1, <4>2
    <3>5. p[n] = q[left[u]]
      BY <1>2, <2>1
    <3> QED
      BY <3>2, <3>4, <3>5
  <2> HIDE DEF Path
  <2> QED
    BY <2>2, <2>3
<1>3. S \subseteq T
  <2> HIDE DEF Ends
  <2>1. \A s \in S : left[s] = 0 => s \in T
    BY <1>1
  <2>2. \A s \in S : left[s] # 0 /\ step[s] \in T => s \in T
    BY <1>2
  <2> HIDE DEF T
  <2> QED
    BY <2>1, <2>2, Descent
<1>4. \A s \in S : left[s] = 0 => f[s] = s
  BY <1>1
<1>5. \A s \in S : left[s] # 0 => f[s] = f[step[s]]
  <2> SUFFICES ASSUME NEW s \in S, left[s] # 0 PROVE f[s] = f[step[s]]
    OBVIOUS
  <2>1. Ends(s) = Ends(step[s]) /\ step[s] \in S
    BY <1>2 DEF Counts
  <2> HIDE DEF Ends
  <2> QED
    BY <2>1
<1>6. f = [s \in S |-> IF left[s] = 0 THEN s ELSE f[step[s]]]
  <2>1. DOMAIN f = S /\ f = [s \in S |-> f[s]]
    OBVIOUS
  <2> HIDE DEF f
  <2> QED
    BY <1>4, <1>5, <2>1
<1> QED
  BY <1>6 DEF Iterates

\* What every step keeps still holds in the end.
LEMMA IterationKeeps ==
  ASSUME NEW S, NEW step, NEW left, Counts(S, step, left), NEW f, Iterates(f, S, step, left),
         NEW Inv, Inv \subseteq S, \A s \in Inv : left[s] # 0 => step[s] \in Inv
  PROVE  \A s \in Inv : f[s] \in Inv /\ left[f[s]] = 0
<1> DEFINE T == {s \in S : s \in Inv => f[s] \in Inv /\ left[f[s]] = 0}
<1>1. \A s \in S : f[s] = IF left[s] = 0 THEN s ELSE f[step[s]]
  BY DEF Iterates
<1>2. \A s \in S : left[s] = 0 => s \in T
  BY <1>1
<1>3. \A s \in S : left[s] # 0 /\ step[s] \in T => s \in T
  BY <1>1
<1>4. S \subseteq T
  <2> HIDE DEF T
  <2> QED
    BY <1>2, <1>3, Descent
<1> QED
  BY <1>4

\* Two iterations that keep step end in states that are related as the first ones were.
LEMMA IterationsInStep ==
  ASSUME NEW S, NEW step, NEW left, Counts(S, step, left), NEW f, Iterates(f, S, step, left),
         NEW S2, NEW step2, NEW left2, Counts(S2, step2, left2), NEW f2, Iterates(f2, S2, step2, left2),
         NEW R, R \subseteq S \X S2,
         \A s \in S, t \in S2 : <<s, t>> \in R => left[s] = left2[t],
         \A s \in S, t \in S2 : <<s, t>> \in R /\ left[s] # 0 => <<step[s], step2[t]>> \in R
  PROVE  \A s \in S, t \in S2 : <<s, t>> \in R => <<f[s], f2[t]>> \in R /\ left[f[s]] = 0
<1> DEFINE T == {s \in S : \A t \in S2 : <<s, t>> \in R => <<f[s], f2[t]>> \in R /\ left[f[s]] = 0}
<1>1. \A s \in S : f[s] = IF left[s] = 0 THEN s ELSE f[step[s]]
  BY DEF Iterates
<1>2. \A t \in S2 : f2[t] = IF left2[t] = 0 THEN t ELSE f2[step2[t]]
  BY DEF Iterates
<1>3. \A s \in S : left[s] = 0 => s \in T
  BY <1>1, <1>2
<1>4. \A s \in S : left[s] # 0 /\ step[s] \in T => s \in T
  <2> SUFFICES ASSUME NEW s \in S, left[s] # 0, step[s] \in T, NEW t \in S2, <<s, t>> \in R
               PROVE  <<f[s], f2[t]>> \in R /\ left[f[s]] = 0
    OBVIOUS
  <2>1. left2[t] # 0 /\ <<step[s], step2[t]>> \in R /\ step2[t] \in S2
    BY DEF Counts
  <2>2. f[s] = f[step[s]] /\ f2[t] = f2[step2[t]]
    BY <1>1, <1>2, <2>1
  <2> QED
    BY <2>1, <2>2
<1>5. S \subseteq T
  <2> HIDE DEF T
  <2> QED
    BY <1>3, <1>4, Descent
<1> QED
  BY <1>5

-----------------------------------------------------------------------------
(* The rounds. *)

\* Two bytes make half a word.
LEMMA TwoBytes ==
  ASSUME NEW p \in Nat, NEW q \in Nat, p < 256, q < 256
  PROVE  p + 256 * q \in Nat /\ p + 256 * q < 65536
OBVIOUS

\* The words of a block of 64 bytes.
LEMMA WordsType ==
  ASSUME NEW bytes \in Seq(Byte), Len(bytes) = 64
  PROVE  Words(bytes) \in [1..16 -> Long]
<1>1. \A b \in Byte : b \in Nat /\ b < 256
  BY DEF Byte
<1>2. ASSUME NEW k \in 1..16
      PROVE  Words(bytes)[k] \in Long
  <2> DEFINE c == SubSeq(bytes, 4 * k - 3, 4 * k)
  <2>1. 4 * k - 3 \in 1..(Len(bytes) + 1) /\ 4 * k \in ((4 * k - 3) - 1)..Len(bytes)
    OBVIOUS
  <2>2. Len(c) = 4 /\ \A j \in 1..4 : c[j] \in Byte
    <3>1. c \in Seq(Byte) /\ Len(c) = 4 * k - (4 * k - 3) + 1
      BY <2>1, Part
    <3>2. 4 * k - (4 * k - 3) + 1 = 4
      OBVIOUS
    <3> HIDE DEF c
    <3>3. Len(c) = 4
      BY <3>1, <3>2
    <3> QED
      BY <3>1, <3>3, ElementOfSeq
  <2>3. Words(bytes)[k] = Word(c)
    BY DEF Words
  <2> HIDE DEF c
  <2>4. /\ c[1] \in Nat /\ c[1] < 256 /\ c[2] \in Nat /\ c[2] < 256
        /\ c[3] \in Nat /\ c[3] < 256 /\ c[4] \in Nat /\ c[4] < 256
    <3>1. 1 \in 1..4 /\ 2 \in 1..4 /\ 3 \in 1..4 /\ 4 \in 1..4
      OBVIOUS
    <3> QED
      BY <1>1, <2>2, <3>1
  <2> DEFINE p == c[1]
             q == c[2]
             r == c[3]
             v == c[4]
  <2>5. p \in Nat /\ p < 256 /\ q \in Nat /\ q < 256 /\ r \in Nat /\ r < 256 /\ v \in Nat /\ v < 256
    BY <2>4
  <2>6. Word(c) = <<r + 256 * v, p + 256 * q>>
    BY DEF Word
  <2> HIDE DEF p, q, r, v
  <2>7. r + 256 * v \in Nat /\ r + 256 * v < 65536
    BY <2>5, TwoBytes
  <2>8. p + 256 * q \in Nat /\ p + 256 * q < 65536
    BY <2>5, TwoBytes
  <2> QED
    BY <2>3, <2>6, <2>7, <2>8, LongIs
<1> QED
  BY <1>2 DEF Words

\* The constant of a round is a word.
LEMMA ConstantType ==
  ASSUME NEW i \in Nat
  PROVE  Constant(i) \in Long
BY LongIs DEF Constant

\* What a round mixes of three registers is a word.
LEMMA MixType ==
  ASSUME NEW i \in Nat, NEW w, NEW x, NEW y
  PROVE  Mix(i, w, x, y) \in Long
BY LogicalType DEF Mix

\* The five variables change roles from round to round, and no two have the same.
LEMMA RoleIs ==
  ASSUME NEW i \in 0..80
  PROVE  /\ \A k \in 0..4 : Role(i, k) \in 1..5
         /\ \A k, m \in 0..4 : Role(i, k) = Role(i, m) => k = m
         /\ i # 80 => Role(i + 1, 0) = Role(i, 4) /\ \A k \in 0..3 : Role(i + 1, k + 1) = Role(i, k)
         /\ i \in {0, 80} => \A k \in 0..4 : Role(i, k) = k + 1
<1>1. \A k \in 0..4 : Role(i, k) \in 1..5
  BY DEF Role
<1>2. \A k, m \in 0..4 : Role(i, k) = Role(i, m) => k = m
  BY DEF Role
<1>3. i # 80 => Role(i + 1, 0) = Role(i, 4)
  BY DEF Role
<1>4. i # 80 => \A k \in 0..3 : Role(i + 1, k + 1) = Role(i, k)
  BY DEF Role
<1>5. i \in {0, 80} => \A k \in 0..4 : Role(i, k) = k + 1
  BY DEF Role
<1> QED
  BY <1>1, <1>2, <1>3, <1>4, <1>5

\* The code's sum and the standard's have the same terms.
LEMMA SameSum ==
  ASSUME NEW z \in Long, NEW f \in Long, NEW word \in Long, NEW c \in Long, NEW v \in Long
  PROVE  /\ Plus(z, Plus(Plus(Plus(f, word), c), v)) = Plus(Plus(Plus(Plus(v, f), z), c), word)
         /\ Plus(z, Plus(Plus(Plus(f, word), c), v)) \in Long
<1>1. \A x, y \in Long : Plus(x, y) \in Long /\ Plus(x, y) = Plus(y, x)
  BY PlusIs
<1>2. \A x, y, u \in Long : Plus(Plus(x, y), u) = Plus(x, Plus(y, u))
  BY PlusIs
<1>3. \A x, y, u \in Long : Plus(Plus(x, y), u) = Plus(Plus(x, u), y)
  BY <1>1, <1>2
<1>4. Plus(Plus(Plus(Plus(v, f), z), c), word) = Plus(Plus(Plus(Plus(v, f), word), c), z)
  BY <1>1, <1>3
<1>5. Plus(Plus(Plus(v, f), word), c) = Plus(Plus(Plus(f, word), c), v)
  BY <1>1, <1>2, <1>3
<1> QED
  BY <1>1, <1>4, <1>5

\* Before round i the variable with role k is the standard's register k + 1, and the memory
\* of the block holds the sixteen last words of the schedule, or the first.
Agree(s, t, W) ==
  /\ t.t = s.i + 1
  /\ \A k \in 0..4 : s.r[Role(s.i, k)] = t.r[k + 1]
  /\ \A j \in 0..79 : (j < s.i \/ j < 16) /\ s.i <= j + 16 => s.l[(j % 16) + 1] = W[j + 1]

\* W is the schedule of the words m.
Scheduled(W, m) ==
  /\ W \in [1..80 -> Long]
  /\ \A k \in 1..16 : W[k] = m[k]
  /\ \A k \in 17..80 : W[k] = Extension(W, k)

\* The word a round takes is the standard's.
LEMMA WordOfRound ==
  ASSUME NEW s \in Working, NEW t, NEW W, NEW m, Scheduled(W, m), Agree(s, t, W), s.i # 80
  PROVE  (IF s.i < 16 THEN l16(s.l, s.i) ELSE blk(s.l, s.i)) = W[s.i + 1]
<1> DEFINE i == s.i
           l == s.l
<1>1. i \in 0..79
  BY DEF Working
<1>2. \A j \in 0..79 : (j < i \/ j < 16) /\ i <= j + 16 => l[(j % 16) + 1] = W[j + 1]
  BY DEF Agree
<1>3. \A k \in 17..80 : W[k] = Extension(W, k)
  BY DEF Scheduled
<1> HIDE DEF i, l
<1>4. CASE i < 16
  BY <1>1, <1>2, <1>4 DEF l16, i, l
<1>5. CASE ~(i < 16)
  <2>1. \A n \in {2, 8, 13} : /\ (i + n) % 16 = (i + n - 16) % 16
                              /\ i + n - 16 \in 0..79 /\ i + n - 16 < i /\ i <= (i + n - 16) + 16
    BY <1>1, <1>5
  <2>2. i % 16 = (i - 16) % 16 /\ i - 16 \in 0..79 /\ i - 16 < i /\ i <= (i - 16) + 16
    BY <1>1, <1>5
  <2>3. /\ l16(l, i + 13) = W[(i + 13 - 16) + 1] /\ l16(l, i + 8) = W[(i + 8 - 16) + 1]
        /\ l16(l, i + 2) = W[(i + 2 - 16) + 1] /\ l16(l, i) = W[(i - 16) + 1]
    BY <1>2, <2>1, <2>2 DEF l16
  <2>4. /\ (i + 13 - 16) + 1 = (i + 1) - 3 /\ (i + 8 - 16) + 1 = (i + 1) - 8
        /\ (i + 2 - 16) + 1 = (i + 1) - 14 /\ (i - 16) + 1 = (i + 1) - 16 /\ i + 1 \in 17..80
    BY <1>1, <1>5
  <2>5. blk(l, i) = Extension(W, i + 1)
    BY <2>3, <2>4 DEF blk, Extension
  <2> QED
    BY <1>3, <1>5, <2>4, <2>5 DEF i, l
<1> QED
  BY <1>4, <1>5

\* A round works on words.
LEMMA RoundType ==
  ASSUME NEW s \in Working, s.i # 80
  PROVE  Round(s) \in Working /\ Round(s).i = s.i + 1
<1> DEFINE i == s.i
           v == s.r[Role(i, 0)]
           w == s.r[Role(i, 1)]
           x == s.r[Role(i, 2)]
           y == s.r[Role(i, 3)]
           z == s.r[Role(i, 4)]
           mix == Mix(i, w, x, y)
           word == IF i < 16 THEN l16(s.l, i) ELSE blk(s.l, i)
           sum == Plus(z, Plus(Plus(Plus(mix, word), Constant(i)), rol(v, 5)))
           turned == rol(w, 30)
           r1 == [s.r EXCEPT ![Role(i, 4)] = sum, ![Role(i, 1)] = turned]
           l1 == [s.l EXCEPT ![(i % 16) + 1] = word]
<1>1. i \in 0..79 /\ i \in Nat /\ i + 1 \in 0..80 /\ s.r \in [1..5 -> Long] /\ s.l \in [1..16 -> Long]
  BY DEF Working
<1>2. \A k \in 0..4 : Role(i, k) \in 1..5
  BY <1>1, RoleIs
<1>3. v \in Long /\ w \in Long /\ z \in Long
  BY <1>1, <1>2
<1>4. word \in Long
  <2>1. (i % 16) + 1 \in 1..16
    BY <1>1
  <2>2. l16(s.l, i) \in Long
    BY <1>1, <2>1 DEF l16
  <2>3. blk(s.l, i) \in Long
    BY LogicalType, RolType DEF blk
  <2> QED
    BY <2>2, <2>3
<1>5. Round(s) = [i |-> i + 1, r |-> r1, l |-> l1]
  BY DEF Round
<1>6. mix \in Long /\ turned \in Long
  BY <1>1, <1>3, MixType, RolType
<1>7. sum \in Long
  <2> DEFINE c == Constant(i)
             b == rol(v, 5)
  <2>1. c \in Long /\ b \in Long
    BY <1>1, <1>3, ConstantType, RolType
  <2>2. \A a, f, g, d, e \in Long : Plus(a, Plus(Plus(Plus(f, g), d), e)) \in Long
    BY SameSum
  <2> HIDE DEF z, mix, word, c, b
  <2>3. Plus(z, Plus(Plus(Plus(mix, word), c), b)) \in Long
    BY <1>3, <1>4, <1>6, <2>1, <2>2
  <2> QED
    BY <2>3 DEF c, b
<1> HIDE DEF sum, turned, word, mix
<1>8. r1 \in [1..5 -> Long]
  BY <1>1, <1>2, <1>6, <1>7
<1>9. l1 \in [1..16 -> Long]
  BY <1>1, <1>4
<1> HIDE DEF r1, l1
<1> QED
  BY <1>1, <1>5, <1>8, <1>9 DEF Working

\* A step of the standard works on words.
LEMMA StepType ==
  ASSUME NEW t \in Registers, t.t # 81, NEW word \in Long
  PROVE  Step(t, word) \in Registers /\ Step(t, word).t = t.t + 1
<1> DEFINE r == t.r
           f == CASE t.t <= 20 -> Choice(r[2], r[3], r[4])
                  [] 40 < t.t /\ t.t <= 60 -> Majority(r[2], r[3], r[4])
                  [] OTHER -> Parity(r[2], r[3], r[4])
           a == rol(r[1], 5)
           c == Constant(t.t - 1)
           T == Plus(Plus(Plus(Plus(a, f), r[5]), c), word)
           turned == rol(r[2], 30)
<1>1. t.t \in 1..80 /\ t.t - 1 \in Nat /\ t.t + 1 \in 1..81 /\ r \in [1..5 -> Long]
  BY DEF Registers
<1>2. f \in Long
  BY LogicalType DEF Choice, Majority, Parity
<1>3. a \in Long /\ c \in Long /\ turned \in Long /\ r[5] \in Long
  BY <1>1, ConstantType, RolType
<1>4. T \in Long
  <2>1. \A x, y \in Long : Plus(x, y) \in Long
    BY PlusIs
  <2> HIDE DEF f, a, c, r
  <2> QED
    BY <1>2, <1>3, <2>1
<1>5. Step(t, word) = [t |-> t.t + 1, r |-> <<T, r[1], turned, r[3], r[4]>>]
  BY DEF Step
<1> HIDE DEF T, turned
<1>6. <<T, r[1], turned, r[3], r[4]>> \in [1..5 -> Long]
  BY <1>1, <1>3, <1>4
<1> QED
  BY <1>1, <1>5, <1>6 DEF Registers

\* A round of the code and a step of the standard keep what agrees agreeing.
LEMMA RoundStep ==
  ASSUME NEW s \in Working, NEW t \in Registers, NEW W, NEW m, Scheduled(W, m), Agree(s, t, W), s.i # 80
  PROVE  Round(s) \in Working /\ Step(t, W[t.t]) \in Registers /\ Agree(Round(s), Step(t, W[t.t]), W)
<1> DEFINE i == s.i
           v == s.r[Role(i, 0)]
           w == s.r[Role(i, 1)]
           x == s.r[Role(i, 2)]
           y == s.r[Role(i, 3)]
           z == s.r[Role(i, 4)]
           mix == Mix(i, w, x, y)
           word == W[i + 1]
           sum == Plus(z, Plus(Plus(Plus(mix, word), Constant(i)), rol(v, 5)))
           turned == rol(w, 30)
           r1 == [s.r EXCEPT ![Role(i, 4)] = sum, ![Role(i, 1)] = turned]
           l1 == [s.l EXCEPT ![(i % 16) + 1] = word]
           u == Step(t, W[t.t])
<1>1. i \in 0..79 /\ i \in Nat /\ i + 1 \in 1..80 /\ i + 1 # 81 /\ s.r \in [1..5 -> Long] /\ s.l \in [1..16 -> Long]
  BY DEF Working
<1>2. \A k \in 0..4 : Role(i, k) \in 1..5
  BY <1>1, RoleIs
<1>3. v \in Long /\ w \in Long /\ x \in Long /\ y \in Long /\ z \in Long
  BY <1>1, <1>2
<1>4. t.t = i + 1 /\ v = t.r[1] /\ w = t.r[2] /\ x = t.r[3] /\ y = t.r[4] /\ z = t.r[5]
  BY DEF Agree
<1>5. word \in Long
  BY <1>1 DEF Scheduled
<1>6. Round(s) = [i |-> i + 1, r |-> r1, l |-> l1]
  <2>1. (IF i < 16 THEN l16(s.l, i) ELSE blk(s.l, i)) = word
    BY WordOfRound
  <2> QED
    BY <2>1 DEF Round
<1>7. mix \in Long /\ Constant(i) \in Long /\ turned \in Long /\ rol(v, 5) \in Long
  BY <1>1, <1>3, MixType, ConstantType, RolType
<1>8. sum \in Long /\ sum = Plus(Plus(Plus(Plus(rol(v, 5), mix), z), Constant(i)), word)
  <2>1. \A a, f, g, c, b \in Long :
          /\ Plus(a, Plus(Plus(Plus(f, g), c), b)) = Plus(Plus(Plus(Plus(b, f), a), c), g)
          /\ Plus(a, Plus(Plus(Plus(f, g), c), b)) \in Long
    BY SameSum
  <2> DEFINE c == Constant(i)
             b == rol(v, 5)
  <2>2. z \in Long /\ mix \in Long /\ word \in Long /\ c \in Long /\ b \in Long
    BY <1>3, <1>5, <1>7
  <2> HIDE DEF z, mix, word, c, b
  <2>3. /\ Plus(z, Plus(Plus(Plus(mix, word), c), b)) = Plus(Plus(Plus(Plus(b, mix), z), c), word)
        /\ Plus(z, Plus(Plus(Plus(mix, word), c), b)) \in Long
    BY <2>1, <2>2
  <2> QED
    BY <2>3 DEF c, b
<1>9. u = [t |-> i + 2, r |-> <<sum, v, turned, x, y>>]
  <2> DEFINE f == CASE t.t <= 20 -> Choice(w, x, y)
                    [] 40 < t.t /\ t.t <= 60 -> Majority(w, x, y)
                    [] OTHER -> Parity(w, x, y)
  <2>1. f = mix
    BY <1>1, <1>4, MixIs DEF Mix
  <2>2. u = [t |-> t.t + 1,
             r |-> <<Plus(Plus(Plus(Plus(rol(v, 5), f), z), Constant(t.t - 1)), W[t.t]), v, turned, x, y>>]
    BY <1>4 DEF Step
  <2>3. t.t - 1 = i /\ t.t + 1 = i + 2
    BY <1>1, <1>4
  <2> HIDE DEF f, mix, u
  <2> QED
    BY <1>4, <1>8, <2>1, <2>2, <2>3
<1> HIDE DEF sum, turned, word, mix, u
<1>10. Round(s) \in Working
  BY RoundType
<1>11. u \in Registers
  BY <1>1, <1>4, <1>5, StepType DEF u, word
<1>12. \A k \in 0..4 : r1[Role(i + 1, k)] = <<sum, v, turned, x, y>>[k + 1]
  <2>1. /\ Role(i + 1, 0) = Role(i, 4) /\ Role(i + 1, 1) = Role(i, 0) /\ Role(i + 1, 2) = Role(i, 1)
        /\ Role(i + 1, 3) = Role(i, 2) /\ Role(i + 1, 4) = Role(i, 3)
    BY <1>1, RoleIs
  <2>2. /\ Role(i, 4) # Role(i, 1) /\ Role(i, 4) # Role(i, 0) /\ Role(i, 4) # Role(i, 2)
        /\ Role(i, 4) # Role(i, 3) /\ Role(i, 1) # Role(i, 0) /\ Role(i, 1) # Role(i, 2)
        /\ Role(i, 1) # Role(i, 3)
    BY <1>1, RoleIs
  <2>3. /\ r1[Role(i, 4)] = sum /\ r1[Role(i, 1)] = turned
        /\ r1[Role(i, 0)] = v /\ r1[Role(i, 2)] = x /\ r1[Role(i, 3)] = y
    BY <1>1, <1>2, <2>2
  <2> HIDE DEF r1, v, x, y
  <2> QED
    BY <2>1, <2>3
<1>13. \A j \in 0..79 : (j < i + 1 \/ j < 16) /\ i + 1 <= j + 16 => l1[(j % 16) + 1] = W[j + 1]
  <2> SUFFICES ASSUME NEW j \in 0..79, j < i + 1 \/ j < 16, i + 1 <= j + 16
               PROVE  l1[(j % 16) + 1] = W[j + 1]
    OBVIOUS
  <2>1. (j % 16) + 1 \in 1..16 /\ (i % 16) + 1 \in 1..16
    BY <1>1
  <2>2. CASE j = i
    BY <1>1, <2>1, <2>2 DEF word
  <2>3. CASE j % 16 = i % 16
    <3>1. j = i \/ (j < 16 /\ i < 16)
      BY <1>1, <2>3
    <3>2. j = i
      BY <1>1, <2>3, <3>1
    <3> QED
      BY <2>2, <3>2
  <2>4. CASE j # i /\ j % 16 # i % 16
    <3>1. (j < i \/ j < 16) /\ i <= j + 16
      BY <1>1, <2>4
    <3>2. s.l[(j % 16) + 1] = W[j + 1]
      BY <3>1 DEF Agree
    <3>3. (j % 16) + 1 # (i % 16) + 1
      BY <1>1, <2>4
    <3> QED
      BY <1>1, <2>1, <3>2, <3>3
  <2> QED
    BY <2>2, <2>3, <2>4
<1>14. Agree(Round(s), u, W)
  <2>1. Round(s).i = i + 1 /\ Round(s).r = r1 /\ Round(s).l = l1
    BY <1>6
  <2>2. u.t = (i + 1) + 1 /\ u.r = <<sum, v, turned, x, y>>
    BY <1>1, <1>9
  <2> HIDE DEF i, r1, l1, v, x, y
  <2> QED
    BY <1>12, <1>13, <2>1, <2>2 DEF Agree
<1> QED
  BY <1>10, <1>11, <1>14 DEF u

-----------------------------------------------------------------------------
(* SHA1Transform *)

\* A sequence is a function on its places.
LEMMA SeqIsFunction ==
  ASSUME NEW S, NEW n \in Nat, NEW f
  PROVE  f \in [1..n -> S] <=> f \in Seq(S) /\ Len(f) = n
OBVIOUS

\* The eighty words are the first sixteen and what is extended from them.
LEMMA ScheduleIs ==
  ASSUME NEW m \in [1..16 -> Long]
  PROVE  Scheduled(Schedule(m), m)
<1> DEFINE size(W) == Len(W)
           S == {V \in Seq(Long) : 16 <= size(V) /\ size(V) <= 80}
           next(W) == Append(W, Extension(W, size(W) + 1))
           step == [W \in S |-> IF size(W) = 80 THEN W ELSE next(W)]
           left == [W \in S |-> 80 - size(W)]
           F(f) == [W \in S |-> IF size(W) = 80 THEN W ELSE f[next(W)]]
           extended == CHOOSE f : f = F(f)
           Inv == {V \in S : /\ \A k \in 1..16 : V[k] = m[k]
                             /\ \A k \in 17..size(V) : V[k] = Extension(V, k)}
<1>1. Schedule(m) = extended[m]
  BY DEF Schedule
<1>2. \A W, k : Extension(W, k) \in Long
  BY LogicalType, RolType DEF Extension
<1>3. /\ \A W \in Seq(Long) : size(W) \in Nat /\ W \in [1..size(W) -> Long]
      /\ \A W \in Seq(Long), e \in Long :
           /\ Append(W, e) \in Seq(Long) /\ size(Append(W, e)) = size(W) + 1
           /\ Append(W, e)[size(W) + 1] = e /\ \A k \in 1..size(W) : Append(W, e)[k] = W[k]
  <2>1. \A W \in Seq(Long) : size(W) \in Nat /\ W \in [1..size(W) -> Long]
    OBVIOUS
  <2>2. ASSUME NEW W \in Seq(Long), NEW e \in Long
        PROVE  /\ Append(W, e) \in Seq(Long) /\ size(Append(W, e)) = size(W) + 1
               /\ Append(W, e)[size(W) + 1] = e /\ \A k \in 1..size(W) : Append(W, e)[k] = W[k]
    BY AppendProperties
  <2> QED
    BY <2>1, <2>2
<1>4. m \in Seq(Long) /\ size(m) = 16
  BY SeqIsFunction
<1> HIDE DEF size, extended
<1>5. ASSUME NEW W \in S
      PROVE  W \in Seq(Long) /\ size(W) \in Nat /\ 16 <= size(W) /\ size(W) <= 80
  BY <1>3
<1>6. ASSUME NEW W \in S, size(W) # 80
      PROVE  /\ next(W) \in S /\ size(next(W)) = size(W) + 1
             /\ \A k \in 1..size(W) : next(W)[k] = W[k]
             /\ next(W)[size(W) + 1] = Extension(W, size(W) + 1)
  <2> DEFINE e == Extension(W, size(W) + 1)
  <2>1. size(W) \in Nat /\ 16 <= size(W) + 1 /\ size(W) + 1 <= 80
    <3> DEFINE d == size(W)
    <3>1. d \in Nat /\ 16 <= d /\ d <= 80 /\ d # 80
      BY <1>5, <1>6
    <3> HIDE DEF d
    <3>2. d \in Nat /\ 16 <= d + 1 /\ d + 1 <= 80
      BY <3>1
    <3> QED
      BY <3>2 DEF d
  <2>2. W \in Seq(Long) /\ e \in Long
    BY <1>2
  <2> HIDE DEF e
  <2>3. /\ Append(W, e) \in Seq(Long) /\ size(Append(W, e)) = size(W) + 1
        /\ Append(W, e)[size(W) + 1] = e /\ \A k \in 1..size(W) : Append(W, e)[k] = W[k]
    BY <1>3, <2>2
  <2> QED
    BY <2>1, <2>3 DEF e
<1> HIDE DEF next, S
<1>7. Counts(S, step, left)
  <2>1. \A W \in S : size(W) # 80 => next(W) \in S /\ size(next(W)) = size(W) + 1
    BY <1>6
  <2>2. \A W \in S : size(W) \in Nat /\ size(W) <= 80
    BY <1>5
  <2>3. step \in [S -> S] /\ left \in [S -> Nat]
    BY <2>1, <2>2
  <2>4. ASSUME NEW W \in S, left[W] # 0
        PROVE  left[step[W]] = left[W] - 1
    <3>1. size(W) # 80
      BY <2>2, <2>4
    <3>2. step[W] = next(W) /\ next(W) \in S /\ size(next(W)) = size(W) + 1
      BY <2>1, <3>1
    <3>3. left[next(W)] = 80 - (size(W) + 1) /\ left[W] = 80 - size(W)
      BY <3>2
    <3> HIDE DEF step, left
    <3> QED
      BY <2>2, <3>2, <3>3
  <2> QED
    BY <2>3, <2>4 DEF Counts
<1>8. \A f : Iterates(f, S, step, left) <=> f = F(f)
  <2> SUFFICES ASSUME NEW f
               PROVE  [W \in S |-> IF left[W] = 0 THEN W ELSE f[step[W]]] = F(f)
    BY DEF Iterates
  <2>1. \A W \in S : left[W] = 0 <=> size(W) = 80
    BY <1>5
  <2>2. \A W \in S : size(W) # 80 => step[W] = next(W)
    OBVIOUS
  <2> HIDE DEF left, step
  <2> QED
    BY <2>1, <2>2
<1>9. Iterates(extended, S, step, left)
  <2>1. \E f : f = F(f)
    BY <1>7, <1>8, IterationExists
  <2>2. extended = F(extended)
    BY <2>1 DEF extended
  <2> QED
    BY <1>8, <2>2
<1>10. m \in Inv
  <2>1. m \in S
    BY <1>4 DEF S
  <2> QED
    BY <1>4, <2>1
<1>11. ASSUME NEW W \in Inv, left[W] # 0
       PROVE  step[W] \in Inv
  <2>1. /\ W \in S /\ size(W) # 80 /\ size(W) \in Nat /\ 16 <= size(W)
        /\ \A k \in 1..16 : W[k] = m[k]
        /\ \A k \in 17..size(W) : W[k] = Extension(W, k)
    BY <1>5, <1>11
  <2>2. /\ next(W) \in S /\ size(next(W)) = size(W) + 1
        /\ \A k \in 1..size(W) : next(W)[k] = W[k]
        /\ next(W)[size(W) + 1] = Extension(W, size(W) + 1)
    BY <1>6, <2>1
  <2>3. step[W] = next(W)
    BY <2>1
  <2>4. \A k \in 1..16 : next(W)[k] = m[k]
    <3>1. \A k \in 1..16 : k \in 1..size(W)
      BY <2>1
    <3> QED
      BY <2>1, <2>2, <3>1
  <2>5. \A k \in 17..(size(W) + 1) : Extension(next(W), k) = Extension(W, k)
    <3> SUFFICES ASSUME NEW k \in 17..(size(W) + 1)
                 PROVE  Extension(next(W), k) = Extension(W, k)
      OBVIOUS
    <3>1. k - 3 \in 1..size(W) /\ k - 8 \in 1..size(W) /\ k - 14 \in 1..size(W) /\ k - 16 \in 1..size(W)
      BY <2>1
    <3> QED
      BY <2>2, <3>1 DEF Extension
  <2>6. \A k \in 17..(size(W) + 1) : next(W)[k] = Extension(W, k)
    <3>1. \A k \in 17..(size(W) + 1) : k = size(W) + 1 \/ (k \in 17..size(W) /\ k \in 1..size(W))
      BY <2>1
    <3> QED
      BY <2>1, <2>2, <3>1
  <2> QED
    BY <2>2, <2>3, <2>4, <2>5, <2>6
<1> DEFINE V == extended[m]
<1>12. V \in Inv /\ left[V] = 0
  <2>1. Inv \subseteq S
    OBVIOUS
  <2>2. \A W \in Inv : left[W] # 0 => step[W] \in Inv
    BY <1>11
  <2> HIDE DEF step, left, Inv
  <2>3. \A W \in Inv : extended[W] \in Inv /\ left[extended[W]] = 0
    BY <1>7, <1>9, <2>1, <2>2, IterationKeeps
  <2> QED
    BY <1>10, <2>3
<1> HIDE DEF V
<1>13. V \in [1..80 -> Long]
  <2>1. V \in S /\ size(V) = 80
    BY <1>5, <1>12
  <2> QED
    BY <1>3, <1>5, <2>1
<1>14. (\A k \in 1..16 : V[k] = m[k]) /\ \A k \in 17..80 : V[k] = Extension(V, k)
  <2>1. size(V) = 80
    BY <1>5, <1>12
  <2> QED
    BY <1>12, <2>1
<1> QED
  BY <1>1, <1>13, <1>14 DEF Scheduled, V

\* SHA1Transform on sixteen overwritten words and renamed variables is what the standard does.
THEOREM TransformIsCompress ==
  ASSUME NEW state \in [1..5 -> Long], NEW block, Words(block) \in [1..16 -> Long]
  PROVE  /\ SHA1Transform(state, block) = Compress(state, Words(block))
         /\ SHA1Transform(state, block) \in [1..5 -> Long]
<1> DEFINE m == Words(block)
           W == Schedule(m)
           step == [s \in Working |-> IF s.i = 80 THEN s ELSE Round(s)]
           left == [s \in Working |-> 80 - s.i]
           F(f) == [s \in Working |-> IF s.i = 80 THEN s ELSE f[Round(s)]]
           rounds == CHOOSE f : f = F(f)
           step2 == [t \in Registers |-> IF t.t = 81 THEN t ELSE Step(t, W[t.t])]
           left2 == [t \in Registers |-> 81 - t.t]
           G(f) == [t \in Registers |-> IF t.t = 81 THEN t ELSE f[Step(t, W[t.t])]]
           steps == CHOOSE f : f = G(f)
           R == {p \in Working \X Registers : Agree(p[1], p[2], W)}
           s0 == [i |-> 0, r |-> state, l |-> m]
           t0 == [t |-> 1, r |-> state]
<1>1. Scheduled(W, m)
  BY ScheduleIs
<1>2. /\ SHA1Transform(state, block) = PlusAll(state, rounds[s0].r)
      /\ Compress(state, m) = PlusAll(state, steps[t0].r)
  BY DEF SHA1Transform, Compress
<1> HIDE DEF W
<1>3. Counts(Working, step, left) /\ Counts(Registers, step2, left2)
  <2>1. \A s \in Working : s.i \in 0..80
    BY DEF Working
  <2>2. \A t \in Registers : t.t \in Nat /\ t.t <= 81 /\ (t.t # 81 => t.t \in 1..80)
    BY DEF Registers
  <2>3. \A t \in Registers : t.t # 81 => W[t.t] \in Long
    BY <1>1, <2>2 DEF Scheduled
  <2>4. Counts(Working, step, left)
    BY <2>1, RoundType DEF Counts
  <2>5. Counts(Registers, step2, left2)
    BY <2>2, <2>3, StepType DEF Counts
  <2> QED
    BY <2>4, <2>5
<1>4. \A f : Iterates(f, Working, step, left) <=> f = F(f)
  <2> SUFFICES ASSUME NEW f
               PROVE  [s \in Working |-> IF left[s] = 0 THEN s ELSE f[step[s]]] = F(f)
    BY DEF Iterates
  <2>1. \A s \in Working : left[s] = 0 <=> s.i = 80
    BY DEF Working
  <2>2. \A s \in Working : s.i # 80 => step[s] = Round(s)
    OBVIOUS
  <2> HIDE DEF left, step
  <2> QED
    BY <2>1, <2>2
<1>5. \A f : Iterates(f, Registers, step2, left2) <=> f = G(f)
  <2> SUFFICES ASSUME NEW f
               PROVE  [t \in Registers |-> IF left2[t] = 0 THEN t ELSE f[step2[t]]] = G(f)
    BY DEF Iterates
  <2>1. \A t \in Registers : left2[t] = 0 <=> t.t = 81
    BY DEF Registers
  <2>2. \A t \in Registers : t.t # 81 => step2[t] = Step(t, W[t.t])
    OBVIOUS
  <2> HIDE DEF left2, step2
  <2> QED
    BY <2>1, <2>2
<1>6. Iterates(rounds, Working, step, left)
  <2>1. \E f : f = F(f)
    BY <1>3, <1>4, IterationExists
  <2>2. rounds = F(rounds)
    BY <2>1
  <2> QED
    BY <1>4, <2>2
<1>7. Iterates(steps, Registers, step2, left2)
  <2>1. \E f : f = G(f)
    BY <1>3, <1>5, IterationExists
  <2>2. steps = G(steps)
    BY <2>1
  <2> QED
    BY <1>5, <2>2
<1>8. s0 \in Working /\ t0 \in Registers /\ <<s0, t0>> \in R
  <2>1. s0 \in Working /\ t0 \in Registers
    BY DEF Working, Registers
  <2>2. \A k \in 0..4 : Role(0, k) = k + 1
    BY RoleIs
  <2>3. \A k \in 1..16 : W[k] = m[k]
    BY <1>1 DEF Scheduled
  <2>4. \A j \in 0..79 : (j < 0 \/ j < 16) /\ 0 <= j + 16 => m[(j % 16) + 1] = W[j + 1]
    <3>1. \A j \in 0..79 : j < 0 \/ j < 16 => (j % 16) + 1 = j + 1 /\ j + 1 \in 1..16
      OBVIOUS
    <3> HIDE DEF m
    <3> QED
      BY <2>3, <3>1
  <2>5. Agree(s0, t0, W)
    <3> HIDE DEF m
    <3> QED
      BY <2>2, <2>4 DEF Agree
  <2> QED
    BY <2>1, <2>5
<1>9. \A s \in Working, t \in Registers : <<s, t>> \in R => left[s] = left2[t]
  BY DEF Agree, Working, Registers
<1>10. \A s \in Working, t \in Registers : <<s, t>> \in R /\ left[s] # 0 => <<step[s], step2[t]>> \in R
  <2> SUFFICES ASSUME NEW s \in Working, NEW t \in Registers, Agree(s, t, W), left[s] # 0
               PROVE  <<step[s], step2[t]>> \in R
    OBVIOUS
  <2>1. s.i # 80 /\ t.t # 81
    BY DEF Agree, Working
  <2>2. Round(s) \in Working /\ Step(t, W[t.t]) \in Registers /\ Agree(Round(s), Step(t, W[t.t]), W)
    BY <1>1, <2>1, RoundStep
  <2> QED
    BY <2>1, <2>2
<1>11. <<rounds[s0], steps[t0]>> \in R /\ left[rounds[s0]] = 0
  <2>1. R \subseteq Working \X Registers
    OBVIOUS
  <2> HIDE DEF R, s0, t0, step, left, step2, left2, rounds, steps
  <2> QED
    BY <1>3, <1>6, <1>7, <1>8, <1>9, <1>10, <2>1, IterationsInStep
<1> DEFINE s == rounds[s0]
           t == steps[t0]
<1>12. s \in Working /\ t \in Registers /\ Agree(s, t, W) /\ s.i = 80
  <2> HIDE DEF s0, t0, rounds, steps
  <2> QED
    BY <1>11 DEF Working
<1> HIDE DEF s, t
<1>13. s.r \in [1..5 -> Long] /\ t.r \in [1..5 -> Long] /\ s.r = t.r
  <2>1. s.r \in [1..5 -> Long] /\ t.r \in [1..5 -> Long]
    BY <1>12 DEF Working, Registers
  <2>2. \A k \in 0..4 : Role(80, k) = k + 1
    BY RoleIs
  <2>3. \A k \in 0..4 : s.r[k + 1] = t.r[k + 1]
    BY <1>12, <2>2 DEF Agree
  <2>4. \A k \in 1..5 : s.r[k] = t.r[k]
    BY <2>3
  <2> QED
    BY <2>1, <2>4
<1>14. PlusAll(state, s.r) \in [1..5 -> Long]
  BY <1>13, PlusIs DEF PlusAll
<1> QED
  BY <1>2, <1>13, <1>14 DEF s, t

-----------------------------------------------------------------------------
(* The digest of a file *)

\* f[k] is what n steps have made of init after k of them.
Chain(f, St, init, n, next) ==
  /\ f \in [0..n -> St] /\ f[0] = init
  /\ \A k \in 1..n : f[k] = next[<<k, f[k - 1]>>]

\* Every chain of steps can be gone, by the first link that is missing.
LEMMA ChainExists ==
  ASSUME NEW St, NEW init \in St, NEW n \in Nat, NEW next \in [(1..n) \X St -> St]
  PROVE  \E f : Chain(f, St, init, n, next)
<1> DEFINE To(f, m) == Chain(f, St, init, m, next)
           bad == {m \in 0..n : ~(\E f : To(f, m))}
<1>1. \E f : To(f, 0)
  <2>1. To([k \in 0..0 |-> init], 0)
    BY DEF Chain
  <2> QED
    BY <2>1
<1>2. ASSUME NEW m \in 1..n, NEW f, To(f, m - 1) PROVE \E g : To(g, m)
  <2> DEFINE last == next[<<m, f[m - 1]>>]
             g == [k \in 0..m |-> IF k = m THEN last ELSE f[k]]
  <2>1. m - 1 \in 0..(m - 1) /\ \A k \in 0..m : k = m \/ k \in 0..(m - 1)
    OBVIOUS
  <2>2. f \in [0..(m - 1) -> St] /\ f[0] = init /\ \A k \in 1..(m - 1) : f[k] = next[<<k, f[k - 1]>>]
    BY <1>2 DEF Chain
  <2>3. last \in St
    BY <2>1, <2>2
  <2> HIDE DEF last
  <2>4. g \in [0..m -> St] /\ g[0] = init
    BY <2>1, <2>2, <2>3
  <2>5. \A k \in 0..(m - 1) : g[k] = f[k]
    OBVIOUS
  <2>6. ASSUME NEW k \in 1..m PROVE g[k] = next[<<k, g[k - 1]>>]
    <3>1. CASE k = m
      <4>1. g[m] = last /\ g[m - 1] = f[m - 1]
        BY <2>1, <2>5
      <4> HIDE DEF g
      <4> QED
        BY <3>1, <4>1 DEF last
    <3>2. CASE k # m
      <4>1. k \in 1..(m - 1) /\ k \in 0..(m - 1) /\ k - 1 \in 0..(m - 1)
        BY <3>2
      <4>2. g[k] = f[k] /\ g[k - 1] = f[k - 1]
        BY <2>5, <4>1
      <4> HIDE DEF g
      <4> QED
        BY <2>2, <4>1, <4>2
    <3> QED
      BY <3>1, <3>2
  <2> HIDE DEF g
  <2> QED
    BY <2>4, <2>6 DEF Chain
<1> HIDE DEF To
<1>3. bad = {}
  <2> SUFFICES ASSUME bad # {} PROVE FALSE
    OBVIOUS
  <2>1. PICK m \in bad : \A k \in bad : ~(k < m)
    <3>1. bad \subseteq Nat
      OBVIOUS
    <3> HIDE DEF bad
    <3> QED
      BY <2>1, <3>1, LeastNat
  <2>2. m \in 0..n /\ ~(\E f : To(f, m))
    BY <2>1
  <2>3. m # 0
    BY <1>1, <2>2
  <2>4. m \in 1..n /\ m - 1 \in 0..n /\ m - 1 < m
    BY <2>2, <2>3
  <2>5. \E f : To(f, m - 1)
    BY <2>1, <2>4
  <2> QED
    BY <1>2, <2>2, <2>4, <2>5
<1>4. PICK f : To(f, n)
  BY <1>3
<1> QED
  BY <1>4 DEF To

\* The context after all blocks is what the standard computes of their words, block by block.
LEMMA DigestOfBlocks ==
  ASSUME NEW blocks \in Seq(Seq(Byte)), \A k \in 1..Len(blocks) : Len(blocks[k]) = 64
  PROVE  DigestBytes(blocks) = DigestOf([k \in 1..Len(blocks) |-> Words(blocks[k])])
<1> DEFINE n == Len(blocks)
           words == [k \in 1..n |-> Words(blocks[k])]
           States == [1..5 -> Long]
           F(f) == [k \in 0..n |-> IF k = 0 THEN InitialState ELSE SHA1Transform(f[k - 1], blocks[k])]
           G(f) == [k \in 0..n |-> IF k = 0 THEN InitialState ELSE Compress(f[k - 1], words[k])]
           f1 == CHOOSE f : f = F(f)
           g1 == CHOOSE f : f = G(f)
<1>0. n \in Nat
  OBVIOUS
<1>1. InitialState \in States
  BY LongIs DEF InitialState
<1>2. ASSUME NEW k \in 1..n, NEW state \in States
      PROVE  /\ SHA1Transform(state, blocks[k]) = Compress(state, words[k])
             /\ SHA1Transform(state, blocks[k]) \in States
  <2>1. blocks[k] \in Seq(Byte) /\ Len(blocks[k]) = 64
    OBVIOUS
  <2>2. Words(blocks[k]) \in [1..16 -> Long]
    BY <2>1, WordsType
  <2> QED
    BY <2>2, TransformIsCompress
<1>3. DigestBytes(blocks) = StateBytes(f1[n])
  BY DEF DigestBytes
<1>4. DigestOf(words) = StateBytes(g1[n])
  <2>1. Len(words) = n
    BY <1>0
  <2> HIDE DEF words
  <2> QED
    BY <2>1 DEF DigestOf
<1> HIDE DEF n, words, States
<1> DEFINE next == [p \in (1..n) \X States |-> SHA1Transform(p[2], blocks[p[1]])]
<1>5. PICK f : Chain(f, States, InitialState, n, next)
  <2>1. next \in [(1..n) \X States -> States]
    BY <1>2
  <2> HIDE DEF next
  <2> QED
    BY <1>0, <1>1, <2>1, ChainExists
<1>6. /\ f \in [0..n -> States] /\ f[0] = InitialState
      /\ \A k \in 1..n : f[k] = next[<<k, f[k - 1]>>]
  BY <1>5 DEF Chain
<1>7. \A k \in 1..n : k - 1 \in 0..n /\ f[k] = SHA1Transform(f[k - 1], blocks[k])
                      /\ f[k] = Compress(f[k - 1], words[k])
  <2> SUFFICES ASSUME NEW k \in 1..n
               PROVE  k - 1 \in 0..n /\ f[k] = SHA1Transform(f[k - 1], blocks[k])
                      /\ f[k] = Compress(f[k - 1], words[k])
    OBVIOUS
  <2>1. k - 1 \in 0..n
    BY <1>0
  <2>2. f[k - 1] \in States
    BY <1>6, <2>1
  <2>3. f[k] = SHA1Transform(f[k - 1], blocks[k])
    BY <1>6, <2>2
  <2> QED
    BY <1>2, <2>1, <2>2, <2>3
<1>8. \A k \in 0..n : k = 0 \/ k \in 1..n
  BY <1>0
<1>9. f = F(f) /\ f = G(f)
  <2>1. f = [k \in 0..n |-> f[k]]
    BY <1>6
  <2> QED
    BY <1>6, <1>7, <1>8, <2>1
<1>10. f1 = F(f1) /\ g1 = G(g1)
  BY <1>9
<1> HIDE DEF f1, g1
<1>11. /\ \A k \in 0..n : f1[k] = IF k = 0 THEN InitialState ELSE SHA1Transform(f1[k - 1], blocks[k])
       /\ \A k \in 0..n : g1[k] = IF k = 0 THEN InitialState ELSE Compress(g1[k - 1], words[k])
  <2>1. \A k \in 0..n : f1[k] = IF k = 0 THEN InitialState ELSE SHA1Transform(f1[k - 1], blocks[k])
    <3> DEFINE rhs == F(f1)
    <3>1. \A k \in 0..n : rhs[k] = IF k = 0 THEN InitialState ELSE SHA1Transform(f1[k - 1], blocks[k])
      OBVIOUS
    <3>2. f1 = rhs
      BY <1>10
    <3> HIDE DEF rhs
    <3> QED
      BY <3>1, <3>2
  <2>2. \A k \in 0..n : g1[k] = IF k = 0 THEN InitialState ELSE Compress(g1[k - 1], words[k])
    <3> DEFINE rhs == G(g1)
    <3>1. \A k \in 0..n : rhs[k] = IF k = 0 THEN InitialState ELSE Compress(g1[k - 1], words[k])
      OBVIOUS
    <3>2. g1 = rhs
      BY <1>10
    <3> HIDE DEF rhs
    <3> QED
      BY <3>1, <3>2
  <2> QED
    BY <2>1, <2>2
<1>12. \A k \in 0..n : f1[k] = f[k] /\ g1[k] = f[k]
  <2> DEFINE bad == {k \in 0..n : ~(f1[k] = f[k] /\ g1[k] = f[k])}
  <2>1. SUFFICES ASSUME bad # {} PROVE FALSE
    OBVIOUS
  <2>2. PICK k \in bad : \A m \in bad : ~(m < k)
    <3>1. bad \subseteq Nat
      OBVIOUS
    <3> HIDE DEF bad
    <3> QED
      BY <2>1, <3>1, LeastNat
  <2>3. k \in 0..n /\ ~(f1[k] = f[k] /\ g1[k] = f[k])
    BY <2>2
  <2>4. k # 0
    BY <1>6, <1>11, <2>3
  <2>5. k \in 1..n /\ k - 1 \in 0..n /\ k - 1 < k
    BY <1>0, <2>3, <2>4
  <2>6. f1[k - 1] = f[k - 1] /\ g1[k - 1] = f[k - 1]
    BY <2>2, <2>5
  <2>7. f1[k] = SHA1Transform(f1[k - 1], blocks[k]) /\ g1[k] = Compress(g1[k - 1], words[k])
    BY <1>11, <2>3, <2>4
  <2> QED
    BY <1>7, <2>3, <2>5, <2>6, <2>7
<1>13. f1[n] = g1[n]
  BY <1>0, <1>12
<1> QED
  BY <1>3, <1>4, <1>13 DEF words, n

\* The beginning of a sequence put together of two is that of the first.
LEMMA PartOfFirst ==
  ASSUME NEW S, NEW s \in Seq(S), NEW t \in Seq(S), NEW m \in 1..(Len(s) + 1), NEW n \in (m - 1)..Len(s)
  PROVE  SubSeq(Cat(s, t), m, n) = SubSeq(s, m, n)
<1> DEFINE u == Cat(s, t)
           x == SubSeq(s, m, n)
           y == SubSeq(u, m, n)
           d == n - m + 1
<1>0. Len(s) \in Nat /\ Len(t) \in Nat /\ m \in Nat /\ n \in Nat
  OBVIOUS
<1>1. u \in Seq(S) /\ Len(u) = Len(s) + Len(t) /\ \A i \in 1..Len(u) : i <= Len(s) => u[i] = s[i]
  BY CatType, CatElement
<1>2. x \in Seq(S) /\ Len(x) = d /\ \A i \in 1..d : x[i] = s[m + i - 1]
  BY Part
<1> HIDE DEF u
<1>3. m \in 1..(Len(u) + 1) /\ n \in (m - 1)..Len(u)
  BY <1>0, <1>1
<1>4. y \in Seq(S) /\ Len(y) = d /\ \A i \in 1..d : y[i] = u[m + i - 1]
  BY <1>1, <1>3, Part
<1> HIDE DEF x, y
<1>5. \A i \in 1..d : x[i] = y[i]
  <2> SUFFICES ASSUME NEW i \in 1..d PROVE x[i] = y[i]
    OBVIOUS
  <2>1. m + i - 1 \in 1..Len(u) /\ m + i - 1 <= Len(s)
    BY <1>0, <1>1
  <2>2. u[m + i - 1] = s[m + i - 1]
    BY <1>1, <2>1
  <2> QED
    BY <1>2, <1>4, <2>2
<1>6. x = y
  BY <1>2, <1>4, <1>5, SeqEqual
<1> QED
  BY <1>6 DEF x, y, u

\* The end of a sequence put together of two is the second.
LEMMA PartIsSecond ==
  ASSUME NEW S, NEW s \in Seq(S), NEW t \in Seq(S)
  PROVE  SubSeq(Cat(s, t), Len(s) + 1, Len(s) + Len(t)) = t
<1> DEFINE u == Cat(s, t)
           y == SubSeq(u, Len(s) + 1, Len(s) + Len(t))
<1>0. Len(s) \in Nat /\ Len(t) \in Nat
  OBVIOUS
<1>1. u \in Seq(S) /\ Len(u) = Len(s) + Len(t)
      /\ \A i \in 1..Len(u) : u[i] = IF i <= Len(s) THEN s[i] ELSE t[i - Len(s)]
  BY CatType, CatElement
<1> HIDE DEF u
<1>3. /\ Len(s) + 1 \in 1..(Len(u) + 1) /\ Len(s) + Len(t) \in ((Len(s) + 1) - 1)..Len(u)
      /\ Len(s) + Len(t) - (Len(s) + 1) + 1 = Len(t)
      /\ \A i \in 1..Len(t) : /\ (Len(s) + 1) + i - 1 = Len(s) + i
                              /\ Len(s) + i \in 1..Len(u) /\ ~(Len(s) + i <= Len(s))
                              /\ Len(s) + i - Len(s) = i
  BY <1>0, <1>1
<1>4. y \in Seq(S) /\ Len(y) = Len(t) /\ \A i \in 1..Len(t) : y[i] = u[Len(s) + i]
  BY <1>1, <1>3, Part
<1> HIDE DEF y
<1>5. \A i \in 1..Len(t) : y[i] = t[i]
  BY <1>1, <1>3, <1>4
<1>6. y = t
  BY <1>4, <1>5, SeqEqual
<1> QED
  BY <1>6 DEF y, u

\* Whole blocks are not changed by what is put behind them.
LEMMA WholeOfFirst ==
  ASSUME NEW S, NEW d \in Seq(S), NEW b \in Seq(S), NEW n \in Nat, Len(d) = n * Block
  PROVE  Whole(Cat(d, b), 0, n) = Whole(d, 0, n)
<1>0. Block \in Nat \ {0}
  BY HashAssumption DEF Field
<1>1. ASSUME NEW k \in 1..n
      PROVE  SubSeq(Cat(d, b), 0 + (k - 1) * Block + 1, 0 + k * Block)
               = SubSeq(d, 0 + (k - 1) * Block + 1, 0 + k * Block)
  <2> DEFINE x == (k - 1) * Block
             y == k * Block
             z == (n - k) * Block
  <2>1. x \in Nat /\ y \in Nat /\ z \in Nat /\ y = x + Block /\ n * Block = y + z
    BY <1>0
  <2> HIDE DEF x, y, z
  <2>2. 0 + x + 1 \in 1..(Len(d) + 1) /\ 0 + y \in ((0 + x + 1) - 1)..Len(d)
    BY <1>0, <2>1
  <2>3. SubSeq(Cat(d, b), 0 + x + 1, 0 + y) = SubSeq(d, 0 + x + 1, 0 + y)
    BY <2>2, PartOfFirst
  <2> QED
    BY <2>3 DEF x, y
<1> QED
  BY <1>1, Zenon DEF Whole

\* Blocks can be told from the bytes they are made of: cutting them gives the blocks again.
LEMMA BlocksAreWhole ==
  ASSUME NEW S, NEW t \in Seq(Seq(S)), \A k \in 1..Len(t) : Len(t[k]) = Block
  PROVE  Len(FlattenSeq(t)) = Len(t) * Block /\ Whole(FlattenSeq(t), 0, Len(t)) = t
<1> DEFINE Even(s) == \A k \in 1..Len(s) : Len(s[k]) = Block
           Good(s) == Len(FlattenSeq(s)) = Len(s) * Block /\ Whole(FlattenSeq(s), 0, Len(s)) = s
           bad == {n \in Nat : \E s \in Seq(Seq(S)) : Len(s) = n /\ Even(s) /\ ~Good(s)}
<1>0. Block \in Nat \ {0}
  BY HashAssumption DEF Field
<1>1. Good(<<>>)
  <2>1. FlattenSeq(<<>>) = <<>> /\ Len(<<>>) = 0
    BY DEF FlattenSeq
  <2>2. Whole(<<>>, 0, 0) = <<>>
    BY DEF Whole
  <2>3. 0 = 0 * Block
    BY <1>0
  <2> QED
    BY <2>1, <2>2, <2>3
<1>2. ASSUME NEW u \in Seq(Seq(S)), NEW b \in Seq(S), Len(b) = Block, Good(u)
      PROVE  Good(Append(u, b))
  <2> DEFINE n == Len(u)
             d == FlattenSeq(u)
             e == Cat(d, b)
             v == Append(u, b)
             block == SubSeq(e, 0 + n * Block + 1, 0 + (n + 1) * Block)
  <2>1. d \in Seq(S) /\ FlattenSeq(v) = e
    BY FlattenAppend
  <2>2. n \in Nat /\ Len(d) = n * Block /\ Whole(d, 0, n) = u
    BY <1>2
  <2>3. Len(v) = n + 1
    BY AppendProperties
  <2> HIDE DEF n, d, v
  <2>4. e \in Seq(S) /\ Len(e) = (n + 1) * Block
    <3>1. (n + 1) * Block = n * Block + Block
      BY <1>0, <2>2
    <3>2. e \in Seq(S) /\ Len(e) = Len(d) + Len(b)
      BY <2>1, CatType
    <3> HIDE DEF e
    <3> QED
      BY <1>2, <2>2, <3>1, <3>2
  <2>5. Whole(e, 0, n) = u
    BY <2>1, <2>2, WholeOfFirst
  <2>6. block = b
    <3>1. 0 + n * Block + 1 = Len(d) + 1 /\ 0 + (n + 1) * Block = Len(d) + Len(b)
      BY <1>0, <1>2, <2>2
    <3> HIDE DEF e
    <3>2. block = SubSeq(e, Len(d) + 1, Len(d) + Len(b))
      BY <3>1
    <3> QED
      BY <2>1, <3>2, PartIsSecond DEF e
  <2> HIDE DEF e
  <2>7. Whole(e, 0, n + 1) = Append(Whole(e, 0, n), block)
    <3>1. 0 + (n + 1) * Block <= Len(e)
      BY <1>0, <2>2, <2>4
    <3> QED
      BY <2>2, <2>4, <3>1, OneMoreWhole
  <2> HIDE DEF block
  <2>8. Whole(e, 0, n + 1) = v
    BY <2>5, <2>6, <2>7 DEF v
  <2> QED
    BY <2>1, <2>3, <2>4, <2>8 DEF v
<1> HIDE DEF Good
<1>3. bad = {}
  <2> SUFFICES ASSUME bad # {} PROVE FALSE
    OBVIOUS
  <2>1. PICK n \in bad : \A k \in bad : ~(k < n)
    <3>1. bad \subseteq Nat
      OBVIOUS
    <3> HIDE DEF bad
    <3> QED
      BY <3>1, LeastNat
  <2>2. PICK s \in Seq(Seq(S)) : Len(s) = n /\ Even(s) /\ ~Good(s)
    BY <2>1
  <2>3. s # <<>>
    BY <1>1, <2>2
  <2>4. PICK u \in Seq(Seq(S)), b \in Seq(S) : s = Append(u, b)
    BY <2>3, SequenceEmptyOrAppend
  <2>5. /\ Len(u) \in Nat /\ Len(s) = Len(u) + 1
        /\ s[Len(u) + 1] = b /\ \A k \in 1..Len(u) : s[k] = u[k]
    BY <2>4, AppendProperties
  <2>6. Len(b) = Block /\ Even(u)
    <3>1. Len(u) + 1 \in 1..Len(s) /\ \A k \in 1..Len(u) : k \in 1..Len(s)
      BY <2>5
    <3> QED
      BY <2>2, <2>5, <3>1
  <2>7. Len(u) \in Nat /\ Len(u) < n
    BY <2>2, <2>5
  <2>8. Good(u)
    BY <2>1, <2>6, <2>7
  <2> QED
    BY <1>2, <2>2, <2>4, <2>6, <2>8
<1>4. Good(t)
  <2>1. Len(t) \in Nat
    OBVIOUS
  <2> QED
    BY <1>3, <2>1
<1> QED
  BY <1>4 DEF Good

\* What getFileHash returns is SHA-1 of the whole file but for the order of the bytes in
\* a word: the pieces read, the buffer, the padding, the sixteen words overwritten and the
\* variables renamed come to what the standard says, for every file.
THEOREM DigestAlwaysSHA1 ==
  ASSUME Block = 64
  PROVE  Spec => []DigestIsSHA1
<1>1. HashInv => DigestIsSHA1
  <2> SUFFICES ASSUME HashInv, pc = "done"
               PROVE  DigestBytes(digested) = DigestOf([n \in 1..Len(Cut) |-> Words(Cut[n])])
    BY DEF DigestIsSHA1
  <2>1. digested \in Seq(Seq(Byte)) /\ \A k \in 1..Len(digested) : Len(digested[k]) = Block
    BY DEF HashInv, TypeOK
  <2>2. FlattenSeq(digested) = Padded
    BY DEF HashInv, HashedIsPadded, Digested
  <2>3. Len(Padded) = Len(digested) * Block /\ Whole(Padded, 0, Len(digested)) = digested
    BY <2>1, <2>2, BlocksAreWhole
  <2>4. Len(Padded) \div Block = Len(digested)
    <3>1. Len(digested) \in Nat
      BY <2>1
    <3>2. Len(digested) * 64 + 0 = Len(digested) * 64
      BY <3>1
    <3>3. (Len(digested) * 64 + 0) \div 64 = Len(digested)
      BY <3>1, DivModUnique
    <3> QED
      BY <2>3, <3>2, <3>3
  <2>5. Cut = digested
    BY <2>3, <2>4 DEF Cut
  <2>6. \A k \in 1..Len(digested) : Len(digested[k]) = 64
    BY <2>1
  <2> QED
    BY <2>1, <2>5, <2>6, DigestOfBlocks
<1> QED
  BY <1>1, HashInductive, PTL
=============================================================================
