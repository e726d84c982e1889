-------------------------------- MODULE SHA1 ---------------------------------
(***************************************************************************)
(* HashSH1::SHA1Transform and the macros of HashSH1.h: what one block of   *)
(* 64 bytes does to the five words of the digest.                          *)
(*                                                                         *)
(* The code keeps sixteen words of the message schedule and overwrites     *)
(* them in place, and renames the registers from round to round instead of *)
(* moving them. The second half of the module is the standard's definition *)
(* (FIPS 180-4), with eighty words and registers that move, to compare     *)
(* with.                                                                   *)
(*                                                                         *)
(* LITTLE_ENDIAN is defined nowhere in the project, so blk0 takes the      *)
(* words of the block as the processor reads them from memory, the lowest  *)
(* byte first. SHA1HANDSOFF is not defined either: the block's own memory  *)
(* is the working space, and what is left there is FileHash's Garbage.     *)
(***************************************************************************)
EXTENDS Naturals, Sequences, SequencesExt

Byte == 0..255

\* An unsigned long of the Win32 build, 32 bits, is its two halves.
Half == 65536
Long == (0..(Half - 1)) \X (0..(Half - 1))

Plus(x, y) ==
  LET low == x[2] + y[2]
  IN  <<(x[1] + y[1] + (low \div Half)) % Half, low % Half>>

PlusAll(x, y) == [k \in 1..5 |-> Plus(x[k], y[k])]

\* A half by the places of its binary digits that are 1, and back.
Places == 1..16

Weight == <<1, 2, 4, 8, 16, 32, 64, 128, 256, 512, 1024, 2048, 4096, 8192, 16384, 32768>>

Ones(h) == {k \in Places : (h \div Weight[k]) % 2 = 1}

FromOnes(S) ==
  LET digit(k) == IF k \in S THEN Weight[k] ELSE 0
  IN  digit(1) + digit(2) + digit(3) + digit(4) + digit(5) + digit(6) + digit(7) + digit(8)
        + digit(9) + digit(10) + digit(11) + digit(12) + digit(13) + digit(14) + digit(15) + digit(16)

Differing(g, h) == FromOnes(SymDiff(Ones(g), Ones(h)))
Common(g, h) == FromOnes(Ones(g) \cap Ones(h))
Either(g, h) == FromOnes(Ones(g) \cup Ones(h))

XOR(x, y) == <<Differing(x[1], y[1]), Differing(x[2], y[2])>>
AND(x, y) == <<Common(x[1], y[1]), Common(x[2], y[2])>>
OR(x, y) == <<Either(x[1], y[1]), Either(x[2], y[2])>>

Shifted(high, low, n) == ((high * Weight[n + 1]) % Half) + (low \div Weight[17 - n])

rol(x, n) ==
  IF n < 16 THEN <<Shifted(x[1], x[2], n), Shifted(x[2], x[1], n)>>
  ELSE <<Shifted(x[2], x[1], n - 16), Shifted(x[1], x[2], n - 16)>>

\* Most significant byte first, as SHA1Final writes the digest and the bit count.
BigEndian(x) == <<x[1] \div 256, x[1] % 256, x[2] \div 256, x[2] % 256>>

\* The memory of the block, c[64], seen as l[16].
Word(c) == <<c[3] + 256 * c[4], c[1] + 256 * c[2]>>
Words(bytes) == [k \in 1..16 |-> Word(SubSeq(bytes, 4 * k - 3, 4 * k))]

-----------------------------------------------------------------------------
(* The macros of a round. l[k] of the code is l[k + 1] here. *)

l16(l, k) == l[(k % 16) + 1]

\* Mutant: the schedule of SHA-0, which does not rotate.
blkNotRotated(l, i) ==
  XOR(XOR(XOR(l16(l, i + 13), l16(l, i + 8)), l16(l, i + 2)), l16(l, i))

\* blk: the word that takes the place of l[i & 15].
blk(l, i) ==
  rol(XOR(XOR(XOR(l16(l, i + 13), l16(l, i + 8)), l16(l, i + 2)), l16(l, i)), 1)

\* What R0 and R1, R2, R3 and R4 do with the three registers in the middle.
Mix(i, w, x, y) ==
  CASE i < 20 -> XOR(AND(w, XOR(x, y)), y)
    [] 40 <= i /\ i < 60 -> OR(AND(OR(w, x), y), AND(w, x))
    [] OTHER -> XOR(XOR(w, x), y)

Constant(i) ==
  CASE i < 20 -> <<\h5A82, \h7999>>
    [] 20 <= i /\ i < 40 -> <<\h6ED9, \hEBA1>>
    [] 40 <= i /\ i < 60 -> <<\h8F1B, \hBCDC>>
    [] OTHER -> <<\hCA62, \hC1D6>>

\* Round i names the five variables a to e in an order of its own: its v is the
\* variable whose turn it was four rounds ago to be z.
Role(i, k) == ((80 + k - i) % 5) + 1

\* Before round i: the variables and the memory of the block.
Working == [i : 0..80, r : [1..5 -> Long], l : [1..16 -> Long]]

Round(s) ==
  LET i == s.i
      v == s.r[Role(i, 0)]
      w == s.r[Role(i, 1)]
      x == s.r[Role(i, 2)]
      y == s.r[Role(i, 3)]
      z == s.r[Role(i, 4)]
      word == IF i < 16 THEN l16(s.l, i) ELSE blk(s.l, i)
      sum == Plus(z, Plus(Plus(Plus(Mix(i, w, x, y), word), Constant(i)), rol(v, 5)))
  IN  [i |-> i + 1,
       r |-> [s.r EXCEPT ![Role(i, 4)] = sum, ![Role(i, 1)] = rol(w, 30)],
       l |-> [s.l EXCEPT ![(i % 16) + 1] = word]]

\* SHA1Transform: the new state.
SHA1Transform(state, block) ==
  LET rounds[s \in Working] == IF s.i = 80 THEN s ELSE rounds[Round(s)]
  IN  PlusAll(state, rounds[[i |-> 0, r |-> state, l |-> Words(block)]].r)

\* SHA1Init
InitialState ==
  <<<<\h6745, \h2301>>, <<\hEFCD, \hAB89>>, <<\h98BA, \hDCFE>>,
    <<\h1032, \h5476>>, <<\hC3D2, \hE1F0>>>>

\* SHA1Final: the twenty bytes of the digest.
StateBytes(state) == FlattenSeq([k \in 1..5 |-> BigEndian(state[k])])

-----------------------------------------------------------------------------
(* The standard. *)

Missing(h) == FromOnes(Places \ Ones(h))

NOT(x) == <<Missing(x[1]), Missing(x[2])>>

\* The eighty words of a block whose words are m: the first words, and one more.
Extension(W, t) == rol(XOR(XOR(XOR(W[t-3], W[t-8]), W[t-14]), W[t-16]), 1)

Schedule(m) ==
  LET extended[W \in {V \in Seq(Long) : 16 <= Len(V) /\ Len(V) <= 80}] ==
        IF Len(W) = 80 THEN W ELSE extended[Append(W, Extension(W, Len(W) + 1))]
  IN  extended[m]

Choice(x, y, z) == XOR(AND(x, y), AND(NOT(x), z))
Parity(x, y, z) == XOR(x, XOR(y, z))
Majority(x, y, z) == XOR(AND(x, y), XOR(AND(x, z), AND(y, z)))

\* Before step t: the registers a to e.
Registers == [t : 1..81, r : [1..5 -> Long]]

\* One step with the word W[t].
Step(s, word) ==
  LET r == s.r
      f == CASE s.t <= 20 -> Choice(r[2], r[3], r[4])
             [] 40 < s.t /\ s.t <= 60 -> Majority(r[2], r[3], r[4])
             [] OTHER -> Parity(r[2], r[3], r[4])
      T == Plus(Plus(Plus(Plus(rol(r[1], 5), f), r[5]), Constant(s.t - 1)), word)
  IN  [t |-> s.t + 1, r |-> <<T, r[1], rol(r[2], 30), r[3], r[4]>>]

Compress(state, m) ==
  LET W == Schedule(m)
      steps[s \in Registers] == IF s.t = 81 THEN s ELSE steps[Step(s, W[s.t])]
  IN  PlusAll(state, steps[[t |-> 1, r |-> state]].r)

\* The digest of a message, given by the words of each of its blocks.
DigestOf(blocks) ==
  LET after[n \in 0..Len(blocks)] ==
        IF n = 0 THEN InitialState ELSE Compress(after[n - 1], blocks[n])
  IN  StateBytes(after[Len(blocks)])

\* The word of the standard: the first byte is the most significant one.
StandardWords(bytes) ==
  [k \in 1..16 |-> Word(Reverse(SubSeq(bytes, 4 * k - 3, 4 * k)))]
==============================================================================
