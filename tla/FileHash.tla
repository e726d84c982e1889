------------------------------- MODULE FileHash -------------------------------
(***************************************************************************)
(* FileManage::getFileHash and the streaming part of HashSH1: a file of    *)
(* any length, read in pieces, is cut into blocks, padded and handed to    *)
(* SHA1Transform block by block.                                           *)
(*                                                                         *)
(* The state of the context is a function of the blocks SHA1Transform was  *)
(* given, which the variable digested keeps; the function is DigestBytes,  *)
(* with SHA1Transform itself in SHA1.tla.                                  *)
(* SHA1Transform works in place and leaves the block's memory overwritten  *)
(* (SHA1HANDSOFF is not defined), which is modelled. That SHA1Final wipes  *)
(* the context, which nobody reads again, is not.                          *)
(***************************************************************************)
EXTENDS Naturals, Sequences, SequencesExt, SHA1

CONSTANTS
  Files,   \* the contents of the file, sequences of bytes
  Block,   \* the bytes of a block, 64
  Bits,    \* the bits count counts for a byte, 8
  Low,     \* the number of values of count[0], 2^32
  Chunk,   \* the bytes fread is asked for, 16384
  Cuts,    \* the lengths to which a read error cuts a piece: a bound
  Garbage  \* the byte that stands for memory nobody has written, or overwritten

\* The length of finalcount.
Field == 8

ASSUME HashAssumption ==
  /\ Files \subseteq Seq(Byte)
  /\ Block \in Nat /\ Block > Field
  /\ {Bits, Low, Chunk} \subseteq Nat \ {0}
  /\ Low % (Block * Bits) = 0
  /\ Cuts \subseteq Nat
  /\ Garbage \in Byte

VARIABLES
  file,      \* the content of the file
  read,      \* how much of it has been read
  cut,       \* a read error has cut a piece short
  broken,    \* the file cannot be read any more
  buffer,    \* SHA1_CTX
  count,
  digested,  \* the blocks SHA1Transform was given
  final,     \* finalcount
  pc         \* "open", "read", "final", "pad", "length", "done" or "no file"

vars == <<file, read, cut, broken, buffer, count, digested, final, pc>>

fileVars == <<file, read, cut, broken>>

Junk == [k \in 1..Block |-> Garbage]

\* SHA1Init, which leaves the buffer as it is.
Init ==
  /\ file \in Files
  /\ read = 0 /\ cut = FALSE /\ broken = FALSE
  /\ buffer = Junk
  /\ count = [low |-> 0, high |-> 0]
  /\ digested = <<>>
  /\ final = <<>>
  /\ pc = "open"

-----------------------------------------------------------------------------
(* SHA1Update *)

\* The place in the buffer that comes next.
Place == (count.low \div Bits) % Block

\* memcpy(&buffer[at], data, ...): past the end when data is too long.
Put(buf, at, data) == SubSeq(buf, 1, at) \o data \o SubSeq(buf, at + Len(data) + 1, Block)

\* Mutant: what overflows from count[0] is lost.
CountNoCarry(n) ==
  [low  |-> (count.low + n * Bits) % Low,
   high |-> count.high + ((n * Bits) \div Low)]

\* The number of bits, in two words, with a carry when the lower one wraps.
Count(n) ==
  LET low == (count.low + n * Bits) % Low
      carry == IF low < (n * Bits) % Low THEN 1 ELSE 0
  IN  [low |-> low, high |-> count.high + carry + ((n * Bits) \div Low)]

\* The blocks of data from a place on.
Whole(data, from, k) ==
  [b \in 1..k |-> SubSeq(data, from + (b-1) * Block + 1, from + b * Block)]

\* Mutant: whole blocks are not looked for.
UpdateNeverFull(data) ==
  /\ count' = Count(Len(data))
  /\ buffer' = Put(buffer, Place, data)
  /\ UNCHANGED digested

\* Mutant: what is left of data is put behind the block just digested.
UpdateKeepsPlace(data) ==
  LET j == Place
      n == Len(data)
      fill == Block - j
      whole == (n - fill) \div Block
      blocks == <<Put(buffer, j, SubSeq(data, 1, fill))>> \o Whole(data, fill, whole)
  IN  /\ count' = Count(n)
      /\ IF j + n >= Block
         THEN /\ digested' = digested \o blocks
              /\ buffer' = SubSeq(SubSeq(Junk, 1, j) \o SubSeq(data, fill + whole * Block + 1, n) \o Junk,
                                1, Block)
         ELSE /\ buffer' = Put(buffer, j, data)
              /\ UNCHANGED digested

\* The buffer is filled up and digested, then whole blocks straight from data, and
\* the rest waits in the buffer.
Update(data) ==
  LET j == Place
      n == Len(data)
      fill == Block - j
      whole == (n - fill) \div Block
      blocks == <<Put(buffer, j, SubSeq(data, 1, fill))>> \o Whole(data, fill, whole)
  IN  /\ count' = Count(n)
      /\ IF j + n >= Block
         THEN /\ digested' = digested \o blocks
              /\ buffer' = Put(Junk, 0, SubSeq(data, fill + whole * Block + 1, n))
         ELSE /\ buffer' = Put(buffer, j, data)
              /\ UNCHANGED digested

-----------------------------------------------------------------------------
(* getFileHash *)

\* A file that cannot be opened has the empty string for a hash.
Open ==
  /\ pc = "open"
  /\ pc' \in {"read", "no file"}
  /\ UNCHANGED <<fileVars, buffer, count, digested, final>>

Least(a, b) == IF a < b THEN a ELSE b

\* What fread returns when nothing goes wrong.
Piece == Least(Chunk, Len(file) - read)

\* Mutant: an empty piece is not taken for the end of the file.
ReadUntilShort ==
  /\ pc = "read" /\ ~broken
  /\ Update(SubSeq(file, read + 1, read + Piece))
  /\ read' = read + Piece
  /\ pc' = IF Piece \in 1..(Chunk - 1) THEN "final" ELSE "read"
  /\ UNCHANGED <<file, cut, broken, final>>

\* while (!feof(file)): the end of the file is noticed by the fread that comes short
\* of what it was asked for, which finds nothing when the file ended with a piece.
Read ==
  /\ pc = "read" /\ ~broken
  /\ Update(SubSeq(file, read + 1, read + Piece))
  /\ read' = read + Piece
  /\ pc' = IF Piece < Chunk THEN "final" ELSE "read"
  /\ UNCHANGED <<file, cut, broken, final>>

\* A read error: what had been read by then is digested, and since the end of the
\* file was not seen the loop goes on. (At most one error in a file is a bound.)
ReadFails ==
  /\ pc = "read" /\ ~broken /\ ~cut
  /\ \E n \in Cuts :
       /\ n <= Piece
       /\ Update(SubSeq(file, read + 1, read + n))
       /\ read' = read + n
  /\ cut' = TRUE
  /\ UNCHANGED <<file, broken, final, pc>>

\* The error is there to stay: the loop reads nothing, for ever.
ReadBreaks ==
  /\ pc = "read" /\ ~broken
  /\ broken' = TRUE
  /\ UNCHANGED <<file, read, cut, buffer, count, digested, final, pc>>

-----------------------------------------------------------------------------
(* SHA1Final *)

\* A word of count as four bytes, the most significant first.
WordBytes(word) ==
  <<(word \div 16777216) % 256, (word \div 65536) % 256, (word \div 256) % 256, word % 256>>

FinalCount(c) == WordBytes(c.high) \o WordBytes(c.low)

StartFinal ==
  /\ pc = "final"
  /\ final' = FinalCount(count)
  /\ Update(<<128>>)
  /\ pc' = "pad"
  /\ UNCHANGED fileVars

\* while ((count[0] & 504) != 448)
PadZero ==
  /\ pc = "pad"
  /\ IF Place # Block - Field
     THEN Update(<<0>>) /\ UNCHANGED pc
     ELSE pc' = "length" /\ UNCHANGED <<buffer, count, digested>>
  /\ UNCHANGED <<fileVars, final>>

\* The length, which ends the last block.
PadLength ==
  /\ pc = "length"
  /\ Update(final)
  /\ pc' = "done"
  /\ UNCHANGED <<fileVars, final>>

Next ==
  \/ Open
  \/ Read
  \/ ReadFails
  \/ ReadBreaks
  \/ StartFinal
  \/ PadZero
  \/ PadLength

Spec == Init /\ [][Next]_vars

\* getFileHash runs on; whether reads fail is not its doing.
FairSpec == Spec /\ WF_vars(Open \/ Read \/ StartFinal \/ PadZero \/ PadLength)

\* What getFileHash returns of a file of which these blocks were digested.
DigestBytes(blocks) ==
  LET after[n \in 0..Len(blocks)] ==
        IF n = 0 THEN InitialState ELSE SHA1Transform(after[n - 1], blocks[n])
  IN  StateBytes(after[Len(blocks)])

-----------------------------------------------------------------------------
(* Properties *)

\* The types of the variables; no write goes past the buffer.
TypeOK ==
  /\ file \in Files
  /\ read \in 0..Len(file)
  /\ {cut, broken} \subseteq BOOLEAN
  /\ buffer \in Seq(Byte) /\ Len(buffer) = Block
  /\ count.low \in 0..(Low - 1) /\ count.high \in Nat
  /\ digested \in Seq(Seq(Byte)) /\ \A k \in 1..Len(digested) : Len(digested[k]) = Block
  /\ final \in Seq(Byte)
  /\ pc \in {"open", "read", "final", "pad", "length", "done", "no file"}

Digested == FlattenSeq(digested)

\* What SHA1Update was given so far, as the context has it.
Stream == Digested \o SubSeq(buffer, 1, Place)

\* While the file is read, the blocks digested and the used part of the buffer are
\* what has been read, however it was cut into pieces, and nothing SHA1Transform has
\* left behind.
BlocksAreFile == pc \in {"read", "final"} => Stream = SubSeq(file, 1, read)

\* count is the number of bits read, also when count[0] has wrapped around.
CountIsLength == pc \in {"read", "final"} => count.high * Low + count.low = read * Bits

\* The number of zeros after the mark: as few as leave room for the length only.
Zeros == ((2 * Block) - 1 - Field - (Len(file) % Block)) % Block

\* The file, the mark and so many zeros.
Marked(zeros) == file \o <<128>> \o [k \in 1..zeros |-> 0]

\* The number of bits in two words.
LengthField == WordBytes((Len(file) * Bits) \div Low) \o WordBytes((Len(file) * Bits) % Low)

\* The message the standard digests.
Padded == Marked(Zeros) \o LengthField

\* What is digested in the end is the message of the standard, with nothing left over
\* in the buffer.
HashedIsPadded == pc = "done" => Digested = Padded

\* The blocks of the standard's message.
Cut == Whole(Padded, 0, Len(Padded) \div Block)

\* The digest is SHA-1's, with one difference: the words of a block are read with
\* the lowest byte first (HashSH1.h, 5-9, LITTLE_ENDIAN being undefined). So the
\* registers renamed, the sixteen words overwritten and the context kept between
\* calls come to what the standard's eighty words and moving registers do.
DigestIsSHA1 ==
  pc = "done" => DigestBytes(digested) = DigestOf([n \in 1..Len(Cut) |-> Words(Cut[n])])

\* The hash of a file is computed to the end, unless the file stops being readable:
\* also of an empty file, and of one that ends together with a piece.
HashReturns == pc = "read" ~> (pc = "done" \/ broken)
==============================================================================
