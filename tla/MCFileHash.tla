------------------------------ MODULE MCFileHash ------------------------------
(* FileHash with the code's SHA1Transform, for TLC.                           *)
EXTENDS FileHash

\* Files that end at and around the places where padding and pieces change.
SomeFiles ==
  {[p \in 1..n |-> (p * 37 + n) % 256] : n \in {0, 3, 55, 56, 63, 64, 65, 100, 119, 120, 128, 200}}

-----------------------------------------------------------------------------
(* The standard's own example, to check the reference definition. *)

Abc == <<97, 98, 99, 128>> \o [k \in 1..59 |-> 0] \o <<24>>

ASSUME ReferenceIsSHA1 ==
  DigestOf(<<StandardWords(Abc)>>) =
    <<\hA9, \h99, \h3E, \h36, \h47, \h06, \h81, \h6A, \hBA, \h3E,
      \h25, \h71, \h78, \h50, \hC2, \h6C, \h9C, \hD0, \hD8, \h9D>>

\* What the code computes of it is another digest.
ASSUME CodeDiffers ==
  SHA1Transform(InitialState, Abc) # Compress(InitialState, StandardWords(Abc))
==============================================================================
