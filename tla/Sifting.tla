-------------------------------- MODULE Sifting --------------------------------
(***************************************************************************)
(* Filters on sequences, defined by a recursive function: SelectSeq has no *)
(* definition that a proof could use.                                      *)
(***************************************************************************)
EXTENDS Integers, Sequences

\* The elements of s that are in S, in their order (Vec::retain, partition).
Sift(s, S) ==
  LET kept[n \in 0 .. Len(s)] ==
        IF n = 0 THEN <<>>
        ELSE IF s[n] \in S THEN Append(kept[n - 1], s[n]) ELSE kept[n - 1]
  IN  kept[Len(s)]
=============================================================================
