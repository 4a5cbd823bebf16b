---------------------------- MODULE Subsequences ----------------------------
(***************************************************************************)
(* Parts of a sequence in their order (Array.prototype.filter), given by   *)
(* the positions that stay: two filters that keep the same positions are   *)
(* then the same filter, and no induction over the sequence is needed to   *)
(* reason about one.                                                       *)
(***************************************************************************)
EXTENDS Naturals, Sequences, FiniteSets

\* How many elements of I, a set of positions, are not behind i.
Rank(I, i) == Cardinality({j \in I : j <= i})

\* The k-th element of I.
Nth(I, k) == CHOOSE i \in I : Rank(I, i) = k

\* The part of seq at the positions I.
Pick(seq, I) == [k \in 1 .. Cardinality(I) |-> seq[Nth(I, k)]]
=============================================================================
