------------------------------ MODULE Gathering ------------------------------
(***************************************************************************)
(* Sequences made from a sequence: what its elements contribute, in order. *)
(* The code's loops that append to a slice or write to a stream are this.  *)
(* (SequenceLemmas proves how it grows with the sequence, which cannot be  *)
(* done for SelectSeq: the prover has no definition of it.)                *)
(***************************************************************************)
EXTENDS SequencesExt

Gather(s, F(_)) == FlattenSeq([i \in DOMAIN s |-> F(s[i])])

\* <<x>> for an x that is wanted.
Only(wanted, x) == IF wanted THEN <<x>> ELSE <<>>
=============================================================================
