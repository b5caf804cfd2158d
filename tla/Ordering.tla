------------------------------ MODULE Ordering ------------------------------
(***************************************************************************)
(* The lists of the client that are kept in order.  What they hold are     *)
(* numbers here, in the order that the code sorts them by.  (SortSeq and   *)
(* SelectSeq would do for model checking; TLAPS has no definition of them.)*)
(***************************************************************************)
EXTENDS Naturals, Sequences, FiniteSets, Functions, SequencesExt

InOrder(s) == \A i, j \in DOMAIN s : i < j => s[i] <= s[j]

(* The members of s at the indices that p lists. *)
At(s, p) == [i \in DOMAIN p |-> s[p[i]]]

Sorted(s) == At(s, CHOOSE p \in Bijection(DOMAIN s, DOMAIN s) : InOrder(At(s, p)))

(* A set of numbers as a list. *)
Listed(S) == Sorted(SetToSeq(S))

(* The list without x. *)
Dropped(s, x) == At(s, Listed({i \in DOMAIN s : s[i] # x}))
=============================================================================
