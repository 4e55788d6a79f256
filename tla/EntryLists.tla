------------------------------ MODULE EntryLists ------------------------------
(***************************************************************************)
(* What the callers of Linklist and Entry rely on: every list is a         *)
(* sequence, positions start at 1, an entry is in one list at most.        *)
(***************************************************************************)
EXTENDS Integers, Sequences, SequencesExt

CONSTANTS Entries, Lists

VARIABLE seqs  \* [Lists -> Seq(Entries)]

In(e, l)     == \E i \in DOMAIN seqs[l] : seqs[l][i] = e
Free(e)      == \A l \in Lists : ~In(e, l)
Index(e, l)  == CHOOSE i \in DOMAIN seqs[l] : seqs[l][i] = e
Without(e)   == [l \in Lists |-> IF In(e, l) THEN RemoveAt(seqs[l], Index(e, l)) ELSE seqs[l]]

\* Taken out of wherever it is and put before what is then at `pos'.
Place(e, l, pos) == seqs' = [Without(e) EXCEPT ![l] = InsertAt(@, pos, e)]

AppendEntry(e, l) == Place(e, l, Len(Without(e)[l]) + 1)
Prepend(e, l) == Free(e) /\ Place(e, l, 1)
InsertAfter(e, p, l) ==
  /\ In(p, l) /\ e # p
  /\ Place(e, l, 1 + CHOOSE i \in DOMAIN Without(e)[l] : Without(e)[l][i] = p)
Insert(e, l, pos) == IF Len(seqs[l]) <= pos THEN AppendEntry(e, l)
                     ELSE IF pos <= 1 THEN Prepend(e, l)
                     ELSE Place(e, l, pos)
Rem(e)         == seqs' = Without(e)
MoveTo(e, l, pos) == /\ In(e, l)
                     /\ Place(e, l, IF pos > Len(seqs[l]) THEN Len(seqs[l]) ELSE pos)
Up(e, l)       == In(e, l) /\ Index(e, l) > 1 /\ Place(e, l, Index(e, l) - 1)
Down(e, l)     == In(e, l) /\ Index(e, l) < Len(seqs[l]) /\ Place(e, l, Index(e, l) + 1)
=============================================================================
