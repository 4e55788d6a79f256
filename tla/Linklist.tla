------------------------------- MODULE Linklist -------------------------------
(***************************************************************************)
(* Linklist<T> and Entry (src/src/include/linklist.h, src/src/linklist.cpp):*)
(* the doubly linked lists of layers, filters, controllers, screens,       *)
(* parameters and commands.  The links are kept in the entries, so an      *)
(* entry is in one list at most, and append moves it there.                *)
(*                                                                         *)
(* Every call holds the list's recursive mutex for the part that changes   *)
(* links: a call is one step.  A NULL that the code would dereference is   *)
(* outside the domain of `next' and `prev', where TLC stops with an error: *)
(* a run that ends without one dereferences none.                          *)
(***************************************************************************)
EXTENDS Integers, Sequences

CONSTANTS
  Entries, Lists, NULL,
  MaxPos   \* bound: positions that are asked for

ASSUME LinklistAssumption == NULL \notin Entries \union Lists /\ MaxPos \in Nat

VARIABLES
  next, prev, list, select,         \* of the entries
  first, last, length, selection    \* of the lists

links == <<next, prev, list, first, last, length>>
vars  == <<links, select, selection>>

Positions == 0..MaxPos

Init == /\ next = [e \in Entries |-> NULL]
        /\ prev = [e \in Entries |-> NULL]
        /\ list = [e \in Entries |-> NULL]
        /\ select = [e \in Entries |-> FALSE]
        /\ first = [l \in Lists |-> NULL]
        /\ last = [l \in Lists |-> NULL]
        /\ length = [l \in Lists |-> 0]
        /\ selection = [l \in Lists |-> NULL]

-----------------------------------------------------------------------------
(* The pointers of all entries and lists as one value, and the one thing   *)
(* every call does to them: make two places neighbours, where NULL on      *)
(* either side is the end of the list.                                     *)

Heap == [next |-> next, prev |-> prev, first |-> first, last |-> last]

Join(h, l, a, b) ==
  LET forward == IF a = NULL THEN [h EXCEPT !.first[l] = b]
                 ELSE [h EXCEPT !.next[a] = b]
  IN IF b = NULL THEN [forward EXCEPT !.last[l] = a]
     ELSE [forward EXCEPT !.prev[b] = a]

\* a <-> e <-> b
Between(h, l, a, e, b) == Join(Join(h, l, a, e), l, e, b)

\* Entry e out of the list it is in, if any; its own pointers become NULL.
Unlinked(h, e) ==
  IF list[e] = NULL THEN h
  ELSE [Join(h, list[e], h.prev[e], h.next[e]) EXCEPT !.next[e] = NULL, !.prev[e] = NULL]

SetLinks(h) == /\ next' = h.next /\ prev' = h.prev
               /\ first' = h.first /\ last' = h.last

\* length-- of the list that is left, length++ of the one that is entered.
Lengths(e, l) == [k \in Lists |-> length[k] - (IF list[e] = k THEN 1 ELSE 0)
                                            + (IF k = l THEN 1 ELSE 0)]

\* The selection that rem() passes on: the flag to the next entry, or to the
\* previous one when there is no next; the pointer to the previous one, or to
\* the next when there is no previous.  The flag of e itself stays.
RemSelection(e) ==
  IF list[e] = NULL \/ ~select[e] THEN UNCHANGED <<select, selection>>
  ELSE LET heir    == IF next[e] # NULL THEN next[e] ELSE prev[e]
           pointed == IF prev[e] # NULL THEN prev[e] ELSE next[e]
       IN IF heir = NULL THEN UNCHANGED <<select, selection>>
          ELSE /\ select' = [select EXCEPT ![heir] = TRUE]
               /\ selection' = [selection EXCEPT ![list[e]] = pointed]

\* Takes e out of its list and enters it into l between a and b.
Enter(e, l, a, b) ==
  /\ SetLinks(Between(Unlinked(Heap, e), l, a, e, b))
  /\ list' = [list EXCEPT ![e] = l]
  /\ length' = Lengths(e, l)
  /\ RemSelection(e)

\* The first len entries that a walk meets; after the last one there is none.
Walk(start, step, len) ==
  LET node[i \in Nat] == IF i <= 1 THEN start
                         ELSE IF node[i - 1] = NULL THEN NULL ELSE step[node[i - 1]]
  IN [i \in 1..len |-> node[i]]

\* From the beginning in the first half, from the end in the second.
Pick(h, len, l, pos) ==
  IF pos < 1 \/ len < pos THEN NULL
  ELSE IF pos = 1 \/ (pos < len \div 2 /\ pos # len)
  THEN Walk(h.first[l], h.next, pos)[pos]
  ELSE Walk(h.last[l], h.prev, len - pos + 1)[len - pos + 1]

-----------------------------------------------------------------------------
(* The calls *)

\* A list that is not empty is told by its last entry.  The sel(true) of the
\* first entry comes before its `list' is set and does nothing.
AppendEntry(e, l) == Enter(e, l, Unlinked(Heap, e).last[l], NULL)

Prepend(e, l) == /\ list[e] = NULL  \* else it returns
                 /\ Enter(e, l, NULL, first[l])

InsertAfter(e, p, l) == /\ list[p] = l /\ e # p
                        /\ Enter(e, l, p, Unlinked(Heap, e).next[p])

Insert(e, l, pos) ==
  IF length[l] <= pos THEN AppendEntry(e, l)
  ELSE IF pos <= 1 THEN Prepend(e, l)
  ELSE LET h   == Unlinked(Heap, e)
           ptr == Pick(h, length[l] - (IF list[e] = l THEN 1 ELSE 0), l, pos)
       IN Enter(e, l, h.prev[ptr], ptr)

Rem(e) == /\ list[e] # NULL
          /\ SetLinks(Unlinked(Heap, e))
          /\ list' = [list EXCEPT ![e] = NULL]
          /\ length' = Lengths(e, NULL)
          /\ RemSelection(e)

\* Mutant: the second neighbour is left as it was.
UpHalf(e) ==
  LET p == prev[e] IN
  /\ list[e] # NULL /\ p # NULL
  /\ SetLinks(Between(Heap, list[e], prev[p], e, p))
  /\ UNCHANGED <<list, length, select, selection>>

Up(e) ==
  LET p == prev[e] IN
  /\ list[e] # NULL /\ p # NULL
  /\ SetLinks(Between(Join(Heap, list[e], p, next[e]), list[e], prev[p], e, p))
  /\ UNCHANGED <<list, length, select, selection>>

Down(e) ==
  LET n == next[e] IN
  /\ list[e] # NULL /\ n # NULL
  /\ SetLinks(Between(Join(Heap, list[e], prev[e], n), list[e], n, e, next[n]))
  /\ UNCHANGED <<list, length, select, selection>>

\* move(pos): the entry at `pos' is looked up before e is detached, its
\* neighbours after.
Position(e) == CHOOSE i \in 1..length[list[e]] : Pick(Heap, length[list[e]], list[e], i) = e

\* Mutant: always in front of the entry displaced.
MoveBefore(e, pos) ==
  LET l == list[e]
      displaced == Pick(Heap, length[l], l, pos)
      h == Unlinked(Heap, e)
  IN /\ l # NULL /\ pos # Position(e) /\ displaced # NULL
     /\ SetLinks(Between(h, l, h.prev[displaced], e, displaced))
     /\ UNCHANGED <<list, length, select, selection>>

MoveTo(e, pos) ==
  LET l == list[e]
      displaced == Pick(Heap, length[l], l, pos)
      h == Unlinked(Heap, e)
  IN /\ l # NULL
     /\ pos # Position(e)
     /\ SetLinks(IF pos >= length[l] THEN Between(h, l, h.last[l], e, NULL)
                 ELSE IF pos = 1 THEN Between(h, l, NULL, e, h.first[l])
                 ELSE IF Position(e) > pos THEN Between(h, l, h.prev[displaced], e, displaced)
                 ELSE Between(h, l, displaced, e, h.next[displaced]))
     /\ UNCHANGED <<list, length, select, selection>>

\* Positions for which move() stays inside its list: a script may pass others.
CanMove(e, pos) == list[e] # NULL => pos >= 1 /\ (pos = 1 \/ length[list[e]] > 1)

Sel(e, on) == /\ list[e] # NULL
              /\ select' = [select EXCEPT ![e] = on]
              /\ selection' = IF on THEN [selection EXCEPT ![list[e]] = e] ELSE selection
              /\ UNCHANGED links

\* sel(0), the only way Linklist::sel is called.
SelNone(l) == /\ first[l] # NULL
              /\ select' = [e \in Entries |-> select[e] /\ list[e] # l]
              /\ selection' = [selection EXCEPT ![l] = NULL]
              /\ UNCHANGED links

Next == \E e \in Entries :
          \/ Rem(e) \/ Up(e) \/ Down(e) \/ Sel(e, TRUE) \/ Sel(e, FALSE)
          \/ \E pos \in Positions : CanMove(e, pos) /\ MoveTo(e, pos)
          \/ \E l \in Lists : \/ AppendEntry(e, l) \/ Prepend(e, l) \/ SelNone(l)
                              \/ \E p \in Entries : InsertAfter(e, p, l)
                              \/ \E pos \in Positions : Insert(e, l, pos)

Spec == Init /\ [][Next]_vars

-----------------------------------------------------------------------------
(* Properties *)

\* The list as begin() and next, or end() and prev, show it.
Chain(l) == Walk(first[l], next, length[l])
Back(l)  == Walk(last[l], prev, length[l])

\* The two directions, the length and the entries' own `list' agree: a walk from
\* either end meets every member once and stops (linklist.cpp:56-302,
\* linklist.h:184-302).
WellLinked ==
  \A l \in Lists :
    LET c == Chain(l)  n == length[l] IN
    /\ \A i \in 1..n : c[i] # NULL /\ Back(l)[n + 1 - i] = c[i]
    /\ \A i, k \in 1..n : c[i] = c[k] => i = k
    /\ \A e \in Entries : list[e] = l <=> \E i \in 1..n : c[i] = e
    /\ IF n = 0 THEN first[l] = NULL /\ last[l] = NULL
       ELSE next[last[l]] = NULL /\ prev[first[l]] = NULL

\* Every call implements the call of the same name on sequences
\* (linklist.cpp:56-302, linklist.h:184-303).
Abstract == INSTANCE EntryLists WITH seqs <- [l \in Lists |-> Chain(l)]
EachCall(e) ==
  LET l == list'[e] IN
  IF l = NULL THEN Rem(e) => Abstract!Rem(e)
  ELSE /\ AppendEntry(e, l) => Abstract!AppendEntry(e, l)
       /\ Prepend(e, l) => Abstract!Prepend(e, l)
       /\ Up(e) => Abstract!Up(e, l)
       /\ Down(e) => Abstract!Down(e, l)
       /\ \A p \in Entries : InsertAfter(e, p, l) => Abstract!InsertAfter(e, p, l)
       /\ \A pos \in Positions : Insert(e, l, pos) => Abstract!Insert(e, l, pos)
       /\ \A pos \in Positions : CanMove(e, pos) /\ MoveTo(e, pos)
            => Abstract!MoveTo(e, l, pos)
CallsImplementLists == [][UNCHANGED links \/ \A e \in Entries : EachCall(e)]_vars
=============================================================================
