--------------------------- MODULE MC_FilterChain ---------------------------
(* Three entries, all filters of one layer or all entries of two other lists, *)
(* or two filters that each have a parameter, or one.                         *)
(* pick() begins to walk from the first entry at a length of six: ChainHeap   *)
(* holds one list of n entries for it.                                        *)
EXTENDS FilterChain, TLC

SetFirst == CHOOSE f \in Tunable : TRUE

MCInit == FilterInit /\ instances \in {{}, {SetFirst}, Tunable, Entries}

\* Bounds: with three filters one parameter is set, with two the third entry rests, and
\* one alone may not be given its value.
Bounded ==
  /\ instances = Entries => \A f \in Tunable \ {SetFirst} : value'[f] = NULL
  /\ instances = Tunable => \A e \in Entries \ Tunable : list'[e] = NULL
  /\ instances = {SetFirst} => \A e \in Entries \ {SetFirst} : list'[e] = NULL
  /\ instances # {SetFirst} /\ GiveNothing => GiveValue

MCSpec == MCInit /\ [][FilterNext /\ Bounded]_chainVars

\* No definition tells the other lists, or the settings, from each other.
Alike == Permutations(Lists \ {Filters}) \cup Permutations(Settings)

ChainHeap(n) == [next  |-> [i \in 1..n |-> IF i = n THEN NULL ELSE i + 1],
                 prev  |-> [i \in 1..n |-> IF i = 1 THEN NULL ELSE i - 1],
                 first |-> [l \in Lists |-> IF n = 0 THEN NULL ELSE 1],
                 last  |-> [l \in Lists |-> IF n = 0 THEN NULL ELSE n]]

ASSUME PickInLongLists ==
  \A l \in Lists : \A n \in 0..9 : \A pos \in 0..n + 1 :
    Pick(ChainHeap(n), n, l, pos) = IF pos \in 1..n THEN pos ELSE NULL
=============================================================================
