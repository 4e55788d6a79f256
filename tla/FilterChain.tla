----------------------------- MODULE FilterChain -----------------------------
(***************************************************************************)
(* A layer's chain of filters: Layer::do_filters and what it calls, on the *)
(* layer's thread, against a script that adds, removes, reorders, switches *)
(* and sets filters.                                                       *)
(*                                                                         *)
(* The chain is a Linklist.  The walk holds its mutex from begin() to the  *)
(* end, and every call that changes links takes it.  A filter's parameter  *)
(* has no mutex for its value: the script stores it, marks it changed and  *)
(* gives it to the plugin; the walk gives it to the plugin when it is      *)
(* marked, and unmarks it.                                                 *)
(*                                                                         *)
(* The entries that are no filters are those of the program's other lists. *)
(***************************************************************************)
EXTENDS Linklist

CONSTANTS
  Filters,   \* the layer's list of filters
  Tunable,   \* bound: the filters that have a parameter; it is the only one
  Settings   \* bound: the values a script sets it to

ASSUME FilterAssumption == /\ Filters \in Lists /\ Tunable \subseteq Entries
                           /\ NULL \notin Settings

VARIABLES
  instances,               \* the entries that are FilterInstances
  inuse,                   \* those whose `layer' is set
  active,                  \* those that are switched on
  value, changed,          \* of the parameter
  core,                    \* what the plugin has been given
  spc, target,             \* script: its step, the filter whose parameter it sets
  lpc, filt, held,         \* layer's thread: its step, the filter, the value loaded
  visited,                 \* history: the filters this walk has passed
  stale                    \* history: filters left with a value older than the script's

paramVars == <<value, changed, core, spc, target, stale>>
walkVars  == <<lpc, filt, held, visited>>
filterVars == <<instances, inuse, active, paramVars, walkVars>>
chainVars == <<vars, filterVars>>

\* The layer's thread has the list's mutex.
Walking == lpc \in {"walk", "store", "clear", "update"}

\* The script is setting the parameter of f.
Setting(f) == spc # "idle" /\ target = f

FilterInit ==
  /\ Init
  /\ instances \in SUBSET Entries
  /\ inuse = {} /\ active = instances
  /\ value = [f \in Tunable |-> NULL] /\ core = value
  /\ changed = [f \in Tunable |-> FALSE]
  /\ spc = "idle" /\ target = NULL
  /\ lpc = "idle" /\ filt = NULL /\ held = NULL
  /\ visited = <<>> /\ stale = {}

-----------------------------------------------------------------------------
(* The layer's thread *)

\* A feed that gave a picture; the length is read before the mutex is taken.
\* Without a picture, or filters, the frame is the feed's business alone.
HasFilters == /\ lpc = "idle" /\ length[Filters] > 0
              /\ lpc' = "lock"
              /\ UNCHANGED <<vars, instances, inuse, active, paramVars, filt, held, visited>>

WalkBegins == /\ lpc = "lock"
              /\ filt' = first[Filters] /\ visited' = <<>>
              /\ lpc' = "walk"
              /\ UNCHANGED <<vars, instances, inuse, active, paramVars, held>>

WalkEnds == /\ lpc = "walk" /\ filt = NULL
            /\ lpc' = "idle" /\ visited' = <<>>
            /\ UNCHANGED <<vars, instances, inuse, active, paramVars, filt, held>>

Pass == /\ visited' = Append(visited, filt)
        /\ filt' = next[filt]
        /\ lpc' = "walk"

PassOver == /\ lpc = "walk" /\ filt # NULL /\ filt \notin active
            /\ Pass
            /\ UNCHANGED <<vars, instances, inuse, active, paramVars, held>>

\* process, up to the test of `changed' and the callback's load of the value.
Process == /\ lpc = "walk" /\ filt # NULL /\ filt \in active
           /\ IF filt \in Tunable /\ changed[filt]
              THEN lpc' = "store" /\ held' = value[filt]
              ELSE lpc' = "update" /\ UNCHANGED held
           /\ UNCHANGED <<vars, instances, inuse, active, paramVars, filt, visited>>

\* The callback gives the plugin the value it has loaded.
GiveHeld == /\ lpc = "store"
            /\ core' = [core EXCEPT ![filt] = held]
            /\ stale' = IF held # value[filt] /\ ~Setting(filt) THEN stale \cup {filt} ELSE stale
            /\ held' = NULL
            /\ lpc' = "clear"
            /\ UNCHANGED <<vars, instances, inuse, active, value, changed, spc, target,
                           filt, visited>>

Unmark == /\ lpc = "clear"
          /\ changed' = [changed EXCEPT ![filt] = FALSE]
          /\ lpc' = "update"
          /\ UNCHANGED <<vars, instances, inuse, active, value, core, spc, target, stale,
                         filt, held, visited>>

Update == /\ lpc = "update"
          /\ Pass
          /\ UNCHANGED <<vars, instances, inuse, active, paramVars, held>>

LayerThread == \/ HasFilters \/ WalkBegins \/ WalkEnds \/ PassOver
               \/ Process \/ GiveHeld \/ Unmark \/ Update

-----------------------------------------------------------------------------
(* The script *)

\* An instance that has a layer is in use, whether it is in the chain or not:
\* nothing resets the pointer.
AddFilter(e) == /\ e \notin inuse /\ ~Walking
                /\ AppendEntry(e, Filters)
                /\ inuse' = inuse \cup {e}
                /\ UNCHANGED <<instances, active, paramVars, walkVars>>

\* Mutant: rem() does not wait for the walk.
RemWithoutLock(e) == Rem(e) /\ UNCHANGED filterVars

RemFilter(e) == ~Walking /\ Rem(e) /\ UNCHANGED filterVars

Reorder(e) == /\ ~Walking
              /\ \/ Up(e) \/ Down(e)
                 \/ \E pos \in Positions : CanMove(e, pos) /\ MoveTo(e, pos)
              /\ UNCHANGED filterVars

\* The selection is changed without the mutex.
Select(e) == \E on \in BOOLEAN : Sel(e, on) /\ UNCHANGED filterVars

Activate(e) == \E on \in BOOLEAN :
  /\ active' = IF on THEN active \cup {e} ELSE active \ {e}
  /\ UNCHANGED <<vars, instances, inuse, paramVars, walkVars>>

\* filter_set_parameter: Parameter::set stores the value ...
SetValue(e) == /\ e \in Tunable \cap inuse  \* before that the plugin has no instance
               /\ \E v \in Settings : value' = [value EXCEPT ![e] = v]
               /\ spc' = "mark" /\ target' = e
               /\ UNCHANGED <<vars, instances, inuse, active, changed, core, stale, walkVars>>

\* ... and marks it; ...
Mark == /\ spc = "mark"
        /\ changed' = [changed EXCEPT ![target] = TRUE]
        /\ spc' = "give"
        /\ UNCHANGED <<vars, instances, inuse, active, value, core, target, stale, walkVars>>

\* Mutant: the mark is left to do it.
TrustTheMark == /\ spc = "give"
                /\ spc' = "idle" /\ target' = NULL
                /\ UNCHANGED <<vars, instances, inuse, active, value, changed, core, stale,
                               walkVars>>

\* ... FilterInstance::set_parameter, with the index that search() has found for
\* the parameter's name, gives it to the plugin.
GiveValue == /\ spc = "give"
             /\ core' = [core EXCEPT ![target] = value[target]]
             /\ stale' = stale \ {target}
             /\ spc' = "idle" /\ target' = NULL
             /\ UNCHANGED <<vars, instances, inuse, active, value, changed, walkVars>>

\* A parameter that the script names by a number with a fraction: the `idx' given to
\* set_parameter is whatever was on the stack.  It may be the parameter's own
\* (GiveValue); or there is no such parameter, and nothing is given.  (It may be
\* another parameter's, which is given its own value: filters have one here.)
\* What the walk has left unmarked, or is about to, then stays with the plugin.
GiveNothing ==
  /\ spc = "give"
  /\ stale' = IF /\ core[target] # value[target]
                 /\ IF lpc \in {"store", "clear"} /\ filt = target
                    THEN lpc = "clear" ELSE ~changed[target]
              THEN stale \cup {target} ELSE stale
  /\ spc' = "idle" /\ target' = NULL
  /\ UNCHANGED <<vars, instances, inuse, active, value, changed, core, walkVars>>

Script == \/ Mark \/ GiveValue \/ GiveNothing
          \/ /\ spc = "idle"
             /\ \E e \in instances : \/ AddFilter(e) \/ RemFilter(e) \/ Reorder(e)
                                     \/ Select(e) \/ Activate(e) \/ SetValue(e)

\* The other lists, by whichever code owns them.
OtherLists ==
  /\ \E e \in Entries \ instances :
       \/ Rem(e) \/ Up(e) \/ Down(e) \/ Sel(e, TRUE) \/ Sel(e, FALSE)
       \/ \E pos \in Positions : CanMove(e, pos) /\ MoveTo(e, pos)
       \/ \E l \in Lists \ {Filters} :
            \/ AppendEntry(e, l) \/ Prepend(e, l) \/ SelNone(l)
            \/ \E p \in Entries : InsertAfter(e, p, l)
            \/ \E pos \in Positions : Insert(e, l, pos)
  /\ UNCHANGED filterVars

FilterNext == LayerThread \/ Script \/ OtherLists
FilterSpec == FilterInit /\ [][FilterNext]_chainVars

-----------------------------------------------------------------------------
(* Properties *)

\* A frame goes through every filter of the chain once, in the chain's order,
\* whatever a script adds, removes or moves meanwhile: no filter is left out
\* because its predecessor lost its `next' under the walk (layer.cpp:247-260).
FrameGoesThroughChain == Walking =>
  LET chain == Chain(Filters)  n == Len(visited) IN
  /\ n <= Len(chain)
  /\ \A i \in 1..n : visited[i] = chain[i]
  /\ filt = IF n = Len(chain) THEN NULL ELSE chain[n + 1]

\* A parameter that is not marked is what the plugin has, outside the calls
\* that are giving it: no setting is lost between the two threads that give and
\* unmark it (filter.cpp:125-138, parameter.cpp:89-125, filter_js.cpp:129-163).
\* `stale' names the code's two exceptions: the walk's callback loads a value, a
\* script sets and gives another, and the callback gives the older one; or the
\* script does not give its value (GiveNothing) and the walk unmarks it.
Giving(f)  == lpc \in {"store", "clear"} /\ filt = f
ParametersArrive == \A f \in Tunable :
  ~changed[f] /\ ~Setting(f) /\ ~Giving(f) /\ f \notin stale => core[f] = value[f]
=============================================================================
