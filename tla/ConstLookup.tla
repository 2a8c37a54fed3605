---------------------------- MODULE ConstLookup -----------------------------
(***************************************************************************)
(* What a constant load promises, whatever caching happens underneath:     *)
(* every load made in context e returns the constant as it is visible from *)
(* e at that moment, and when it is not defined there, const_missing runs  *)
(* (it may define constants) and its result is returned.  Constants may be *)
(* redefined or removed between loads.                                     *)
(***************************************************************************)
CONSTANTS
    Contexts,   \* crefs a load of the constant may run under
    Values,     \* values a constant or const_missing may produce
    Scope(_)    \* Scope(e): the scope whose binding a lookup from e finds

VARIABLES
    konst,  \* konst[s]: the constant's value in scope s, or Undef
    out     \* the last load: its context, its result, whether it missed

Undef == "undef"
None == [ctx |-> "none"]
Scopes == {Scope(e) : e \in Contexts}

\* Bindings a step may leave: unchanged, or one scope (re)bound or removed.
Rebound == {konst} \cup {[konst EXCEPT ![s] = v] : s \in Scopes, v \in Values \cup {Undef}}

Load(e) ==
    /\ konst[Scope(e)] # Undef
    /\ out' = [ctx |-> e, got |-> konst[Scope(e)], missing |-> FALSE]
    /\ UNCHANGED konst

Missing(e) ==
    /\ konst[Scope(e)] = Undef
    /\ \E r \in Values, k \in Rebound :
          /\ out' = [ctx |-> e, got |-> r, missing |-> TRUE]
          /\ konst' = k

Redefine ==
    /\ \E k \in Rebound \ {konst} : konst' = k
    /\ UNCHANGED out

Init ==
    /\ konst \in [Scopes -> Values \cup {Undef}]
    /\ out = None

Next == Redefine \/ \E e \in Contexts : Load(e) \/ Missing(e)

Spec == Init /\ [][Next]_<<konst, out>>
=============================================================================
