----------------------------- MODULE SortedSet -----------------------------
(***************************************************************************)
(* What a RankSet promises: a set of numbers, and an iterator on it that   *)
(* insertions and the erasure of other elements leave where it is.         *)
(***************************************************************************)
EXTENDS Integers, FiniteSets

CONSTANTS
    Values,         \* what can be stored
    End             \* end(), and an iterator the client no longer uses

VARIABLES
    elems,          \* the set
    iter            \* an element, or End

vars == <<elems, iter>>

\* The least of a set of elements, the greatest one; end() when there is none.
Least(s) == IF s = {} THEN End ELSE CHOOSE m \in s : \A e \in s : m <= e
Greatest(s) == IF s = {} THEN End ELSE CHOOSE m \in s : \A e \in s : e <= m

After(v) == Least({e \in elems : e > v})
Before(v) == Greatest({e \in elems : e < v})

Init == elems = {} /\ iter = End

Insert(v) == elems' = elems \cup {v} /\ iter' = v

\* Erasing the element under the iterator moves it on, or ends its use.
Erase(v) ==
    /\ v \in elems
    /\ elems' = elems \ {v}
    /\ iter' \in (IF iter = v THEN {After(v), End} ELSE {iter})

Clear == elems' = {} /\ iter' = End

Seek == iter' \in elems \cup {End} /\ UNCHANGED elems

Advance ==
    /\ iter # End
    /\ iter' = After(iter)
    /\ UNCHANGED elems

\* Back from end() is the last element, and back from the first is End again, the
\* rend() of a reverse iterator.
Retreat ==
    /\ elems # {}
    /\ iter' = IF iter = End THEN Greatest(elems) ELSE Before(iter)
    /\ UNCHANGED elems

Next ==
    \/ \E v \in Values : Insert(v) \/ Erase(v)
    \/ Clear
    \/ Seek
    \/ Advance
    \/ Retreat

Spec == Init /\ [][Next]_vars
=============================================================================
