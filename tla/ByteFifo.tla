------------------------------ MODULE ByteFifo ------------------------------
(***************************************************************************)
(* What DynamicBuffer promises: bytes come out in the order they went in,  *)
(* each once, whatever room is reserved in between and however the buffer  *)
(* moves or grows.                                                         *)
(***************************************************************************)
EXTENDS Integers, Sequences

CONSTANTS
    Strings,        \* what can be written at once
    Sizes           \* sizes in calls

VARIABLES
    bytes,          \* what has been written and not read
    out             \* what the last readBytes() returned

vars == <<bytes, out>>

Prefix(s, n) == [i \in 1..(IF n < Len(s) THEN n ELSE Len(s)) |-> s[i]]
Without(s, n) == [i \in 1..(IF n < Len(s) THEN Len(s) - n ELSE 0) |-> s[n + i]]

Init == bytes = <<>> /\ out = <<>>

Put(s) == bytes' = bytes \o s /\ UNCHANGED out

Take(n) == out' = Prefix(bytes, n) /\ bytes' = Without(bytes, n)

Discard(n) == bytes' = Without(bytes, n) /\ UNCHANGED out

Clear == bytes' = <<>> /\ UNCHANGED out

Next ==
    \/ \E s \in Strings : Put(s)
    \/ \E n \in Sizes : Take(n) \/ Discard(n)
    \/ Clear

Spec == Init /\ [][Next]_vars
=============================================================================
