------------------------------ MODULE ArchiveLog ------------------------------
(***************************************************************************)
(* What the feature archive promises its readers (detector/archive.py): one *)
(* log per day, to which a request adds all of its rows at once, at the end *)
(* and in order; nothing that was added is ever changed or removed.         *)
(***************************************************************************)
EXTENDS Naturals, Sequences

CONSTANTS Days, Requests, MaxRows

VARIABLE log        \* log[d]: the rows of day d

Rows(r, n) == [i \in 1..n |-> [req |-> r, row |-> i]]

Init == log = [d \in Days |-> <<>>]

AddRows(d, r, n) == log' = [log EXCEPT ![d] = @ \o Rows(r, n)]

Next == \E d \in Days, r \in Requests, n \in 1..MaxRows : AddRows(d, r, n)

Spec == Init /\ [][Next]_log

=============================================================================
