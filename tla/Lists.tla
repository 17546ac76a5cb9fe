------------------------------- MODULE Lists --------------------------------
(***************************************************************************)
(* The lists that queues and caches keep in memory: arrays, and maps in    *)
(* the order of insertion.  Selected and Total are what the code does with *)
(* filter() and by adding up sizes.  They are recursive functions.         *)
(***************************************************************************)
EXTENDS Integers, Sequences, FiniteSets, Functions

\* The members of q that are in S, in the order of q.
Selected(q, S) ==
  LET f[n \in 0..Len(q)] == IF n = 0 THEN <<>>
                            ELSE IF q[n] \in S THEN Append(f[n - 1], q[n]) ELSE f[n - 1]
  IN f[Len(q)]

Without(q, x) == Selected(q, Range(q) \ {x})

\* The sizes of the members, added up.
Total(size, q) ==
  LET f[n \in 0..Len(q)] == IF n = 0 THEN 0 ELSE f[n - 1] + size[q[n]] IN f[Len(q)]
=============================================================================
