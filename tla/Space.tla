-------------------------------- MODULE Space --------------------------------
(***************************************************************************)
(* What a manager of NumBlocks consecutive blocks promises: a request is   *)
(* granted whenever some run of free blocks is long enough, with a run     *)
(* nobody else holds, and refused only otherwise.                          *)
(***************************************************************************)
EXTENDS Integers

CONSTANTS NumBlocks,
          MaxAsked  \* bound: the largest request, which no manager may be able to grant

VARIABLES taken,  \* the runs handed out, [first, num]
          asked,  \* blocks of the last request
          out     \* its answer: a run, of no block if refused

spaceVars == <<taken, asked, out>>

Blocks(run) == run.first..run.first + run.num - 1

Free(run) == /\ Blocks(run) \subseteq 0..NumBlocks - 1
             /\ \A t \in taken : Blocks(t) \intersect Blocks(run) = {}

Runs(n) == {run \in [first : 0..NumBlocks - 1, num : {n}] : Free(run)}

Refused == [first |-> -1, num |-> 0]

Init == taken = {} /\ asked = 0 /\ out = Refused

Grant(n) == \E run \in Runs(n) :
  taken' = taken \union {run} /\ asked' = n /\ out' = run

Refuse(n) == /\ Runs(n) = {}
             /\ asked' = n /\ out' = Refused
             /\ UNCHANGED taken

Return == \E run \in taken : taken' = taken \ {run} /\ UNCHANGED <<asked, out>>

Next == (\E n \in 1..MaxAsked : Grant(n) \/ Refuse(n)) \/ Return

Spec == Init /\ [][Next]_spaceVars
=============================================================================
