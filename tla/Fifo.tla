-------------------------------- MODULE Fifo --------------------------------
(***************************************************************************)
(* gos::TemplateFIFO (gosFIFO.h): a singly linked list of records obtained *)
(* from an allocator, with a pointer to the first and one to the last.     *)
(* Records are memory: a record that has been freed keeps its old content  *)
(* until the allocator hands it out again, and a pointer to it stays       *)
(* readable, as it does in the program.                                    *)
(***************************************************************************)
EXTENDS Naturals, Sequences, FiniteSets

CONSTANTS Records,   \* the memory of the allocator
          Data,
          NULL,
          Nothing    \* what pop leaves in *out_data when it returns false

ASSUME FifoAssumption ==
  IsFiniteSet(Records) /\ NULL \notin Records /\ Nothing \notin Data

VARIABLES first, last,
          next, data,  \* the fields of every record, handed out or not
          held,   \* records handed out by the allocator
          popped       \* what the last pop returned

fifoVars == <<first, last, next, data, held, popped>>

(* Fresh memory holds arbitrary data; next is written before it is read,   *)
(* so that one value of it stands for all.                                 *)
FifoInit ==
  /\ first = NULL
  /\ last = NULL
  /\ next = [r \in Records |-> NULL]
  /\ data \in [Records -> Data]
  /\ held = {}
  /\ popped = Nothing

Push(d) ==
  \E p \in Records \ held :
    /\ held' = held \union {p}
    /\ data' = [data EXCEPT ![p] = d]
    /\ next' = [r \in Records |->
                  IF r = p THEN NULL ELSE IF r = last THEN p ELSE next[r]]
    /\ last' = p
    /\ first' = IF last = NULL THEN p ELSE first
    /\ UNCHANGED popped

PushOnTop(d) ==
  \E p \in Records \ held :
    /\ held' = held \union {p}
    /\ data' = [data EXCEPT ![p] = d]
    /\ next' = [next EXCEPT ![p] = first]
    /\ first' = p
    /\ last' = IF first = NULL THEN p ELSE last
    /\ UNCHANGED popped

PopNothing ==
  /\ first = NULL
  /\ popped' = Nothing
  /\ UNCHANGED <<first, last, next, data, held>>

(* Mutant: returns the last element.                                       *)
PopFirst_last ==
  /\ first # NULL
  /\ popped' = data[last]
  /\ first' = next[first]
  /\ held' = held \ {first}
  /\ last' = IF next[first] = NULL THEN NULL ELSE last
  /\ UNCHANGED <<next, data>>

PopFirst ==
  /\ first # NULL
  /\ popped' = data[first]
  /\ first' = next[first]
  /\ held' = held \ {first}
  /\ last' = IF next[first] = NULL THEN NULL ELSE last
  /\ UNCHANGED <<next, data>>

(* trail[n]: where n links from p lead.  The records from p on are those   *)
(* on the trail before its end.                                            *)
Along(p, links) ==
  LET follow == [r \in Records \union {NULL} |-> IF r = NULL THEN NULL ELSE links[r]]
      trail[n \in 0..Cardinality(Records)] == IF n = 0 THEN p ELSE follow[trail[n - 1]]
      before == {n \in 0..Cardinality(Records) : trail[n] # NULL}
  IN  [k \in 1..Cardinality(before) |-> trail[k - 1]]

List == Along(first, next)

Empty ==
  /\ held' = held \ {List[i] : i \in DOMAIN List}
  /\ first' = NULL
  /\ last' = NULL
  /\ UNCHANGED <<next, data, popped>>

FifoNext == (\E d \in Data : Push(d) \/ PushOnTop(d)) \/ PopNothing \/ PopFirst \/ Empty

FifoSpec == FifoInit /\ [][FifoNext]_fifoVars
-----------------------------------------------------------------------------
FifoTypeOK ==
  /\ {first, last} \subseteq Records \union {NULL}
  /\ next \in [Records -> Records \union {NULL}]
  /\ data \in [Records -> Data]
  /\ held \subseteq Records
  /\ popped \in Data \union {Nothing}

(* The list visits every record the FIFO holds, once, and last is its  *)
(* end: no record leaks, none is linked after it has been freed, and   *)
(* a push after the list has become empty does not write through a stale   *)
(* last.                                                                   *)
ListIsMemory ==
  LET list == List
  IN  /\ {list[i] : i \in DOMAIN list} = held
      /\ Len(list) = Cardinality(held)
      /\ last = IF list = <<>> THEN NULL ELSE list[Len(list)]

(* The linked list behaves as a queue one can also push in front of.       *)
Queue == INSTANCE Deque WITH
           content <- LET list == List IN [i \in DOMAIN list |-> data[list[i]]]

ImplementsDeque == Queue!Spec
=============================================================================
