------------------------------ MODULE SortedMap ------------------------------
(***************************************************************************)
(* gos::BaseHashMap (gosHashMap.h) and gos::UniqueSortedList with the same *)
(* search: an array of pairs sorted by key, which a binary search narrows  *)
(* to a few elements that are then scanned.  The known assets of the       *)
(* resources, the textures of the render pipe and the pages of the sparse  *)
(* sets are found in such maps.                                            *)
(***************************************************************************)
EXTENDS Integers, Sequences, SequencesExt

CONSTANTS Keys,    \* a set of numbers
          Vals,
          Linear   \* as many elements are scanned one by one, 8 in the code

ASSUME MapAssumption == Keys \subseteq Int /\ Linear \in Nat \ {0}

VARIABLES list,     \* sequence of [key, value]
          content   \* history: what was inserted and not removed, key -> value

mapVars == <<list, content>>

MapInit == list = <<>> /\ content = <<>>

(* The linear part: the first element from start on that is not smaller.   *)
Scan(s, e, key) ==
  LET notSmaller == {i \in s..e : list[i].key >= key}
  IN  IF notSmaller = {} THEN [found |-> FALSE, index |-> e + 1]
      ELSE LET i == CHOOSE i \in notSmaller : \A j \in notSmaller : i <= j
           IN  [found |-> list[i].key = key, index |-> i]

(* sSearchRange: the part of the array that is still searched.             *)
SearchRange == [start : 1..Len(list) + 1, end_incluso : 0..Len(list)]

Between(s, e) == [start |-> s, end_incluso |-> e]

(* Mutant: the right half starts one element too late.                     *)
BinarySearch_skips(key) ==
  LET search[r \in SearchRange] ==
        LET num == 1 + r.end_incluso - r.start
            middle == r.start + num \div 2
        IN  IF num <= Linear THEN Scan(r.start, r.end_incluso, key)
            ELSE IF list[middle].key = key THEN [found |-> TRUE, index |-> middle]
            ELSE IF key > list[middle].key THEN search[Between(middle + 2, r.end_incluso)]
            ELSE search[Between(r.start, middle - 1)]
  IN  search

(* priv_binarySearch in a part: whether the key is there, and where it is  *)
(* or belongs.                                                             *)
BinarySearch(key) ==
  LET search[r \in SearchRange] ==
        LET num == 1 + r.end_incluso - r.start
            middle == r.start + num \div 2
        IN  IF num <= Linear THEN Scan(r.start, r.end_incluso, key)
            ELSE IF list[middle].key = key THEN [found |-> TRUE, index |-> middle]
            ELSE IF key > list[middle].key THEN search[Between(middle + 1, r.end_incluso)]
            ELSE search[Between(r.start, middle - 1)]
  IN  search

(* findPosition; every operation begins with it.                           *)
FindPosition(key) ==
  IF list = <<>> THEN [found |-> FALSE, index |-> 1]
  ELSE BinarySearch(key)[Between(1, Len(list))]

(* insertIfNotExists, and findPosition with insertInPosition.              *)
InsertIfNotExists(key, val) ==
  LET pos == FindPosition(key)
  IN  IF pos.found THEN UNCHANGED mapVars
      ELSE /\ list' = InsertAt(list, pos.index, [key |-> key, value |-> val])
           /\ content' = [k \in DOMAIN content \union {key} |->
                            IF k = key THEN val ELSE content[k]]

InsertOrReplaceValue(key, val) ==
  LET pos == FindPosition(key)
      pair == [key |-> key, value |-> val]
  IN  /\ list' = IF pos.found THEN [list EXCEPT ![pos.index].value = val]
                 ELSE InsertAt(list, pos.index, pair)
      /\ content' = [k \in DOMAIN content \union {key} |->
                       IF k = key THEN val ELSE content[k]]

RemoveKey(key) ==
  LET pos == FindPosition(key)
  IN  IF ~pos.found THEN UNCHANGED mapVars
      ELSE /\ list' = RemoveAt(list, pos.index)
           /\ content' = [k \in DOMAIN content \ {key} |-> content[k]]

MapNext ==
  \E key \in Keys :
    \/ \E val \in Vals : InsertIfNotExists(key, val) \/ InsertOrReplaceValue(key, val)
    \/ RemoveKey(key)

MapSpec == MapInit /\ [][MapNext]_mapVars
-----------------------------------------------------------------------------
(* Properties.                                                             *)

(* The array holds each key once, in order.                                *)
SortedOnce ==
  /\ {list[i].key : i \in DOMAIN list} = DOMAIN content
  /\ \A i \in 1..Len(list) - 1 : list[i].key < list[i + 1].key

(* Whatever was inserted, replaced and removed before, the search finds    *)
(* exactly the keys that are present, with the value last given to them,   *)
(* and tells where each other key belongs.                                 *)
SearchExact ==
  /\ \A key \in Keys :
       LET pos == FindPosition(key)
       IN  /\ pos.found = (key \in DOMAIN content)
           /\ pos.found => list[pos.index] = [key |-> key, value |-> content[key]]
           /\ \A i \in DOMAIN list : list[i].key < key <=> i < pos.index
  /\ SortedOnce
=============================================================================
