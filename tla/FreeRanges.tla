----------------------------- MODULE FreeRanges ------------------------------
(***************************************************************************)
(* The array of free ranges of gos::FreespaceTracker, as operators on a    *)
(* sequence of [start, num]: sorted by position, first fit, merged when    *)
(* freed.                                                                  *)
(***************************************************************************)
EXTENDS Integers, Sequences, SequencesExt

RangeAt(start, num) == [start |-> start, num |-> num]
End(r) == r.start + r.num

(* A request in blocks, rounded up.                                        *)
SlotsFor(bytes, blockSize) == (bytes + blockSize - 1) \div blockSize

(* The first range that holds n blocks, 0 if there is none.                *)
FirstFit(list, n) == SelectInSeq(list, LAMBDA r : r.num >= n)

(* The list once n blocks are taken from the range that holds them.        *)
Taken(list, n) ==
  LET i == FirstFit(list, n)
      r == list[i]
  IN  IF r.num = n THEN RemoveAt(list, i)
      ELSE [list EXCEPT ![i] = RangeAt(r.start + n, r.num - n)]

(* Entry k ends where the next one starts.                                 *)
Touches(list, k) == End(list[k]) = list[k + 1].start

(* Mutant: never merges.                                                   *)
TryMerge_not(list, i) == list

(* priv_tryMerge, which merges with the entry before and with the one      *)
(* after and calls itself until neither touches: the entries that touch    *)
(* one another around entry i, from a to b, become one.                    *)
TryMerge(list, i) ==
  LET a == Min({k \in 1..i : \A j \in k..i - 1 : Touches(list, j)})
      b == Max({k \in i..Len(list) : \A j \in i..k - 1 : Touches(list, j)})
      merged == RangeAt(list[a].start, End(list[b]) - list[a].start)
  IN  SubSeq(list, 1, a - 1) \o <<merged>> \o SubSeq(list, b + 1, Len(list))

(* priv__free of num blocks from first on.  Entry i is the first that does *)
(* not start before the end of what is freed, or none (one past the list). *)
Freed(list, first, num) ==
  LET n == Len(list)
      found == SelectInSeq(list, LAMBDA r : r.start >= first + num)
      i == IF found = 0 THEN n + 1 ELSE found
      touchesNext == i <= n /\ list[i].start = first + num
      touchesPrev == i > 1 /\ End(list[i - 1]) = first
  IN  CASE touchesNext ->
             TryMerge([list EXCEPT ![i] = RangeAt(first, num + list[i].num)], i)
        [] ~touchesNext /\ touchesPrev ->
             TryMerge([list EXCEPT ![i - 1].num = @ + num], i - 1)
        [] OTHER -> InsertAt(list, i, RangeAt(first, num))
=============================================================================
