------------------------------ MODULE Res2Graph ------------------------------
(***************************************************************************)
(* The dependency graph of resource descriptors (gosEngine/res2/res2.cpp). *)
(*                                                                         *)
(* mem maps every resource to its ResDescr.  A resource is ready when its  *)
(* status is "ready" and it counts no child that is not ready; each change *)
(* of readiness is pushed up to the parents, whose counters and readiness  *)
(* change in turn.  The lists of parents (padri) and children (figli) are  *)
(* multigraph edges: add_child prepends to both, and the same child may    *)
(* hang from a parent twice.                                               *)
(*                                                                         *)
(* The operators return the memory a function of the code leaves behind.   *)
(***************************************************************************)
EXTENDS Integers, Sequences, FiniteSets, SequencesExt

CONSTANTS Assets,      \* UIDs of assets
          Sigs,        \* UIDs of signatures: the resources stored on disk
          Hands,       \* resources made by hand, without a UID
          NotReadyMod, \* values of num_child_not_ready (a u8: 256)
          Depth        \* bound: the layers in which resources hang over each other

Res == Assets \union Sigs \union Hands

ASSUME GraphAssumption ==
  /\ NotReadyMod \in Nat \ {0} /\ Depth \in Nat \ {0} /\ IsFiniteSet(Res)
  /\ Assets \intersect Sigs = {} /\ Assets \intersect Hands = {} /\ Sigs \intersect Hands = {}

(* eStatus; unloading is never assigned, and "free" stands for a slot the  *)
(* MemManager has not handed out, which is where deleted ends.             *)
Status == {"ready", "unloaded", "loading", "deleting", "free", "error"}

ResDescr == [status : Status, notReady : 0..NotReadyMod - 1, ref : Int,
             padri : Seq(Res), figli : Seq(Res)]

Memory == [Res -> ResDescr]

FreeSlot == [status |-> "free", notReady |-> 0, ref |-> 0, padri |-> <<>>, figli |-> <<>>]

(* reserveT: one reference; the status that change_state gives it next.    *)
Reserved(status) == [FreeSlot EXCEPT !.status = status, !.ref = 1]

Known(mem, r) == mem[r].status # "free"

IsReady(mem, r) == mem[r].status = "ready" /\ mem[r].notReady = 0

Occurrences(s, r) == Cardinality({i \in DOMAIN s : s[i] = r})
-----------------------------------------------------------------------------
(* A walk down a list of descriptors: what f does, one after the other, to *)
(* all of them.  The functions that follow the graph call each other; here *)
(* each takes the function it calls for what hangs one step further as an  *)
(* argument, and a recursive function over the number of steps left ties   *)
(* the knot.  Descriptors hang in fewer than Depth layers (Res2), so the   *)
(* steps never run out.                                                    *)
Each(f, v, list) ==
  LET upTo[k \in 0..Len(list)] == IF k = 0 THEN v ELSE f[<<upTo[k - 1], list[k]>>]
  IN  upTo[Len(list)]

OnChildrenBecomeNotReady(mem, padre, inform) ==
  LET m == [mem EXCEPT ![padre].notReady = (@ + 1) % NotReadyMod]
  IN  IF IsReady(mem, padre) /\ ~IsReady(m, padre) THEN Each(inform, m, m[padre].padri) ELSE m

(* Mutant: the parents of padre are not informed.                          *)
OnChildrenBecomeReady_mute(mem, padre, inform) ==
  [mem EXCEPT ![padre].notReady = (@ + NotReadyMod - 1) % NotReadyMod]

OnChildrenBecomeReady(mem, padre, inform) ==
  LET m == [mem EXCEPT ![padre].notReady = (@ + NotReadyMod - 1) % NotReadyMod]
  IN  IF ~IsReady(mem, padre) /\ IsReady(m, padre) THEN Each(inform, m, m[padre].padri) ELSE m

InformNotReady[n \in 0..Depth] ==
  [x \in Memory \X Res |->
     IF n = 0 THEN x[1] ELSE OnChildrenBecomeNotReady(x[1], x[2], InformNotReady[n - 1])]

InformReady[n \in 0..Depth] ==
  [x \in Memory \X Res |->
     IF n = 0 THEN x[1] ELSE OnChildrenBecomeReady(x[1], x[2], InformReady[n - 1])]

ChangeState(mem, r, status) ==
  LET m == [mem EXCEPT ![r].status = status]
  IN  CASE IsReady(mem, r) /\ ~IsReady(m, r) -> Each(InformNotReady[Depth], m, m[r].padri)
        [] ~IsReady(mem, r) /\ IsReady(m, r) -> Each(InformReady[Depth], m, m[r].padri)
        [] OTHER -> m

IncRefCount(mem, r) == [mem EXCEPT ![r].ref = @ + 1]
DecRefCount(mem, r) == [mem EXCEPT ![r].ref = @ - 1]

(* Mutant: a child that is not ready is not reported to its new parent.    *)
AddChild_mute(mem, padre, child) ==
  [mem EXCEPT ![padre].figli = <<child>> \o @, ![child].padri = <<padre>> \o @]

(* Mutant: the child does not learn its parent.                            *)
AddChild_oneWay(mem, padre, child) ==
  LET linked == [mem EXCEPT ![padre].figli = <<child>> \o @]
  IN  IF IsReady(mem, child) THEN linked ELSE InformNotReady[Depth][<<linked, padre>>]

AddChild(mem, padre, child) ==
  LET linked == [mem EXCEPT ![padre].figli = <<child>> \o @,
                            ![child].padri = <<padre>> \o @]
  IN  IF IsReady(mem, child) THEN linked ELSE InformNotReady[Depth][<<linked, padre>>]

(* The parent list of child is walked without moving the trailing pointer  *)
(* q, so unlinking padre makes the node after it the new head of the list. *)
RemoveChild(mem, padre, child) ==
  LET After(s, r) == SubSeq(s, SelectInSeq(s, LAMBDA x : x = r) + 1, Len(s))
      unlinked ==
        [mem EXCEPT
           ![padre].figli = RemoveFirst(@, child),
           ![padre].notReady = IF IsReady(mem, child) THEN @
                               ELSE (@ + NotReadyMod - 1) % NotReadyMod]
  IN  IF child \notin Range(mem[padre].figli) THEN mem
      ELSE IF padre \in Range(mem[child].padri)
           THEN [unlinked EXCEPT ![child].padri = After(@, padre)]
           ELSE unlinked
=============================================================================
