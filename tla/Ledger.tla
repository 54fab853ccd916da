------------------------------- MODULE Ledger -------------------------------
(***************************************************************************)
(* What a pool of permits promises its users, whatever happens to them:    *)
(* a holder that has nothing acquires some permits at once, a holder that   *)
(* has some returns all of them at once, one holder moves at a time, and    *)
(* the permits out never exceed the capacity of the pool.                   *)
(***************************************************************************)
EXTENDS Integers, FiniteSets

CONSTANTS
  Holders,    \* who may hold permits
  MaxHold,    \* the most one holder asks for
  Capacity    \* permits of the pool

VARIABLE holding    \* permits every holder has

\* All permits out, counted one by one.
Total(h) == Cardinality({x \in Holders \X (1 .. MaxHold) : x[2] <= h[x[1]]})

Init == holding = [p \in Holders |-> 0]

Acquire(p, n) ==
  /\ holding[p] = 0
  /\ holding' = [holding EXCEPT ![p] = n]
  /\ Total(holding') <= Capacity

Release(p) ==
  /\ holding[p] # 0
  /\ holding' = [holding EXCEPT ![p] = 0]

\* The holder that moves.
Moves(p) == holding'[p] # holding[p]

Next ==
  \E p \in Holders :
    Moves(p) /\ (Release(p) \/ \E n \in 1 .. MaxHold : Acquire(p, n))

Spec == Init /\ [][Next]_holding
=============================================================================
