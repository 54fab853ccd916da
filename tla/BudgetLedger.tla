---------------------------- MODULE BudgetLedger ----------------------------
(***************************************************************************)
(* The memory pools of BudgetQueue implement Ledger.  A holder of memory is  *)
(* a slot: the chunk of a stream or one of its segments.  The mapping looks *)
(* at who owns what (phases and segments), never at the free counters.      *)
(***************************************************************************)
EXTENDS BudgetQueue

Memory == INSTANCE Ledger WITH
  Holders <- Slots, MaxHold <- MaxHeld, Capacity <- GlobalMemory,
  holding <- GlobalHeld

Tenant(m) == INSTANCE Ledger WITH
  Holders <- Slots, MaxHold <- MaxHeld, Capacity <- TenantMemory,
  holding <- TenantHeld(m)

\* AppState.global_memory, shared by the chunks of the tasks and the segments of
\* all responses, is a ledger of GlobalMemory bytes: in every interleaving of
\* admissions, reservations, timeouts, disconnections and drops, each owner gets
\* its permits once, gives all of them back once, and the bytes out fit.  So is
\* every tenant's semaphore, the ones included that a reload took out of the
\* map, for the segments of the responses that point to it; a step that moves
\* permits of one semaphore leaves the holders of the others alone.
PoolsAreLedgers ==
  /\ Memory!Spec
  /\ \A m \in Semaphores : Tenant(m)!Init
  /\ [][\A m \in Semaphores : [Tenant(m)!Next]_(TenantHeld(m))]_vars
=============================================================================
