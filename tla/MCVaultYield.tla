----------------------------- MODULE MCVaultYield -----------------------------
(***************************************************************************)
(* One player's two lots of the same worth.                                *)
(***************************************************************************)
EXTENDS VaultYield

MCValue == [l \in Lots |-> 1000]

=============================================================================
