----------------------------- MODULE MCAzureVms -----------------------------
(* Instances of AzureVms for TLC: two jobs that share a group, or do not. *)
EXTENDS AzureVms

CONSTANTS j1, j2

SharedGroup == [j \in Jobs |-> "group"]
=============================================================================
