----------------------------- MODULE MCTenantApi -----------------------------
(***************************************************************************)
(* Two tenants with a bot each, for TLC.                                   *)
(***************************************************************************)
EXTENDS TenantApi, TLC

\* Every set is one of interchangeable ids.
Interchangeable ==
  Permutations(Tenant) \cup Permutations(Bot) \cup Permutations(Request) \cup Permutations(Field)
=============================================================================
