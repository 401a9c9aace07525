------------------------ MODULE MCIdempotencyLedger ------------------------
(* A small instance of the idempotency ledger: two clients with two keys    *)
(* each, a cap one below the number of scopes so that an insertion evicts,  *)
(* and a clock that steps both ways.                                        *)
EXTENDS IdempotencyLedger, TLC

MCPrincipals == 1 .. 2
MCKeys       == 1 .. 2
MCSymmetry   == Permutations(Digests) \cup Permutations(Calls)
=============================================================================
