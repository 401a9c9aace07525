-------------------------- MODULE MCControlGateway --------------------------
(* One connection and two attempts at one keyed action under two request   *)
(* IDs: the first call, and a retry that may be pipelined behind it, follow *)
(* its timeout or follow its answer; and a lookup without a key.            *)
EXTENDS ControlGateway

MCPrincipals == {1}
MCKeys       == {1}

Attempt(i) == [conn |-> 1, id |-> i, key |-> 1, digest |-> "d", kind |-> "action"]
MCRequests ==
  {Attempt("a"), Attempt("b"), [conn |-> 1, id |-> "a", key |-> None, digest |-> "d", kind |-> "lookup"]}
=============================================================================
