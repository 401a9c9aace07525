--------------------------- MODULE MCParkedWaits ---------------------------
(* One connection that pipelines two calls for the one parked slot of the   *)
(* gateway, over a journal of one event.                                    *)
EXTENDS ParkedWaits

MCCalls  == {"first", "second"}
MCConns  == {"client"}
MCConnOf == [c \in MCCalls |-> "client"]
=============================================================================
