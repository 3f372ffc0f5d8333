------------------------ MODULE MCExternalDelivery ------------------------
(* The instance of ExternalDelivery that TLC explores: one address, two jobs *)
(* and two executions in one process, so that both have the same locked_by   *)
(* when one job runs twice.                                                  *)
EXTENDS ExternalDelivery

CONSTANTS a1, j1, j2, s1, s2, p1
=============================================================================
