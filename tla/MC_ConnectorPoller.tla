------------------------- MODULE MC_ConnectorPoller -------------------------
(* Instances of ConnectorPoller for TLC. *)
EXTENDS ConnectorPoller
=============================================================================
