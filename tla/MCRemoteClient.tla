--------------------------- MODULE MCRemoteClient ---------------------------
(* Instances of RemoteClient; the configurations give the constants their  *)
(* values.                                                                 *)
EXTENDS RemoteClient

=============================================================================
