-------------------------- MODULE MCTokenVerifier --------------------------
(* An instance of TokenVerifier; the configuration gives the constants     *)
(* their values.                                                           *)
EXTENDS TokenVerifier

=============================================================================
