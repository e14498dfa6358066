-------------------------- MODULE MCHTTPMiddleware --------------------------
(* Two workspaces, the bound one also known by an alias, behind a delegate *)
(* that may answer out of scope.                                           *)
EXTENDS HTTPMiddleware, TLC

CONSTANTS bound, other, alias

AliasOfOther == alias :> other

=============================================================================
