------------------------ MODULE MCPrincipalResolver ------------------------
(* Tokens of two authorization revisions of one account that share a jti,  *)
(* behind a cache that fails and misreads, over enough time for entries to *)
(* outlive the window and the tokens.                                      *)
EXTENDS PrincipalResolver, TLC

CONSTANTS alice, old, new, jti

RevisionClaims ==
     old :> [account |-> alice, revision |-> 0, id |-> jti, expires |-> 2]
  @@ new :> [account |-> alice, revision |-> 1, id |-> jti, expires |-> 2]

AllIssuedAtZero == [a \in Account |-> 0]

AliceChangesOnce == [a \in Account |-> IF a = alice THEN 1 ELSE 0]

CallSymmetry == Permutations(Call)

=============================================================================
