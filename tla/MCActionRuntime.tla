--------------------------- MODULE MCActionRuntime ---------------------------
(* Instances of ActionRuntime for TLC. *)
EXTENDS ActionRuntime, TLC

CONSTANTS w1, w2, p1, p2, allowed, asked, denied, unregistered

\* One action of each kind of policy outcome, as far as Actions has them.
MCPolicy == [a \in Actions |-> CASE a = allowed -> "Allow"
                                 [] a = asked   -> "Ask"
                                 [] a = denied  -> "Deny"
                                 [] OTHER       -> "Unregistered"]

MCSymmetry == Permutations(Workers) \cup Permutations(People)
=============================================================================
