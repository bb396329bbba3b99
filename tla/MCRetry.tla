------------------------------ MODULE MCRetry -------------------------------
(***************************************************************************)
(* Retry for TLC.  The requests are alike.  Their books are apart, so that *)
(* one request shows what the limits do to them; two show the counters     *)
(* that they share, with smaller limits and fewer operations.              *)
(***************************************************************************)
EXTENDS Retry, FiniteSetsExt, TLC

CONSTANTS
    SharedInner,     \* bound: max_attempts of the middleware, with two requests
    SharedAttempts,  \* bound: operations of two requests together
    SnapAttempts     \* bound: operations while a snapshot is taken

Started == {r \in Requests : ~At(r, "idle")}

\* What TLC looks at.
Few ==
    LET attempts == FoldSet(LAMBDA r, n : req[r].attempt + n, 0, Requests)
    IN  /\ Cardinality(Started) > 1 =>
              inner <= SharedInner /\ attempts <= SharedAttempts
        /\ snap.pc # "idle" => inner <= SharedInner /\ attempts <= SnapAttempts

MCSpec == Init /\ [][Next /\ Few']_vars

Symmetry == Permutations(Requests)
=============================================================================
