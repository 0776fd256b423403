-------------------------- MODULE MCSyncExecutor --------------------------
(***************************************************************************)
(* Instances of SyncExecutor for TLC.                                      *)
(***************************************************************************)
EXTENDS SyncExecutor, TLC

CONSTANTS x0, x1, y, t1, t2, s, X, Y, T, main, other

\* Base prices of X in two stores and of Y in one, tier prices of T at two
\* quantities, and a single request.
ListsRequests == <<[list |-> TRUE, ops |-> <<x0, x1, y>>],
                   [list |-> FALSE, ops |-> <<s>>],
                   [list |-> TRUE, ops |-> <<t1, t2>>]>>
ListsSkuOf == (x0 :> X) @@ (x1 :> X) @@ (y :> Y) @@ (s :> Y) @@ (t1 :> T) @@ (t2 :> T)
ListsScopeOf == (x0 :> main) @@ (x1 :> other) @@ (y :> main) @@
                (s :> NoScope) @@ (t1 :> NoScope) @@ (t2 :> NoScope)

=============================================================================
