-------------------------- MODULE MCBulkExecutor --------------------------
(***************************************************************************)
(* The instance of BulkExecutor for TLC.                                   *)
(***************************************************************************)
EXTENDS BulkExecutor, TLC

CONSTANTS m, a, b, p

\* A media delete, then a chunk of two children, then their parent's.
PhasesDirect == <<m>>
PhasesSchedule == <<<<a, b>>, <<p>>>>
PhasesPhase == (a :> 0) @@ (b :> 0) @@ (p :> 1)

=============================================================================
