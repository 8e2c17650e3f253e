------------------------ MODULE MCCoordinatedRestore ------------------------
(* The instance TLC explores: ordinary requests and restores in two           *)
(* processes, the operator and an in-application recovery.                    *)
EXTENDS CoordinatedRestoreProps, TLC

CONSTANTS p1, p2, op, n1, r1, r2, c1, c2, cfg, logo

MCProcOf == [o \in Ops |-> CASE o = c1 -> op [] o = r1 -> p1 [] OTHER -> p2]
=============================================================================
