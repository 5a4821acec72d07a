-------------------------- MODULE MCDriverLifecycle --------------------------
(* DriverLifecycle on a small instance; without symmetry, as liveness is    *)
(* checked.                                                                 *)
EXTENDS DriverLifecycle, TLC
=============================================================================
