---------------------------- MODULE MCMitigation ----------------------------
(* Model-checking instance of Mitigation: one to three receive CPUs and  *)
(* up to six packets, two per CPU, enough for an arrival during every   *)
(* handler step.                                                          *)
EXTENDS Mitigation

CONSTANTS c1, c2, c3

OneCPU == {c1}
TwoCPUs == {c1, c2}
ThreeCPUs == {c1, c2, c3}
=============================================================================
