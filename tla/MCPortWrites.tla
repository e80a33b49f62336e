---------------------------- MODULE MCPortWrites ----------------------------
(* PortWrites for TLC: clients that switch a port on and clients that set  *)
(* its speed.                                                              *)
EXTENDS PortWrites, TLC

TwoBodies == {[enabled |-> TRUE, speed |-> Nil, flow |-> Nil],
              [enabled |-> Nil, speed |-> "10M", flow |-> Nil]}
(* A port that was switched off on the device's own page.                  *)
OnePort == {[on |-> FALSE, code |-> 1, fc |-> FALSE]}

Symmetry == Permutations(Requests)
=============================================================================
