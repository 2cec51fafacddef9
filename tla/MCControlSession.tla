-------------------------- MODULE MCControlSession --------------------------
EXTENDS ControlSession, TLC

CONSTANTS c1, c2, c3, r1, r2, id1

(* Every client of the instance configures the client id id1: run ids r1   *)
(* and r2 are then two run ids of one client.                              *)
MCClientOf == [r \in RunID |-> id1]

(* Clients without a configured id are registered under their run id.      *)
MCAnonymous == [r \in RunID |-> None]

Symmetry == Permutations(Ctl)
=============================================================================
