------------------------------ MODULE MCCgroup ------------------------------
(***************************************************************************)
(* Limits of the outer container for TLC: none, and two CPUs with the      *)
(* kernel's period or another one.                                         *)
(***************************************************************************)
EXTENDS Cgroup

MCOuterLimits == {NoLimit, [quota |-> 2, period |-> 1], [quota |-> 4, period |-> 2]}
=============================================================================
