----------------------------- MODULE MCDispatch -----------------------------
(* An instance of Dispatch for TLC.                                        *)
EXTENDS Dispatch, TLC

(* Two sweeps of one dispatcher: its schedule and a request just served.   *)
MCOneOwner == [s \in Sweeps |-> "d1"]

Symmetry == Permutations(Subs)
=============================================================================
