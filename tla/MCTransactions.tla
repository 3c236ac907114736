--------------------------- MODULE MCTransactions ---------------------------
EXTENDS Transactions, TLC

(* Two records of one resource and one of another.                         *)
MCResourceOf == 1 :> "A" @@ 2 :> "A" @@ 3 :> "B"

(* Bound: no more than MaxStaged mutations are staged at a time.          *)
MaxStaged == 2
Bounded == MapThenSumSet(LAMBDA t : tx[t].plans, Txs) <= MaxStaged

Symmetry == {p @@ q : p \in Permutations(Txs), q \in Permutations(Keys)}
=============================================================================
