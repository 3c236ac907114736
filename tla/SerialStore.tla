---------------------------- MODULE SerialStore ----------------------------
(***************************************************************************)
(* What transactions promise: a store that changes one commit at a time.   *)
(* A write changes one record; a transaction looks at whole resources and  *)
(* changes records of them in a single step, in which what it saw is what  *)
(* the store holds.  No key is ever held twice in a resource.              *)
(***************************************************************************)
EXTENDS Integers

CONSTANTS Records, ResourceOf, Keys, Txs, None

VARIABLES
  db,   \* [Records -> its key, or None while it does not exist]
  ran   \* [Txs -> what it saw and wrote, once it is committed]

serialVars == <<db, ran>>

KeysAreUnique(s) ==
  \A x, y \in Records :
    x # y /\ ResourceOf[x] = ResourceOf[y] /\ s[x] # None => s[x] # s[y]

Init ==
  /\ db = [x \in Records |-> None]
  /\ ran = [t \in Txs |-> None]

(* A commit of a single record.                                            *)
Write(x) ==
  /\ db' \in {[db EXCEPT ![x] = k] : k \in Keys \cup {None}}
  /\ KeysAreUnique(db')
  /\ UNCHANGED ran

(* A transaction, as if nothing else ran.                                  *)
Transact(t) ==
  /\ ran[t] = None
  /\ db' \in [Records -> Keys \cup {None}]
  /\ \E seen \in SUBSET Records :
       /\ \A x \in Records \ seen : db'[x] = db[x]
       /\ ran' = [ran EXCEPT ![t] = [saw |-> [x \in seen |-> db[x]],
                                     left |-> [x \in seen |-> db'[x]]]]
  /\ KeysAreUnique(db')

Next == (\E x \in Records : Write(x)) \/ (\E t \in Txs : Transact(t))

Spec == Init /\ [][Next]_serialVars

=============================================================================
