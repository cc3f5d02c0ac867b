------------------------------ MODULE TxStore ------------------------------
(***************************************************************************)
(* What an application is promised of a transactional record store: a      *)
(* write made on its own takes effect at once, and the writes made inside  *)
(* a transaction take effect together when it commits or not at all.       *)
(*                                                                         *)
(* Every value names, in its field tx, the transaction it was written in,  *)
(* or Auto.  A value of transaction t can therefore enter the store only   *)
(* through Commit(t).  Module GormTx is shown to implement this module.    *)
(***************************************************************************)
CONSTANTS Key,    \* the records and the edges
          Val,    \* their contents, absence included
          Txn,    \* transaction identities, each used once
          Auto,   \* the tag of a write outside every transaction
          Same    \* "not written"

VARIABLES db,     \* the committed contents
          fate,   \* what became of each transaction
          pend    \* the writes each open transaction has made

vars == <<db, fate, pend>>

NoWrites == [k \in Key |-> Same]

\* What W leaves unwritten is taken from f.
Onto(W, f) == [k \in Key |-> IF W[k] = Same THEN f[k] ELSE W[k]]

\* g differs from f only in values that carry the tag.
WroteOnly(tag, f, g) == \A k \in Key : g[k] # f[k] => g[k] \in Val /\ g[k].tx = tag

TypeOK == /\ db \in [Key -> Val]
          /\ fate \in [Txn -> {"none", "open", "committed", "aborted"}]
          /\ pend \in [Txn -> [Key -> Val \cup {Same}]]

Init == /\ db \in [Key -> {v \in Val : v.tx = Auto}]
        /\ fate = [t \in Txn |-> "none"]
        /\ pend = [t \in Txn |-> NoWrites]

Begin(t) == /\ fate[t] = "none"
            /\ fate' = [fate EXCEPT ![t] = "open"]
            /\ UNCHANGED <<db, pend>>

Write(t) == /\ fate[t] = "open"
            /\ pend' = [pend EXCEPT ![t] = [k \in Key |-> pend'[t][k]]]
            /\ WroteOnly(t, pend[t], pend'[t])
            /\ UNCHANGED <<db, fate>>

AutoWrite == /\ db' = [k \in Key |-> db'[k]]
             /\ WroteOnly(Auto, db, db')
             /\ UNCHANGED <<fate, pend>>

Commit(t) == /\ fate[t] = "open"
             /\ db' = Onto(pend[t], db)
             /\ fate' = [fate EXCEPT ![t] = "committed"]
             /\ pend' = [pend EXCEPT ![t] = NoWrites]

\* A lost connection aborts every transaction open on it in one step.
Abort(T) == /\ \A t \in T : fate[t] = "open"
            /\ fate' = [t \in Txn |-> IF t \in T THEN "aborted" ELSE fate[t]]
            /\ pend' = [t \in Txn |-> IF t \in T THEN NoWrites ELSE pend[t]]
            /\ UNCHANGED db

Next == \/ \E t \in Txn : Begin(t) \/ Write(t) \/ Commit(t)
        \/ AutoWrite
        \/ \E T \in SUBSET Txn : Abort(T)

Spec == Init /\ [][Next]_vars
=============================================================================
