-------------------------------- MODULE Cache --------------------------------
(***************************************************************************)
(* What DBService may expect of a row cache: a store that returns the row  *)
(* written last and may forget any other row whenever one is written.      *)
(***************************************************************************)
CONSTANTS Keys, Rows, NoRow

VARIABLES
    store,      \* key -> its row or NoRow
    ret         \* the row the last lookup returned

vars == <<store, ret>>

Init == store = [k \in Keys |-> NoRow] /\ ret = NoRow

\* The row of k is written: from s the store has become t.
Put(s, t, k, row) ==
    /\ t \in [Keys -> Rows \cup {NoRow}]
    /\ t[k] = row
    /\ \A other \in Keys \ {k} : t[other] \in {s[other], NoRow}

Upsert(k, row) == Put(store, store', k, row) /\ UNCHANGED ret

Find(k) == ret' = store[k] /\ UNCHANGED store

Remove(k) == store' = [store EXCEPT ![k] = NoRow] /\ UNCHANGED ret

Next == \E k \in Keys : (\E row \in Rows : Upsert(k, row)) \/ Find(k) \/ Remove(k)

Spec == Init /\ [][Next]_vars
=============================================================================
