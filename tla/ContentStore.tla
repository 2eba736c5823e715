----------------------------- MODULE ContentStore -----------------------------
(***************************************************************************)
(* What the trait ContentStore (store/mod.rs) promises a backup, for every *)
(* backend: chunks are only ever added to stable storage, and once `flush` *)
(* returned Ok the chunks of the backup are there for good.                *)
(***************************************************************************)
CONSTANT Chunk

VARIABLES
    stored,    \* the chunks on stable storage
    promised   \* the chunks of backups whose last flush returned Ok

Init == stored \in SUBSET Chunk /\ promised = stored

Grows == stored \subseteq stored' /\ stored' \subseteq Chunk

(* put and put_delta, which may write a pack.                              *)
Add == Grows /\ UNCHANGED promised

(* flush, which may write what is left as well.                            *)
Promise == Grows /\ \E chunks \in SUBSET stored' : promised' = promised \cup chunks

Next == Add \/ Promise

Spec == Init /\ [][Next]_<<stored, promised>>

=============================================================================
