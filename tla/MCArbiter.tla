----------------------------- MODULE MCArbiter -----------------------------
(* Arbiter for TLC: a payer, a seller that starts with nothing, and one    *)
(* reference, used for one order after another.  Either may be made the    *)
(* arbiter.                                                                *)
EXTENDS Arbiter

CONSTANTS client, provider, task, pda

MCParties == {client, provider}
MCVaultOf == [r \in {task} |-> pda]
MCInitialLamports == [p \in MCParties |-> IF p = client THEN 10 ELSE 0]
=============================================================================
