------------------------- MODULE EncryptedReceipts -------------------------
(***************************************************************************)
(* What the plugin promises about a receipt, with no word on how: a key is *)
(* durable before anything encrypted under it is stored, an envelope is    *)
(* stored before a token points at it, and the only key ever filed under a *)
(* token is the one that opens its envelope.                               *)
(***************************************************************************)
EXTENDS Naturals, Sequences

CONSTANTS Log, Key, Token, Prefix, None

VARIABLES
    saved,      \* keys that are, or were until the owner removed them, on disk
    blobs,      \* stored envelopes: <<log, key>>
    chain,      \* minted tokens
    committed   \* token -> key filed for it

vars == <<saved, blobs, chain, committed>>

Init ==
    /\ saved = {}
    /\ blobs = {}
    /\ chain = <<>>
    /\ committed = [t \in Token |-> None]

Save(k) ==
    /\ saved' = saved \cup {k}
    /\ UNCHANGED <<blobs, chain, committed>>

Store(l, k) ==
    /\ k \in saved
    /\ blobs' = blobs \cup {<<l, k>>}
    /\ UNCHANGED <<saved, chain, committed>>

Mint(l, k, p) ==
    /\ <<l, k>> \in blobs
    /\ Len(chain) + 1 \in Token
    /\ chain' = Append(chain, [log |-> l, key |-> k, prefix |-> p])
    /\ UNCHANGED <<saved, blobs, committed>>

File(t) ==
    /\ t \in 1..Len(chain)
    /\ committed[t] = None
    /\ committed' = [committed EXCEPT ![t] = chain[t].key]
    /\ UNCHANGED <<saved, blobs, chain>>

Next ==
    \/ \E k \in Key : Save(k)
    \/ \E l \in Log, k \in Key : Store(l, k)
    \/ \E l \in Log, k \in Key, p \in Prefix : Mint(l, k, p)
    \/ \E t \in Token : File(t)

Spec == Init /\ [][Next]_vars

=============================================================================
