------------------------------ MODULE KeyVault ------------------------------
(***************************************************************************)
(* What the keystore promises about a key, with no word on files: it is in *)
(* one place at a time, it gets there whole, and it leaves a place only    *)
(* for the path of its own receipt, or because the operator removes it.    *)
(* The pointer names a receipt whose key has been filed.                   *)
(***************************************************************************)
EXTENDS Naturals, Sequences

CONSTANTS Run, Token, None

VARIABLES
    place,      \* where the key of a run is
    receipts,   \* the runs behind the tokens, in the order of minting
    last        \* the receipt the pointer names

vars == <<place, receipts, last>>

Nowhere  == [at |-> "nowhere", token |-> None]
Pending  == [at |-> "pending", token |-> None]
Removed  == [at |-> "removed", token |-> None]
Filed(t) == [at |-> "filed", token |-> t]

Init ==
    /\ place = [r \in Run |-> Nowhere]
    /\ receipts = <<>>
    /\ last = None

Moves(r, to) == place' = [place EXCEPT ![r] = to] /\ UNCHANGED <<receipts, last>>

Save(r) == place[r] = Nowhere /\ Moves(r, Pending)

(* No receipt without a key, or one the operator removed, and one of each. *)
Mint(r) ==
    /\ place[r] # Nowhere
    /\ \A i \in DOMAIN receipts : receipts[i] # r
    /\ receipts' = Append(receipts, r)
    /\ UNCHANGED <<place, last>>

(* The run holds its key in memory as well, so one that was removed before *)
(* the commit can still be filed.                                          *)
File(r, t) ==
    /\ place[r] \in {Pending, Removed}
    /\ t + 1 \in DOMAIN receipts /\ receipts[t + 1] = r
    /\ Moves(r, Filed(t))

Remove(r) == place[r].at \in {"pending", "filed"} /\ Moves(r, Removed)

PointTo(t) ==
    /\ t + 1 \in DOMAIN receipts
    /\ place[receipts[t + 1]] = Filed(t)
    /\ last' = t
    /\ UNCHANGED <<place, receipts>>

Next ==
    \/ \E r \in Run : Save(r) \/ Mint(r) \/ Remove(r)
    \/ \E r \in Run, t \in Token : File(r, t)
    \/ \E t \in Token : PointTo(t)

Spec == Init /\ [][Next]_vars

=============================================================================
