----------------------------- MODULE KeystoreMC -----------------------------
(***************************************************************************)
(* One keystore, with one network or with both that networks.mdx lists.    *)
(***************************************************************************)
EXTENDS Keystore

CONSTANTS r1, r2, r3, galileo, aristotle

TwoRuns   == {r1, r2}
ThreeRuns == {r1, r2, r3}
Testnet   == {galileo}
Networks  == {galileo, aristotle}

=============================================================================
