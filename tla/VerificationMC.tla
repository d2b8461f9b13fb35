--------------------------- MODULE VerificationMC ---------------------------
(***************************************************************************)
(* The page with the gateways that write the logs it shows, told apart by  *)
(* scene: in "page" the visitor acts on a given receipt, in "host" the     *)
(* gateways and install.sh come and go and their files change, in "chat"   *)
(* the gateways that took their wallet from the environment serve          *)
(* sessions, in "adapter" a caller checks a response of agent-wrapper.     *)
(* What they share is what an entry is and, page and adapter, the          *)
(* verifier's oracle.                                                      *)
(***************************************************************************)
EXTENDS Verification, Gateway, TEEAdapter

CONSTANTS g1, g2, shell, w1, w2, env, foreign, s1, s2, chat

VARIABLE scene

(* Every log of at most two entries of these kinds, in plaintext and       *)
(* encrypted, and the tokens that do not get as far.                       *)
Kinds == {[sig |-> "none", attested |-> TRUE], [sig |-> "agent", attested |-> TRUE],
          [sig |-> "deployer", attested |-> TRUE], [sig |-> "forger", attested |-> TRUE],
          [sig |-> "broken", attested |-> TRUE], [sig |-> "short", attested |-> TRUE],
          [sig |-> "agent", attested |-> FALSE]}
Logs  == {<<>>} \cup {<<d>> : d \in Kinds} \cup {<<d, e>> : d, e \in Kinds}

One(t, b, same, log) == [token |-> t, blob |-> b, sameSession |-> same, log |-> log]

Receipts ==
    {One("receipt", b, TRUE, log) : b \in {"plaintext", "envelope"}, log \in Logs}
      \cup {One("receipt", b, FALSE, <<>>) : b \in {"plaintext", "envelope"}}
      \cup {One(t, "plaintext", TRUE, <<>>) : t \in {"malformed", "other", "missing"}}
      \cup {One("receipt", "invalid", TRUE, <<>>)}

Oracles   == {"deployer", "enclave"}
Strangers == {"forger"}
Loops     == {"timer", "click"}

Gateways  == {g1, g2}
Shells    == {shell}
Wallets   == {w1, w2}
Chats     == {s1, s2}
OneChat   == [s \in Chats |-> chat]

(* A response as agent-wrapper writes it, signed by the oracle it serves.  *)
Plain     == [agentId |-> "prefixed", sealId |-> "prefixed", timestamp |-> "canonical",
              signature |-> "sound", by |-> "deployer", intact |-> TRUE]

StateOK == TypeOK /\ GatewayTypeOK /\ AdapterTypeOK

PageAndHostInit ==
    /\ \/ scene = "page" /\ response = Plain
       \/ /\ scene \in {"host", "chat"} /\ response = Plain
          /\ receipt = One("receipt", "plaintext", TRUE, <<>>) /\ oracle = "deployer"
       \/ scene = "adapter" /\ receipt = One("receipt", "plaintext", TRUE, <<>>)
    /\ Init /\ GatewayInit /\ AdapterInit

PageAndHostNext ==
    \/ scene = "page" /\ Next /\ UNCHANGED <<gatewayVars, adapterVars, scene>>
    \/ /\ scene = "host"
       /\ Register \/ Stops \/ Installs \/ Outside
       /\ UNCHANGED <<vars, adapterVars, scene>>
    \/ /\ scene = "chat"
       /\ Register \/ Stops \/ Hooks \/ Configure
       /\ generated' = {}
       /\ UNCHANGED <<vars, adapterVars, scene>>
    \/ scene = "adapter" /\ AdapterNext /\ UNCHANGED <<gatewayVars, scene>>

PageAndHost ==
    /\ PageAndHostInit /\ [][PageAndHostNext]_<<vars, gatewayVars, adapterVars, scene>>
    /\ Fairness

(* What a gateway signs is green on the page and in the browser, and the   *)
(* address its commands tell the user to fund is the one that signs and    *)
(* pays, unless openclaw.json names another identity: one the operator     *)
(* chose, or the wallet that was there when install.sh ran and has since   *)
(* been moved aside, lost to an overlapping first start or install, or     *)
(* overridden by the environment.                                          *)
OwnEntriesGreen ==
    \A p \in Process : process[p].mode = "live" =>
        LET e == buildSignedEntry(p)
        IN  \/ /\ verifyOneEntry(e) = "verified" /\ verifyEntryClient(e) = "verified"
               /\ agentscan_wallet(p).fund = process[p].signer
            \/ /\ ~process[p].bound
               /\ \/ process[p].agentId \in {Foreign} \cup aside \cup raced
                  \/ process[p].signer = EnvWallet

=============================================================================
