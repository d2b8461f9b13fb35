----------------------------- MODULE TEEAdapter -----------------------------
(***************************************************************************)
(* packages/tee-adapter: a caller hands over the headers and the body of a *)
(* response of agent-wrapper; they are parsed into an attestation, its     *)
(* signer is recovered, and the verifier contract is asked whether that is *)
(* its oracle, which the owner may rotate meanwhile.                       *)
(*                                                                         *)
(* agent-wrapper signs agentId|sealId|timestamp|sha256(body) in the words  *)
(* of its headers (signResponse, outside this repository).  The adapter    *)
(* signs off on the words it would have written itself.                    *)
(***************************************************************************)
EXTENDS Verification

(* "bare" lacks its 0x or has 0X; a "reworded" timestamp is not printed as *)
(* it was read (leading zeros, past 2^53), an "infinite" one is past 2^1023*)
(* A "loose" signature ends in a v that ethers normalizes and the contract *)
(* does not; a "broken" one recovers to nothing, "nohex" and "short" are   *)
(* not 65 bytes.                                                           *)
HexForm       == {"absent", "malformed", "bare", "prefixed"}
TimestampForm == {"absent", "malformed", "infinite", "reworded", "canonical"}
SignatureForm == {"absent", "nohex", "short", "broken", "loose", "sound"}

(* Whose key signed, and whether the body is the one that was signed.      *)
Response == [agentId : HexForm, sealId : HexForm, timestamp : TimestampForm,
             signature : SignatureForm, by : Signer, intact : BOOLEAN]

HeaderError == {"AGENT_WRAPPER_HEADER_MISSING", "AGENT_WRAPPER_HEADER_FORMAT",
                "AGENT_WRAPPER_SIGNATURE_LENGTH", "AGENT_WRAPPER_TIMESTAMP_FORMAT"}

ASSUME AdapterAssumption == {"zero", "somebody"} \cap Signer = {}

VARIABLES
    response,   \* what agent-wrapper answered
    attempt,    \* where the caller's check of it stands; signer is "zero" for
                \* none and "somebody" for an address that belongs to nobody
    during      \* history: oracles in force since the contract was asked

adapterVars == <<response, attempt, during>>

AdapterTypeOK ==
    /\ response \in Response
    /\ attempt \in [state : {"received", "attested", "asking", "verdict", "failed"},
                    code : HeaderError \cup {"VERIFIER_CALL_FAILED", "none"},
                    parsed : BOOLEAN,   \* the attestation comes of HeaderParser
                    signer : Signer \cup {"zero", "somebody"},
                    valid : BOOLEAN,
                    down : BOOLEAN]     \* history: the call itself failed
    /\ during \subseteq Oracle

Received == [state |-> "received", code |-> "none", parsed |-> FALSE,
             signer |-> "zero", valid |-> FALSE, down |-> FALSE]

AdapterInit == response \in Response /\ attempt = Received /\ during = {}

-----------------------------------------------------------------------------
(* HeaderParser. *)

(* As if any hex were good enough for the contract to judge.               *)
normalizeSignatureOfAnyLength(signature) == signature # "nohex"

(* 65 bytes in hex, with or without a prefix, whatever they are.           *)
normalizeSignature(signature) == signature \notin {"nohex", "short"}

(* The first error parse throws: all four headers are required before any  *)
(* of them is looked at, and the final schema check refuses Infinity.      *)
refusal(r) ==
    IF "absent" \in {r.agentId, r.sealId, r.signature, r.timestamp} THEN "AGENT_WRAPPER_HEADER_MISSING"
    ELSE IF "malformed" \in {r.agentId, r.sealId} THEN "AGENT_WRAPPER_HEADER_FORMAT"
    ELSE IF ~normalizeSignature(r.signature) THEN "AGENT_WRAPPER_SIGNATURE_LENGTH"
    ELSE IF r.timestamp = "malformed" THEN "AGENT_WRAPPER_TIMESTAMP_FORMAT"
    ELSE IF r.timestamp = "infinite" THEN "AGENT_WRAPPER_HEADER_FORMAT"
    ELSE "none"

Throws(code) == attempt' = [attempt EXCEPT !.state = "failed", !.code = code]

parse ==
    /\ attempt.state = "received"
    /\ IF refusal(response) = "none"
       THEN attempt' = [attempt EXCEPT !.state = "attested", !.parsed = TRUE]
       ELSE Throws(refusal(response))
    /\ UNCHANGED <<response, during>>

(* verify takes any attestation, one that never went through parse too.    *)
HandMade ==
    /\ attempt.state = "received"
    /\ "absent" \notin {response.agentId, response.sealId, response.signature}
    /\ response.timestamp \in {"canonical", "reworded"}
    /\ attempt' = [attempt EXCEPT !.state = "attested"]
    /\ UNCHANGED <<response, during>>

-----------------------------------------------------------------------------
(* TEEProofAdapter.verify. *)

(* parse puts 0x before a bare id, and that is what is hashed.             *)
reconstructSigningMessage(r, parsed) ==
    IF /\ r.intact /\ r.timestamp = "canonical"
       /\ parsed => "bare" \notin {r.agentId, r.sealId}
    THEN "as signed" ELSE "another"

(* A signature over another digest recovers to another address.            *)
recoverAddress(r, parsed) ==
    IF reconstructSigningMessage(r, parsed) = "as signed" THEN r.by ELSE "somebody"

Asks(signer) ==
    /\ attempt' = [attempt EXCEPT !.state = "asking", !.signer = signer]
    /\ during' = {oracle}

Decides(valid) ==
    /\ attempt' = [attempt EXCEPT !.state = "verdict", !.valid = valid]
    /\ UNCHANGED during

(* As it was before round 2 of its review: no short cut for a signature    *)
(* that recovers to nothing.                                               *)
recoverLocallyThenAsk ==
    /\ attempt.state = "attested"
    /\ IF response.signature \in {"nohex", "short"}
       THEN Throws("VERIFIER_CALL_FAILED") /\ UNCHANGED during
       ELSE Asks(IF response.signature = "broken" THEN "zero"
                 ELSE recoverAddress(response, attempt.parsed))
    /\ UNCHANGED response

recoverLocally ==
    /\ attempt.state = "attested"
    /\ CASE response.signature \in {"nohex", "short"} -> Throws("VERIFIER_CALL_FAILED") /\ UNCHANGED during
         [] response.signature = "broken"             -> Decides(FALSE)
         [] response.signature \in {"loose", "sound"} -> Asks(recoverAddress(response, attempt.parsed))
    /\ UNCHANGED response

(* The contract refuses a loose signature as it refuses a broken one.      *)
Presented(signature, signer) ==
    [sig |-> IF signature = "sound" THEN signer ELSE "broken", attested |-> TRUE]

askVerifier ==
    LET answer == verifyTEESignature(Presented(response.signature, attempt.signer))
    IN  /\ attempt.state = "asking"
        /\ IF answer \in {"yes", "no"} THEN Decides(answer = "yes")
           ELSE Throws("VERIFIER_CALL_FAILED") /\ UNCHANGED during
        /\ UNCHANGED response

verifierUnreachable ==
    /\ attempt.state = "asking"
    /\ attempt' = [attempt EXCEPT !.state = "failed", !.code = "VERIFIER_CALL_FAILED", !.down = TRUE]
    /\ UNCHANGED <<response, during>>

-----------------------------------------------------------------------------
OracleRotates(new) ==
    /\ updateOracleAddress(new)
    /\ during' = IF attempt.state = "asking" THEN during \cup {new} ELSE during
    /\ UNCHANGED <<response, attempt>>

verify == recoverLocally \/ askVerifier \/ verifierUnreachable

AdapterNext ==
    \/ (parse \/ HandMade \/ verify) /\ UNCHANGED vars
    \/ \E new \in Oracle : OracleRotates(new)

AdapterSpec == Init /\ AdapterInit /\ [][AdapterNext]_<<vars, adapterVars>>

-----------------------------------------------------------------------------
(* What agent-wrapper writes: ids with their prefix, the timestamp with %d.*)
AsWritten(r) == r.agentId = "prefixed" /\ r.sealId = "prefixed" /\ r.timestamp = "canonical"

(* A valid verdict names an oracle that was in force during the call and   *)
(* signed this body under these very headers; an invalid one names who did *)
(* sign, where anybody did, and an oracle in force that is somebody else;  *)
(* a call counts as failed only if it did, if the contract refuses a v that*)
(* ethers takes, or if nobody parsed the signature; and no response that   *)
(* agent-wrapper writes is refused.                                        *)
AdapterTruthful ==
    /\ attempt.state = "verdict" /\ attempt.valid =>
          /\ attempt.signer \in during /\ attempt.signer = response.by /\ response.signature = "sound"
          /\ response.intact /\ (attempt.parsed => AsWritten(response))
    /\ attempt.state = "verdict" /\ ~attempt.valid =>
          \/ attempt.signer = "zero" /\ response.signature = "broken"
          \/ /\ during \ {attempt.signer} # {}
             /\ AsWritten(response) /\ response.intact => attempt.signer = response.by
    /\ attempt.code = "VERIFIER_CALL_FAILED" =>
          attempt.down \/ response.signature = "loose" \/ ~attempt.parsed
    /\ attempt.code \in HeaderError =>
          ~AsWritten(response) \/ response.signature \notin {"broken", "loose", "sound"}

(* The entry a caller logs of a response: to the page, whose recoverAddress*)
(* is the same one, a loose signature is the agent's or one the contract   *)
(* refuses.                                                                *)
EntryOf(r) ==
    LET signer == recoverAddress(r, TRUE)
    IN  [sig |-> CASE r.signature \in {"nohex", "short"} -> "short"
                   [] r.signature = "broken"             -> "broken"
                   [] r.signature = "loose"              -> IF signer = "agent" THEN signer ELSE "broken"
                   [] r.signature = "sound"              -> signer,
         attested |-> TRUE]

(* With the oracle the contract was asked under, the page that shows such  *)
(* an entry comes to what the adapter did: green for valid, red or an      *)
(* outage for invalid, an outage for a refused v, but green in each case   *)
(* for what the agent signed itself, which the adapter does not ask about; *)
(* and the log's schema refuses the lengths the parser refuses.            *)
AdapterAgrees ==
    LET e      == EntryOf(response)
        shownBy == {verifyOneEntry(e), verifyEntryClient(e)}
        own    == recoverAddress(response, TRUE) = "agent"
    IN  /\ attempt.state = "verdict" /\ attempt.parsed /\ during \subseteq {oracle} =>
              IF attempt.valid THEN shownBy = {"verified"}
              ELSE IF attempt.signer = "zero" THEN shownBy = {"502", "error"}
              ELSE shownBy = IF own THEN {"verified"} ELSE {"unverified"}
        /\ attempt.code = "VERIFIER_CALL_FAILED" /\ attempt.parsed /\ ~attempt.down =>
              shownBy = IF own THEN {"verified"} ELSE {"502", "error"}
        /\ attempt.code = "AGENT_WRAPPER_SIGNATURE_LENGTH" => ~sessionLogSchema(<<e>>)

=============================================================================
