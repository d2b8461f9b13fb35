---------------------------- MODULE Verification ----------------------------
(***************************************************************************)
(* A visitor opens /verify/<tokenId>.  The server resolves the proof:      *)
(* chain, storage blob, and for a plaintext log the aggregate status.  An  *)
(* encrypted log is fetched and opened in the browser, with the key in the *)
(* URL fragment.  Then SessionView checks one entry after the other, asking*)
(* the server for a plaintext log and the verifier contract for a decrypted*)
(* one.  Any call may fail, and the verifier's owner may rotate its oracle *)
(* at any time.                                                            *)
(*                                                                         *)
(* A receipt cannot change (AgenticID!DataFrozen, and storage is addressed *)
(* by hash), so reads of it that follow each other are one step; the       *)
(* oracle can, and each call that reads it is a step of its own.           *)
(***************************************************************************)
EXTENDS Integers, Sequences

CONSTANTS
    Receipt,    \* what a token may anchor
    Oracle,     \* addresses the owner sets as teeOracleAddress
    Stranger,   \* signers that are neither an oracle nor the entry's agent
    Loop        \* who starts a cascade: "timer", "click"

(* An entry's sig is the address it recovers to, or "none", "broken" for   *)
(* 65 bytes that recover to nothing, "short" for any other length.  Whether*)
(* it has agentId, sealId and signedAt is its attested.                    *)
Signer == Oracle \cup Stranger \cup {"agent"}
Entry  == [sig : Signer \cup {"none", "broken", "short"}, attested : BOOLEAN]

ASSUME VerificationAssumption ==
    /\ {"agent", "none", "broken", "short"} \cap (Oracle \cup Stranger) = {}
    /\ Oracle \cap Stranger = {} /\ Oracle # {}
    /\ \A r \in Receipt :
          /\ r.token \in {"receipt", "malformed", "other", "missing"}
          /\ r.blob \in {"plaintext", "envelope", "invalid"}
          /\ r.sameSession \in BOOLEAN /\ r.log \in Seq(Entry)
    /\ Loop = {"timer", "click"}

VARIABLES
    receipt,    \* what the token anchors
    key,        \* the fragment's k: "none", "right", "wrong", "malformed"
    oracle,     \* teeOracleAddress
    page,       \* the server's rendering, and what became of it
    reveal,     \* EncryptedReveal's state
    view,       \* SessionView: its timer, refs and flags
    badge,      \* statuses, per entry
    loop,       \* per loop: where it stands, and the answer it holds
    inForce,    \* history: oracles in force while an entry was asked about
    lost,       \* history: entries whose badge comes of a call that failed
    fresh,      \* history: entries answered since the last cascade began
    rotated     \* history: the oracle changed since the page was asked for

shown == <<receipt, key>>
past  == <<inForce, lost, fresh>>
vars  == <<shown, oracle, page, reveal, view, badge, loop, past, rotated>>

Log     == receipt.log
Index   == DOMAIN Log
Failure == {"TOKEN_NOT_FOUND", "NO_EXEC_LOG_ANCHOR", "MALFORMED_DATA_DESCRIPTION",
            "STORAGE_BLOB_INVALID", "SESSION_ID_MISMATCH", "TRANSPORT_FAILED"}
Status  == {"verified", "preview", "unverified", "encrypted"}
Badge   == {"pending", "verifying", "verified", "unverified", "error", "unsigned"}

Unmounted == [mounted |-> FALSE, armed |-> FALSE, started |-> FALSE,
              running |-> FALSE, completed |-> FALSE]
Mounted   == [Unmounted EXCEPT !.mounted = TRUE, !.armed = TRUE]
Off       == [phase |-> "off", at |-> 0, answer |-> "pending", failed |-> FALSE]

(* A loop stands at an entry, and at none beyond the last.                 *)
TypeOK ==
    /\ receipt \in Receipt /\ key \in {"none", "right", "wrong", "malformed"} /\ oracle \in Oracle
    /\ page \in [state : {"loading", "checking"}, at : 0..Len(Log)]
             \cup [state : {"shown"}, status : Status]
             \cup [state : {"failed"}, code : Failure]
    /\ reveal \in {"locked", "fetching", "opening", "decrypted", "error"}
    /\ view \in [mounted : BOOLEAN, armed : BOOLEAN, started : BOOLEAN,
                 running : BOOLEAN, completed : BOOLEAN]
    /\ badge \in [Index -> Badge]
    /\ loop \in [Loop -> [phase : {"off", "next", "asked", "answered"}, at : 0..Len(Log),
                          answer : Badge, failed : BOOLEAN]]
    /\ inForce \in [Index -> SUBSET Oracle]
    /\ lost \subseteq Index /\ fresh \subseteq Index
    /\ rotated \in BOOLEAN

Closed ==
    /\ page = [state |-> "loading", at |-> 0]
    /\ reveal = "locked"
    /\ view = Unmounted
    /\ badge = [i \in Index |-> "pending"]
    /\ loop = [l \in Loop |-> Off]
    /\ inForce = [i \in Index |-> {}]
    /\ lost = {} /\ fresh = {}
    /\ rotated = FALSE

Init ==
    /\ receipt \in Receipt
    /\ key \in IF receipt.blob = "envelope" THEN {"none", "right", "wrong", "malformed"} ELSE {"none"}
    /\ oracle \in Oracle
    /\ Closed

-----------------------------------------------------------------------------
(* The checks of one entry. *)

(* As it was before: any signature that recovers to an address will do.    *)
RecoversToSomebody(e) == e.sig \in Signer

(* recoverAddress(digest, teeSignature) is the agentId the entry claims.   *)
RecoversToAgent(e) == e.sig = "agent"

hasAttestationFields(e) == e.attested

(* verifyTEESignature: require() on the length reverts with a reason, an   *)
(* error of the ECDSA library without one; else yes or no.                 *)
verifyTEESignature(e) ==
    CASE e.sig = "short"  -> "reason"
      [] e.sig = "broken" -> "revert"
      [] OTHER            -> IF e.sig = oracle THEN "yes" ELSE "no"

Unsigned(e) == e.sig = "none" \/ ~hasAttestationFields(e)
NeedsContract(e) == ~Unsigned(e) /\ ~RecoversToAgent(e)

(* The badge the server's entry route comes to; a 502 is none of its own.  *)
verifyOneEntry(e) ==
    IF NeedsContract(e)
    THEN [yes |-> "verified", no |-> "unverified", reason |-> "unverified",
          revert |-> "502"][verifyTEESignature(e)]
    ELSE IF Unsigned(e) THEN "unsigned" ELSE "verified"

(* The badge the browser comes to: whatever is thrown is an error.         *)
verifyEntryClient(e) ==
    IF NeedsContract(e)
    THEN [yes |-> "verified", no |-> "unverified", reason |-> "error",
          revert |-> "error"][verifyTEESignature(e)]
    ELSE IF Unsigned(e) THEN "unsigned" ELSE "verified"

-----------------------------------------------------------------------------
(* The page is rendered on the server. *)

(* What the schema asks of a plaintext log that the checks depend on.      *)
sessionLogSchema(log) == \A i \in DOMAIN log : log[i].sig # "short"

(* Recognised by its version, algorithm and fields; whether it opens is not*)
(* known before the browser tries.                                         *)
isEncryptedEnvelope(blob) == blob = "envelope"

parseSessionLog(r) ==
    IF isEncryptedEnvelope(r.blob) THEN "envelope"
    ELSE IF r.blob = "invalid" \/ ~sessionLogSchema(r.log) THEN "invalid"
    ELSE "plaintext"

ShowPage(status) ==
    /\ page' = [state |-> "shown", status |-> status]
    /\ view' = IF status = "encrypted" THEN view ELSE Mounted
    /\ UNCHANGED <<shown, oracle, reveal, badge, loop, past, rotated>>

FailPage(code) ==
    /\ page' = [state |-> "failed", code |-> code]
    /\ UNCHANGED <<shown, oracle, reveal, view, badge, loop, past, rotated>>

(* resolveProof up to its first call of the verifier.                      *)
resolveProof ==
    /\ page.state = "loading"
    /\ \/ FailPage("TRANSPORT_FAILED")
       \/ receipt.token = "missing"   /\ FailPage("TOKEN_NOT_FOUND")
       \/ receipt.token = "other"     /\ FailPage("NO_EXEC_LOG_ANCHOR")
       \/ receipt.token = "malformed" /\ FailPage("MALFORMED_DATA_DESCRIPTION")
       \/ /\ receipt.token = "receipt"
          /\ CASE parseSessionLog(receipt) = "invalid"  -> FailPage("STORAGE_BLOB_INVALID")
               [] parseSessionLog(receipt) = "envelope" -> ShowPage("encrypted")
               [] parseSessionLog(receipt) = "plaintext" ->
                     IF ~receipt.sameSession THEN FailPage("SESSION_ID_MISMATCH")
                     ELSE IF \A i \in Index : Log[i].sig = "none" THEN ShowPage("preview")
                     ELSE /\ page' = [state |-> "checking", at |-> 1]
                          /\ UNCHANGED <<shown, oracle, reveal, view, badge, loop, past, rotated>>

Pass ==
    IF page.at = Len(Log) THEN ShowPage("verified")
    ELSE /\ page' = [page EXCEPT !.at = @ + 1]
         /\ UNCHANGED <<shown, oracle, reveal, view, badge, loop, past, rotated>>

(* As if a no were passed over, so that one good signature is enough.      *)
computeVerificationStatusLenient ==
    /\ page.state = "checking"
    /\ Pass

(* One entry of computeVerificationStatus; entries without a signature are *)
(* filtered out.                                                           *)
computeVerificationStatus ==
    /\ page.state = "checking"
    /\ LET e == Log[page.at]
       IN  \/ e.sig = "none" /\ Pass
           \/ e.sig # "none" /\ ~hasAttestationFields(e) /\ ShowPage("unverified")
           \/ ~Unsigned(e) /\ RecoversToAgent(e) /\ Pass
           \/ /\ NeedsContract(e)
              /\ \/ verifyTEESignature(e) = "yes" /\ Pass
                 \/ verifyTEESignature(e) \in {"no", "reason"} /\ ShowPage("unverified")
                 \/ FailPage("TRANSPORT_FAILED")

-----------------------------------------------------------------------------
(* The browser opens an encrypted log. *)

Reveals(state) ==
    /\ reveal' = state
    /\ UNCHANGED <<shown, oracle, page, badge, loop, past, rotated>>

(* The effect on mount.  Without a key the page stays locked.              *)
FetchEnvelope ==
    /\ page.state = "shown" /\ page.status = "encrypted"
    /\ reveal = "locked" /\ key # "none"
    /\ Reveals("fetching") /\ UNCHANGED view

(* /blob reads chain and storage once more, and refuses what is no envelope*)
(* by now.                                                                 *)
fetchEncryptedEnvelope ==
    /\ reveal = "fetching"
    /\ \/ receipt.token = "receipt" /\ parseSessionLog(receipt) = "envelope" /\ Reveals("opening")
       \/ Reveals("error")
    /\ UNCHANGED view

(* As it was before round 8 of its review.                                 *)
anyDecryptedLog == TRUE

checkDecryptedConsistency == receipt.sameSession

(* base64url of 32 bytes, or it throws. *)
shareStringToKey == IF key = "malformed" THEN "throws" ELSE key

decryptSessionLog ==
    /\ reveal = "opening" /\ isEncryptedEnvelope(receipt.blob)
    /\ IF shareStringToKey = "right" /\ checkDecryptedConsistency
       THEN Reveals("decrypted") /\ view' = Mounted
       ELSE Reveals("error") /\ UNCHANGED view

-----------------------------------------------------------------------------
(* SessionView runs a cascade over the entries. *)

(* As if only the button's disabled state kept a second loop out.          *)
MayStartUnguarded == TRUE

MayStart == ~view.started

(* Statuses are not reset: while it runs again the badges of the run before*)
(* stay until their turn comes.                                            *)
verifyOnChain(l) ==
    IF MayStart
    THEN /\ view' = [view EXCEPT !.armed = IF l = "timer" THEN FALSE ELSE @,
                                 !.started = TRUE, !.running = TRUE, !.completed = FALSE]
         /\ loop' = [loop EXCEPT ![l] = [Off EXCEPT !.phase = "next", !.at = 0]]
         /\ fresh' = {}
         /\ UNCHANGED <<shown, oracle, page, reveal, badge, inForce, lost, rotated>>
    ELSE /\ view' = [view EXCEPT !.armed = IF l = "timer" THEN FALSE ELSE @]
         /\ UNCHANGED <<shown, oracle, page, reveal, badge, loop, past, rotated>>

AutoVerify == view.mounted /\ view.armed /\ verifyOnChain("timer")
Click      == view.mounted /\ ~view.running /\ loop["click"].phase = "off" /\ verifyOnChain("click")

(* As if the loop went on to the entry after the last.                     *)
MoreEntriesInclusive(l) == loop[l].at <= Len(Log)

MoreEntries(l) == loop[l].at < Len(Log)

AskEntry(l) ==
    LET i == loop[l].at + 1
    IN  /\ loop[l].phase = "next" /\ MoreEntries(l)
        /\ loop' = [loop EXCEPT ![l] = [Off EXCEPT !.phase = "asked", !.at = i]]
        /\ badge' = [badge EXCEPT ![i] = "verifying"]
        /\ inForce' = [inForce EXCEPT ![i] = {oracle}]
        /\ UNCHANGED <<shown, oracle, page, reveal, view, lost, fresh, rotated>>

Holds(l, answer, failed) ==
    /\ loop' = [loop EXCEPT ![l].phase = "answered", ![l].answer = answer, ![l].failed = failed]
    /\ UNCHANGED <<shown, oracle, page, reveal, view, badge, past, rotated>>

(* The entry route reads chain and storage once more, but neither parses   *)
(* the description nor compares session ids.                               *)
loadSessionLogForToken(r) ==
    CASE r.token \in {"missing", "other"}  -> "404"
      [] parseSessionLog(r) # "plaintext"  -> "422"
      [] OTHER                             -> "log"

(* A response that is not 200 is unverified to SessionView, whatever it is.*)
AnswerFromServer(l) ==
    LET answer == IF loadSessionLogForToken(receipt) = "log"
                  THEN verifyOneEntry(Log[loop[l].at]) ELSE "502"
    IN  /\ loop[l].phase = "asked" /\ page.status # "encrypted"
        /\ Holds(l, IF answer = "502" THEN "unverified" ELSE answer, FALSE)

AnswerFromBrowser(l) ==
    /\ loop[l].phase = "asked" /\ page.status = "encrypted"
    /\ Holds(l, verifyEntryClient(Log[loop[l].at]), FALSE)

(* As if a rejected call ended the loop: nothing catches it.               *)
CallFailsUncaught(l) ==
    /\ loop[l].phase = "asked"
    /\ loop' = [loop EXCEPT ![l] = Off]
    /\ UNCHANGED <<shown, oracle, page, reveal, view, badge, past, rotated>>

(* The browser calls nobody for an entry it can tell by itself; the server *)
(* is asked for every entry.                                               *)
CallFails(l) ==
    LET e == Log[loop[l].at]
    IN  /\ loop[l].phase = "asked"
        /\ \/ page.status # "encrypted" /\ Holds(l, "unverified", TRUE)
           \/ page.status = "encrypted" /\ NeedsContract(e) /\ Holds(l, "error", TRUE)

SetBadge(l) ==
    LET i == loop[l].at
    IN  /\ loop[l].phase = "answered"
        /\ badge' = [badge EXCEPT ![i] = loop[l].answer]
        /\ lost' = IF loop[l].failed THEN lost \cup {i} ELSE lost \ {i}
        /\ fresh' = fresh \cup {i}
        /\ loop' = [loop EXCEPT ![l] = [Off EXCEPT !.phase = "next", !.at = i]]
        /\ UNCHANGED <<shown, oracle, page, reveal, view, inForce, rotated>>

EndCascade(l) ==
    /\ loop[l].phase = "next" /\ ~MoreEntries(l)
    /\ loop' = [loop EXCEPT ![l] = Off]
    /\ view' = [view EXCEPT !.running = FALSE, !.completed = TRUE, !.started = FALSE]
    /\ UNCHANGED <<shown, oracle, page, reveal, badge, past, rotated>>

CascadeStep(l) ==
    \/ AskEntry(l) \/ AnswerFromServer(l) \/ AnswerFromBrowser(l) \/ CallFails(l)
    \/ SetBadge(l) \/ EndCascade(l)

-----------------------------------------------------------------------------
(* What the visitor sees of it: a badge and a node per entry, the button   *)
(* in the headline, and the ticker above.                                  *)

EntryBadge(status) ==
    CASE status = "verified"              -> "green"
      [] status = "unverified"            -> "red"
      [] status \in {"error", "unsigned"} -> "amber"
      [] OTHER                            -> "grey"

Colours == {EntryBadge(badge[i]) : i \in Index}

allVerified == view.completed /\ \A i \in Index : badge[i] = "verified"
anyFailed   == view.completed /\ \E i \in Index : badge[i] = "unverified"

(* With nothing red and something amber it goes on to say that it verifies.*)
NumericHero ==
    IF ~view.running /\ allVerified THEN "replay verification"
    ELSE IF ~view.running /\ anyFailed THEN "re-run failed verification"
    ELSE "auto-verifying"

VerificationTicker ==
    IF \A i \in Index : badge[i] \notin {"pending", "verifying"}
    THEN IF \A i \in Index : badge[i] = "verified" THEN "all verified" ELSE "complete"
    ELSE IF \E i \in Index : badge[i] = "verifying" THEN "verifying" ELSE "awaiting"

-----------------------------------------------------------------------------
(* Leaving aborts what is under way.                                       *)
Reload ==
    /\ page.state \in {"shown", "failed"}
    /\ page' = [state |-> "loading", at |-> 0]
    /\ reveal' = "locked" /\ view' = Unmounted
    /\ badge' = [i \in Index |-> "pending"]
    /\ loop' = [l \in Loop |-> Off]
    /\ inForce' = [i \in Index |-> {}]
    /\ lost' = {} /\ fresh' = {} /\ rotated' = FALSE
    /\ UNCHANGED <<shown, oracle>>

updateOracleAddress(new) ==
    /\ new # oracle
    /\ oracle' = new
    /\ inForce' = [i \in Index |->
           IF \E l \in Loop : loop[l].at = i /\ loop[l].phase = "asked"
           THEN inForce[i] \cup {new} ELSE inForce[i]]
    /\ rotated' = TRUE
    /\ UNCHANGED <<shown, page, reveal, view, badge, loop, lost, fresh>>

PageStep == resolveProof \/ computeVerificationStatus

Next ==
    \/ PageStep
    \/ FetchEnvelope \/ fetchEncryptedEnvelope \/ decryptSessionLog
    \/ AutoVerify \/ Click
    \/ \E l \in Loop : CascadeStep(l)
    \/ Reload
    \/ \E new \in Oracle : updateOracleAddress(new)

(* Every fetch and call settles; what the visitor and the owner do is free.*)
Fairness == \A l \in Loop : WF_vars(CascadeStep(l))

Spec == Init /\ [][Next]_vars /\ Fairness

-----------------------------------------------------------------------------
(* A badge says what was true when it was asked for: verified only of an   *)
(* entry its own agent or an oracle of that moment signed, unverified only *)
(* of one that neither did or after a call that failed, error never of     *)
(* one the browser can tell by itself, unsigned only where there is nothing*)
(* to check, however the oracle changes during the cascade.                *)
Vouched(i) == Log[i].sig \in inForce[i] \cup {"agent"}

BadgeTruthful ==
    \A i \in Index :
        /\ badge[i] = "unsigned" => Unsigned(Log[i])
        /\ badge[i] = "verified" => ~Unsigned(Log[i]) /\ Vouched(i)
        /\ badge[i] = "unverified" /\ i \notin lost =>
              NeedsContract(Log[i]) /\ inForce[i] # {Log[i].sig}
        /\ badge[i] = "error" =>
              /\ page.status = "encrypted" /\ NeedsContract(Log[i])
              /\ i \in lost \/ Log[i].sig \notin Signer

(* With no rotation and no failed call since, what the visitor is shown at *)
(* the end comes to what the aggregate status of the same page says, which *)
(* another function computed at another time: the headline is green for    *)
(* verified only, or for no entries; verified has something green and      *)
(* nothing red, preview has only amber, unverified has something red or a  *)
(* signature without attestation, whose badge is amber.                    *)
AggregateAgrees ==
    page.state = "shown" /\ page.status # "encrypted" /\ view.completed
      /\ ~rotated /\ lost = {} =>
        /\ NumericHero = "replay verification" => page.status = "verified" \/ Log = <<>>
        /\ page.status = "verified" => "green" \in Colours /\ Colours \subseteq {"green", "amber"}
        /\ page.status = "preview" => Colours \subseteq {"amber"}
        /\ page.status = "unverified" =>
              \/ NumericHero = "re-run failed verification"
              \/ \E i \in Index : Log[i].sig # "none" /\ ~Log[i].attested

(* Entries are on the screen only for a log whose session id is the one    *)
(* anchored with the token, of a token that anchors one; those of an       *)
(* encrypted log only with its key, and the server never has them.         *)
ShownMatchesAnchor ==
    view.mounted =>
        /\ receipt.token = "receipt" /\ receipt.sameSession
        /\ receipt.blob = "envelope" => key = "right" /\ page.status = "encrypted"
        /\ receipt.blob = "plaintext" => page.status # "encrypted"

(* One loop runs at a time, whether the timer or the button started it, so *)
(* one entry is being asked about, in the order of the log, and the ticker *)
(* says so; a cascade that is said to be completed has answered for every  *)
(* entry itself, none left from the cascade before, and button and ticker  *)
(* agree on how it ended.  This is SessionView's loop, which awaits each   *)
(* call before the next; the header of the entry route says otherwise,     *)
(* that the client sends one GET per entry in parallel.                    *)
CascadeOrderly ==
    /\ \A l, m \in Loop : loop[l].phase # "off" /\ loop[m].phase # "off" => l = m
    /\ \A i, j \in Index : i < j /\ j \in fresh => i \in fresh
    /\ \A l \in Loop : loop[l].phase \in {"asked", "answered"} => VerificationTicker = "verifying"
    /\ view.completed =>
          /\ ~view.running /\ fresh = Index
          /\ (NumericHero = "replay verification") = (VerificationTicker = "all verified")
          /\ VerificationTicker \in {"all verified", "complete"}

(* A cascade ends: the button is not disabled for ever by a call that      *)
(* fails.                                                                  *)
CascadeEnds == view.running ~> ~view.running

(* "unverified" = bad signature, "error" = transport failure.              *)
UnverifiedMeansBadSignature == \A i \in Index : badge[i] = "unverified" => ~Vouched(i)

=============================================================================
