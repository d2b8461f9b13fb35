-------------------------- MODULE Verification_proof --------------------------
(***************************************************************************)
(* Theorems about Verification for any receipts, oracles and signers, any  *)
(* number of entries, failing calls, replays, reloads and rotations; and   *)
(* about TEEAdapter for any response of agent-wrapper.                     *)
(***************************************************************************)
EXTENDS TEEAdapter, TLAPS

-----------------------------------------------------------------------------
(***************************************************************************)
(* What the two judges of an entry come to.                                *)
(***************************************************************************)

LEMMA Names ==
    /\ "agent" \notin Oracle /\ "none" \notin Signer /\ "broken" \notin Signer /\ "short" \notin Signer
    /\ \A e \in Entry : e.sig \in Signer \cup {"none", "broken", "short"} /\ e.attested \in BOOLEAN
  BY VerificationAssumption DEF Signer, Entry

LEMMA ContractSays ==
    ASSUME NEW e \in Entry, oracle \in Oracle
    PROVE  /\ verifyTEESignature(e) \in {"yes", "no", "reason", "revert"}
           /\ verifyTEESignature(e) = "yes" <=> e.sig = oracle
           /\ verifyTEESignature(e) \in {"reason", "revert"} => e.sig \notin Signer
  <1>1. oracle # "short" /\ oracle # "broken"
      BY Names DEF Signer
  <1>2. CASE e.sig = "short"
      BY <1>1, <1>2, Names DEF verifyTEESignature
  <1>3. CASE e.sig = "broken"
      BY <1>1, <1>3, Names DEF verifyTEESignature
  <1>4. CASE e.sig \notin {"short", "broken"}
      BY <1>4 DEF verifyTEESignature
  <1> QED BY <1>2, <1>3, <1>4

LEMMA ServerSays ==
    ASSUME NEW e \in Entry, oracle \in Oracle
    PROVE  /\ verifyOneEntry(e) \in {"verified", "unverified", "unsigned", "502"}
           /\ verifyOneEntry(e) = "unsigned" => Unsigned(e)
           /\ verifyOneEntry(e) = "verified" => ~Unsigned(e) /\ e.sig \in {oracle, "agent"}
           /\ verifyOneEntry(e) \in {"unverified", "502"} => NeedsContract(e) /\ e.sig # oracle
  <1>1. CASE NeedsContract(e)
      BY <1>1, ContractSays DEF verifyOneEntry, NeedsContract
  <1>2. CASE ~NeedsContract(e)
      BY <1>2 DEF verifyOneEntry, NeedsContract, RecoversToAgent
  <1> QED BY <1>1, <1>2

LEMMA BrowserSays ==
    ASSUME NEW e \in Entry, oracle \in Oracle
    PROVE  /\ verifyEntryClient(e) \in {"verified", "unverified", "unsigned", "error"}
           /\ verifyEntryClient(e) = "unsigned" => Unsigned(e)
           /\ verifyEntryClient(e) = "verified" => ~Unsigned(e) /\ e.sig \in {oracle, "agent"}
           /\ verifyEntryClient(e) = "unverified" => NeedsContract(e) /\ e.sig # oracle
           /\ verifyEntryClient(e) = "error" => NeedsContract(e) /\ e.sig \notin Signer
  <1>1. CASE NeedsContract(e)
      BY <1>1, ContractSays DEF verifyEntryClient, NeedsContract
  <1>2. CASE ~NeedsContract(e)
      BY <1>2 DEF verifyEntryClient, NeedsContract, RecoversToAgent
  <1> QED BY <1>1, <1>2

-----------------------------------------------------------------------------
(***************************************************************************)
(* The invariant, in parts: where the page is, where the cascade is, and   *)
(* what the badges say.                                                    *)
(***************************************************************************)

LoadingPage == [state : {"loading", "checking"}, at : 0..Len(Log)]
ShownPage   == [state : {"shown"}, status : Status]
FailedPage  == [state : {"failed"}, code : Failure]
View        == [mounted : BOOLEAN, armed : BOOLEAN, started : BOOLEAN, running : BOOLEAN, completed : BOOLEAN]
LoopState   == [phase : {"off", "next", "asked", "answered"}, at : 0..Len(Log), answer : Badge, failed : BOOLEAN]

(* What is verified, and by whom.                                          *)
GivenOK ==
    /\ receipt \in Receipt /\ key \in {"none", "right", "wrong", "malformed"} /\ oracle \in Oracle

(* Entries are on the screen only of a page that found its log in order,   *)
(* and of an encrypted one once it was opened.                             *)
PageOK ==
    /\ page \in LoadingPage \cup ShownPage \cup FailedPage
    /\ reveal \in {"locked", "fetching", "opening", "decrypted", "error"}
    /\ page.state \in {"checking", "shown"} => receipt.token = "receipt"
    /\ page.state = "checking" => parseSessionLog(receipt) = "plaintext" /\ receipt.sameSession
    /\ page.state = "shown" =>
          IF page.status = "encrypted" THEN parseSessionLog(receipt) = "envelope"
          ELSE parseSessionLog(receipt) = "plaintext" /\ receipt.sameSession
    /\ reveal # "locked" => page.state = "shown" /\ page.status = "encrypted"
    /\ view.mounted => page.state = "shown"
    /\ view.mounted /\ page.status = "encrypted" =>
          reveal = "decrypted" /\ key = "right" /\ receipt.sameSession

(* One loop at most, started and not completed, standing at an entry.      *)
LoopOK ==
    /\ view \in View
    /\ loop \in [Loop -> LoopState]
    /\ rotated \in BOOLEAN
    /\ \A l \in Loop : loop[l].phase # "off" =>
          view.mounted /\ view.started /\ ~view.completed
    /\ \A l, m \in Loop : loop[l].phase # "off" /\ loop[m].phase # "off" => l = m
    /\ \A l \in Loop : loop[l].phase \in {"asked", "answered"} => loop[l].at \in Index
    /\ view.completed => ~view.running

(* What a status says of an entry, given the oracles of its call.          *)
Says(i, status, failed) ==
    /\ status = "unsigned" => Unsigned(Log[i])
    /\ status = "verified" => ~Unsigned(Log[i]) /\ Vouched(i)
    /\ status = "unverified" /\ ~failed => NeedsContract(Log[i]) /\ inForce[i] # {Log[i].sig}
    /\ status = "error" =>
          page.status = "encrypted" /\ NeedsContract(Log[i]) /\ (failed \/ Log[i].sig \notin Signer)

BadgeOK ==
    /\ badge \in [Index -> Badge]
    /\ inForce \in [Index -> SUBSET Oracle]
    /\ lost \subseteq Index /\ fresh \subseteq Index
    /\ \A i \in Index : Says(i, badge[i], i \in lost)
    /\ ~view.mounted => \A i \in Index : badge[i] = "pending"
    /\ \A i \in fresh : badge[i] \notin {"pending", "verifying"}
    /\ \A i, j \in Index : i < j /\ j \in fresh => i \in fresh
    /\ view.completed => fresh = Index

(* The entry that is asked about, and the answer in hand.                  *)
AskOK ==
    \A l \in Loop :
        /\ loop[l].phase = "next" => fresh = 1..loop[l].at
        /\ loop[l].phase \in {"asked", "answered"} =>
              /\ fresh = 1..(loop[l].at - 1)
              /\ badge[loop[l].at] = "verifying"
        /\ loop[l].phase = "asked" => oracle \in inForce[loop[l].at]
        /\ loop[l].phase = "answered" =>
              /\ loop[l].answer \in {"verified", "unverified", "unsigned", "error"}
              /\ Says(loop[l].at, loop[l].answer, loop[l].failed)

IInv == GivenOK /\ PageOK /\ LoopOK /\ BadgeOK /\ AskOK

LEMMA LogIsSeq == ASSUME GivenOK PROVE Log \in Seq(Entry) /\ Len(Log) \in Nat /\ Index = 1..Len(Log)
  <1>1. receipt.log \in Seq(Entry)
      BY VerificationAssumption DEF GivenOK
  <1> QED BY <1>1 DEF Log, Index

LEMMA IInvInit == Init => IInv
  <1> SUFFICES ASSUME Init PROVE IInv
      OBVIOUS
  <1>1. GivenOK
      BY DEF Init, GivenOK
  <1>2. Len(Log) \in Nat /\ Index = 1..Len(Log)
      BY <1>1, LogIsSeq
  <1>3. page \in LoadingPage /\ page.state = "loading"
      BY <1>2 DEF Init, Closed, LoadingPage
  <1>4. view \in View /\ ~view.mounted /\ ~view.completed
      BY DEF Init, Closed, Unmounted, View
  <1>5. PageOK
      BY <1>3, <1>4 DEF PageOK, Init, Closed
  <1>6. loop \in [Loop -> LoopState] /\ \A l \in Loop : loop[l].phase = "off"
      BY <1>2 DEF Init, Closed, LoopState, Off, Badge
  <1>7. LoopOK
      BY <1>4, <1>6 DEF LoopOK, Init, Closed
  <1>8. /\ badge \in [Index -> Badge] /\ \A i \in Index : badge[i] = "pending"
        /\ inForce \in [Index -> SUBSET Oracle] /\ lost = {} /\ fresh = {}
      BY DEF Init, Closed, Badge
  <1>9. BadgeOK
      BY <1>4, <1>8 DEF BadgeOK, Says
  <1>10. AskOK
      BY <1>6 DEF AskOK
  <1> QED BY <1>1, <1>5, <1>7, <1>9, <1>10 DEF IInv

-----------------------------------------------------------------------------
(***************************************************************************)
(* Before the entries are on the screen: rendering and decryption.         *)
(***************************************************************************)

LEMMA ViewTypes == Unmounted \in View /\ Mounted \in View /\ ~Unmounted.mounted /\ Mounted.mounted
                   /\ ~Mounted.completed /\ ~Unmounted.completed
  BY DEF Unmounted, Mounted, View

LEMMA NothingAsked ==
    ASSUME IInv, ~view.mounted, UNCHANGED <<shown, oracle, badge, loop, past, rotated>>,
           view' \in {view, Mounted}
    PROVE  GivenOK' /\ LoopOK' /\ BadgeOK' /\ AskOK'
  <1>1. GivenOK /\ LoopOK /\ BadgeOK
      BY DEF IInv
  <1>2. /\ receipt' = receipt /\ key' = key /\ oracle' = oracle /\ badge' = badge /\ loop' = loop
        /\ inForce' = inForce /\ lost' = lost /\ fresh' = fresh /\ rotated' = rotated
      BY DEF shown, past
  <1>3. Log' = Log /\ Index' = Index
      BY <1>2 DEF Log, Index
  <1>4. GivenOK'
      BY <1>1, <1>2 DEF GivenOK
  <1>5. \A l \in Loop : loop[l].phase = "off"
      BY <1>1 DEF LoopOK
  <1>6. loop' \in [Loop -> LoopState']
      BY <1>1, <1>2, <1>3 DEF LoopOK, LoopState
  <1>7. view' \in View /\ (view'.completed => view' = view)
      BY <1>1, ViewTypes DEF LoopOK
  <1>8. LoopOK'
      BY <1>1, <1>2, <1>5, <1>6, <1>7 DEF LoopOK
  <1>9. AskOK'
      BY <1>2, <1>5 DEF AskOK
  <1>10. \A i \in Index : badge[i] = "pending"
      BY <1>1 DEF BadgeOK
  <1>11. BadgeOK'
      BY <1>1, <1>2, <1>3, <1>7, <1>10 DEF BadgeOK, Says
  <1> QED BY <1>4, <1>8, <1>9, <1>11

LEMMA ShowPageKeeps ==
    ASSUME IInv, page.state \in {"loading", "checking"}, NEW status \in Status, ShowPage(status),
           receipt.token = "receipt",
           status = "encrypted" => parseSessionLog(receipt) = "envelope",
           status # "encrypted" => parseSessionLog(receipt) = "plaintext" /\ receipt.sameSession
    PROVE  IInv'
  <1>1. PageOK /\ ~view.mounted /\ reveal = "locked"
      BY DEF IInv, PageOK
  <1>2. GivenOK' /\ LoopOK' /\ BadgeOK' /\ AskOK'
      BY <1>1, NothingAsked DEF ShowPage
  <1>3. page' = [state |-> "shown", status |-> status] /\ receipt' = receipt /\ reveal' = reveal
      BY DEF ShowPage, shown
  <1>4. page' \in ShownPage /\ page'.state = "shown" /\ page'.status = status
      BY <1>3 DEF ShownPage
  <1>5. view'.mounted => status # "encrypted"
      BY <1>1 DEF ShowPage
  <1>6. page' \in LoadingPage' \cup ShownPage' \cup FailedPage'
      BY <1>4 DEF ShownPage
  <1>7. PageOK'
      BY <1>1, <1>3, <1>4, <1>5, <1>6 DEF PageOK
  <1> QED BY <1>2, <1>7 DEF IInv

LEMMA FailPageKeeps ==
    ASSUME IInv, page.state \in {"loading", "checking"}, NEW code \in Failure, FailPage(code)
    PROVE  IInv'
  <1>1. PageOK /\ ~view.mounted /\ reveal = "locked"
      BY DEF IInv, PageOK
  <1>2. GivenOK' /\ LoopOK' /\ BadgeOK' /\ AskOK'
      BY <1>1, NothingAsked DEF FailPage
  <1>3. page' = [state |-> "failed", code |-> code] /\ reveal' = reveal /\ view' = view
      BY DEF FailPage
  <1>4. page' \in FailedPage /\ page'.state = "failed"
      BY <1>3 DEF FailedPage
  <1>5. page' \in LoadingPage' \cup ShownPage' \cup FailedPage'
      BY <1>4 DEF FailedPage
  <1>6. PageOK'
      BY <1>1, <1>3, <1>4, <1>5 DEF PageOK
  <1> QED BY <1>2, <1>6 DEF IInv

LEMMA CheckingKeeps ==
    ASSUME IInv, page.state \in {"loading", "checking"}, NEW k \in 0..Len(Log),
           page' = [state |-> "checking", at |-> k],
           UNCHANGED <<shown, oracle, reveal, view, badge, loop, past, rotated>>,
           receipt.token = "receipt", parseSessionLog(receipt) = "plaintext", receipt.sameSession
    PROVE  IInv'
  <1>1. PageOK /\ ~view.mounted /\ reveal = "locked"
      BY DEF IInv, PageOK
  <1>2. GivenOK' /\ LoopOK' /\ BadgeOK' /\ AskOK'
      BY <1>1, NothingAsked
  <1>3. receipt' = receipt /\ reveal' = reveal /\ view' = view /\ Log' = Log
      BY DEF shown, Log
  <1>4. page' \in LoadingPage' /\ page'.state = "checking"
      BY <1>3 DEF LoadingPage
  <1>5. PageOK'
      BY <1>1, <1>3, <1>4 DEF PageOK
  <1> QED BY <1>2, <1>5 DEF IInv

LEMMA ResolveKeeps == ASSUME IInv, resolveProof PROVE IInv'
  <1>1. page.state = "loading" /\ Len(Log) \in Nat /\ Index = 1..Len(Log)
      BY LogIsSeq DEF resolveProof, IInv
  <1>2. CASE \E code \in Failure : FailPage(code)
      BY <1>1, <1>2, FailPageKeeps
  <1>3. CASE ShowPage("encrypted") /\ receipt.token = "receipt" /\ parseSessionLog(receipt) = "envelope"
      BY <1>1, <1>3, ShowPageKeeps DEF Status
  <1>4. CASE ShowPage("preview") /\ receipt.token = "receipt" /\ parseSessionLog(receipt) = "plaintext"
             /\ receipt.sameSession
      BY <1>1, <1>4, ShowPageKeeps DEF Status
  <1>5. CASE /\ receipt.token = "receipt" /\ parseSessionLog(receipt) = "plaintext" /\ receipt.sameSession
             /\ ~(\A i \in Index : Log[i].sig = "none")
             /\ page' = [state |-> "checking", at |-> 1]
             /\ UNCHANGED <<shown, oracle, reveal, view, badge, loop, past, rotated>>
    <2>1. 1 \in 0..Len(Log)
        BY <1>1, <1>5
    <2> QED BY <1>1, <1>5, <2>1, CheckingKeeps
  <1>6. parseSessionLog(receipt) \in {"invalid", "envelope", "plaintext"}
      BY DEF parseSessionLog
  <1>7. FailPage("TRANSPORT_FAILED") \/ FailPage("TOKEN_NOT_FOUND") \/ FailPage("NO_EXEC_LOG_ANCHOR")
        \/ FailPage("MALFORMED_DATA_DESCRIPTION") \/ FailPage("STORAGE_BLOB_INVALID")
        \/ FailPage("SESSION_ID_MISMATCH") => \E code \in Failure : FailPage(code)
      BY DEF Failure
  <1>8. CASE receipt.token = "receipt" /\ parseSessionLog(receipt) = "plaintext"
      BY <1>2, <1>4, <1>5, <1>7, <1>8 DEF resolveProof
  <1>9. CASE receipt.token = "receipt" /\ parseSessionLog(receipt) = "envelope"
      BY <1>2, <1>3, <1>7, <1>9 DEF resolveProof
  <1>10. CASE receipt.token = "receipt" /\ parseSessionLog(receipt) = "invalid"
      BY <1>2, <1>7, <1>10 DEF resolveProof
  <1>11. CASE receipt.token # "receipt"
      BY <1>2, <1>7, <1>11 DEF resolveProof
  <1> QED BY <1>6, <1>8, <1>9, <1>10, <1>11

LEMMA ComputeKeeps == ASSUME IInv, computeVerificationStatus PROVE IInv'
  <1>1. /\ page.state = "checking" /\ receipt.token = "receipt"
        /\ parseSessionLog(receipt) = "plaintext" /\ receipt.sameSession
      BY DEF computeVerificationStatus, IInv, PageOK
  <1>2. CASE Pass
    <2>1. page \in LoadingPage /\ Len(Log) \in Nat
        BY <1>1, LogIsSeq DEF IInv, PageOK, ShownPage, FailedPage
    <2>2. CASE page.at = Len(Log)
        BY <1>1, <1>2, <2>2, ShowPageKeeps DEF Pass, Status
    <2>3. CASE page.at # Len(Log)
      <3>1. page.at + 1 \in 0..Len(Log)
          BY <2>1, <2>3 DEF LoadingPage
      <3>2. page' = [page EXCEPT !.at = page.at + 1]
            /\ UNCHANGED <<shown, oracle, reveal, view, badge, loop, past, rotated>>
          BY <1>2, <2>3 DEF Pass
      <3>3. [page EXCEPT !.at = page.at + 1] = [state |-> "checking", at |-> page.at + 1]
          BY <1>1, <2>1 DEF LoadingPage
      <3> QED BY <1>1, <3>1, <3>2, <3>3, CheckingKeeps
    <2> QED BY <2>2, <2>3
  <1>3. CASE ShowPage("unverified")
      BY <1>1, <1>3, ShowPageKeeps DEF Status
  <1>4. CASE FailPage("TRANSPORT_FAILED")
      BY <1>1, <1>4, FailPageKeeps DEF Failure
  <1> QED BY <1>2, <1>3, <1>4 DEF computeVerificationStatus

LEMMA RevealKeeps ==
    ASSUME IInv, FetchEnvelope \/ fetchEncryptedEnvelope \/ decryptSessionLog
    PROVE  IInv'
  <1>1. PageOK
      BY DEF IInv
  <1>2. page.state = "shown" /\ page.status = "encrypted" /\ reveal \in {"locked", "fetching", "opening"}
      BY <1>1 DEF PageOK, FetchEnvelope, fetchEncryptedEnvelope, decryptSessionLog
  <1>3. ~view.mounted
      BY <1>1, <1>2 DEF PageOK
  <1>4. /\ UNCHANGED <<shown, oracle, page, badge, loop, past, rotated>>
        /\ reveal' \in {"fetching", "opening", "decrypted", "error"}
        /\ \/ view' = view
           \/ /\ view' = Mounted /\ reveal' = "decrypted"
              /\ key = "right" /\ receipt.sameSession
    <2>1. CASE FetchEnvelope
        BY <2>1 DEF FetchEnvelope, Reveals
    <2>2. CASE fetchEncryptedEnvelope
        BY <2>2 DEF fetchEncryptedEnvelope, Reveals
    <2>3. CASE decryptSessionLog
        BY <2>3 DEF decryptSessionLog, Reveals, shareStringToKey, checkDecryptedConsistency
    <2> QED BY <2>1, <2>2, <2>3
  <1>5. GivenOK' /\ LoopOK' /\ BadgeOK' /\ AskOK'
      BY <1>3, <1>4, NothingAsked
  <1>6. receipt' = receipt /\ key' = key /\ page' = page /\ Log' = Log
      BY <1>4 DEF shown, Log
  <1>7. page' \in LoadingPage' \cup ShownPage' \cup FailedPage'
      BY <1>1, <1>6 DEF PageOK, LoadingPage, ShownPage, FailedPage
  <1>8. PageOK'
      BY <1>1, <1>2, <1>3, <1>4, <1>6, <1>7 DEF PageOK
  <1> QED BY <1>5, <1>8 DEF IInv

-----------------------------------------------------------------------------
(***************************************************************************)
(* The cascade.                                                            *)
(***************************************************************************)

(* The page stays while entries are asked about.                           *)
LEMMA PageStays ==
    ASSUME IInv, UNCHANGED <<shown, page, reveal>>, view'.mounted = view.mounted
    PROVE  PageOK'
  <1>1. PageOK
      BY DEF IInv
  <1>2. receipt' = receipt /\ key' = key /\ page' = page /\ reveal' = reveal /\ Log' = Log
      BY DEF shown, Log
  <1>3. page' \in LoadingPage' \cup ShownPage' \cup FailedPage'
      BY <1>1, <1>2 DEF PageOK, LoadingPage, ShownPage, FailedPage
  <1> QED BY <1>1, <1>2, <1>3 DEF PageOK

LEMMA StartKeeps ==
    ASSUME IInv, NEW l \in Loop, view.mounted, verifyOnChain(l)
    PROVE  IInv'
  <1>1. GivenOK /\ PageOK /\ LoopOK /\ BadgeOK /\ AskOK
      BY DEF IInv
  <1>2. UNCHANGED <<shown, oracle, page, reveal, badge, inForce, lost, rotated>>
      BY DEF verifyOnChain, past
  <1>3. receipt' = receipt /\ key' = key /\ Log' = Log /\ Index' = Index /\ LoopState' = LoopState
      BY <1>2 DEF shown, Log, Index, LoopState
  <1>4. Len(Log) \in Nat /\ Index = 1..Len(Log)
      BY <1>1, LogIsSeq
  <1>5. view' \in View /\ view'.mounted = view.mounted
        /\ (~MayStart => view'.completed = view.completed /\ view'.started = view.started
                          /\ view'.running = view.running)
        /\ (MayStart => ~view'.completed /\ view'.started)
    <2>1. view \in View
        BY <1>1 DEF LoopOK
    <2> QED BY <2>1 DEF verifyOnChain, View
  <1>6. GivenOK'
      BY <1>1, <1>2, <1>3 DEF GivenOK
  <1>7. PageOK'
      BY <1>2, <1>5, PageStays
  <1>8. BadgeOK'
    <2>1. fresh' = fresh \/ fresh' = {}
        BY DEF verifyOnChain, past
    <2>2. view'.completed => fresh' = fresh /\ view.completed
        BY <1>5 DEF verifyOnChain, past
    <2>3. page' = page /\ badge' = badge /\ inForce' = inForce /\ lost' = lost
        BY <1>2
    <2>4. \A i \in Index : Says(i, badge[i], i \in lost)'
        BY <1>1, <1>3, <2>3 DEF BadgeOK, Says, Vouched
    <2> QED BY <1>1, <1>3, <1>5, <2>1, <2>2, <2>3, <2>4 DEF BadgeOK
  <1>9. CASE ~MayStart
    <2>1. loop' = loop /\ fresh' = fresh /\ page' = page /\ badge' = badge /\ inForce' = inForce
          /\ oracle' = oracle /\ rotated' = rotated
        BY <1>9 DEF verifyOnChain, past
    <2>2. LoopOK'
        BY <1>1, <1>3, <1>5, <1>9, <2>1 DEF LoopOK
    <2>3. AskOK'
        BY <1>1, <1>3, <2>1 DEF AskOK, Says, Vouched
    <2> QED BY <1>6, <1>7, <1>8, <2>2, <2>3 DEF IInv
  <1>10. CASE MayStart
    <2> DEFINE new == [Off EXCEPT !.phase = "next", !.at = 0]
    <2>1. loop' = [loop EXCEPT ![l] = new] /\ fresh' = {} /\ rotated' = rotated
        BY <1>10 DEF verifyOnChain
    <2>2. new \in LoopState /\ new.phase = "next" /\ new.at = 0
      <3>1. 0 \in 0..Len(Log)
          BY <1>4
      <3>2. Off \in LoopState
          BY <3>1 DEF Off, LoopState, Badge
      <3> QED BY <3>1, <3>2 DEF LoopState
    <2> HIDE DEF new
    <2>3. \A m \in Loop : loop[m].phase = "off"
        BY <1>1, <1>10 DEF LoopOK, MayStart
    <2>4. \A m \in Loop : loop'[m] = IF m = l THEN new ELSE loop[m]
        BY <1>1, <2>1 DEF LoopOK
    <2>5. loop' \in [Loop -> LoopState']
        BY <1>1, <1>3, <2>1, <2>2 DEF LoopOK
    <2>6. LoopOK'
        BY <1>1, <1>5, <1>10, <2>1, <2>2, <2>3, <2>4, <2>5 DEF LoopOK
    <2>7. AskOK'
      <3>1. \A m \in Loop : loop'[m].phase = "off" \/ (loop'[m].phase = "next" /\ loop'[m].at = 0)
          BY <2>2, <2>3, <2>4
      <3>2. 1..0 = {}
          OBVIOUS
      <3> QED BY <2>1, <3>1, <3>2 DEF AskOK
    <2> QED BY <1>6, <1>7, <1>8, <2>6, <2>7 DEF IInv
  <1> QED BY <1>9, <1>10

LEMMA AskKeeps == ASSUME IInv, NEW l \in Loop, AskEntry(l) PROVE IInv'
  <1> DEFINE i == loop[l].at + 1
             new == [Off EXCEPT !.phase = "asked", !.at = i]
  <1>1. GivenOK /\ PageOK /\ LoopOK /\ BadgeOK /\ AskOK
      BY DEF IInv
  <1>2. Len(Log) \in Nat /\ Index = 1..Len(Log)
      BY <1>1, LogIsSeq
  <1>3. loop[l].phase = "next" /\ loop[l] \in LoopState /\ loop[l].at < Len(Log)
      BY <1>1 DEF AskEntry, MoreEntries, LoopOK
  <1>4. i \in Index /\ i \in 0..Len(Log) /\ i - 1 = loop[l].at
      BY <1>2, <1>3 DEF LoopState
  <1>5. new \in LoopState /\ new.phase = "asked" /\ new.at = i
      BY <1>4 DEF LoopState, Off, Badge
  <1>6. /\ loop' = [loop EXCEPT ![l] = new] /\ badge' = [badge EXCEPT ![i] = "verifying"]
        /\ inForce' = [inForce EXCEPT ![i] = {oracle}]
        /\ UNCHANGED <<shown, oracle, page, reveal, view, lost, fresh, rotated>>
      BY DEF AskEntry
  <1> HIDE DEF new, i
  <1>7. receipt' = receipt /\ key' = key /\ Log' = Log /\ Index' = Index /\ LoopState' = LoopState
      BY <1>6 DEF shown, Log, Index, LoopState
  <1>8. GivenOK'
      BY <1>1, <1>6, <1>7 DEF GivenOK
  <1>9. PageOK'
      BY <1>6, PageStays
  <1>10. \A m \in Loop : loop'[m] = IF m = l THEN new ELSE loop[m]
      BY <1>1, <1>6 DEF LoopOK
  <1>11. \A m \in Loop : m # l => loop[m].phase = "off"
      BY <1>1, <1>3 DEF LoopOK
  <1>12. loop' \in [Loop -> LoopState']
      BY <1>1, <1>5, <1>6, <1>7 DEF LoopOK
  <1>13. LoopOK'
      BY <1>1, <1>3, <1>4, <1>5, <1>6, <1>7, <1>10, <1>11, <1>12 DEF LoopOK
  <1>14. fresh = 1..(i - 1) /\ i \notin fresh
      BY <1>1, <1>2, <1>3, <1>4 DEF AskOK
  <1>15. /\ badge' \in [Index -> Badge] /\ badge'[i] = "verifying"
         /\ \A j \in Index \ {i} : badge'[j] = badge[j] /\ inForce'[j] = inForce[j]
         /\ inForce' \in [Index -> SUBSET Oracle] /\ inForce'[i] = {oracle}
      BY <1>1, <1>4, <1>6 DEF BadgeOK, GivenOK, Badge
  <1>16. BadgeOK'
    <2>1. ASSUME NEW j \in Index PROVE Says(j, badge[j], j \in lost)'
      <3>1. CASE j = i
          BY <1>15, <3>1 DEF Says
      <3>2. CASE j # i
        <4>1. Says(j, badge[j], j \in lost)
            BY <1>1 DEF BadgeOK
        <4> QED BY <1>6, <1>7, <1>15, <3>2, <4>1 DEF Says, Vouched
      <3> QED BY <3>1, <3>2
    <2>2. view.mounted
        BY <1>1, <1>3 DEF LoopOK
    <2>3. \A j \in fresh : badge'[j] \notin {"pending", "verifying"}
        BY <1>1, <1>14, <1>15 DEF BadgeOK
    <2> QED BY <1>1, <1>6, <1>7, <1>15, <2>1, <2>2, <2>3 DEF BadgeOK
  <1>17. AskOK'
    <2> SUFFICES ASSUME NEW m \in Loop, loop'[m].phase # "off"
                 PROVE  /\ loop'[m].phase = "asked" /\ fresh' = 1..(loop'[m].at - 1)
                        /\ badge'[loop'[m].at] = "verifying" /\ oracle' \in inForce'[loop'[m].at]
        BY DEF AskOK
    <2>1. m = l
        BY <1>10, <1>11
    <2> QED BY <1>5, <1>6, <1>10, <1>14, <1>15, <2>1
  <1> QED BY <1>8, <1>9, <1>13, <1>16, <1>17 DEF IInv

(* A response: it says what was so while it was on its way.                *)
LEMMA HoldsKeeps ==
    ASSUME IInv, NEW l \in Loop, loop[l].phase = "asked",
           NEW answer \in {"verified", "unverified", "unsigned", "error"}, NEW failed \in BOOLEAN,
           Holds(l, answer, failed), Says(loop[l].at, answer, failed)
    PROVE  IInv'
  <1> DEFINE new == [loop[l] EXCEPT !.phase = "answered", !.answer = answer, !.failed = failed]
  <1>1. GivenOK /\ PageOK /\ LoopOK /\ BadgeOK /\ AskOK
      BY DEF IInv
  <1>2. loop[l] \in LoopState
      BY <1>1 DEF LoopOK
  <1>3. new \in LoopState /\ new.phase = "answered" /\ new.at = loop[l].at /\ new.answer = answer
        /\ new.failed = failed
      BY <1>2 DEF LoopState, Badge
  <1>4. loop' = [loop EXCEPT ![l] = new]
        /\ UNCHANGED <<shown, oracle, page, reveal, view, badge, past, rotated>>
      BY <1>1 DEF Holds, LoopOK
  <1> HIDE DEF new
  <1>5. /\ receipt' = receipt /\ key' = key /\ Log' = Log /\ Index' = Index /\ LoopState' = LoopState
        /\ inForce' = inForce /\ lost' = lost /\ fresh' = fresh
      BY <1>4 DEF shown, past, Log, Index, LoopState
  <1>6. GivenOK'
      BY <1>1, <1>4, <1>5 DEF GivenOK
  <1>7. PageOK'
      BY <1>4, PageStays
  <1>8. \A m \in Loop : loop'[m] = IF m = l THEN new ELSE loop[m]
      BY <1>1, <1>4 DEF LoopOK
  <1>9. \A m \in Loop : m # l => loop[m].phase = "off"
      BY <1>1 DEF LoopOK
  <1>10. loop' \in [Loop -> LoopState']
      BY <1>1, <1>3, <1>4, <1>5 DEF LoopOK
  <1>11. LoopOK'
      BY <1>1, <1>3, <1>4, <1>5, <1>8, <1>9, <1>10 DEF LoopOK
  <1>12. BadgeOK'
      BY <1>1, <1>4, <1>5 DEF BadgeOK, Says, Vouched
  <1>13. AskOK'
    <2> SUFFICES ASSUME NEW m \in Loop, loop'[m].phase # "off"
                 PROVE  /\ loop'[m].phase = "answered" /\ fresh' = 1..(loop'[m].at - 1)
                        /\ badge'[loop'[m].at] = "verifying"
                        /\ loop'[m].answer \in {"verified", "unverified", "unsigned", "error"}
                        /\ Says(loop[m].at, loop[m].answer, loop[m].failed)'
        BY DEF AskOK
    <2>1. m = l /\ loop'[m] = new
        BY <1>8, <1>9
    <2>2. fresh = 1..(loop[l].at - 1) /\ badge[loop[l].at] = "verifying"
        BY <1>1 DEF AskOK
    <2> QED BY <1>3, <1>4, <1>5, <2>1, <2>2 DEF Says, Vouched
  <1> QED BY <1>6, <1>7, <1>11, <1>12, <1>13 DEF IInv

LEMMA AnswerKeeps ==
    ASSUME IInv, NEW l \in Loop, AnswerFromServer(l) \/ AnswerFromBrowser(l) \/ CallFails(l)
    PROVE  IInv'
  <1> DEFINE i == loop[l].at
             e == Log[i]
  <1>1. GivenOK /\ PageOK /\ LoopOK /\ BadgeOK /\ AskOK
      BY DEF IInv
  <1>2. loop[l].phase = "asked" /\ i \in Index /\ oracle \in inForce[i] /\ page.state = "shown"
    <2>1. loop[l].phase = "asked"
        BY DEF AnswerFromServer, AnswerFromBrowser, CallFails
    <2> QED BY <1>1, <2>1 DEF LoopOK, AskOK, PageOK
  <1>3. e \in Entry /\ oracle \in Oracle
      BY <1>1, <1>2, LogIsSeq DEF GivenOK
  <1>4. Says(i, "unverified", TRUE)
      BY DEF Says
  <1>5. CASE AnswerFromServer(l)
    <2>1. page.status # "encrypted" /\ loadSessionLogForToken(receipt) = "log"
        BY <1>1, <1>2, <1>5 DEF AnswerFromServer, PageOK, loadSessionLogForToken
    <2> DEFINE answer == IF verifyOneEntry(e) = "502" THEN "unverified" ELSE verifyOneEntry(e)
    <2>2. Holds(l, answer, FALSE)
        BY <1>5, <2>1 DEF AnswerFromServer
    <2>3. /\ answer \in {"verified", "unverified", "unsigned"}
          /\ answer = "unsigned" => Unsigned(e)
          /\ answer = "verified" => ~Unsigned(e) /\ e.sig \in {oracle, "agent"}
          /\ answer = "unverified" => NeedsContract(e) /\ e.sig # oracle
        BY <1>3, ServerSays
    <2> HIDE DEF answer
    <2>4. Says(i, answer, FALSE)
        BY <1>2, <2>3 DEF Says, Vouched
    <2> QED BY <1>2, <2>2, <2>3, <2>4, HoldsKeeps
  <1>6. CASE AnswerFromBrowser(l)
    <2> DEFINE answer == verifyEntryClient(e)
    <2>1. Holds(l, answer, FALSE) /\ page.status = "encrypted"
        BY <1>6 DEF AnswerFromBrowser
    <2>2. /\ answer \in {"verified", "unverified", "unsigned", "error"}
          /\ answer = "unsigned" => Unsigned(e)
          /\ answer = "verified" => ~Unsigned(e) /\ e.sig \in {oracle, "agent"}
          /\ answer = "unverified" => NeedsContract(e) /\ e.sig # oracle
          /\ answer = "error" => NeedsContract(e) /\ e.sig \notin Signer
        BY <1>3, BrowserSays
    <2> HIDE DEF answer
    <2>3. Says(i, answer, FALSE)
        BY <1>2, <2>1, <2>2 DEF Says, Vouched
    <2> QED BY <1>2, <2>1, <2>2, <2>3, HoldsKeeps
  <1>7. CASE CallFails(l)
    <2>1. CASE Holds(l, "unverified", TRUE)
        BY <1>2, <1>4, <2>1, HoldsKeeps
    <2>2. CASE page.status = "encrypted" /\ NeedsContract(e) /\ Holds(l, "error", TRUE)
      <3>1. Says(i, "error", TRUE)
          BY <2>2 DEF Says
      <3> QED BY <1>2, <2>2, <3>1, HoldsKeeps
    <2> QED BY <1>7, <2>1, <2>2 DEF CallFails
  <1> QED BY <1>5, <1>6, <1>7

LEMMA SetBadgeKeeps == ASSUME IInv, NEW l \in Loop, SetBadge(l) PROVE IInv'
  <1> DEFINE i == loop[l].at
             new == [Off EXCEPT !.phase = "next", !.at = i]
  <1>1. GivenOK /\ PageOK /\ LoopOK /\ BadgeOK /\ AskOK
      BY DEF IInv
  <1>2. Len(Log) \in Nat /\ Index = 1..Len(Log)
      BY <1>1, LogIsSeq
  <1>3. loop[l].phase = "answered" /\ loop[l] \in LoopState /\ i \in Index /\ i \in 0..Len(Log)
      BY <1>1, <1>2 DEF SetBadge, LoopOK
  <1>4. new \in LoopState /\ new.phase = "next" /\ new.at = i
      BY <1>3 DEF LoopState, Off, Badge
  <1>5. /\ loop' = [loop EXCEPT ![l] = new] /\ badge' = [badge EXCEPT ![i] = loop[l].answer]
        /\ lost' = (IF loop[l].failed THEN lost \cup {i} ELSE lost \ {i}) /\ fresh' = fresh \cup {i}
        /\ UNCHANGED <<shown, oracle, page, reveal, view, inForce, rotated>>
      BY DEF SetBadge
  <1>6. /\ loop[l].answer \in {"verified", "unverified", "unsigned", "error"}
        /\ Says(i, loop[l].answer, loop[l].failed) /\ fresh = 1..(i - 1) /\ loop[l].failed \in BOOLEAN
      BY <1>1, <1>3 DEF AskOK, LoopState
  <1> HIDE DEF new, i
  <1>7. /\ receipt' = receipt /\ key' = key /\ Log' = Log /\ Index' = Index /\ LoopState' = LoopState
        /\ page' = page /\ inForce' = inForce
      BY <1>5 DEF shown, Log, Index, LoopState
  <1>8. GivenOK'
      BY <1>1, <1>5, <1>7 DEF GivenOK
  <1>9. PageOK'
      BY <1>5, PageStays
  <1>10. \A m \in Loop : loop'[m] = IF m = l THEN new ELSE loop[m]
      BY <1>1, <1>5 DEF LoopOK
  <1>11. \A m \in Loop : m # l => loop[m].phase = "off"
      BY <1>1, <1>3 DEF LoopOK
  <1>12. loop' \in [Loop -> LoopState']
      BY <1>1, <1>4, <1>5, <1>7 DEF LoopOK
  <1>13. LoopOK'
      BY <1>1, <1>3, <1>4, <1>5, <1>7, <1>10, <1>11, <1>12 DEF LoopOK
  <1>14. /\ badge' \in [Index -> Badge] /\ badge'[i] = loop[l].answer
         /\ \A j \in Index \ {i} : badge'[j] = badge[j]
      BY <1>1, <1>3, <1>5, <1>6 DEF BadgeOK, Badge
  <1>15. i \in lost' <=> loop[l].failed
      BY <1>5, <1>6
  <1>16. fresh' = 1..i /\ i \in 1..Len(Log)
      BY <1>2, <1>3, <1>5, <1>6
  <1>17. BadgeOK'
    <2>1. ASSUME NEW j \in Index PROVE Says(j, badge[j], j \in lost)'
      <3>1. CASE j = i
          BY <1>6, <1>7, <1>14, <1>15, <3>1 DEF Says, Vouched
      <3>2. CASE j # i
        <4>1. Says(j, badge[j], j \in lost) /\ (j \in lost' <=> j \in lost)
            BY <1>1, <1>5, <3>2 DEF BadgeOK
        <4> QED BY <1>7, <1>14, <3>2, <4>1 DEF Says, Vouched
      <3> QED BY <3>1, <3>2
    <2>2. view'.mounted /\ ~view'.completed
        BY <1>1, <1>3, <1>5 DEF LoopOK
    <2>3. \A j \in fresh' : badge'[j] \notin {"pending", "verifying"}
      <3> SUFFICES ASSUME NEW j \in fresh' PROVE badge'[j] \notin {"pending", "verifying"}
          OBVIOUS
      <3>1. CASE j = i
          BY <1>6, <1>14, <3>1
      <3>2. CASE j # i
          BY <1>1, <1>5, <1>14, <3>2 DEF BadgeOK
      <3> QED BY <3>1, <3>2
    <2>4. lost' \subseteq Index /\ fresh' \subseteq Index
        BY <1>1, <1>3, <1>5 DEF BadgeOK
    <2>5. \A j, k \in Index : j < k /\ k \in fresh' => j \in fresh'
        BY <1>2, <1>16
    <2> QED BY <1>1, <1>7, <1>14, <2>1, <2>2, <2>3, <2>4, <2>5 DEF BadgeOK
  <1>18. AskOK'
    <2> SUFFICES ASSUME NEW m \in Loop, loop'[m].phase # "off"
                 PROVE  loop'[m].phase = "next" /\ fresh' = 1..loop'[m].at
        BY DEF AskOK
    <2>1. m = l
        BY <1>10, <1>11
    <2> QED BY <1>4, <1>10, <1>16, <2>1
  <1> QED BY <1>8, <1>9, <1>13, <1>17, <1>18 DEF IInv

LEMMA EndKeeps == ASSUME IInv, NEW l \in Loop, EndCascade(l) PROVE IInv'
  <1>1. GivenOK /\ PageOK /\ LoopOK /\ BadgeOK /\ AskOK
      BY DEF IInv
  <1>2. Len(Log) \in Nat /\ Index = 1..Len(Log)
      BY <1>1, LogIsSeq
  <1>3. /\ loop[l].phase = "next" /\ loop[l] \in LoopState /\ view \in View /\ ~(loop[l].at < Len(Log))
        /\ loop' = [loop EXCEPT ![l] = Off]
        /\ UNCHANGED <<shown, oracle, page, reveal, badge, past, rotated>>
      BY <1>1 DEF EndCascade, MoreEntries, LoopOK
  <1>4. Off \in LoopState /\ Off.phase = "off"
      BY <1>2 DEF Off, LoopState, Badge
  <1>5. view' \in View /\ view'.mounted = view.mounted /\ ~view'.running
      BY <1>3 DEF EndCascade, View
  <1>6. /\ receipt' = receipt /\ key' = key /\ Log' = Log /\ Index' = Index /\ LoopState' = LoopState
        /\ inForce' = inForce /\ lost' = lost /\ fresh' = fresh
      BY <1>3 DEF shown, past, Log, Index, LoopState
  <1>7. fresh = Index
    <2>1. loop[l].at = Len(Log)
        BY <1>2, <1>3 DEF LoopState
    <2> QED BY <1>1, <1>2, <1>3, <2>1 DEF AskOK
  <1>8. GivenOK'
      BY <1>1, <1>3, <1>6 DEF GivenOK
  <1>9. PageOK'
      BY <1>3, <1>5, PageStays
  <1>10. loop' \in [Loop -> LoopState'] /\ \A m \in Loop : loop'[m].phase = "off"
    <2>1. \A m \in Loop : m # l => loop[m].phase = "off"
        BY <1>1, <1>3 DEF LoopOK
    <2> QED BY <1>1, <1>3, <1>4, <1>6, <2>1 DEF LoopOK
  <1>11. LoopOK'
      BY <1>1, <1>3, <1>5, <1>10 DEF LoopOK
  <1>12. BadgeOK'
      BY <1>1, <1>3, <1>5, <1>6, <1>7 DEF BadgeOK, Says, Vouched
  <1>13. AskOK'
      BY <1>10 DEF AskOK
  <1> QED BY <1>8, <1>9, <1>11, <1>12, <1>13 DEF IInv

-----------------------------------------------------------------------------
(***************************************************************************)
(* The visitor and the owner of the oracle.                                *)
(***************************************************************************)

LEMMA ReloadKeeps == ASSUME IInv, Reload PROVE IInv'
  <1>1. receipt' = receipt /\ key' = key /\ oracle' = oracle /\ Closed'
      BY DEF Reload, Closed, shown, Index, Log
  <1>2. GivenOK'
      BY <1>1 DEF IInv, GivenOK
  <1>3. Len(Log') \in Nat
      BY <1>1, LogIsSeq DEF IInv, Log
  <1>4. page' \in LoadingPage' /\ page'.state = "loading"
      BY <1>1, <1>3 DEF Closed, LoadingPage
  <1>5. view' \in View /\ ~view'.mounted /\ ~view'.completed
      BY <1>1, ViewTypes DEF Closed
  <1>6. PageOK'
      BY <1>1, <1>4, <1>5 DEF PageOK, Closed
  <1>7. loop' \in [Loop -> LoopState'] /\ \A l \in Loop : loop'[l].phase = "off"
      BY <1>1, <1>3 DEF Closed, LoopState, Off, Badge
  <1>8. LoopOK'
      BY <1>1, <1>5, <1>7 DEF LoopOK, Closed
  <1>9. /\ badge' \in [Index' -> Badge] /\ \A i \in Index' : badge'[i] = "pending"
        /\ inForce' \in [Index' -> SUBSET Oracle] /\ lost' = {} /\ fresh' = {}
      BY <1>1 DEF Closed, Badge
  <1>10. BadgeOK'
      BY <1>5, <1>9 DEF BadgeOK, Says
  <1>11. AskOK'
      BY <1>7 DEF AskOK
  <1> QED BY <1>2, <1>6, <1>8, <1>10, <1>11 DEF IInv

LEMMA RotateKeeps == ASSUME IInv, NEW new \in Oracle, updateOracleAddress(new) PROVE IInv'
  <1>1. GivenOK /\ PageOK /\ LoopOK /\ BadgeOK /\ AskOK
      BY DEF IInv
  <1>2. /\ oracle' = new /\ rotated' = TRUE
        /\ UNCHANGED <<shown, page, reveal, view, badge, loop, lost, fresh>>
        /\ inForce' = [i \in Index |->
               IF \E l \in Loop : loop[l].at = i /\ loop[l].phase = "asked"
               THEN inForce[i] \cup {new} ELSE inForce[i]]
      BY DEF updateOracleAddress
  <1>3. receipt' = receipt /\ key' = key /\ Log' = Log /\ Index' = Index /\ LoopState' = LoopState
      BY <1>2 DEF shown, Log, Index, LoopState
  <1>4. GivenOK'
      BY <1>1, <1>2, <1>3 DEF GivenOK
  <1>5. PageOK'
      BY <1>2, PageStays
  <1>6. LoopOK'
      BY <1>1, <1>2, <1>3 DEF LoopOK
  <1>7. inForce' \in [Index -> SUBSET Oracle] /\ \A i \in Index : inForce[i] \subseteq inForce'[i]
      BY <1>1, <1>2 DEF BadgeOK
  <1>8. \A i \in Index : (\A l \in Loop : loop[l].at = i => loop[l].phase # "asked") => inForce'[i] = inForce[i]
      BY <1>2
  <1>9. BadgeOK'
    <2>1. ASSUME NEW i \in Index PROVE Says(i, badge[i], i \in lost)'
      <3>1. Says(i, badge[i], i \in lost)
          BY <1>1 DEF BadgeOK
      <3>2. CASE \E l \in Loop : loop[l].at = i /\ loop[l].phase = "asked"
        <4>1. badge'[i] = "verifying"
            BY <1>1, <1>2, <3>2 DEF AskOK
        <4> QED BY <4>1 DEF Says
      <3>3. CASE \A l \in Loop : loop[l].at = i => loop[l].phase # "asked"
          BY <1>2, <1>3, <1>8, <3>1, <3>3 DEF Says, Vouched
      <3> QED BY <3>2, <3>3
    <2> QED BY <1>1, <1>2, <1>3, <1>7, <2>1 DEF BadgeOK
  <1>10. AskOK'
    <2> SUFFICES ASSUME NEW l \in Loop
                 PROVE  /\ loop[l].phase = "asked" => new \in inForce'[loop[l].at]
                        /\ loop[l].phase = "answered" => Says(loop[l].at, loop[l].answer, loop[l].failed)'
        BY <1>1, <1>2 DEF AskOK
    <2>1. loop[l].phase \in {"asked", "answered"} => loop[l].at \in Index
        BY <1>1 DEF LoopOK
    <2>2. ASSUME loop[l].phase = "answered" PROVE Says(loop[l].at, loop[l].answer, loop[l].failed)'
      <3>1. Says(loop[l].at, loop[l].answer, loop[l].failed)
          BY <1>1, <2>2 DEF AskOK
      <3>2. \A m \in Loop : loop[m].at = loop[l].at => loop[m].phase # "asked"
          BY <1>1, <2>2 DEF LoopOK
      <3>3. inForce'[loop[l].at] = inForce[loop[l].at]
          BY <1>8, <2>1, <2>2, <3>2
      <3> QED BY <1>2, <1>3, <3>1, <3>3 DEF Says, Vouched
    <2> QED BY <1>2, <2>1, <2>2
  <1> QED BY <1>4, <1>5, <1>6, <1>9, <1>10 DEF IInv

LEMMA StutterKeeps == ASSUME IInv, UNCHANGED vars PROVE IInv'
  <1>1. GivenOK /\ PageOK /\ LoopOK /\ BadgeOK /\ AskOK
      BY DEF IInv
  <1>2. /\ receipt' = receipt /\ key' = key /\ oracle' = oracle /\ page' = page /\ reveal' = reveal
        /\ view' = view /\ badge' = badge /\ loop' = loop /\ inForce' = inForce /\ lost' = lost
        /\ fresh' = fresh /\ rotated' = rotated
      BY DEF vars, shown, past
  <1>3. Log' = Log /\ Index' = Index /\ LoopState' = LoopState
      BY <1>2 DEF Log, Index, LoopState
  <1>4. PageOK'
      BY <1>2, PageStays DEF shown
  <1>5. GivenOK' /\ LoopOK'
      BY <1>1, <1>2, <1>3 DEF GivenOK, LoopOK
  <1>6. BadgeOK' /\ AskOK'
      BY <1>1, <1>2, <1>3 DEF BadgeOK, AskOK, Says, Vouched
  <1> QED BY <1>4, <1>5, <1>6 DEF IInv

LEMMA IInvNext == IInv /\ [Next]_vars => IInv'
  <1> SUFFICES ASSUME IInv, [Next]_vars PROVE IInv'
      OBVIOUS
  <1>1. CASE PageStep
      BY <1>1, ResolveKeeps, ComputeKeeps DEF PageStep
  <1>2. CASE FetchEnvelope \/ fetchEncryptedEnvelope \/ decryptSessionLog
      BY <1>2, RevealKeeps
  <1>3. CASE AutoVerify \/ Click
    <2>1. "timer" \in Loop /\ "click" \in Loop
        BY VerificationAssumption
    <2> QED BY <1>3, <2>1, StartKeeps DEF AutoVerify, Click
  <1>4. ASSUME NEW l \in Loop, CascadeStep(l) PROVE IInv'
      BY <1>4, AskKeeps, AnswerKeeps, SetBadgeKeeps, EndKeeps DEF CascadeStep
  <1>5. CASE Reload
      BY <1>5, ReloadKeeps
  <1>6. CASE \E new \in Oracle : updateOracleAddress(new)
      BY <1>6, RotateKeeps
  <1>7. CASE UNCHANGED vars
      BY <1>7, StutterKeeps
  <1> QED BY <1>1, <1>2, <1>3, <1>4, <1>5, <1>6, <1>7 DEF Next

-----------------------------------------------------------------------------
(***************************************************************************)
(* The aggregate status against the badges.  As long as the oracle is the  *)
(* one it was when the page was asked for, both are about this oracle.     *)
(***************************************************************************)

Passes(e) == e.sig = "none" \/ (e.attested /\ e.sig \in {"agent", oracle})
Fails(e)  == e.sig # "none" /\ (e.attested => NeedsContract(e) /\ e.sig # oracle)

AggregateOK ==
    ~rotated =>
        /\ page.state = "checking" =>
              /\ page.at \in Index /\ \E i \in Index : Log[i].sig # "none"
              /\ \A i \in Index : i < page.at => Passes(Log[i])
        /\ page.state = "shown" =>
              /\ page.status = "verified" =>
                    /\ \E i \in Index : Log[i].sig # "none"
                    /\ \A i \in Index : Passes(Log[i])
              /\ page.status = "preview" => \A i \in Index : Log[i].sig = "none"
              /\ page.status = "unverified" => \E i \in Index : Fails(Log[i])
        /\ \A i \in Index : inForce[i] = {oracle} \/ badge[i] = "pending"

LEMMA AggregateInit == Init => AggregateOK
  BY DEF Init, Closed, AggregateOK

(* Steps that neither render nor ask.                                      *)
LEMMA AggregateStays ==
    ASSUME IInv, AggregateOK, UNCHANGED <<shown, oracle, page, inForce, rotated>>,
           \A i \in Index : badge'[i] = "pending" \/ badge[i] # "pending"
    PROVE  AggregateOK'
  <1>1. /\ receipt' = receipt /\ oracle' = oracle /\ page' = page /\ inForce' = inForce
        /\ rotated' = rotated /\ Log' = Log /\ Index' = Index
      BY DEF shown, Log, Index
  <1>2. \A i \in Index : (Passes(Log[i])' <=> Passes(Log[i])) /\ (Fails(Log[i])' <=> Fails(Log[i]))
      BY <1>1 DEF Passes, Fails
  <1>3. CASE rotated
      BY <1>1, <1>3 DEF AggregateOK
  <1>4. CASE ~rotated
    <2>1. \A i \in Index : inForce'[i] = {oracle'} \/ badge'[i] = "pending"
        BY <1>1, <1>4 DEF AggregateOK
    <2> QED BY <1>1, <1>2, <1>4, <2>1 DEF AggregateOK
  <1> QED BY <1>3, <1>4

(* What a rendered page says, given what it found.                         *)
LEMMA AggregateShown ==
    ASSUME IInv, AggregateOK, NEW status \in Status, ShowPage(status), ~rotated,
           status = "verified" =>
               /\ \E i \in Index : Log[i].sig # "none"
               /\ \A i \in Index : Passes(Log[i]),
           status = "preview" => \A i \in Index : Log[i].sig = "none",
           status = "unverified" => \E i \in Index : Fails(Log[i])
    PROVE  AggregateOK'
  <1>1. /\ receipt' = receipt /\ oracle' = oracle /\ inForce' = inForce /\ badge' = badge
        /\ Log' = Log /\ Index' = Index
        /\ page' = [state |-> "shown", status |-> status]
      BY DEF ShowPage, shown, past, Log, Index
  <1>2. \A i \in Index : (Passes(Log[i])' <=> Passes(Log[i])) /\ (Fails(Log[i])' <=> Fails(Log[i]))
      BY <1>1 DEF Passes, Fails
  <1>3. page'.state = "shown" /\ page'.status = status
      BY <1>1
  <1>4. \A i \in Index : inForce'[i] = {oracle'} \/ badge'[i] = "pending"
      BY <1>1 DEF AggregateOK
  <1> QED BY <1>1, <1>2, <1>3, <1>4 DEF AggregateOK

LEMMA AggregatePage == ASSUME IInv, AggregateOK, PageStep PROVE AggregateOK'
  <1>1. /\ GivenOK /\ PageOK /\ rotated' = rotated
        /\ UNCHANGED <<shown, oracle, badge, inForce>>
    <2>1. ASSUME NEW code, FailPage(code)
          PROVE  UNCHANGED <<shown, oracle, badge, inForce, rotated>>
        BY <2>1 DEF FailPage, past
    <2>2. ASSUME NEW status, ShowPage(status)
          PROVE  UNCHANGED <<shown, oracle, badge, inForce, rotated>>
        BY <2>2 DEF ShowPage, past
    <2>3. ASSUME Pass PROVE UNCHANGED <<shown, oracle, badge, inForce, rotated>>
        BY <2>2, <2>3 DEF Pass, past
    <2>4. ASSUME computeVerificationStatus PROVE UNCHANGED <<shown, oracle, badge, inForce, rotated>>
        BY <2>1, <2>2, <2>3, <2>4 DEF computeVerificationStatus
    <2>5. ASSUME resolveProof PROVE UNCHANGED <<shown, oracle, badge, inForce, rotated>>
      <3>1. parseSessionLog(receipt) \in {"invalid", "envelope", "plaintext"}
          BY DEF parseSessionLog
      <3>2. CASE parseSessionLog(receipt) = "invalid"
          BY <2>1, <2>5, <3>2 DEF resolveProof
      <3>3. CASE parseSessionLog(receipt) = "envelope"
          BY <2>1, <2>2, <2>5, <3>3 DEF resolveProof
      <3>4. CASE parseSessionLog(receipt) = "plaintext"
          BY <2>1, <2>2, <2>5, <3>4 DEF resolveProof, past
      <3> QED BY <3>1, <3>2, <3>3, <3>4
    <2> QED BY <2>4, <2>5 DEF IInv, PageStep
  <1>2. Len(Log) \in Nat /\ Index = 1..Len(Log) /\ Log \in Seq(Entry)
      BY <1>1, LogIsSeq
  <1>3. receipt' = receipt /\ oracle' = oracle /\ Log' = Log /\ Index' = Index
      BY <1>1 DEF shown, Log, Index
  <1>4. CASE rotated
      BY <1>1, <1>4 DEF AggregateOK
  <1>5. ASSUME NEW code \in Failure, FailPage(code), ~rotated PROVE AggregateOK'
      BY <1>1, <1>3, <1>5 DEF FailPage, AggregateOK
  <1>6. CASE ~rotated /\ resolveProof
    <2>1. CASE ShowPage("encrypted")
        BY <1>6, <2>1, AggregateShown DEF Status
    <2>2. CASE ShowPage("preview") /\ \A i \in Index : Log[i].sig = "none"
        BY <1>6, <2>2, AggregateShown DEF Status
    <2>3. CASE /\ ~(\A i \in Index : Log[i].sig = "none")
               /\ page' = [state |-> "checking", at |-> 1]
      <3>1. 1 \in Index /\ page'.state = "checking" /\ page'.at = 1 /\ \A i \in Index : ~(i < 1)
          BY <1>2, <2>3
      <3> QED BY <1>1, <1>3, <1>6, <2>3, <3>1 DEF AggregateOK
    <2>4. FailPage("TRANSPORT_FAILED") \/ FailPage("TOKEN_NOT_FOUND") \/ FailPage("NO_EXEC_LOG_ANCHOR")
          \/ FailPage("MALFORMED_DATA_DESCRIPTION") \/ FailPage("STORAGE_BLOB_INVALID")
          \/ FailPage("SESSION_ID_MISMATCH") => \E code \in Failure : FailPage(code)
        BY DEF Failure
    <2>5. CASE \E code \in Failure : FailPage(code)
        BY <1>5, <1>6, <2>5
    <2>6. parseSessionLog(receipt) \in {"invalid", "envelope", "plaintext"}
        BY DEF parseSessionLog
    <2>7. CASE receipt.token = "receipt" /\ parseSessionLog(receipt) = "plaintext"
        BY <1>6, <2>2, <2>3, <2>4, <2>5, <2>7 DEF resolveProof
    <2>8. CASE receipt.token = "receipt" /\ parseSessionLog(receipt) = "envelope"
        BY <1>6, <2>1, <2>4, <2>5, <2>8 DEF resolveProof
    <2>9. CASE receipt.token = "receipt" /\ parseSessionLog(receipt) = "invalid"
        BY <1>6, <2>4, <2>5, <2>9 DEF resolveProof
    <2>10. CASE receipt.token # "receipt"
        BY <1>6, <2>4, <2>5, <2>10 DEF resolveProof
    <2> QED BY <2>6, <2>7, <2>8, <2>9, <2>10
  <1>7. CASE ~rotated /\ computeVerificationStatus
    <2> DEFINE k == page.at
               e == Log[k]
    <2>1. /\ page.state = "checking" /\ k \in Index /\ \E i \in Index : Log[i].sig # "none"
          /\ \A i \in Index : i < k => Passes(Log[i])
        BY <1>7 DEF computeVerificationStatus, AggregateOK
    <2>2. e \in Entry /\ oracle \in Oracle
        BY <1>1, <1>2, <2>1 DEF GivenOK
    <2>3. CASE Pass /\ Passes(e)
      <3>1. \A i \in Index : i < k + 1 => Passes(Log[i])
        <4> SUFFICES ASSUME NEW i \in Index, i < k + 1 PROVE Passes(Log[i])
            OBVIOUS
        <4>1. i < k \/ i = k
            BY <1>2, <2>1
        <4> QED BY <2>1, <2>3, <4>1
      <3>2. CASE k = Len(Log)
        <4>1. ShowPage("verified") /\ \A i \in Index : i < k + 1
            BY <1>2, <2>3, <3>2 DEF Pass
        <4> QED BY <1>7, <2>1, <3>1, <4>1, AggregateShown DEF Status
      <3>3. CASE k # Len(Log)
        <4>1. page \in LoadingPage
            BY <1>1, <2>1 DEF PageOK, ShownPage, FailedPage
        <4>2. page' = [page EXCEPT !.at = k + 1]
            BY <2>3, <3>3 DEF Pass
        <4>3. page'.state = "checking" /\ page'.at = k + 1
            BY <2>1, <4>1, <4>2 DEF LoadingPage
        <4>4. k + 1 \in Index
            BY <1>2, <2>1, <3>3
        <4>5. \A i \in Index : Passes(Log[i])' <=> Passes(Log[i])
            BY <1>3 DEF Passes
        <4> HIDE DEF k
        <4> QED BY <1>1, <1>3, <1>7, <2>1, <3>1, <4>3, <4>4, <4>5 DEF AggregateOK
      <3> QED BY <3>2, <3>3
    <2>4. CASE ShowPage("unverified") /\ Fails(e)
        BY <1>7, <2>1, <2>4, AggregateShown DEF Status
    <2>5. CASE FailPage("TRANSPORT_FAILED")
        BY <1>5, <1>7, <2>5 DEF Failure
    <2>6. CASE e.sig = "none" /\ Pass
        BY <2>3, <2>6 DEF Passes
    <2>7. CASE e.sig # "none" /\ ~hasAttestationFields(e) /\ ShowPage("unverified")
        BY <2>2, <2>4, <2>7, Names DEF Fails, hasAttestationFields
    <2>8. CASE ~Unsigned(e) /\ RecoversToAgent(e) /\ Pass
        BY <2>3, <2>8 DEF Passes, Unsigned, RecoversToAgent, hasAttestationFields
    <2>9. CASE NeedsContract(e) /\ verifyTEESignature(e) = "yes" /\ Pass
      <3>1. e.sig = oracle /\ e.attested
          BY <2>2, <2>9, ContractSays DEF NeedsContract, Unsigned, hasAttestationFields
      <3> QED BY <2>3, <2>9, <3>1 DEF Passes
    <2>10. CASE NeedsContract(e) /\ verifyTEESignature(e) \in {"no", "reason"} /\ ShowPage("unverified")
      <3>1. e.sig # oracle /\ e.sig # "none"
          BY <2>2, <2>10, ContractSays DEF NeedsContract, Unsigned
      <3> QED BY <2>4, <2>10, <3>1 DEF Fails
    <2> QED BY <1>7, <2>5, <2>6, <2>7, <2>8, <2>9, <2>10 DEF computeVerificationStatus
  <1> QED BY <1>4, <1>6, <1>7 DEF PageStep

LEMMA AggregateNext == IInv /\ AggregateOK /\ [Next]_vars => AggregateOK'
  <1> SUFFICES ASSUME IInv, AggregateOK, [Next]_vars PROVE AggregateOK'
      OBVIOUS
  <1>1. GivenOK /\ LoopOK /\ BadgeOK /\ AskOK
      BY DEF IInv
  <1>2. CASE PageStep
      BY <1>2, AggregatePage
  <1>3. CASE UNCHANGED <<shown, oracle, page, badge, inForce, rotated>>
      BY <1>3, AggregateStays
  <1>4. CASE FetchEnvelope \/ fetchEncryptedEnvelope \/ decryptSessionLog
      BY <1>3, <1>4 DEF FetchEnvelope, fetchEncryptedEnvelope, decryptSessionLog, Reveals, past
  <1>5. CASE AutoVerify \/ Click
      BY <1>3, <1>5 DEF AutoVerify, Click, verifyOnChain, past
  <1>6. ASSUME NEW l \in Loop, AskEntry(l) PROVE AggregateOK'
    <2> DEFINE i == loop[l].at + 1
    <2>1. /\ badge' = [badge EXCEPT ![i] = "verifying"] /\ inForce' = [inForce EXCEPT ![i] = {oracle}]
          /\ UNCHANGED <<shown, oracle, page, rotated>>
        BY <1>6 DEF AskEntry
    <2>2. i \in Index
      <3>1. loop[l] \in LoopState /\ loop[l].at < Len(Log) /\ Len(Log) \in Nat /\ Index = 1..Len(Log)
          BY <1>1, <1>6, LogIsSeq DEF LoopOK, AskEntry, MoreEntries
      <3> QED BY <3>1 DEF LoopState
    <2> HIDE DEF i
    <2>3. /\ receipt' = receipt /\ oracle' = oracle /\ page' = page /\ rotated' = rotated
          /\ Log' = Log /\ Index' = Index
        BY <2>1 DEF shown, Log, Index
    <2>4. \A j \in Index : (Passes(Log[j])' <=> Passes(Log[j])) /\ (Fails(Log[j])' <=> Fails(Log[j]))
        BY <2>3 DEF Passes, Fails
    <2>5. CASE rotated
        BY <2>3, <2>5 DEF AggregateOK
    <2>6. CASE ~rotated
      <3>1. \A j \in Index : inForce'[j] = {oracle'} \/ badge'[j] = "pending"
          BY <1>1, <2>1, <2>2, <2>3, <2>6 DEF AggregateOK, BadgeOK
      <3> QED BY <2>3, <2>4, <2>6, <3>1 DEF AggregateOK
    <2> QED BY <2>5, <2>6
  <1>7. ASSUME NEW l \in Loop, SetBadge(l) PROVE AggregateOK'
    <2>1. loop[l].at \in Index /\ badge[loop[l].at] = "verifying"
        BY <1>1, <1>7 DEF LoopOK, AskOK, SetBadge
    <2>2. badge' = [badge EXCEPT ![loop[l].at] = loop[l].answer]
          /\ UNCHANGED <<shown, oracle, page, inForce, rotated>>
        BY <1>7 DEF SetBadge
    <2>3. \A i \in Index : badge'[i] = "pending" \/ badge[i] # "pending"
        BY <1>1, <2>1, <2>2 DEF BadgeOK
    <2> QED BY <2>2, <2>3, AggregateStays
  <1>8. ASSUME NEW l \in Loop,
               AnswerFromServer(l) \/ AnswerFromBrowser(l) \/ CallFails(l) \/ EndCascade(l)
        PROVE  AggregateOK'
      BY <1>3, <1>8 DEF AnswerFromServer, AnswerFromBrowser, CallFails, EndCascade, Holds, past
  <1>9. CASE Reload
    <2>1. page'.state = "loading" /\ \A i \in Index' : badge'[i] = "pending"
        BY <1>9 DEF Reload, shown, Index, Log
    <2> QED BY <2>1 DEF AggregateOK
  <1>10. CASE \E new \in Oracle : updateOracleAddress(new)
      BY <1>10 DEF updateOracleAddress, AggregateOK
  <1>11. CASE UNCHANGED vars
      BY <1>3, <1>11 DEF vars, past
  <1> QED BY <1>2, <1>4, <1>5, <1>6, <1>7, <1>8, <1>9, <1>10, <1>11 DEF Next, CascadeStep

LEMMA AggregateImplies == IInv /\ AggregateOK => AggregateAgrees
  <1> SUFFICES ASSUME IInv, AggregateOK, page.state = "shown", page.status # "encrypted", view.completed,
                      ~rotated, lost = {}
               PROVE  /\ NumericHero = "replay verification" => page.status = "verified" \/ Log = <<>>
                      /\ page.status = "verified" => "green" \in Colours /\ Colours \subseteq {"green", "amber"}
                      /\ page.status = "preview" => Colours \subseteq {"amber"}
                      /\ page.status = "unverified" =>
                            \/ NumericHero = "re-run failed verification"
                            \/ \E i \in Index : Log[i].sig # "none" /\ ~Log[i].attested
      BY DEF AggregateAgrees
  <1>1. GivenOK /\ PageOK /\ LoopOK /\ BadgeOK
      BY DEF IInv
  <1>2. Log \in Seq(Entry) /\ Len(Log) \in Nat /\ Index = 1..Len(Log)
      BY <1>1, LogIsSeq
  <1>3. ~view.running
      BY <1>1 DEF LoopOK
  <1>4. \A i \in Index : badge[i] \in {"verified", "unverified", "unsigned"} /\ inForce[i] = {oracle}
    <2> SUFFICES ASSUME NEW i \in Index
                 PROVE  badge[i] \in {"verified", "unverified", "unsigned"} /\ inForce[i] = {oracle}
        OBVIOUS
    <2>1. badge[i] \in Badge /\ badge[i] \notin {"pending", "verifying"} /\ Says(i, badge[i], i \in lost)
        BY <1>1 DEF BadgeOK
    <2>2. badge[i] # "error"
        BY <2>1 DEF Says
    <2> QED BY <2>1, <2>2 DEF Badge, AggregateOK
  <1>5. \A i \in Index :
          /\ badge[i] = "unsigned" => Unsigned(Log[i])
          /\ badge[i] = "verified" => ~Unsigned(Log[i]) /\ Log[i].sig \in {oracle, "agent"}
          /\ badge[i] = "unverified" => NeedsContract(Log[i]) /\ Log[i].sig # oracle
      BY <1>1, <1>4 DEF BadgeOK, Says, Vouched
  <1>6. ASSUME NEW i \in Index, Passes(Log[i])
        PROVE  badge[i] = IF Log[i].sig = "none" THEN "unsigned" ELSE "verified"
      BY <1>4, <1>5, <1>6 DEF Passes, Unsigned, NeedsContract, RecoversToAgent, hasAttestationFields
  <1>7. ASSUME NEW i \in Index, Fails(Log[i]) PROVE badge[i] # "verified"
                                                    /\ (Log[i].attested => badge[i] = "unverified")
    <2>1. badge[i] # "verified"
        BY <1>5, <1>7 DEF Fails, Unsigned, NeedsContract, RecoversToAgent, hasAttestationFields
    <2>2. Log[i].attested => badge[i] = "unverified"
        BY <1>4, <1>5, <1>7, <2>1 DEF Fails, NeedsContract
    <2> QED BY <2>1, <2>2
  <1>8. page.status \in Status
      BY <1>1 DEF PageOK, LoadingPage, ShownPage, FailedPage
  <1>9. ASSUME NumericHero = "replay verification" PROVE page.status = "verified" \/ Log = <<>>
    <2>1. \A i \in Index : badge[i] = "verified"
        BY <1>9 DEF NumericHero, allVerified
    <2>2. CASE page.status = "preview"
      <3>1. \A i \in Index : Log[i].sig = "none"
          BY <2>2 DEF AggregateOK
      <3>2. Index = {}
          BY <1>5, <2>1, <3>1 DEF Unsigned
      <3> QED BY <1>2, <3>2
    <2>3. CASE page.status = "unverified"
        BY <1>7, <2>1, <2>3 DEF AggregateOK
    <2> QED BY <1>8, <2>2, <2>3 DEF Status
  <1>10. ASSUME page.status = "verified" PROVE "green" \in Colours /\ Colours \subseteq {"green", "amber"}
    <2>1. \A i \in Index : EntryBadge(badge[i]) = IF Log[i].sig = "none" THEN "amber" ELSE "green"
        BY <1>6, <1>10 DEF AggregateOK, EntryBadge
    <2>2. \E i \in Index : Log[i].sig # "none"
        BY <1>10 DEF AggregateOK
    <2> QED BY <2>1, <2>2 DEF Colours
  <1>11. ASSUME page.status = "preview" PROVE Colours \subseteq {"amber"}
    <2>1. \A i \in Index : badge[i] = "unsigned"
        BY <1>6, <1>11 DEF AggregateOK, Passes
    <2> QED BY <2>1 DEF Colours, EntryBadge
  <1>12. ASSUME page.status = "unverified"
         PROVE  \/ NumericHero = "re-run failed verification"
                \/ \E i \in Index : Log[i].sig # "none" /\ ~Log[i].attested
    <2>1. PICK i \in Index : Fails(Log[i])
        BY <1>12 DEF AggregateOK
    <2>2. CASE ~Log[i].attested
        BY <2>1, <2>2 DEF Fails
    <2>3. CASE Log[i].attested
      <3>1. badge[i] = "unverified"
          BY <1>7, <2>1, <2>3
      <3> QED BY <1>3, <3>1 DEF NumericHero, allVerified, anyFailed
    <2> QED BY <2>2, <2>3
  <1> QED BY <1>9, <1>10, <1>11, <1>12

-----------------------------------------------------------------------------
LEMMA Invariance == Spec => []IInv
  BY IInvInit, IInvNext, PTL DEF Spec

(* Every state of page, cascade and badges is well formed.                 *)
THEOREM VerificationTypes == Spec => []TypeOK
  <1>1. IInv => TypeOK
      BY DEF IInv, GivenOK, PageOK, LoopOK, BadgeOK, TypeOK,
             LoadingPage, ShownPage, FailedPage, View, LoopState
  <1> QED BY <1>1, Invariance, PTL

(* No badge ever says of an entry what was not so while it was asked about *)
(* (verifyOneEntry, verifyEntryClient, SessionView's verifyOnChain).       *)
THEOREM BadgesAreTruthful == Spec => []BadgeTruthful
  <1>1. IInv => BadgeTruthful
      BY DEF IInv, BadgeOK, BadgeTruthful, Says
  <1> QED BY <1>1, Invariance, PTL

(* No entry is shown of a log the token does not anchor, and none of an    *)
(* encrypted one without its key (resolveProof, decryptSessionLog).        *)
THEOREM EntriesMatchTheAnchor == Spec => []ShownMatchesAnchor
  <1>1. IInv => ShownMatchesAnchor
      BY DEF IInv, PageOK, ShownMatchesAnchor, parseSessionLog, isEncryptedEnvelope
  <1> QED BY <1>1, Invariance, PTL

(* Timer, button and replays never make two loops, skip an entry, or end a *)
(* cascade with headline and ticker apart (SessionView, the ticker).       *)
THEOREM CascadesAreOrderly == Spec => []CascadeOrderly
  <1>1. ASSUME IInv PROVE CascadeOrderly
    <2>1. GivenOK /\ LoopOK /\ BadgeOK /\ AskOK
        BY <1>1 DEF IInv
    <2>2. ASSUME NEW l \in Loop, loop[l].phase \in {"asked", "answered"}
          PROVE  VerificationTicker = "verifying"
      <3>1. loop[l].at \in Index /\ badge[loop[l].at] = "verifying"
          BY <2>1, <2>2 DEF LoopOK, AskOK
      <3> QED BY <3>1 DEF VerificationTicker
    <2>3. ASSUME view.completed
          PROVE  /\ ~view.running /\ fresh = Index
                 /\ (NumericHero = "replay verification") = (VerificationTicker = "all verified")
                 /\ VerificationTicker \in {"all verified", "complete"}
      <3>1. ~view.running /\ fresh = Index /\ \A i \in Index : badge[i] \notin {"pending", "verifying"}
          BY <2>1, <2>3 DEF LoopOK, BadgeOK
      <3>2. CASE \A i \in Index : badge[i] = "verified"
          BY <2>3, <3>1, <3>2 DEF NumericHero, VerificationTicker, allVerified
      <3>3. CASE ~(\A i \in Index : badge[i] = "verified")
          BY <2>3, <3>1, <3>3 DEF NumericHero, VerificationTicker, allVerified
      <3> QED BY <3>1, <3>2, <3>3
    <2> QED BY <2>1, <2>2, <2>3 DEF CascadeOrderly, LoopOK, BadgeOK
  <1> QED BY <1>1, Invariance, PTL

(* What the server computes for the whole page and the badges computed one *)
(* by one come to the same, unless the oracle was rotated or a call failed *)
(* (computeVerificationStatus, verifyOneEntry, SessionView).               *)
THEOREM AggregateMatchesBadges == Spec => []AggregateAgrees
  <1>1. Init => IInv /\ AggregateOK
      BY IInvInit, AggregateInit
  <1>2. (IInv /\ AggregateOK) /\ [Next]_vars => (IInv /\ AggregateOK)'
      BY IInvNext, AggregateNext
  <1> QED BY <1>1, <1>2, AggregateImplies, PTL DEF Spec

-----------------------------------------------------------------------------
(***************************************************************************)
(* The adapter.  The invariant remembers what brought an attempt to its    *)
(* state: that the headers were parsed, whose signature it holds, that the *)
(* oracle of the moment is among those counted, and which of them answered.*)
(***************************************************************************)

AttemptUntouched ==
    attempt.state \in {"received", "attested"} =>
        /\ attempt.code = "none" /\ attempt.signer = "zero" /\ ~attempt.valid /\ ~attempt.down
        /\ attempt.state = "attested" => response.signature # "absent"

AttemptAsking ==
    attempt.state = "asking" =>
        /\ response.signature \in {"loose", "sound"} /\ oracle \in during
        /\ attempt.signer = recoverAddress(response, attempt.parsed)
        /\ attempt.code = "none" /\ ~attempt.down

AttemptDecided ==
    attempt.state = "verdict" =>
        /\ attempt.code = "none"
        /\ \/ response.signature = "broken" /\ attempt.signer = "zero" /\ ~attempt.valid
           \/ /\ response.signature = "sound"
              /\ attempt.signer = recoverAddress(response, attempt.parsed)
              /\ \E o \in during : attempt.valid = (attempt.signer = o)

AttemptFailed ==
    attempt.state = "failed" =>
        \/ attempt.code = refusal(response) /\ attempt.code # "none"
        \/ /\ attempt.code = "VERIFIER_CALL_FAILED"
           /\ \/ attempt.down \/ response.signature = "loose"
              \/ ~attempt.parsed /\ response.signature \in {"nohex", "short"}

AdapterInv ==
    /\ AdapterTypeOK
    /\ attempt.parsed => refusal(response) = "none"
    /\ AttemptUntouched /\ AttemptAsking /\ AttemptDecided /\ AttemptFailed

LEMMA SignerNames ==
    /\ {"zero", "somebody"} \cap Signer = {} /\ {"none", "broken", "short"} \cap Signer = {}
    /\ "agent" \in Signer /\ "agent" \notin Oracle /\ Oracle \subseteq Signer
  BY AdapterAssumption, Names DEF Signer

LEMMA RefusalCodes ==
    /\ refusal(response) \in HeaderError \cup {"none"}
    /\ "VERIFIER_CALL_FAILED" \notin HeaderError /\ "none" \notin HeaderError
    /\ refusal(response) = "none" => response.signature \notin {"absent", "nohex", "short"}
    /\ refusal(response) = "AGENT_WRAPPER_SIGNATURE_LENGTH" => response.signature \in {"nohex", "short"}
    /\ AsWritten(response) /\ response.signature \in {"broken", "loose", "sound"} => refusal(response) = "none"
  BY DEF refusal, HeaderError, normalizeSignature, AsWritten

LEMMA RecoversTo ==
    ASSUME AdapterTypeOK, NEW parsed \in BOOLEAN
    PROVE  /\ recoverAddress(response, parsed) \in Signer \cup {"somebody"}
           /\ recoverAddress(response, parsed) \in Signer =>
                 /\ recoverAddress(response, parsed) = response.by /\ response.intact
                 /\ response.timestamp = "canonical"
                 /\ parsed => response.agentId # "bare" /\ response.sealId # "bare"
           /\ AsWritten(response) /\ response.intact => recoverAddress(response, parsed) = response.by
  <1>1. response.by \in Signer
      BY DEF AdapterTypeOK, Response
  <1> QED BY <1>1, SignerNames DEF recoverAddress, reconstructSigningMessage, AsWritten

LEMMA PresentedSays ==
    ASSUME oracle \in Oracle, NEW signature \in {"loose", "sound"}, NEW signer \in Signer \cup {"somebody"}
    PROVE  LET answer == verifyTEESignature(Presented(signature, signer))
           IN  IF signature = "sound" THEN answer = (IF signer = oracle THEN "yes" ELSE "no")
               ELSE answer = "revert"
  <1>1. signer \notin {"short", "broken"}
      BY SignerNames, Names
  <1> QED BY <1>1 DEF Presented, verifyTEESignature

LEMMA AdapterStarts == AdapterInit => AdapterInv
BY DEF AdapterInit, Received, AdapterInv, AdapterTypeOK, AttemptUntouched, AttemptAsking,
       AttemptDecided, AttemptFailed

LEMMA ParseKeeps == ASSUME AdapterInv, parse \/ HandMade, UNCHANGED oracle PROVE AdapterInv'
  <1>1. /\ attempt.state = "received" /\ UNCHANGED <<response, during>>
        /\ attempt'.signer = attempt.signer /\ attempt'.valid = attempt.valid /\ attempt'.down = attempt.down
        /\ \/ attempt'.state = "attested" /\ attempt'.code = attempt.code /\ attempt'.parsed
              /\ refusal(response) = "none"
           \/ attempt'.state = "attested" /\ attempt'.code = attempt.code /\ attempt'.parsed = attempt.parsed
           \/ attempt'.state = "failed" /\ attempt'.code = refusal(response)
              /\ refusal(response) # "none" /\ attempt'.parsed = attempt.parsed
    BY DEF AdapterInv, AdapterTypeOK, parse, HandMade, Throws
  <1>7. attempt'.state = "attested" => response.signature # "absent"
    BY <1>1, RefusalCodes DEF AdapterInv, AdapterTypeOK, parse, HandMade, Throws
  <1>2. AdapterTypeOK'
    BY RefusalCodes DEF AdapterInv, AdapterTypeOK, parse, HandMade, Throws
  <1>3. attempt'.parsed => refusal(response') = "none"
    BY <1>1 DEF AdapterInv
  <1>4. AttemptUntouched' /\ AttemptAsking' /\ AttemptDecided'
    BY <1>1, <1>7 DEF AdapterInv, AttemptUntouched, AttemptAsking, AttemptDecided
  <1>5. AttemptFailed'
    BY <1>1 DEF AttemptFailed
  <1> QED BY <1>2, <1>3, <1>4, <1>5 DEF AdapterInv

LEMMA RecoverKeeps == ASSUME AdapterInv, oracle \in Oracle, recoverLocally, UNCHANGED oracle PROVE AdapterInv'
  <1>1. /\ attempt.state = "attested" /\ UNCHANGED response
        /\ attempt.code = "none" /\ attempt.signer = "zero" /\ ~attempt.valid /\ ~attempt.down
        /\ attempt.parsed => refusal(response) = "none"
    BY DEF AdapterInv, AttemptUntouched, recoverLocally
  <1>2. attempt.parsed \in BOOLEAN /\ recoverAddress(response, attempt.parsed) \in Signer \cup {"somebody"}
    BY RecoversTo DEF AdapterInv, AdapterTypeOK
  <1>3. CASE response.signature \in {"nohex", "short"}
    <2>1. attempt' = [attempt EXCEPT !.state = "failed", !.code = "VERIFIER_CALL_FAILED"] /\ UNCHANGED during
      BY <1>3 DEF recoverLocally, Throws
    <2>2. AdapterTypeOK' /\ attempt'.parsed = attempt.parsed /\ attempt'.state = "failed"
          /\ attempt'.code = "VERIFIER_CALL_FAILED"
      BY <1>1, <2>1 DEF AdapterInv, AdapterTypeOK
    <2> QED BY <1>1, <1>3, <2>2, RefusalCodes DEF AdapterInv, AttemptUntouched, AttemptAsking,
               AttemptDecided, AttemptFailed
  <1>4. CASE response.signature = "broken"
    <2>1. attempt' = [attempt EXCEPT !.state = "verdict", !.valid = FALSE] /\ UNCHANGED during
      BY <1>4 DEF recoverLocally, Decides
    <2>2. AdapterTypeOK' /\ attempt'.parsed = attempt.parsed /\ attempt'.state = "verdict"
          /\ ~attempt'.valid /\ attempt'.code = "none" /\ attempt'.signer = "zero"
      BY <1>1, <2>1 DEF AdapterInv, AdapterTypeOK
    <2> QED BY <1>1, <1>4, <2>2 DEF AdapterInv, AttemptUntouched, AttemptAsking,
               AttemptDecided, AttemptFailed
  <1>5. CASE response.signature \in {"loose", "sound"}
    <2>1. /\ attempt' = [attempt EXCEPT !.state = "asking", !.signer = recoverAddress(response, attempt.parsed)]
          /\ during' = {oracle}
      BY <1>5 DEF recoverLocally, Asks
    <2>2. /\ AdapterTypeOK' /\ attempt'.parsed = attempt.parsed /\ attempt'.state = "asking"
          /\ attempt'.code = "none" /\ ~attempt'.down
          /\ attempt'.signer = recoverAddress(response, attempt.parsed)
      BY <1>1, <1>2, <2>1 DEF AdapterInv, AdapterTypeOK
    <2> QED BY <1>1, <1>5, <2>1, <2>2 DEF AdapterInv, AttemptUntouched, AttemptAsking,
               AttemptDecided, AttemptFailed
  <1>6. response.signature \in {"nohex", "short", "broken", "loose", "sound"}
    BY <1>1 DEF AdapterInv, AttemptUntouched, AdapterTypeOK, Response, SignatureForm
  <1> QED BY <1>3, <1>4, <1>5, <1>6

LEMMA AskKeepsVerdict == ASSUME AdapterInv, oracle \in Oracle, askVerifier, UNCHANGED oracle PROVE AdapterInv'
  <1>1. /\ attempt.state = "asking" /\ UNCHANGED response /\ oracle \in during
        /\ response.signature \in {"loose", "sound"}
        /\ attempt.signer = recoverAddress(response, attempt.parsed) /\ attempt.code = "none"
        /\ attempt.parsed \in BOOLEAN /\ attempt.signer \in Signer \cup {"somebody"}
        /\ attempt.parsed => refusal(response) = "none"
    BY RecoversTo DEF AdapterInv, AttemptAsking, AdapterTypeOK, askVerifier
  <1>2. CASE response.signature = "sound"
    <2>1. PICK valid \in BOOLEAN :
              /\ attempt' = [attempt EXCEPT !.state = "verdict", !.valid = valid] /\ UNCHANGED during
              /\ valid = (attempt.signer = oracle)
      BY <1>1, <1>2, PresentedSays DEF askVerifier, Decides
    <2>2. AdapterTypeOK' /\ attempt'.parsed = attempt.parsed /\ attempt'.state = "verdict"
          /\ attempt'.valid = valid /\ attempt'.code = "none" /\ attempt'.signer = attempt.signer
      BY <1>1, <2>1 DEF AdapterInv, AdapterTypeOK
    <2>3. AttemptDecided'
      BY <1>1, <1>2, <2>1, <2>2 DEF AttemptDecided
    <2> QED BY <1>1, <2>2, <2>3 DEF AdapterInv, AttemptUntouched, AttemptAsking, AttemptFailed
  <1>3. CASE response.signature = "loose"
    <2>1. attempt' = [attempt EXCEPT !.state = "failed", !.code = "VERIFIER_CALL_FAILED"] /\ UNCHANGED during
      BY <1>1, <1>3, PresentedSays DEF askVerifier, Throws
    <2>2. AdapterTypeOK' /\ attempt'.parsed = attempt.parsed /\ attempt'.state = "failed"
          /\ attempt'.code = "VERIFIER_CALL_FAILED"
      BY <1>1, <2>1 DEF AdapterInv, AdapterTypeOK
    <2> QED BY <1>1, <1>3, <2>2 DEF AdapterInv, AttemptUntouched, AttemptAsking,
               AttemptDecided, AttemptFailed
  <1> QED BY <1>1, <1>2, <1>3

LEMMA UnreachableKeeps == ASSUME AdapterInv, verifierUnreachable, UNCHANGED oracle PROVE AdapterInv'
  <1>1. AdapterTypeOK' /\ attempt'.parsed = attempt.parsed /\ attempt'.state = "failed"
        /\ attempt'.code = "VERIFIER_CALL_FAILED" /\ attempt'.down /\ UNCHANGED response
    BY DEF verifierUnreachable, AdapterInv, AdapterTypeOK
  <1> QED BY <1>1 DEF AdapterInv, AttemptUntouched, AttemptAsking, AttemptDecided, AttemptFailed

LEMMA RotationKeeps == ASSUME AdapterInv, NEW new \in Oracle, OracleRotates(new) PROVE AdapterInv'
  <1>1. /\ oracle' = new /\ UNCHANGED <<response, attempt>> /\ during \subseteq during'
        /\ attempt.state = "asking" => new \in during'
        /\ during' \subseteq Oracle
    BY DEF OracleRotates, updateOracleAddress, AdapterInv, AdapterTypeOK
  <1>2. AdapterTypeOK'
    BY <1>1 DEF AdapterInv, AdapterTypeOK
  <1> QED BY <1>1, <1>2 DEF AdapterInv, AttemptUntouched, AttemptAsking, AttemptDecided, AttemptFailed

(* A step of the adapter is one of the page's, too: it rotates the oracle  *)
(* or leaves the page alone.                                               *)
LEMMA AdapterKeeps ==
    AdapterInv /\ oracle \in Oracle /\ [AdapterNext]_<<vars, adapterVars>> =>
        AdapterInv' /\ oracle' \in Oracle /\ [Next]_vars
  <1> SUFFICES ASSUME AdapterInv, oracle \in Oracle, [AdapterNext]_<<vars, adapterVars>>
               PROVE  AdapterInv' /\ oracle' \in Oracle /\ [Next]_vars
      OBVIOUS
  <1>1. CASE UNCHANGED <<vars, adapterVars>>
    <2>1. UNCHANGED <<vars, response, attempt, during, oracle>>
      BY <1>1 DEF vars, adapterVars
    <2> QED BY <2>1 DEF AdapterInv, AdapterTypeOK, AttemptUntouched, AttemptAsking,
               AttemptDecided, AttemptFailed
  <1>2. CASE (parse \/ HandMade \/ verify) /\ UNCHANGED vars
    <2>1. UNCHANGED oracle
      BY <1>2 DEF vars
    <2> QED BY <1>2, <2>1, ParseKeeps, RecoverKeeps, AskKeepsVerdict, UnreachableKeeps DEF verify
  <1>3. ASSUME NEW new \in Oracle, OracleRotates(new)
        PROVE  AdapterInv' /\ oracle' \in Oracle /\ [Next]_vars
    <2>1. updateOracleAddress(new) /\ oracle' = new
      BY <1>3 DEF OracleRotates, updateOracleAddress
    <2> QED BY <1>3, <2>1, RotationKeeps DEF Next
  <1> QED BY <1>1, <1>2, <1>3 DEF AdapterNext

LEMMA AdapterInvariance == AdapterSpec => [](AdapterInv /\ oracle \in Oracle)
  <1>1. Init /\ AdapterInit => AdapterInv /\ oracle \in Oracle
      BY AdapterStarts DEF Init
  <1>2. (AdapterInv /\ oracle \in Oracle) /\ [AdapterNext]_<<vars, adapterVars>> =>
            (AdapterInv /\ oracle \in Oracle)'
      BY AdapterKeeps
  <1> QED BY <1>1, <1>2, PTL DEF AdapterSpec

LEMMA TruthfulIfInv == AdapterInv => AdapterTruthful
  <1> SUFFICES ASSUME AdapterInv PROVE AdapterTruthful
      OBVIOUS
  <1> DEFINE signer == recoverAddress(response, attempt.parsed)
  <1>1. /\ attempt.parsed \in BOOLEAN /\ during \subseteq Oracle
        /\ response.agentId \in HexForm /\ response.sealId \in HexForm
        /\ attempt.state \in {"received", "attested", "asking", "verdict", "failed"}
    BY DEF AdapterInv, AdapterTypeOK, Response
  <1>2. /\ signer \in Signer \cup {"somebody"}
        /\ signer \in Signer => /\ signer = response.by /\ response.intact
                                /\ response.timestamp = "canonical"
                                /\ attempt.parsed => response.agentId # "bare" /\ response.sealId # "bare"
        /\ AsWritten(response) /\ response.intact => signer = response.by
    BY <1>1, RecoversTo DEF AdapterInv
  <1> HIDE DEF signer
  <1>3. attempt.parsed => /\ response.agentId \notin {"absent", "malformed"}
                          /\ response.sealId \notin {"absent", "malformed"}
    BY DEF AdapterInv, refusal
  <1>4. ASSUME attempt.state = "verdict", attempt.valid
        PROVE  /\ attempt.signer \in during /\ attempt.signer = response.by /\ response.signature = "sound"
               /\ response.intact /\ (attempt.parsed => AsWritten(response))
    <2>1. attempt.signer = signer /\ signer \in during /\ response.signature = "sound"
      BY <1>4 DEF AdapterInv, AttemptDecided, signer
    <2>2. signer \in Signer
      BY <2>1, <1>1, SignerNames
    <2> QED BY <1>1, <1>2, <1>3, <2>1, <2>2 DEF AsWritten, HexForm
  <1>5. ASSUME attempt.state = "verdict", ~attempt.valid
        PROVE  \/ attempt.signer = "zero" /\ response.signature = "broken"
               \/ /\ during \ {attempt.signer} # {}
                  /\ AsWritten(response) /\ response.intact => attempt.signer = response.by
    BY <1>2, <1>5 DEF AdapterInv, AttemptDecided, signer
  <1>6. attempt.code = "VERIFIER_CALL_FAILED" =>
            attempt.down \/ response.signature = "loose" \/ ~attempt.parsed
    BY <1>1, RefusalCodes DEF AdapterInv, AttemptUntouched, AttemptAsking, AttemptDecided, AttemptFailed
  <1>7. attempt.code \in HeaderError =>
            ~AsWritten(response) \/ response.signature \notin {"broken", "loose", "sound"}
    BY <1>1, RefusalCodes DEF AdapterInv, AttemptUntouched, AttemptAsking, AttemptDecided, AttemptFailed
  <1> QED BY <1>4, <1>5, <1>6, <1>7 DEF AdapterTruthful

LEMMA AgreesIfInv == AdapterInv /\ oracle \in Oracle => AdapterAgrees
  <1> SUFFICES ASSUME AdapterInv, oracle \in Oracle PROVE AdapterAgrees
      OBVIOUS
  <1> DEFINE signer == recoverAddress(response, TRUE)
             e == EntryOf(response)
             shownBy == {verifyOneEntry(e), verifyEntryClient(e)}
             own == signer = "agent"
  <1>1. signer \in Signer \cup {"somebody"} /\ signer \notin {"zero", "none", "short", "broken"}
    BY RecoversTo, SignerNames DEF AdapterInv
  <1>2. "agent" # oracle /\ oracle \in Signer
    BY SignerNames
  <1>3. /\ response.signature \in {"nohex", "short"} => e.sig = "short"
        /\ response.signature = "broken" => e.sig = "broken"
        /\ response.signature = "loose" => e.sig = IF own THEN "agent" ELSE "broken"
        /\ response.signature = "sound" => e.sig = signer
        /\ e.attested
    BY DEF EntryOf
  <1> HIDE DEF signer, e
  <1>4. /\ e.sig = "agent" => shownBy = {"verified"}
        /\ e.sig = "broken" => shownBy = {"502", "error"}
        /\ e.sig = oracle => shownBy = {"verified"}
        /\ e.sig \notin {"agent", "none", "broken", "short", oracle} => shownBy = {"unverified"}
    <2>1. e.sig = "broken" => verifyTEESignature(e) = "revert"
      BY <1>2, SignerNames DEF verifyTEESignature
    <2>2. e.sig \in {oracle} => verifyTEESignature(e) = "yes"
      BY <1>2, SignerNames DEF verifyTEESignature
    <2>3. e.sig \notin {"broken", "short", oracle} => verifyTEESignature(e) = "no"
      BY DEF verifyTEESignature
    <2>4. e.sig \notin {"agent", "none"} <=> NeedsContract(e)
      BY <1>3 DEF NeedsContract, Unsigned, hasAttestationFields, RecoversToAgent
    <2>5. e.sig # "none" => ~Unsigned(e)
      BY <1>3 DEF Unsigned, hasAttestationFields
    <2> QED BY <1>2, <2>1, <2>2, <2>3, <2>4, <2>5, SignerNames DEF verifyOneEntry, verifyEntryClient
  <1>5. ASSUME attempt.state = "verdict", attempt.parsed, during \subseteq {oracle}
        PROVE  IF attempt.valid THEN shownBy = {"verified"}
               ELSE IF attempt.signer = "zero" THEN shownBy = {"502", "error"}
               ELSE shownBy = IF own THEN {"verified"} ELSE {"unverified"}
    <2>1. CASE response.signature = "broken" /\ attempt.signer = "zero" /\ ~attempt.valid
      BY <1>3, <1>4, <2>1
    <2>2. CASE /\ response.signature = "sound"
               /\ attempt.signer = recoverAddress(response, attempt.parsed)
               /\ \E o \in during : attempt.valid = (attempt.signer = o)
      <3>1. attempt.parsed = TRUE
        BY <1>5 DEF AdapterInv, AdapterTypeOK
      <3>2. attempt.signer = signer /\ e.sig = signer /\ attempt.valid = (signer = oracle)
        BY <1>3, <1>5, <2>2, <3>1 DEF signer
      <3> QED BY <1>1, <1>4, <3>2
    <2> QED BY <1>5, <2>1, <2>2 DEF AdapterInv, AttemptDecided
  <1>6. ASSUME attempt.code = "VERIFIER_CALL_FAILED", attempt.parsed, ~attempt.down
        PROVE  shownBy = IF own THEN {"verified"} ELSE {"502", "error"}
    <2>1. response.signature = "loose"
      BY <1>6, TruthfulIfInv DEF AdapterTruthful
    <2> QED BY <1>3, <1>4, <2>1
  <1>7. ASSUME attempt.code = "AGENT_WRAPPER_SIGNATURE_LENGTH" PROVE ~sessionLogSchema(<<e>>)
    <2>1. attempt.code = refusal(response)
      BY <1>7 DEF AdapterInv, AdapterTypeOK, AttemptUntouched, AttemptAsking, AttemptDecided, AttemptFailed
    <2>2. e.sig = "short"
      BY <1>3, <1>7, <2>1, RefusalCodes
    <2>3. 1 \in DOMAIN <<e>> /\ <<e>>[1] = e
      OBVIOUS
    <2> QED BY <2>2, <2>3 DEF sessionLogSchema
  <1> QED BY <1>5, <1>6, <1>7 DEF AdapterAgrees, signer, e

(* Whatever the headers, the oracle's rotations and the calls that fail: a *)
(* verdict names who signed and an oracle that was in force, and only a    *)
(* call that fails, or a v the contract refuses, is reported as one        *)
(* (HeaderParser.parse, TEEProofAdapter.verify).                           *)
THEOREM VerdictsAreTruthful == AdapterSpec => []AdapterTruthful
  BY AdapterInvariance, TruthfulIfInv, PTL

(* What the adapter decides of a response is what the page comes to for the*)
(* entry that is logged of it (TEEProofAdapter.verify, verify-proof.ts).   *)
THEOREM VerdictsAgreeWithThePage == AdapterSpec => []AdapterAgrees
  BY AdapterInvariance, AgreesIfInv, PTL

=============================================================================
