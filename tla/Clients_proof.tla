---------------------------- MODULE Clients_proof ----------------------------
(***************************************************************************)
(* Theorems about the two that use the contract, MintClient and Feed, for  *)
(* any accounts, data, calls, scanners, depths and limits, while other     *)
(* accounts use it as well; and the types of all three side by side.       *)
(***************************************************************************)
EXTENDS ChainMC, AgenticID_proof

-----------------------------------------------------------------------------
(* What both rely on: a token stays minted and, once its mint is over,     *)
(* says what it said.                                                      *)
LEMMA MintedStay ==
    ASSUME IInv, [ContractNext]_contractVars
    PROVE  /\ IInv'
           /\ nextTokenId \in Nat /\ nextTokenId' \in {nextTokenId, nextTokenId + 1}
           /\ \A t \in Minted : t \in Minted' /\ t \in Token
           /\ \A t \in Minted \ Minting : /\ t \notin Minting'
                                          /\ intelligentData'[t] = intelligentData[t]
                                          /\ tokenCreator'[t] = tokenCreator[t]
PROOF
  <1>1. IInv'
    BY Step
  <1>2. nextTokenId \in Nat /\ Minted \subseteq Token
    BY ContractAssumption DEF IInv, ContractTypeOK, Minted, Token
  <1>3. intelligentData \in [Token -> Data] /\ tokenCreator \in [Token -> Account \cup {None}]
    BY DEF IInv, ContractTypeOK
  <1>4. ASSUME NEW n, WritesOnly(n), NEW t \in Minted \ Minting, t # n
        PROVE  intelligentData'[t] = intelligentData[t] /\ tokenCreator'[t] = tokenCreator[t]
    BY <1>2, <1>3, <1>4 DEF WritesOnly
  <1>5. CASE nextTokenId' = nextTokenId /\ UNCHANGED <<calls, content>>
    BY <1>1, <1>2, <1>5 DEF Minted, Minting, content
  <1>6. CASE Grows
    <2>1. \A t \in Minted : t # nextTokenId /\ t \in Minted'
      BY <1>2, <1>6 DEF Minted, Grows
    <2>2. \A t \in Minted \ Minting : t \notin Minting'
      BY <1>6, <2>1 DEF Minting, Grows
    <2>3. CASE UNCHANGED content
      BY <1>1, <1>2, <1>6, <2>1, <2>2, <2>3 DEF content, Grows
    <2>4. CASE WritesOnly(nextTokenId)
      BY <1>1, <1>2, <1>4, <1>6, <2>1, <2>2, <2>4 DEF Grows
    <2> QED BY <1>6, <2>3, <2>4 DEF Grows
  <1>7. CASE nextTokenId' = nextTokenId /\ calls' \subseteq calls /\ \E f \in calls : WritesOnly(f.token)
    <2>1. PICK f \in calls : WritesOnly(f.token)
      BY <1>7
    <2>2. \A t \in Minted \ Minting : t # f.token /\ t \notin Minting'
      BY <1>7 DEF Minting
    <2>3. \A t \in Minted : t \in Minted'
      BY <1>7 DEF Minted
    <2> QED BY <1>1, <1>2, <1>4, <1>7, <2>1, <2>2, <2>3
  <1>8. UNCHANGED contractVars => nextTokenId' = nextTokenId /\ UNCHANGED <<calls, content>>
    BY DEF contractVars, supply, content
  <1> QED BY <1>5, <1>6, <1>7, <1>8, SupplyGrows

-----------------------------------------------------------------------------
(***************************************************************************)
(* The minting client.  A receipt names a token of its own call for good,  *)
(* and an answer repeats the receipt.                                      *)
(***************************************************************************)

ReceiptsOwn ==
    /\ \A c \in Call : tx[c] = "mined" =>
          /\ receipt[c][1] \in Minted \ Minting
          /\ receipt[c][2] = Asked[c]
          /\ intelligentData[receipt[c][1]] = Asked[c]
          /\ tokenCreator[receipt[c][1]] = Host
    /\ \A c, d \in Call :
          tx[c] = "mined" /\ tx[d] = "mined" /\ receipt[c][1] = receipt[d][1] => c = d

AnswersFollow ==
    \A c \in Call :
        /\ answer[c] = "none" => tx[c] = "none"
        /\ answer[c] = "returned" => tx[c] = "mined" /\ tokenId[c] = receipt[c][1]

ClientInv == ClientTypeOK /\ ReceiptsOwn /\ AnswersFollow

LEMMA ClientInitInv == ClientInit => ClientInv
PROOF
  <1> SUFFICES ASSUME ClientInit
               PROVE  ClientInv
    OBVIOUS
  <1>1. <<None, <<>>>> \in (Token \cup {None}) \X Data
    BY ContractAssumption
  <1>2. ClientTypeOK
    BY <1>1 DEF ClientInit, ClientTypeOK, NoEvent
  <1>3. ReceiptsOwn /\ AnswersFollow
    BY DEF ClientInit, ReceiptsOwn, AnswersFollow
  <1> QED BY <1>2, <1>3 DEF ClientInv

(* Neither the contract's other users nor the other calls reach a receipt. *)
LEMMA OthersKeep ==
    ASSUME IInv, ClientInv, [ContractNext]_contractVars, UNCHANGED clientVars
    PROVE  ClientInv'
PROOF
  <1>1. ClientTypeOK' /\ AnswersFollow'
    BY DEF ClientInv, clientVars, ClientTypeOK, AnswersFollow, Token
  <1>2. ReceiptsOwn'
    BY MintedStay DEF ClientInv, clientVars, ReceiptsOwn
  <1> QED BY <1>1, <1>2 DEF ClientInv

(* The calls that write nothing of the contract and no receipt.            *)
LEMMA AnsweringKeeps ==
    ASSUME ClientInv, NEW c \in Call,
           RefuseInput(c) \/ Send(c) \/ WaitReturns(c) \/ WaitThrows(c)
    PROVE  ClientInv'
PROOF
  <1> USE DEF ClientInv, ClientTypeOK
  <1>1. UNCHANGED <<nextTokenId, calls, intelligentData, tokenCreator, receipt>>
    BY DEF RefuseInput, Send, WaitReturns, WaitThrows, contractVars, supply, content
  <1>2. \A d \in Call \ {c} : tx'[d] = tx[d] /\ answer'[d] = answer[d] /\ tokenId'[d] = tokenId[d]
    BY DEF RefuseInput, Send, WaitReturns, WaitThrows, Answers
  <1>3. tx'[c] = "mined" <=> tx[c] = "mined"
    BY DEF RefuseInput, Send, WaitReturns, WaitThrows, Answers, AnswersFollow
  <1>4. ClientTypeOK'
    <2>1. tx' \in [Call -> {"none", "pending", "mined", "reverted"}]
      BY DEF RefuseInput, Send, WaitReturns, WaitThrows
    <2>2. answer' \in [Call -> {"none", "waiting", "returned"} \cup Thrown]
      BY DEF RefuseInput, Send, WaitReturns, WaitThrows, Answers, Thrown
    <2>3. tokenId' \in [Call -> Token \cup {None}]
      <3>1. UNCHANGED tokenId \/ tokenId' = [tokenId EXCEPT ![c] = receipt[c][1]]
        BY DEF RefuseInput, Send, WaitReturns, WaitThrows, parseMintEventFromReceipt
      <3>2. receipt[c][1] \in Token \cup {None}
        OBVIOUS
      <3> QED BY <3>1, <3>2
    <2> QED BY <1>1, <2>1, <2>2, <2>3 DEF Token
  <1>5. ReceiptsOwn'
    BY <1>1, <1>2, <1>3 DEF ReceiptsOwn, Minted, Minting
  <1>6. AnswersFollow'
    <2>1. answer'[c] # "none"
      BY DEF RefuseInput, Send, WaitReturns, WaitThrows, Answers
    <2>2. answer'[c] = "returned" => tx'[c] = "mined" /\ tokenId'[c] = receipt'[c][1]
      BY <1>1 DEF RefuseInput, Send, WaitReturns, WaitThrows, Answers, parseMintEventFromReceipt
    <2> QED BY <1>1, <1>2, <2>1, <2>2 DEF AnswersFollow
  <1> QED BY <1>4, <1>5, <1>6

(* The chain takes the transaction: the token of its event is new, so no   *)
(* receipt before names it.                                                *)
LEMMA IncludeKeeps ==
    ASSUME IInv, ClientInv, NEW c \in Call, IncludeTx(c)
    PROVE  /\ [ContractNext]_contractVars
           /\ ClientInv'
PROOF
  <1> USE DEF ClientInv, ClientTypeOK
  <1>1. [ContractNext]_contractVars
    <2>1. CASE iMint(Host, Host, Asked[c], 0)
      BY <2>1, ClientAssumption, ContractAssumption DEF ContractNext, Called, MayCall, IncludeTx
    <2> QED BY <2>1 DEF IncludeTx
  <1>2. tx[c] = "pending" /\ UNCHANGED <<answer, tokenId>> /\ Settled
    BY DEF IncludeTx
  <1>3. CASE /\ iMint(Host, Host, Asked[c], 0)
             /\ tx' = [tx EXCEPT ![c] = "mined"]
             /\ receipt' = [receipt EXCEPT ![c] = <<nextTokenId, Asked[c]>>]
    <2>1. /\ nextTokenId \in Nat /\ nextTokenId < MaxTokens /\ nextTokenId' = nextTokenId + 1
          /\ intelligentData' = [intelligentData EXCEPT ![nextTokenId] = Asked[c]]
          /\ tokenCreator' = [tokenCreator EXCEPT ![nextTokenId] = Host]
          /\ Minting' = {}
      <3>1. /\ nextTokenId \in Nat /\ nextTokenId < MaxTokens /\ nextTokenId' = nextTokenId + 1
            /\ Fill(MintOf(Asked[c], Host)) /\ calls' = calls
        BY <1>3, ClientAssumption DEF iMint, safeMint, IInv, ContractTypeOK
      <3>2. FillMint(MintOf(Asked[c], Host)) /\ Minting' = {}
        BY <1>2, <3>1 DEF Fill, MintOf, Minting, Settled
      <3> QED BY <3>1, <3>2 DEF FillMint, MintOf, setIntelligentData
    <2>2. /\ nextTokenId \in Token /\ nextTokenId \in Minted' /\ nextTokenId \notin Minted
          /\ nextTokenId \notin Minting'
      BY <2>1, ContractAssumption DEF Token, Minted
    <2>3. intelligentData'[nextTokenId] = Asked[c] /\ tokenCreator'[nextTokenId] = Host
      BY <2>1, <2>2 DEF IInv, ContractTypeOK
    <2>4. /\ receipt'[c] = <<nextTokenId, Asked[c]>> /\ tx'[c] = "mined"
          /\ \A d \in Call \ {c} : receipt'[d] = receipt[d] /\ tx'[d] = tx[d]
      BY <1>3
    <2>5. ClientTypeOK'
      <3>1. Asked[c] \in Data
        BY ClientAssumption
      <3>2. receipt' \in [Call -> (Token \cup {None}) \X Data]
        BY <1>3, <2>2, <3>1
      <3>3. tx' \in [Call -> {"none", "pending", "mined", "reverted"}]
        BY <1>3
      <3> QED BY <1>2, <3>2, <3>3 DEF Token
    <2>6. ReceiptsOwn'
      <3>1. \A d \in Call : tx'[d] = "mined" =>
                /\ receipt'[d][1] \in Minted' \ Minting' /\ receipt'[d][2] = Asked[d]
                /\ intelligentData'[receipt'[d][1]] = Asked[d]
                /\ tokenCreator'[receipt'[d][1]] = Host
        BY <1>1, <2>2, <2>3, <2>4, MintedStay DEF ReceiptsOwn
      <3>2. \A d \in Call \ {c} : tx[d] = "mined" => receipt[d][1] # nextTokenId
        BY <2>2 DEF ReceiptsOwn
      <3>3. \A d, e \in Call : tx'[d] = "mined" /\ tx'[e] = "mined" /\ receipt'[d][1] = receipt'[e][1] => d = e
        BY <2>4, <3>2 DEF ReceiptsOwn
      <3> QED BY <3>1, <3>3 DEF ReceiptsOwn
    <2>7. AnswersFollow'
      BY <1>2, <2>4 DEF AnswersFollow
    <2> QED BY <1>1, <2>5, <2>6, <2>7
  <1>4. CASE tx' = [tx EXCEPT ![c] = "reverted"] /\ UNCHANGED <<contractVars, receipt>>
    <2>1. \A d \in Call : tx'[d] = "mined" <=> tx[d] = "mined"
      BY <1>2, <1>4
    <2>2. ClientTypeOK'
      BY <1>2, <1>4 DEF Token
    <2>3. ReceiptsOwn'
      BY <1>4, <2>1 DEF ReceiptsOwn, contractVars, supply, content, Minted, Minting
    <2>4. AnswersFollow'
      BY <1>2, <1>4 DEF AnswersFollow
    <2> QED BY <1>1, <2>2, <2>3, <2>4
  <1> QED BY <1>3, <1>4 DEF IncludeTx

LEMMA ClientStep ==
    IInv /\ ClientInv
      /\ [ClientNext \/ (ContractNext /\ UNCHANGED clientVars)]_<<contractVars, clientVars>>
    => IInv' /\ ClientInv'
PROOF
  <1> SUFFICES ASSUME IInv, ClientInv,
                      [ClientNext \/ (ContractNext /\ UNCHANGED clientVars)]_<<contractVars, clientVars>>
               PROVE  IInv' /\ ClientInv'
    OBVIOUS
  <1>1. CASE [ContractNext]_contractVars /\ UNCHANGED clientVars
    BY <1>1, OthersKeep, Step
  <1>2. ASSUME NEW c \in Call, RefuseInput(c) \/ Send(c) \/ WaitReturns(c) \/ WaitThrows(c)
        PROVE  IInv' /\ ClientInv'
    <2>1. UNCHANGED contractVars
      BY <1>2 DEF RefuseInput, Send, WaitReturns, WaitThrows
    <2> QED BY <1>2, <2>1, AnsweringKeeps, Step
  <1>3. ASSUME NEW c \in Call, IncludeTx(c)
        PROVE  IInv' /\ ClientInv'
    BY <1>3, IncludeKeeps, Step
  <1> QED BY <1>1, <1>2, <1>3 DEF ClientNext

(* Whatever is minted, paused or priced between estimate, broadcast and    *)
(* receipt, mint() answers with the token of its own call.                 *)
THEOREM MintAnswersOwnToken == ClientSpec => []AnswerIsOwnToken
PROOF
  <1>1. ContractInit /\ ClientInit => IInv /\ ClientInv
    BY InitInv, ClientInitInv
  <1>2. ClientInv => AnswerIsOwnToken
    BY DEF ClientInv, ReceiptsOwn, AnswersFollow, AnswerIsOwnToken
  <1> QED BY <1>1, <1>2, ClientStep, PTL DEF ClientSpec

-----------------------------------------------------------------------------
(***************************************************************************)
(* The feed.  What the walk of a scan has listed and owes yet, and who     *)
(* waits for it; of its search, that no token older than the question lies *)
(* above where it still looks.                                             *)
(***************************************************************************)

CeilingRec == [value : Nat, age : 0..CeilingTTL]
ScanRec ==
    [pc : Calling \cup {"idle"}, now : 0..CeilingTTL, lo : Nat, hi : Nat,
     ceiling : Nat, id : Nat \cup {-1}, rows : Rows, kept : SUBSET Token]

(* Rows are above where the walk stands, receipts it owes at or below.     *)
WalkOK(s, r) ==
    /\ r.kept \subseteq {t \in Minted : Wants(s, t)}
    /\ r.pc # "walk" => r.rows = <<>>
    /\ r.pc = "walk" =>
          /\ Len(r.rows) <= RowLimit[s]
          /\ \A i \in DOMAIN r.rows :
                r.rows[i] \in Minted /\ IsReceipt(r.rows[i]) /\ r.id < r.rows[i]
          /\ \A i, j \in DOMAIN r.rows : i < j => r.rows[i] > r.rows[j]
          /\ \A t \in r.kept : IsReceipt(t) /\ t <= r.ceiling => t <= r.id

PollOK ==
    /\ waiting # {} => inflight
    /\ inflight => scan[Route].pc # "idle"

FeedInv == FeedTypeOK /\ (\A s \in Scanner : WalkOK(s, scan[s])) /\ PollOK /\ Settled

LEMMA FeedTypes == FeedTypeOK => scan \in [Scanner -> ScanRec] /\ cachedCeiling \in CeilingRec
BY DEF FeedTypeOK, ScanRec, CeilingRec

LEMMA Instants ==
    /\ CeilingTTL \in Nat \ {0} /\ PayloadTTL \in Nat \ {0} /\ ProbeStart \in Nat \ {0}
    /\ 0 \in 0..CeilingTTL /\ CeilingTTL \in 0..CeilingTTL
    /\ 0 \in 0..PayloadTTL /\ PayloadTTL \in 0..PayloadTTL
PROOF
  <1>1. CeilingTTL \in Nat \ {0} /\ PayloadTTL \in Nat \ {0} /\ ProbeStart \in Nat \ {0}
    BY FeedAssumption
  <1> QED BY <1>1

LEMMA NoScanOK == NoScan \in ScanRec /\ \A s \in Scanner : WalkOK(s, NoScan)
BY FeedAssumption DEF NoScan, ScanRec, WalkOK, Rows, Calling

LEMMA FeedInitInv == ContractInit /\ FeedInit => FeedInv
PROOF
  <1> SUFFICES ASSUME ContractInit, FeedInit
               PROVE  FeedInv
    OBVIOUS
  <1>1. FeedTypeOK
    <2>1. scan \in [Scanner -> ScanRec]
      BY NoScanOK DEF FeedInit
    <2>2. /\ age \in [Token -> 0..CeilingTTL] /\ cachedCeiling \in CeilingRec
          /\ payloadAge \in 0..PayloadTTL /\ inflight \in BOOLEAN /\ waiting \subseteq Poll
      BY Instants DEF FeedInit, CeilingRec, NoCeiling
    <2> QED BY <2>1, <2>2 DEF FeedTypeOK, ScanRec, CeilingRec
  <1>2. \A s \in Scanner : WalkOK(s, scan[s])
    BY NoScanOK DEF FeedInit
  <1>3. PollOK
    BY DEF FeedInit, PollOK
  <1> QED BY <1>1, <1>2, <1>3 DEF FeedInv, ContractInit, Settled

(* One scan moves on, the contract and the other scans do not.             *)
LEMMA AdvanceKeeps ==
    ASSUME FeedInv, UNCHANGED <<contractVars, age>>,
           NEW s \in Scanner, NEW r \in ScanRec, Advance(s, r), WalkOK(s, r),
           cachedCeiling' \in CeilingRec, payloadAge' \in 0..PayloadTTL,
           inflight' \in BOOLEAN, waiting' \subseteq Poll, PollOK'
    PROVE  FeedInv'
PROOF
  <1>1. scan \in [Scanner -> ScanRec]
    BY FeedTypes DEF FeedInv
  <1>2. scan' = [scan EXCEPT ![s] = r]
    BY DEF Advance
  <1>3. scan' \in [Scanner -> ScanRec]
    BY <1>1, <1>2
  <1>4. FeedTypeOK'
    BY <1>3 DEF FeedInv, FeedTypeOK, ScanRec, CeilingRec, Token, Rows
  <1>5. ASSUME NEW u \in Scanner
        PROVE  WalkOK(u, scan[u])'
    <2>1. WalkOK(u, scan'[u])
      BY <1>1, <1>2 DEF FeedInv
    <2>2. UNCHANGED <<nextTokenId, owner, intelligentData>>
      BY DEF contractVars, supply, content
    <2> QED BY <2>1, <2>2 DEF WalkOK, Minted, Wants, IsReceipt
  <1> QED BY <1>4, <1>5 DEF FeedInv, Settled, contractVars, supply

LEMMA StartsWell ==
    ASSUME IInv, FeedInv, NEW s \in Scanner, StartScan(s)
    PROVE  \E r \in ScanRec : r.pc # "idle" /\ WalkOK(s, r) /\ Advance(s, r)
PROOF
  <1> DEFINE fresh == cachedCeiling.age < CeilingTTL
             r == [NoScan EXCEPT
                      !.pc = IF fresh THEN "walk" ELSE "supply",
                      !.ceiling = IF fresh THEN cachedCeiling.value ELSE 0,
                      !.id = IF fresh THEN cachedCeiling.value ELSE 0,
                      !.kept = {t \in Minted : Wants(s, t)}]
  <1>1. cachedCeiling.value \in Nat /\ Minted \subseteq Token
    BY FeedTypes, ContractAssumption
       DEF FeedInv, CeilingRec, IInv, ContractTypeOK, Minted, Token
  <1>2. r \in ScanRec
    BY <1>1, NoScanOK DEF ScanRec, Calling, NoScan, Rows
  <1>3. /\ r.pc \in {"walk", "supply"} /\ r.rows = <<>> /\ r.id = r.ceiling
        /\ r.kept = {t \in Minted : Wants(s, t)}
    BY DEF NoScan
  <1>4. Advance(s, r)
    BY DEF StartScan
  <1> HIDE DEF r
  <1>5. WalkOK(s, r)
    BY <1>3, FeedAssumption DEF WalkOK
  <1> QED BY <1>2, <1>3, <1>4, <1>5

(* The search is over and the walk begins at its result.                   *)
LEMMA FoundKeeps ==
    ASSUME FeedInv, NEW s \in Scanner, NEW value \in Nat, scan[s].pc \in Calling \ {"walk"},
           FoundCeiling(s, value), UNCHANGED <<contractVars, age, payloadAge, inflight, waiting>>
    PROVE  FeedInv'
PROOF
  <1> DEFINE r == [scan[s] EXCEPT !.pc = "walk", !.ceiling = value, !.id = value, !.now = 0,
                                  !.lo = 0, !.hi = 0]
  <1>1. scan \in [Scanner -> ScanRec]
    BY FeedTypes DEF FeedInv
  <1>2. r \in ScanRec
    BY <1>1, Instants DEF ScanRec, Calling
  <1>3. r.pc = "walk" /\ r.rows = scan[s].rows /\ r.kept = scan[s].kept /\ r.id = r.ceiling
    BY <1>1 DEF ScanRec
  <1>4. Advance(s, r)
    BY DEF FoundCeiling
  <1>5. cachedCeiling' \in CeilingRec
    BY <1>1, Instants DEF FoundCeiling, CeilingRec, ScanRec, NoCeiling
  <1> HIDE DEF r
  <1>6. scan[s].rows = <<>> /\ scan[s].kept \subseteq {t \in Minted : Wants(s, t)}
    BY DEF FeedInv, WalkOK
  <1>7. WalkOK(s, r)
    BY <1>3, <1>6, FeedAssumption DEF WalkOK
  <1>8. PollOK'
    BY <1>1, <1>3, <1>4, FeedAssumption DEF Advance, PollOK, FeedInv
  <1> QED BY <1>2, <1>4, <1>5, <1>7, <1>8, AdvanceKeeps DEF FeedInv, FeedTypeOK

(* The search goes on: neither rows nor what it owes change.               *)
LEMMA SearchKeeps ==
    ASSUME FeedInv, NEW s \in Scanner, NEW r \in ScanRec, scan[s].pc \in Calling \ {"walk"},
           r.pc \in Calling \ {"walk"}, r.rows = scan[s].rows, r.kept = scan[s].kept,
           Advance(s, r),
           UNCHANGED <<contractVars, age, cachedCeiling, payloadAge, inflight, waiting>>
    PROVE  FeedInv'
PROOF
  <1>1. scan \in [Scanner -> ScanRec] /\ cachedCeiling \in CeilingRec
    BY FeedTypes DEF FeedInv
  <1>2. WalkOK(s, r)
    BY DEF FeedInv, WalkOK
  <1>3. PollOK'
    BY <1>1, FeedAssumption DEF Advance, PollOK, FeedInv, Calling
  <1> QED BY <1>1, <1>2, <1>3, AdvanceKeeps DEF FeedInv, FeedTypeOK

LEMMA NarrowKeeps ==
    ASSUME FeedInv, NEW s \in Scanner, NEW lo \in Nat, NEW hi \in Nat,
           scan[s].pc \in Calling \ {"walk"}, Narrow(s, lo, hi),
           UNCHANGED <<contractVars, age, payloadAge, inflight, waiting>>
    PROVE  FeedInv'
PROOF
  <1>1. CASE hi - lo > 1
    <2> DEFINE r == [scan[s] EXCEPT !.pc = "bisect", !.lo = lo, !.hi = hi]
    <2>1. scan[s] \in ScanRec
      BY FeedTypes DEF FeedInv
    <2>2. /\ r \in ScanRec /\ r.pc \in Calling \ {"walk"}
          /\ r.rows = scan[s].rows /\ r.kept = scan[s].kept
      BY <2>1 DEF ScanRec, Calling
    <2>3. Advance(s, r) /\ UNCHANGED cachedCeiling
      BY <1>1 DEF Narrow
    <2> HIDE DEF r
    <2> QED BY <2>2, <2>3, SearchKeeps
  <1>2. CASE ~(hi - lo > 1)
    BY <1>2, FoundKeeps DEF Narrow
  <1> QED BY <1>1, <1>2

LEMMA SearchingKeeps ==
    ASSUME IInv, FeedInv, NEW s \in Scanner, UNCHANGED contractVars,
           SupplyAnswers(s) \/ SupplyFails(s) \/ Probe(s) \/ CheckLow(s) \/ Bisect(s)
    PROVE  FeedInv'
PROOF
  <1>1. scan[s] \in ScanRec /\ scan[s].lo \in Nat /\ scan[s].hi \in Nat
    BY FeedTypes DEF FeedInv, ScanRec
  <1>2. CASE SupplyAnswers(s)
    <2>1. (IF nextTokenId > 0 THEN nextTokenId - 1 ELSE 0) \in Nat
      BY MintedStay
    <2> QED BY <1>2, <2>1, FoundKeeps DEF SupplyAnswers, Calling
  <1>3. CASE SupplyFails(s)
    <2> DEFINE r == [scan[s] EXCEPT !.pc = "probe", !.hi = ProbeStart]
    <2>1. /\ r \in ScanRec /\ r.pc \in Calling \ {"walk"}
          /\ r.rows = scan[s].rows /\ r.kept = scan[s].kept
      BY <1>1, FeedAssumption DEF ScanRec, Calling
    <2>2. Advance(s, r) /\ scan[s].pc = "supply"
      BY <1>3 DEF SupplyFails
    <2> HIDE DEF r
    <2> QED BY <1>3, <2>1, <2>2, SearchKeeps DEF SupplyFails, Calling
  <1>4. CASE Probe(s)
    <2>1. CASE ~tokenExists(scan[s].hi)
      <3> DEFINE r == [scan[s] EXCEPT !.pc = "check"]
      <3>1. /\ r \in ScanRec /\ r.pc \in Calling \ {"walk"}
            /\ r.rows = scan[s].rows /\ r.kept = scan[s].kept
        BY <1>1 DEF ScanRec, Calling
      <3>2. Advance(s, r) /\ scan[s].pc = "probe" /\ UNCHANGED cachedCeiling
        BY <1>4, <2>1 DEF Probe
      <3> HIDE DEF r
      <3> QED BY <1>4, <3>1, <3>2, SearchKeeps DEF Probe, Calling
    <2>2. CASE tokenExists(scan[s].hi) /\ 2 * scan[s].hi < ProbeCeiling
      <3> DEFINE r == [scan[s] EXCEPT !.lo = scan[s].hi, !.hi = 2 * scan[s].hi]
      <3>0. 2 * scan[s].hi \in Nat
        BY <1>1
      <3>1. /\ r \in ScanRec /\ r.pc = scan[s].pc
            /\ r.rows = scan[s].rows /\ r.kept = scan[s].kept
        BY <1>1, <3>0 DEF ScanRec
      <3>2. Advance(s, r) /\ scan[s].pc = "probe" /\ UNCHANGED cachedCeiling
        BY <1>4, <2>2 DEF Probe
      <3> HIDE DEF r
      <3> QED BY <1>4, <3>1, <3>2, SearchKeeps DEF Probe, Calling
    <2>3. CASE tokenExists(scan[s].hi) /\ ~(2 * scan[s].hi < ProbeCeiling)
      BY <1>1, <1>4, <2>3, FoundKeeps DEF Probe, Calling
    <2> QED BY <2>1, <2>2, <2>3
  <1>5. CASE CheckLow(s)
    <2>1. scan[s].pc \in Calling \ {"walk"}
      BY <1>5 DEF CheckLow, Calling
    <2> QED BY <1>1, <1>5, <2>1, NarrowKeeps, FoundKeeps DEF CheckLow
  <1>6. CASE Bisect(s)
    <2> DEFINE mid == (scan[s].lo + scan[s].hi) \div 2
    <2>1. scan[s].pc \in Calling \ {"walk"}
      BY <1>6 DEF Bisect, Calling
    <2>2. mid \in Nat
      BY <1>1
    <2>3. /\ Narrow(s, mid, scan[s].hi) \/ Narrow(s, scan[s].lo, mid)
          /\ UNCHANGED <<age, payloadAge, inflight, waiting>>
      BY <1>6 DEF Bisect
    <2> HIDE DEF mid
    <2> QED BY <1>1, <2>1, <2>2, <2>3, NarrowKeeps
  <1> QED BY <1>2, <1>3, <1>4, <1>5, <1>6

(* One token is read: it is listed, or it is no receipt the scan owes.     *)
LEMMA RowKeeps ==
    ASSUME IInv, FeedInv, NEW s \in Scanner, UNCHANGED contractVars, fetchOneRow(s)
    PROVE  FeedInv'
PROOF
  <1> DEFINE r == Read(s, scan[s].id - 1)
             t == scan[s].id
  <1>1. /\ scan[s] \in ScanRec /\ cachedCeiling \in CeilingRec
        /\ scan \in [Scanner -> ScanRec]
    BY FeedTypes DEF FeedInv
  <1>2. /\ scan[s].pc = "walk" /\ t \in Nat /\ t - 1 \in Nat \cup {-1}
        /\ Len(scan[s].rows) < RowLimit[s] /\ RowLimit[s] \in Nat
        /\ scan[s].rows \in Seq(Token) /\ scan[s].kept \subseteq Token
    <2>1. /\ scan[s].pc = "walk" /\ ~Walked(s)
          /\ scan[s].id \in Nat \cup {-1} /\ scan[s].rows \in Seq(Token)
          /\ scan[s].kept \subseteq Token /\ RowLimit[s] \in Nat
      BY <1>1, FeedAssumption DEF fetchOneRow, ScanRec, Rows
    <2>2. t \in Nat /\ t - 1 \in Nat \cup {-1}
      BY <2>1 DEF Walked
    <2>3. Len(scan[s].rows) < RowLimit[s]
      BY <2>1 DEF Walked
    <2> QED BY <2>1, <2>2, <2>3
  <1>3. Minted \subseteq Token /\ Token \subseteq Nat
    BY ContractAssumption DEF IInv, ContractTypeOK, Minted, Token
  <1>4. WalkOK(s, scan[s])
    BY DEF FeedInv
  <1>5. r \in ScanRec /\ r.pc = "walk" /\ WalkOK(s, r)
    <2>1. CASE Listable(s, t)
      <3>1. r = [scan[s] EXCEPT !.id = t - 1, !.rows = Append(@, t), !.kept = @ \ {t}]
        BY <2>1 DEF Read
      <3>2. t \in Minted /\ IsReceipt(t)
        BY <2>1 DEF Listable, tokenExists
      <3>3. Append(scan[s].rows, t) \in Seq(Token)
        BY <1>2, <1>3, <3>2
      <3>4. r \in ScanRec
        BY <1>1, <1>2, <3>1, <3>3 DEF ScanRec, Rows
      <3>5. /\ r.pc = "walk" /\ r.rows = Append(scan[s].rows, t) /\ r.id = t - 1
            /\ r.kept = scan[s].kept \ {t} /\ r.ceiling = scan[s].ceiling
        BY <1>1, <1>2, <3>1 DEF ScanRec
      <3> HIDE DEF r
      <3>6. Len(r.rows) <= RowLimit[s]
        BY <1>2, <3>5
      <3>7. /\ DOMAIN r.rows = DOMAIN scan[s].rows \cup {Len(scan[s].rows) + 1}
            /\ \A i \in DOMAIN scan[s].rows : r.rows[i] = scan[s].rows[i] /\ i \in 1..Len(scan[s].rows)
            /\ r.rows[Len(scan[s].rows) + 1] = t
            /\ Len(scan[s].rows) \in Nat
        BY <1>2, <3>5
      <3>8. \A i \in DOMAIN scan[s].rows :
                scan[s].rows[i] \in Minted /\ IsReceipt(scan[s].rows[i]) /\ t < scan[s].rows[i]
        BY <1>2, <1>4 DEF WalkOK
      <3>9. \A i \in DOMAIN r.rows : r.rows[i] \in Minted /\ IsReceipt(r.rows[i]) /\ r.id < r.rows[i]
        <4> SUFFICES ASSUME NEW i \in DOMAIN r.rows
                     PROVE  r.rows[i] \in Minted /\ IsReceipt(r.rows[i]) /\ r.id < r.rows[i]
          OBVIOUS
        <4>1. CASE i \in DOMAIN scan[s].rows
          <5>1. r.rows[i] = scan[s].rows[i] /\ r.id = t - 1
            BY <4>1, <3>5, <3>7
          <5>2. scan[s].rows[i] \in Minted /\ IsReceipt(scan[s].rows[i]) /\ t < scan[s].rows[i]
            BY <4>1, <3>8
          <5>3. scan[s].rows[i] \in Nat /\ t \in Nat
            BY <1>2, <1>3, <5>2
          <5>4. t - 1 < scan[s].rows[i]
            BY <5>2, <5>3
          <5> QED BY <5>1, <5>2, <5>4
        <4>2. CASE i = Len(scan[s].rows) + 1
          BY <4>2, <1>2, <3>2, <3>5, <3>7
        <4> QED BY <4>1, <4>2, <3>7
      <3>10. \A i, j \in DOMAIN r.rows : i < j => r.rows[i] > r.rows[j]
        <4> SUFFICES ASSUME NEW i \in DOMAIN r.rows, NEW j \in DOMAIN r.rows, i < j
                     PROVE  r.rows[i] > r.rows[j]
          OBVIOUS
        <4>1. i \in DOMAIN scan[s].rows
          BY <3>7
        <4>2. CASE j \in DOMAIN scan[s].rows
          BY <4>1, <4>2, <1>2, <1>4, <3>7 DEF WalkOK
        <4>3. CASE j = Len(scan[s].rows) + 1
          BY <4>1, <4>3, <1>2, <1>3, <3>7, <3>8
        <4> QED BY <4>2, <4>3, <3>7
      <3>11. \A u \in r.kept : IsReceipt(u) /\ u <= r.ceiling => u <= r.id
        <4> SUFFICES ASSUME NEW u \in r.kept, IsReceipt(u), u <= r.ceiling
                     PROVE  u <= r.id
          OBVIOUS
        <4>1. u \in scan[s].kept /\ u # t /\ u \in Nat
          BY <1>2, <1>3, <3>5
        <4>2. u <= t
          BY <4>1, <1>2, <1>4, <3>5 DEF WalkOK
        <4> QED BY <4>1, <4>2, <1>2, <3>5
      <3>12. r.kept \subseteq {u \in Minted : Wants(s, u)}
        BY <1>4, <3>5 DEF WalkOK
      <3> QED BY <3>4, <3>5, <3>6, <3>9, <3>10, <3>11, <3>12 DEF WalkOK
    <2>2. CASE ~Listable(s, t)
      <3>1. r = [scan[s] EXCEPT !.id = t - 1]
        BY <2>2 DEF Read
      <3>2. r \in ScanRec
        BY <1>1, <1>2, <3>1 DEF ScanRec
      <3>3. /\ r.pc = "walk" /\ r.rows = scan[s].rows /\ r.id = t - 1
            /\ r.kept = scan[s].kept /\ r.ceiling = scan[s].ceiling
        BY <1>1, <1>2, <3>1 DEF ScanRec
      <3> HIDE DEF r
      <3>4. \A u \in r.kept : IsReceipt(u) /\ u <= r.ceiling => u <= r.id
        <4> SUFFICES ASSUME NEW u \in r.kept, IsReceipt(u), u <= r.ceiling
                     PROVE  u <= r.id
          OBVIOUS
        <4>1. u \in scan[s].kept /\ u \in Nat /\ u \in Minted /\ Wants(s, u)
          BY <1>2, <1>3, <1>4, <3>3 DEF WalkOK
        <4>2. u <= t
          BY <4>1, <1>2, <1>4, <3>3 DEF WalkOK
        <4>3. u # t
          BY <4>1, <2>2 DEF Listable, tokenExists
        <4> QED BY <4>1, <4>2, <4>3, <1>2, <3>3
      <3>5. \A i \in DOMAIN r.rows : r.rows[i] \in Minted /\ IsReceipt(r.rows[i]) /\ r.id < r.rows[i]
        <4> SUFFICES ASSUME NEW i \in DOMAIN r.rows
                     PROVE  r.rows[i] \in Minted /\ IsReceipt(r.rows[i]) /\ r.id < r.rows[i]
          OBVIOUS
        <4>1. r.rows[i] \in Minted /\ IsReceipt(r.rows[i]) /\ t < r.rows[i]
          BY <1>2, <1>4, <3>3 DEF WalkOK
        <4>2. r.rows[i] \in Nat /\ t \in Nat
          BY <1>2, <1>3, <4>1
        <4>3. t - 1 < r.rows[i]
          BY <4>1, <4>2
        <4> QED BY <3>3, <4>1, <4>3
      <3> QED BY <1>2, <1>4, <3>2, <3>3, <3>4, <3>5 DEF WalkOK
    <2> QED BY <2>1, <2>2
  <1>6. /\ Advance(s, r)
        /\ UNCHANGED <<age, cachedCeiling, payloadAge, inflight, waiting>>
    BY DEF fetchOneRow
  <1> HIDE DEF r
  <1>7. PollOK'
    BY <1>1, <1>5, <1>6, FeedAssumption DEF Advance, PollOK, FeedInv
  <1> QED BY <1>1, <1>5, <1>6, <1>7, AdvanceKeeps DEF FeedInv, FeedTypeOK

(* A scan ends, and settles what waits for it if it is the route's.        *)
LEMMA EndingKeeps ==
    ASSUME FeedInv, NEW s \in Scanner, UNCHANGED contractVars, ScanDone(s) \/ CallFails(s)
    PROVE  FeedInv'
PROOF
  <1>1. cachedCeiling \in CeilingRec /\ scan \in [Scanner -> ScanRec]
    BY FeedTypes DEF FeedInv
  <1>2. Advance(s, NoScan) /\ UNCHANGED <<age, cachedCeiling>>
    BY DEF ScanDone, CallFails
  <1>3. /\ payloadAge' \in 0..PayloadTTL
        /\ inflight' \in BOOLEAN /\ waiting' \subseteq Poll
    BY Instants DEF ScanDone, CallFails, Settle, FeedInv, FeedTypeOK
  <1>4. PollOK'
    BY <1>1, <1>2, FeedAssumption DEF ScanDone, CallFails, Settle, Advance, PollOK, FeedInv
  <1> QED BY <1>1, <1>2, <1>3, <1>4, NoScanOK, AdvanceKeeps

LEMMA AskingKeeps ==
    ASSUME IInv, FeedInv, UNCHANGED contractVars,
           \/ \E s \in Scanner : PageRenders(s)
           \/ \E p \in Poll : getCachedFeed(p)
    PROVE  FeedInv'
PROOF
  <1>1. cachedCeiling \in CeilingRec /\ scan \in [Scanner -> ScanRec]
    BY FeedTypes DEF FeedInv
  <1>2. ASSUME NEW s \in Scanner, PageRenders(s)
        PROVE  FeedInv'
    <2>1. PICK r \in ScanRec : r.pc # "idle" /\ WalkOK(s, r) /\ Advance(s, r)
      BY <1>2, StartsWell DEF PageRenders
    <2>2. PollOK'
      BY <1>1, <1>2, <2>1, FeedAssumption DEF PageRenders, Advance, PollOK, FeedInv
    <2> QED BY <1>1, <1>2, <2>1, <2>2, AdvanceKeeps DEF PageRenders, FeedInv, FeedTypeOK
  <1>3. ASSUME NEW p \in Poll, getCachedFeed(p)
        PROVE  FeedInv'
    <2>1. /\ waiting' \subseteq Poll /\ UNCHANGED <<age, cachedCeiling, payloadAge>>
          /\ payloadAge' \in 0..PayloadTTL
      BY <1>3 DEF getCachedFeed, FeedInv, FeedTypeOK
    <2>2. CASE inflight
      <3>1. UNCHANGED <<scan, inflight>>
        BY <1>3, <2>2 DEF getCachedFeed
      <3>2. PollOK'
        BY <2>2, <3>1 DEF PollOK, FeedInv
      <3>3. scan' = [scan EXCEPT ![Route] = scan[Route]]
        BY <3>1, <1>1
      <3>4. WalkOK(Route, scan[Route]) /\ scan[Route] \in ScanRec /\ Route \in Scanner
        BY <1>1, FeedAssumption DEF FeedInv
      <3> QED BY <1>1, <2>1, <3>1, <3>2, <3>3, <3>4, AdvanceKeeps DEF Advance, FeedInv, FeedTypeOK
    <2>3. CASE ~inflight
      <3>1. inflight' = TRUE /\ StartScan(Route) /\ Route \in Scanner
        BY <1>3, <2>3, FeedAssumption DEF getCachedFeed
      <3>2. PICK r \in ScanRec : r.pc # "idle" /\ WalkOK(Route, r) /\ Advance(Route, r)
        BY <3>1, StartsWell
      <3>3. PollOK'
        BY <1>1, <3>1, <3>2 DEF Advance, PollOK
      <3> QED BY <1>1, <2>1, <3>1, <3>2, <3>3, AdvanceKeeps
    <2> QED BY <2>2, <2>3
  <1> QED BY <1>2, <1>3

(* Time passes: what has been listed and what is owed do not depend on it. *)
LEMMA TickKeeps ==
    ASSUME FeedInv, UNCHANGED contractVars, Tick
    PROVE  FeedInv'
PROOF
  <1>1. cachedCeiling \in CeilingRec /\ scan \in [Scanner -> ScanRec]
    BY FeedTypes DEF FeedInv
  <1>2. \A cap \in Nat : \A n \in 0..cap : Older(n, cap) \in 0..cap
    BY DEF Older
  <1>3. ASSUME NEW s \in Scanner
        PROVE  /\ scan'[s] \in ScanRec
               /\ scan'[s].pc = scan[s].pc /\ scan'[s].rows = scan[s].rows
               /\ scan'[s].kept = scan[s].kept /\ scan'[s].id = scan[s].id
               /\ scan'[s].ceiling = scan[s].ceiling
    <2>1. scan'[s] \in {scan[s], [scan[s] EXCEPT !.now = Older(@, CeilingTTL)]}
      BY <1>1 DEF Tick
    <2>2. scan[s] \in ScanRec /\ Older(scan[s].now, CeilingTTL) \in 0..CeilingTTL
      BY <1>1, <1>2, Instants DEF ScanRec
    <2> QED BY <2>1, <2>2 DEF ScanRec
  <1>4. scan' \in [Scanner -> ScanRec]
    <2>1. DOMAIN scan' = Scanner /\ scan' = [s \in Scanner |-> scan'[s]]
      BY DEF Tick
    <2> QED BY <1>3, <2>1
  <1>5. /\ age' \in [Token -> 0..CeilingTTL] /\ payloadAge' \in 0..PayloadTTL
        /\ cachedCeiling' \in CeilingRec
    <2>1. age' \in [Token -> 0..CeilingTTL]
      BY <1>2, Instants DEF Tick, FeedInv, FeedTypeOK
    <2>2. payloadAge' \in 0..PayloadTTL
      BY <1>2, Instants DEF Tick, FeedInv, FeedTypeOK
    <2>3. cachedCeiling' \in CeilingRec
      BY <1>1, Instants DEF Tick, CeilingRec, NoCeiling
    <2> QED BY <2>1, <2>2, <2>3
  <1>6. FeedTypeOK'
    BY <1>4, <1>5 DEF Tick, FeedInv, FeedTypeOK, ScanRec, CeilingRec, Token, Rows
  <1>7. PollOK'
    BY <1>3, FeedAssumption DEF Tick, PollOK, FeedInv
  <1>8. ASSUME NEW s \in Scanner
        PROVE  WalkOK(s, scan[s])'
    <2>1. UNCHANGED <<nextTokenId, owner, intelligentData>>
      BY DEF contractVars, supply, content
    <2> QED BY <1>3, <2>1 DEF FeedInv, WalkOK, Minted, Wants, IsReceipt
  <1>9. Settled'
    BY DEF FeedInv, Settled, contractVars, supply
  <1> QED BY <1>6, <1>7, <1>8, <1>9 DEF FeedInv

(* A mint or a transfer in between: the rows stay receipts, and what the   *)
(* agent gives away is no longer owed.                                     *)
LEMMA ChainMovesAllowed == ASSUME IInv, FeedInv, ChainMoves PROVE ContractNext
PROOF
  <1>1. ASSUME NEW to \in Account, NEW datas \in Data, iMint(Deployer, to, datas, 0)
        PROVE  ContractNext
    BY <1>1, ContractAssumption DEF ContractNext, Called, MayCall, FeedInv
  <1>2. ASSUME NEW to \in Account, NEW t \in Minted, iTransferFrom(owner[t], owner[t], to, t)
        PROVE  ContractNext
    <2>1. t \in Token /\ t < nextTokenId
      BY ContractAssumption DEF IInv, ContractTypeOK, Minted, Token
    <2>2. owner[t] \in Account
      BY <2>1 DEF IInv, ContractTypeOK, SupplyExact
    <2> QED BY <1>2, <2>2 DEF ContractNext, Called, MayCall, FeedInv
  <1> QED BY <1>1, <1>2 DEF ChainMoves

LEMMA ChainMovesKeep ==
    ASSUME IInv, FeedInv, ChainMoves
    PROVE  FeedInv'
PROOF
  <1>1. cachedCeiling \in CeilingRec /\ scan \in [Scanner -> ScanRec]
    BY FeedTypes DEF FeedInv
  <1>2. \A t \in Minted : t \in Minted' /\ intelligentData'[t] = intelligentData[t]
    BY ChainMovesAllowed, MintedStay DEF FeedInv, Settled, Minting
  <1>3. /\ scan' = [s \in Scanner |->
               [scan[s] EXCEPT !.kept = {t \in @ : Filter[s] \in {None, owner'[t]}}]]
        /\ UNCHANGED <<age, cachedCeiling, payloadAge, inflight, waiting>>
    BY DEF ChainMoves
  <1>4. ASSUME NEW s \in Scanner
        PROVE  /\ scan'[s] \in ScanRec
               /\ scan'[s].pc = scan[s].pc /\ scan'[s].rows = scan[s].rows
               /\ scan'[s].id = scan[s].id /\ scan'[s].ceiling = scan[s].ceiling
               /\ scan'[s].kept = {t \in scan[s].kept : Filter[s] \in {None, owner'[t]}}
    BY <1>1, <1>3 DEF ScanRec
  <1>5. scan' \in [Scanner -> ScanRec]
    BY <1>3, <1>4
  <1>6. FeedTypeOK'
    BY <1>3, <1>5 DEF FeedInv, FeedTypeOK, ScanRec, CeilingRec, Token, Rows
  <1>7. PollOK'
    BY <1>3, <1>4, FeedAssumption DEF PollOK, FeedInv
  <1>8. ASSUME NEW s \in Scanner
        PROVE  WalkOK(s, scan[s])'
    <2>1. WalkOK(s, scan[s])
      BY DEF FeedInv
    <2>2. \A t \in Minted : IsReceipt(t)' <=> IsReceipt(t)
      BY <1>2 DEF IsReceipt
    <2>3. scan'[s].kept \subseteq {t \in Minted' : Wants(s, t)'}
      BY <1>2, <1>4, <2>1 DEF WalkOK, Wants
    <2>4. \A t \in scan'[s].kept : t \in Minted /\ t \in scan[s].kept
      BY <1>4, <2>1 DEF WalkOK
    <2>5. scan'[s].pc = "walk" =>
              \A i \in DOMAIN scan'[s].rows :
                  /\ scan'[s].rows[i] \in Minted'
                  /\ IsReceipt(scan[s].rows[i])' /\ scan'[s].id < scan'[s].rows[i]
      <3> SUFFICES ASSUME scan'[s].pc = "walk", NEW i \in DOMAIN scan'[s].rows
                   PROVE  /\ scan'[s].rows[i] \in Minted'
                          /\ IsReceipt(scan[s].rows[i])' /\ scan'[s].id < scan'[s].rows[i]
        OBVIOUS
      <3>1. /\ scan[s].rows[i] \in Minted /\ IsReceipt(scan[s].rows[i])
            /\ scan[s].id < scan[s].rows[i] /\ scan'[s].rows[i] = scan[s].rows[i]
        BY <1>4, <2>1 DEF WalkOK
      <3>2. scan[s].rows[i] \in Minted' /\ intelligentData'[scan[s].rows[i]] = intelligentData[scan[s].rows[i]]
        BY <1>2, <3>1
      <3>3. IsReceipt(scan[s].rows[i])'
        BY <3>1, <3>2 DEF IsReceipt
      <3> QED BY <1>4, <3>1, <3>2, <3>3
    <2>6. scan'[s].pc = "walk" =>
              \A t \in scan'[s].kept : IsReceipt(t)' /\ t <= scan'[s].ceiling => t <= scan'[s].id
      BY <1>4, <2>1, <2>2, <2>4 DEF WalkOK
    <2> QED BY <1>4, <2>1, <2>3, <2>5, <2>6 DEF WalkOK
  <1>9. Settled'
    <2>1. calls' = calls
      BY DEF ChainMoves, iMint, safeMint, iTransferFrom
    <2> QED BY <2>1 DEF FeedInv, Settled
  <1> QED BY <1>6, <1>7, <1>8, <1>9 DEF FeedInv

LEMMA FeedStep ==
    IInv /\ FeedInv
      /\ [ChainMoves \/ (FeedNext /\ UNCHANGED contractVars)]_<<contractVars, feedVars>>
    => IInv' /\ FeedInv'
PROOF
  <1> SUFFICES ASSUME IInv, FeedInv,
                      [ChainMoves \/ (FeedNext /\ UNCHANGED contractVars)]_<<contractVars, feedVars>>
               PROVE  IInv' /\ FeedInv'
    OBVIOUS
  <1>1. CASE ChainMoves
    BY <1>1, ChainMovesAllowed, ChainMovesKeep, Step
  <1>2. CASE UNCHANGED contractVars /\ FeedNext
    <2>1. IInv'
      BY <1>2, Step
    <2>2. ASSUME NEW s \in Scanner, ScanStep(s)
          PROVE  FeedInv'
      BY <1>2, <2>2, SearchingKeeps, RowKeeps, EndingKeeps DEF ScanStep
    <2> QED BY <1>2, <2>1, <2>2, AskingKeeps, TickKeeps DEF FeedNext
  <1>3. CASE UNCHANGED <<contractVars, feedVars>>
    <2>1. IInv'
      BY <1>3, Step
    <2>2. UNCHANGED <<nextTokenId, owner, intelligentData>>
      BY <1>3 DEF contractVars, supply, content
    <2>3. FeedTypeOK' /\ PollOK'
      BY <1>3 DEF feedVars, FeedInv, FeedTypeOK, PollOK, Token, Rows
    <2>4. \A s \in Scanner : WalkOK(s, scan[s])'
      BY <1>3, <2>2 DEF feedVars, FeedInv, WalkOK, Minted, Wants, IsReceipt
    <2>5. Settled'
      BY <1>3 DEF FeedInv, Settled, contractVars, supply
    <2> QED BY <2>1, <2>3, <2>4, <2>5 DEF FeedInv
  <1> QED BY <1>1, <1>2, <1>3

LEMMA FeedInvariance == FeedSpec => [](IInv /\ FeedInv)
PROOF
  <1>1. ContractInit /\ FeedInit => IInv /\ FeedInv
    BY InitInv, FeedInitInv
  <1> QED BY <1>1, FeedStep, PTL DEF FeedSpec

(* Whichever call of whichever scan fails, no request to /api/feed waits   *)
(* for a scan that is not under way.                                       *)
THEOREM PollsAreServed == FeedSpec => []PollServed
PROOF
  <1>1. FeedInv => PollServed
    BY DEF FeedInv, PollOK, PollServed
  <1> QED BY <1>1, FeedInvariance, PTL

(* What a scan owes when it ends: what it has not listed is below where it *)
(* stopped, so only the limit on its rows can have stopped it.             *)
LEMMA OwesNothingElse ==
    ASSUME IInv, FeedInv, NEW s \in Scanner, Over(s)
    PROVE  Complete(s)
PROOF
  <1>1. scan[s] \in ScanRec /\ WalkOK(s, scan[s]) /\ scan[s].pc = "walk" /\ Walked(s)
    BY FeedTypes DEF FeedInv, Over
  <1>2. Minted \subseteq Token /\ Token \subseteq Nat
    BY ContractAssumption DEF IInv, ContractTypeOK, Minted, Token
  <1>3. /\ scan[s].ceiling \in Nat /\ WalkDepth[s] \in Nat /\ RowLimit[s] \in Nat
        /\ scan[s].id \in Nat \cup {-1} /\ scan[s].rows \in Seq(Token)
        /\ scan[s].kept \subseteq Token
    BY <1>1, FeedAssumption DEF ScanRec, Rows
  <1> SUFFICES ASSUME NEW t \in Owed(s)
               PROVE  /\ Len(scan[s].rows) = RowLimit[s]
                      /\ \A u \in Shown(s) : u > t
    BY DEF Complete
  <1>4. /\ t \in scan[s].kept /\ IsReceipt(t) /\ t \in Nat
        /\ t >= scan[s].ceiling - WalkDepth[s] /\ t <= scan[s].ceiling
    BY <1>2, <1>3 DEF Owed
  <1>5. t <= scan[s].id
    BY <1>1, <1>4 DEF WalkOK
  <1>6. ~(scan[s].id < 0) /\ ~(scan[s].id < scan[s].ceiling - WalkDepth[s])
    BY <1>3, <1>4, <1>5
  <1>7. Len(scan[s].rows) >= RowLimit[s] /\ Len(scan[s].rows) <= RowLimit[s]
    BY <1>1, <1>6 DEF Walked, WalkOK
  <1>8. Len(scan[s].rows) = RowLimit[s]
    BY <1>3, <1>7
  <1>9. ASSUME NEW u \in Shown(s)
        PROVE  u > t
    <2>1. u \in Minted /\ scan[s].id < u
      BY <1>1 DEF Shown, WalkOK
    <2>2. u \in Nat
      BY <1>2, <2>1
    <2> QED BY <1>3, <1>4, <1>5, <2>1, <2>2
  <1> QED BY <1>8, <1>9

(* What /api/feed lists are receipts, newest first, none twice and none    *)
(* left out that it owes, whatever the limit, the depth and the filter,    *)
(* and whatever is minted and transferred during the walk.                 *)
THEOREM RowsAreFaithful == FeedSpec => []PayloadFaithful
PROOF
  <1>1. IInv /\ FeedInv => PayloadFaithful
    <2> SUFFICES ASSUME IInv, FeedInv, Over(Route)
                 PROVE  /\ \A i \in DOMAIN scan[Route].rows : IsReceipt(scan[Route].rows[i])
                        /\ \A i, j \in DOMAIN scan[Route].rows :
                               i < j => scan[Route].rows[i] > scan[Route].rows[j]
                        /\ Complete(Route)
      BY DEF PayloadFaithful
    <2>1. Route \in Scanner
      BY FeedAssumption
    <2>2. WalkOK(Route, scan[Route]) /\ scan[Route].pc = "walk"
      BY <2>1 DEF FeedInv, Over
    <2> QED BY <2>1, <2>2, OwesNothingElse DEF WalkOK
  <1> QED BY <1>1, FeedInvariance, PTL

(* Nor does an agent's page leave out a receipt the agent held all along.  *)
THEOREM AgentsSeeTheirOwn == FeedSpec => []AgentComplete
PROOF
  <1>1. IInv /\ FeedInv => AgentComplete
    BY OwesNothingElse DEF AgentComplete
  <1> QED BY <1>1, FeedInvariance, PTL

-----------------------------------------------------------------------------
(***************************************************************************)
(* The cached ceiling.  A search has a bracket: below it a token that      *)
(* exists, or none at all, and above it nothing older than the question.   *)
(***************************************************************************)

Young == \A t \in Token \ Minted : age[t] = 0

Searches == {"probe", "check", "bisect"}

Bracket(lo, hi) == lo < hi /\ (lo = 0 \/ lo \in Minted)

Above(hi, now) == \A t \in Minted : age[t] > now => t < hi

BracketOK(r) ==
    /\ r.pc = "supply" => r.lo = 0
    /\ r.pc \in Searches => Bracket(r.lo, r.hi)
    /\ r.pc \in {"check", "bisect"} => Above(r.hi, r.now)
    /\ r.pc = "bisect" => r.hi - r.lo > 1

FreshInv == Young /\ (\A s \in Scanner : BracketOK(scan[s])) /\ CeilingFresh

Quiet == UNCHANGED <<contractVars, age>>

LEMMA FreshInit == ContractInit /\ FeedInit => FreshInv
BY Instants DEF FeedInit, FreshInv, Young, BracketOK, NoScan, NoCeiling, CeilingFresh, Searches

(* A scan moves on under a bracket, or without one.                        *)
LEMMA MoveFresh ==
    ASSUME FeedInv, FreshInv, Quiet, UNCHANGED cachedCeiling,
           NEW s \in Scanner, NEW r, Advance(s, r), BracketOK(r)
    PROVE  FreshInv'
PROOF
  <1>1. scan \in [Scanner -> ScanRec] /\ scan' = [scan EXCEPT ![s] = r]
    BY FeedTypes DEF FeedInv, Advance
  <1>2. UNCHANGED <<nextTokenId, age, cachedCeiling>>
    BY DEF Quiet, contractVars, supply
  <1>3. ASSUME NEW u \in Scanner
        PROVE  BracketOK(scan[u])'
    <2>1. BracketOK(scan'[u])
      BY <1>1 DEF FreshInv
    <2> QED BY <1>2, <2>1 DEF BracketOK, Bracket, Above, Minted
  <1>4. Young' /\ CeilingFresh'
    BY <1>2 DEF FreshInv, Young, CeilingFresh, Minted, Token, tokenExists
  <1> QED BY <1>3, <1>4 DEF FreshInv

(* The answer is stored with the age of its question.                      *)
LEMMA FoundFresh ==
    ASSUME FeedInv, FreshInv, Quiet, NEW s \in Scanner, NEW value \in Nat,
           FoundCeiling(s, value), value = 0 \/ value \in Minted,
           \A t \in Minted : age[t] > scan[s].now => t <= value
    PROVE  FreshInv'
PROOF
  <1> DEFINE r == [scan[s] EXCEPT !.pc = "walk", !.ceiling = value, !.id = value, !.now = 0,
                                  !.lo = 0, !.hi = 0]
  <1>1. scan \in [Scanner -> ScanRec] /\ scan[s] \in ScanRec
    BY FeedTypes DEF FeedInv
  <1>2. scan' = [scan EXCEPT ![s] = r]
    BY DEF FoundCeiling, Advance
  <1>3. BracketOK(r)
    BY <1>1 DEF BracketOK, ScanRec, Searches
  <1> HIDE DEF r
  <1>4. UNCHANGED <<nextTokenId, age>>
    BY DEF Quiet, contractVars, supply
  <1>5. ASSUME NEW u \in Scanner
        PROVE  BracketOK(scan[u])'
    <2>1. BracketOK(scan'[u])
      BY <1>1, <1>2, <1>3 DEF FreshInv
    <2> QED BY <1>4, <2>1 DEF BracketOK, Bracket, Above, Minted
  <1>6. Young'
    BY <1>4 DEF FreshInv, Young, Minted, Token
  <1>7. CeilingFresh'
    <2>1. CASE scan[s].now < CeilingTTL
      <3>1. cachedCeiling' = [value |-> value, age |-> scan[s].now]
        BY <2>1 DEF FoundCeiling
      <3> QED BY <1>4, <3>1 DEF CeilingFresh, Minted, tokenExists
    <2>2. CASE ~(scan[s].now < CeilingTTL)
      <3>1. cachedCeiling' = NoCeiling
        BY <2>2 DEF FoundCeiling
      <3> QED BY <3>1, Instants DEF CeilingFresh, NoCeiling
    <2> QED BY <2>1, <2>2
  <1> QED BY <1>5, <1>6, <1>7 DEF FreshInv

(* A narrower bracket, or the answer at its lower end.                     *)
LEMMA NarrowFresh ==
    ASSUME IInv, FeedInv, FreshInv, Quiet, NEW s \in Scanner, NEW lo \in Nat, NEW hi \in Nat,
           Bracket(lo, hi), Above(hi, scan[s].now), Narrow(s, lo, hi)
    PROVE  FreshInv'
PROOF
  <1>1. scan[s] \in ScanRec /\ Minted \subseteq Nat
    BY FeedTypes, ContractAssumption DEF FeedInv, IInv, ContractTypeOK, Minted
  <1>2. CASE hi - lo > 1
    <2> DEFINE r == [scan[s] EXCEPT !.pc = "bisect", !.lo = lo, !.hi = hi]
    <2>1. /\ r.pc = "bisect" /\ r.lo = lo /\ r.hi = hi /\ r.now = scan[s].now
          /\ Advance(s, r) /\ UNCHANGED cachedCeiling
      BY <1>1, <1>2 DEF Narrow, ScanRec
    <2> HIDE DEF r
    <2>2. BracketOK(r)
      BY <1>2, <2>1 DEF BracketOK
    <2> QED BY <2>1, <2>2, MoveFresh
  <1>3. CASE ~(hi - lo > 1)
    <2>1. hi = lo + 1
      BY <1>3 DEF Bracket
    <2>2. ASSUME NEW t \in Minted, age[t] > scan[s].now
          PROVE  t <= lo
      <3>1. t < hi /\ t \in Nat
        BY <1>1, <2>2 DEF Above
      <3> QED BY <2>1, <3>1
    <2>3. FoundCeiling(s, lo)
      BY <1>3 DEF Narrow
    <2> QED BY <2>2, <2>3, FoundFresh DEF Bracket
  <1> QED BY <1>2, <1>3

(* What is not minted bounds what is.                                      *)
LEMMA NoneAbove ==
    ASSUME IInv, NEW hi \in Nat, ~tokenExists(hi)
    PROVE  \A t \in Minted : t < hi
BY ContractAssumption DEF IInv, ContractTypeOK, tokenExists, Minted

LEMMA SearchFresh ==
    ASSUME 2 * MaxTokens <= ProbeCeiling,
           IInv, FeedInv, FreshInv, NEW s \in Scanner, UNCHANGED contractVars,
           SupplyAnswers(s) \/ SupplyFails(s) \/ Probe(s) \/ CheckLow(s) \/ Bisect(s)
    PROVE  FreshInv'
PROOF
  <1>1. scan[s] \in ScanRec /\ scan[s].lo \in Nat /\ scan[s].hi \in Nat
    BY FeedTypes DEF FeedInv, ScanRec
  <1>2. BracketOK(scan[s])
    BY DEF FreshInv
  <1>3. Quiet
    BY DEF Quiet, SupplyAnswers, SupplyFails, Probe, CheckLow, Bisect
  <1>4. nextTokenId \in Nat /\ nextTokenId <= MaxTokens /\ MaxTokens \in Nat /\ ProbeCeiling \in Nat
    BY ContractAssumption, FeedAssumption DEF IInv, ContractTypeOK
  <1>5. CASE SupplyAnswers(s)
    <2> DEFINE value == IF nextTokenId > 0 THEN nextTokenId - 1 ELSE 0
    <2>1. /\ value \in Nat
          /\ value = 0 \/ value \in Minted
          /\ \A t \in Minted : t <= value
      BY <1>4 DEF Minted
    <2>2. FoundCeiling(s, value)
      BY <1>5 DEF SupplyAnswers
    <2> HIDE DEF value
    <2> QED BY <1>3, <2>1, <2>2, FoundFresh
  <1>6. CASE SupplyFails(s)
    <2> DEFINE r == [scan[s] EXCEPT !.pc = "probe", !.hi = ProbeStart]
    <2>1. /\ r.pc = "probe" /\ r.lo = 0 /\ r.hi = ProbeStart
          /\ Advance(s, r) /\ UNCHANGED cachedCeiling
      BY <1>1, <1>2, <1>6 DEF SupplyFails, BracketOK, ScanRec
    <2> HIDE DEF r
    <2>2. BracketOK(r)
      BY <2>1, Instants DEF BracketOK, Bracket
    <2> QED BY <1>3, <2>1, <2>2, MoveFresh
  <1>7. CASE Probe(s)
    <2>1. scan[s].pc = "probe" /\ Bracket(scan[s].lo, scan[s].hi)
      BY <1>2, <1>7 DEF Probe, BracketOK, Searches
    <2>2. CASE ~tokenExists(scan[s].hi)
      <3> DEFINE r == [scan[s] EXCEPT !.pc = "check"]
      <3>1. /\ r.pc = "check" /\ r.lo = scan[s].lo /\ r.hi = scan[s].hi
            /\ Advance(s, r) /\ UNCHANGED cachedCeiling
        BY <1>1, <1>7, <2>2 DEF Probe, ScanRec
      <3> HIDE DEF r
      <3>2. BracketOK(r)
        BY <1>1, <2>1, <2>2, <3>1, NoneAbove DEF BracketOK, Above
      <3> QED BY <1>3, <3>1, <3>2, MoveFresh
    <2>3. CASE tokenExists(scan[s].hi)
      <3> DEFINE r == [scan[s] EXCEPT !.lo = scan[s].hi, !.hi = 2 * scan[s].hi]
      <3>1. /\ scan[s].hi \in Minted /\ scan[s].hi > 0 /\ scan[s].hi < MaxTokens
        BY <1>1, <1>4, <2>1, <2>3 DEF tokenExists, Minted, Bracket
      <3>2. 2 * scan[s].hi < ProbeCeiling
        BY <1>1, <1>4, <3>1
      <3>3. /\ r.pc = "probe" /\ r.lo = scan[s].hi /\ r.hi = 2 * scan[s].hi
            /\ Advance(s, r) /\ UNCHANGED cachedCeiling
        BY <1>1, <1>7, <2>1, <2>3, <3>2 DEF Probe, ScanRec
      <3> HIDE DEF r
      <3>4. scan[s].hi < 2 * scan[s].hi
        BY <1>1, <3>1
      <3>5. BracketOK(r)
        BY <3>1, <3>3, <3>4 DEF BracketOK, Bracket
      <3> QED BY <1>3, <3>3, <3>5, MoveFresh
    <2> QED BY <2>2, <2>3
  <1>8. CASE CheckLow(s)
    <2>1. Bracket(scan[s].lo, scan[s].hi) /\ Above(scan[s].hi, scan[s].now)
      BY <1>2, <1>8 DEF CheckLow, BracketOK, Searches
    <2>2. CASE tokenExists(scan[s].lo)
      BY <1>1, <1>3, <1>8, <2>1, <2>2, NarrowFresh DEF CheckLow
    <2>3. CASE ~tokenExists(scan[s].lo)
      <3>1. scan[s].lo = 0
        BY <2>1, <2>3 DEF Bracket, tokenExists
      <3>2. \A t \in Minted : t <= 0
        BY <1>4, <2>3, <3>1 DEF tokenExists, Minted
      <3>3. FoundCeiling(s, 0)
        BY <1>8, <2>3 DEF CheckLow
      <3> QED BY <1>3, <3>2, <3>3, FoundFresh
    <2> QED BY <2>2, <2>3
  <1>9. CASE Bisect(s)
    <2> DEFINE mid == (scan[s].lo + scan[s].hi) \div 2
    <2>1. /\ Bracket(scan[s].lo, scan[s].hi) /\ Above(scan[s].hi, scan[s].now)
          /\ scan[s].hi - scan[s].lo > 1
      BY <1>2, <1>9 DEF Bisect, BracketOK, Searches
    <2>2. mid \in Nat /\ scan[s].lo < mid /\ mid < scan[s].hi
      BY <1>1, <2>1
    <2>3. IF tokenExists(mid) THEN Narrow(s, mid, scan[s].hi) ELSE Narrow(s, scan[s].lo, mid)
      BY <1>9 DEF Bisect
    <2> HIDE DEF mid
    <2>4. CASE tokenExists(mid)
      <3>1. Bracket(mid, scan[s].hi)
        BY <2>2, <2>4 DEF Bracket, tokenExists
      <3> QED BY <1>1, <1>3, <2>1, <2>2, <2>3, <2>4, <3>1, NarrowFresh
    <2>5. CASE ~tokenExists(mid)
      <3>1. Bracket(scan[s].lo, mid)
        BY <2>1, <2>2 DEF Bracket
      <3>2. Above(mid, scan[s].now)
        BY <2>2, <2>5, NoneAbove DEF Above
      <3> QED BY <1>1, <1>3, <2>2, <2>3, <2>5, <3>1, <3>2, NarrowFresh
    <2> QED BY <2>4, <2>5
  <1> QED BY <1>5, <1>6, <1>7, <1>8, <1>9

(* Whatever ends a scan, starts one or asks for one leaves the cache and   *)
(* the other brackets alone.                                               *)
LEMMA StartFresh ==
    ASSUME FeedInv, FreshInv, Quiet, UNCHANGED cachedCeiling, NEW s \in Scanner, StartScan(s)
    PROVE  FreshInv'
PROOF
  <1> DEFINE fresh == cachedCeiling.age < CeilingTTL
             r == [NoScan EXCEPT
                      !.pc = IF fresh THEN "walk" ELSE "supply",
                      !.ceiling = IF fresh THEN cachedCeiling.value ELSE 0,
                      !.id = IF fresh THEN cachedCeiling.value ELSE 0,
                      !.kept = {t \in Minted : Wants(s, t)}]
  <1>1. BracketOK(r)
    BY DEF BracketOK, NoScan, Searches
  <1>2. Advance(s, r)
    BY DEF StartScan
  <1> HIDE DEF r
  <1> QED BY <1>1, <1>2, MoveFresh

LEMMA WalkFresh ==
    ASSUME FeedInv, FreshInv, NEW s \in Scanner, UNCHANGED contractVars,
           fetchOneRow(s) \/ ScanDone(s) \/ CallFails(s)
    PROVE  FreshInv'
PROOF
  <1>1. Quiet /\ UNCHANGED cachedCeiling
    BY DEF Quiet, fetchOneRow, ScanDone, CallFails
  <1>2. CASE fetchOneRow(s)
    <2>1. scan[s] \in ScanRec /\ scan[s].pc = "walk"
      BY <1>2, FeedTypes DEF fetchOneRow, FeedInv
    <2>2. Read(s, scan[s].id - 1).pc = "walk"
      BY <2>1 DEF Read, ScanRec
    <2>3. BracketOK(Read(s, scan[s].id - 1))
      BY <2>2 DEF BracketOK, Searches
    <2> QED BY <1>1, <1>2, <2>3, MoveFresh DEF fetchOneRow
  <1>3. CASE ScanDone(s) \/ CallFails(s)
    <2>1. Advance(s, NoScan)
      BY <1>3 DEF ScanDone, CallFails
    <2>2. BracketOK(NoScan)
      BY DEF BracketOK, NoScan, Searches
    <2> QED BY <1>1, <2>1, <2>2, MoveFresh
  <1> QED BY <1>2, <1>3

LEMMA AskFresh ==
    ASSUME FeedInv, FreshInv, UNCHANGED contractVars,
           \/ \E s \in Scanner : PageRenders(s)
           \/ \E p \in Poll : getCachedFeed(p)
    PROVE  FreshInv'
PROOF
  <1>1. Quiet /\ UNCHANGED cachedCeiling
    BY DEF Quiet, PageRenders, getCachedFeed
  <1>2. CASE \E s \in Scanner : StartScan(s)
    BY <1>1, <1>2, StartFresh
  <1>3. CASE UNCHANGED scan
    <2>1. UNCHANGED <<nextTokenId, age, cachedCeiling, scan>>
      BY <1>1, <1>3 DEF Quiet, contractVars, supply
    <2> QED BY <2>1 DEF FreshInv, Young, CeilingFresh, BracketOK, Bracket, Above,
                        Minted, Token, tokenExists
  <1>4. (\E s \in Scanner : StartScan(s)) \/ UNCHANGED scan
    BY FeedAssumption DEF PageRenders, getCachedFeed
  <1> QED BY <1>2, <1>3, <1>4

(* Question, answer and token age together, up to the cap: what was no     *)
(* older than the other does not become so.                                *)
LEMMA OlderKeeps ==
    ASSUME NEW m \in 0..CeilingTTL, NEW n \in 0..CeilingTTL,
           Older(m, CeilingTTL) > Older(n, CeilingTTL)
    PROVE  m > n
BY Instants DEF Older

LEMMA TickFresh ==
    ASSUME IInv, FeedInv, FreshInv, UNCHANGED contractVars, Tick
    PROVE  FreshInv'
PROOF
  <1>1. /\ cachedCeiling \in CeilingRec /\ scan \in [Scanner -> ScanRec]
        /\ age \in [Token -> 0..CeilingTTL]
    BY FeedTypes DEF FeedInv, FeedTypeOK
  <1>2. nextTokenId' = nextTokenId /\ Minted \subseteq Token /\ Minted' = Minted
    BY ContractAssumption DEF contractVars, supply, IInv, ContractTypeOK, Minted, Token
  <1>3. \A t \in Minted : age'[t] = Older(age[t], CeilingTTL) /\ age[t] \in 0..CeilingTTL
    BY <1>1, <1>2 DEF Tick
  <1>4. Young'
    BY <1>2 DEF Tick, Young, Token
  <1>5. ASSUME NEW s \in Scanner
        PROVE  BracketOK(scan[s])'
    <2>1. scan[s] \in ScanRec /\ scan[s].now \in 0..CeilingTTL /\ BracketOK(scan[s])
      BY <1>1 DEF FreshInv, ScanRec
    <2>2. /\ scan'[s].pc = scan[s].pc /\ scan'[s].lo = scan[s].lo /\ scan'[s].hi = scan[s].hi
          /\ scan[s].pc \in Searches => scan'[s].now = Older(scan[s].now, CeilingTTL)
      BY <2>1 DEF Tick, ScanRec, Searches
    <2>3. ASSUME scan[s].pc \in {"check", "bisect"}
          PROVE  Above(scan[s].hi, scan[s].now)'
      <3> SUFFICES ASSUME NEW t \in Minted, age'[t] > scan'[s].now
                   PROVE  t < scan[s].hi
        BY <1>2, <2>2 DEF Above
      <3>1. Older(age[t], CeilingTTL) > Older(scan[s].now, CeilingTTL)
        BY <1>3, <2>2, <2>3 DEF Searches
      <3>2. age[t] > scan[s].now
        BY <1>3, <2>1, <3>1, OlderKeeps
      <3> QED BY <2>1, <2>3, <3>2 DEF BracketOK, Above
    <2> QED BY <1>2, <2>1, <2>2, <2>3 DEF BracketOK, Bracket
  <1>6. CeilingFresh'
    <2>1. CASE cachedCeiling.age + 1 < CeilingTTL
      <3>1. cachedCeiling.age \in 0..CeilingTTL /\ cachedCeiling.age < CeilingTTL
        BY <1>1, <2>1, Instants DEF CeilingRec
      <3>2. /\ cachedCeiling'.value = cachedCeiling.value
            /\ cachedCeiling'.age = Older(cachedCeiling.age, CeilingTTL)
        BY <1>1, <2>1, <3>1 DEF Tick, CeilingRec, Older
      <3>3. ASSUME NEW t \in Minted, age'[t] > cachedCeiling'.age
            PROVE  t <= cachedCeiling.value
        <4>1. age[t] > cachedCeiling.age
          BY <1>3, <3>1, <3>2, <3>3, OlderKeeps
        <4> QED BY <3>1, <4>1 DEF FreshInv, CeilingFresh
      <3>4. cachedCeiling.value = 0 \/ tokenExists(cachedCeiling.value)
        BY <3>1 DEF FreshInv, CeilingFresh
      <3> QED BY <1>2, <3>2, <3>3, <3>4 DEF CeilingFresh, tokenExists
    <2>2. CASE ~(cachedCeiling.age + 1 < CeilingTTL)
      <3>1. cachedCeiling' = NoCeiling
        BY <2>2 DEF Tick
      <3> QED BY <3>1, Instants DEF CeilingFresh, NoCeiling
    <2> QED BY <2>1, <2>2
  <1> QED BY <1>4, <1>5, <1>6 DEF FreshInv

(* A token minted meanwhile is younger than every question.                *)
LEMMA ChainFresh ==
    ASSUME IInv, FeedInv, FreshInv, ChainMoves
    PROVE  FreshInv'
PROOF
  <1>1. /\ cachedCeiling \in CeilingRec /\ scan \in [Scanner -> ScanRec]
        /\ age \in [Token -> 0..CeilingTTL]
    BY FeedTypes DEF FeedInv, FeedTypeOK
  <1>2. /\ nextTokenId \in Nat /\ nextTokenId' \in {nextTokenId, nextTokenId + 1}
        /\ Minted \subseteq Minted' /\ Minted' \subseteq Token
    <2>1. IInv' /\ nextTokenId \in Nat /\ nextTokenId' \in {nextTokenId, nextTokenId + 1}
      BY ChainMovesAllowed, MintedStay
    <2>2. nextTokenId' \in Nat /\ nextTokenId' <= MaxTokens /\ MaxTokens \in Nat
      BY <2>1, ContractAssumption DEF IInv, ContractTypeOK
    <2>3. Minted \subseteq Minted'
      BY ChainMovesAllowed, MintedStay
    <2>4. Minted' = 0..(nextTokenId' - 1)
      BY DEF Minted
    <2>5. \A n \in Nat : n <= MaxTokens => 0..(n - 1) \subseteq Token
      BY <2>2 DEF Token
    <2> QED BY <2>1, <2>2, <2>3, <2>4, <2>5
  <1>3. UNCHANGED <<age, cachedCeiling>>
    BY DEF ChainMoves
  <1>4. \A t \in Minted' : age[t] \in 0..CeilingTTL /\ (t \in Minted \/ age[t] = 0)
    BY <1>1, <1>2 DEF FreshInv, Young
  <1>5. Young'
    BY <1>2, <1>3 DEF FreshInv, Young, Token
  <1>6. ASSUME NEW s \in Scanner
        PROVE  BracketOK(scan[s])'
    <2>1. /\ scan[s] \in ScanRec /\ scan[s].now \in 0..CeilingTTL /\ BracketOK(scan[s])
          /\ scan'[s].pc = scan[s].pc /\ scan'[s].lo = scan[s].lo
          /\ scan'[s].hi = scan[s].hi /\ scan'[s].now = scan[s].now
      BY <1>1 DEF ChainMoves, FreshInv, ScanRec
    <2>2. Above(scan[s].hi, scan[s].now) => Above(scan[s].hi, scan[s].now)'
      BY <1>3, <1>4, <2>1 DEF Above
    <2>3. Bracket(scan[s].lo, scan[s].hi) => Bracket(scan[s].lo, scan[s].hi)'
      BY <1>2, <2>1 DEF Bracket
    <2> QED BY <2>1, <2>2, <2>3 DEF BracketOK
  <1>7. CeilingFresh'
    <2> SUFFICES ASSUME cachedCeiling.age < CeilingTTL
                 PROVE  /\ cachedCeiling.value = 0 \/ cachedCeiling.value \in Minted'
                        /\ \A t \in Minted' : age[t] > cachedCeiling.age => t <= cachedCeiling.value
      BY <1>3 DEF CeilingFresh, tokenExists
    <2>1. cachedCeiling.age \in 0..CeilingTTL
      BY <1>1 DEF CeilingRec
    <2>2. cachedCeiling.value = 0 \/ cachedCeiling.value \in Minted
      BY DEF FreshInv, CeilingFresh, tokenExists
    <2>3. ASSUME NEW t \in Minted', age[t] > cachedCeiling.age
          PROVE  t <= cachedCeiling.value
      <3>1. age[t] # 0
        BY <2>1, <2>3
      <3>2. t \in Minted
        BY <1>4, <3>1
      <3> QED BY <2>3, <3>2 DEF FreshInv, CeilingFresh
    <2> QED BY <1>2, <2>2, <2>3
  <1> QED BY <1>5, <1>6, <1>7 DEF FreshInv

LEMMA FreshNext ==
    ASSUME 2 * MaxTokens <= ProbeCeiling, IInv, FeedInv, FreshInv,
           [ChainMoves \/ (FeedNext /\ UNCHANGED contractVars)]_<<contractVars, feedVars>>
    PROVE  FreshInv'
PROOF
  <1>1. CASE ChainMoves
    BY <1>1, ChainFresh
  <1>2. CASE UNCHANGED contractVars /\ FeedNext
    <2>1. ASSUME NEW s \in Scanner, ScanStep(s)
          PROVE  FreshInv'
      BY <1>2, <2>1, SearchFresh, WalkFresh DEF ScanStep
    <2> QED BY <1>2, <2>1, AskFresh, TickFresh DEF FeedNext
  <1>3. CASE UNCHANGED <<contractVars, feedVars>>
    <2>1. UNCHANGED <<nextTokenId, age, cachedCeiling, scan>>
      BY <1>3 DEF feedVars, contractVars, supply
    <2> QED BY <2>1 DEF FreshInv, Young, CeilingFresh, BracketOK, Bracket, Above,
                        Minted, Token, tokenExists
  <1> QED BY <1>1, <1>2, <1>3

(* While the contract has fewer tokens than half of what the probe dares   *)
(* to ask for, a cached ceiling in use is no lower than any token that was *)
(* there when it was asked for, however long and however interleaved the   *)
(* searches are.                                                           *)
THEOREM CachedCeilingIsFresh ==
    ASSUME 2 * MaxTokens <= ProbeCeiling
    PROVE  FeedSpec => []CeilingFresh
PROOF
  <1>1. /\ IInv /\ FeedInv /\ FreshInv
        /\ [ChainMoves \/ (FeedNext /\ UNCHANGED contractVars)]_<<contractVars, feedVars>>
        => FreshInv'
    BY FreshNext
  <1>2. FreshInv => CeilingFresh
    BY DEF FreshInv
  <1> QED BY <1>1, <1>2, FreshInit, FeedInvariance, PTL DEF FeedSpec

-----------------------------------------------------------------------------
(***************************************************************************)
(* The contract with both that use it.  Calls of others are steps of the   *)
(* contract to the client, and none is made that the feed's scene leaves   *)
(* out while a scan is under way.                                          *)
(***************************************************************************)

ChainInv == IInv /\ ClientInv /\ FeedTypeOK /\ (scene = "feed" => FeedInv)

LEMMA ChainInit == Init => ChainInv
PROOF
  BY InitInv, ClientInitInv, FeedInitInv DEF Init, ChainInv, FeedInv

LEMMA ChainNext == ChainInv /\ [Next]_vars => ChainInv'
PROOF
  <1> SUFFICES ASSUME ChainInv, [Next]_vars PROVE ChainInv'
    OBVIOUS
  <1>1. UNCHANGED scene
    BY DEF Next, FeedScene, vars
  <1>2. CASE scene # "feed" /\ UNCHANGED feedVars
             /\ [ClientNext \/ (ContractNext /\ UNCHANGED clientVars)]_<<contractVars, clientVars>>
    <2>1. FeedTypeOK'
      BY <1>2 DEF ChainInv, FeedTypeOK, feedVars, Token, Rows
    <2> QED BY <1>1, <1>2, <2>1, ClientStep DEF ChainInv
  <1>3. CASE /\ scene = "feed" /\ UNCHANGED clientVars
             /\ [ChainMoves \/ (FeedNext /\ UNCHANGED contractVars)]_<<contractVars, feedVars>>
    <2>1. FeedInv' /\ IInv'
      BY <1>3, FeedStep DEF ChainInv
    <2>2. [ContractNext]_contractVars
      BY <1>3, ChainMovesAllowed DEF ChainInv
    <2>3. ClientInv'
      BY <1>3, <2>2, ClientStep DEF ChainInv
    <2> QED BY <2>1, <2>3 DEF ChainInv, FeedInv
  <1>4. CASE UNCHANGED vars
    BY <1>2, <1>3, <1>4 DEF vars
  <1>5. CASE Next
    BY <1>2, <1>3, <1>5 DEF Next, FeedScene
  <1> QED BY <1>4, <1>5

(* Contract, client and feed keep to their types together: whoever calls   *)
(* the contract, an answer is one of mint()'s and a scan one the feed may  *)
(* be in (AgenticIDClient.ts, feed.ts, AgenticID.sol).                     *)
THEOREM ChainTypes == Spec => []TypeOK
PROOF
  <1>1. ChainInv => TypeOK
    BY DEF ChainInv, IInv, ClientInv, TypeOK
  <1> QED BY <1>1, ChainInit, ChainNext, PTL DEF Spec

=============================================================================
