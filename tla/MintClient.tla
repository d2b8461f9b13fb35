----------------------------- MODULE MintClient -----------------------------
(***************************************************************************)
(* AgenticIDClient.mint against the contract everybody else uses as well:  *)
(* ethers estimates the call, broadcasts it, waits for its receipt, and    *)
(* the client reads the token id out of the receipt's event.  Fee, pause   *)
(* and the next token id may change between any two of these.              *)
(***************************************************************************)
EXTENDS AgenticID

CONSTANTS
    Call,       \* calls of mint(), each of them made once
    Asked,      \* the data each one is called with
    Host        \* the account the plugin signs with, and mints to

(* The host signs with a private key: it has no code.                      *)
ASSUME ClientAssumption == Asked \in [Call -> Data] /\ Host \in Account \ Contract

VARIABLES
    tx,         \* per call: what became of the transaction
    receipt,    \* per call: the event in its receipt, <<tokenId, data>>
    answer,     \* per call: whether it returned, or how it threw
    tokenId     \* per call: the token id it returned

clientVars == <<tx, receipt, answer, tokenId>>

NoEvent   == <<None, <<>>>>
Thrown    == {"input error", "not broadcast", "not received", "event mismatch"}

(* A call has one transaction, one receipt and one answer.                 *)
ClientTypeOK ==
    /\ tx \in [Call -> {"none", "pending", "mined", "reverted"}]
    /\ receipt \in [Call -> (Token \cup {None}) \X Data]
    /\ answer \in [Call -> {"none", "waiting", "returned"} \cup Thrown]
    /\ tokenId \in [Call -> Token \cup {None}]

ClientInit ==
    /\ tx = [c \in Call |-> "none"]
    /\ receipt = [c \in Call |-> NoEvent]
    /\ answer = [c \in Call |-> "none"]
    /\ tokenId = [c \in Call |-> None]

Answers(c, a) == answer' = [answer EXCEPT ![c] = a]

(* datas.length === 0 is refused before anything is sent.                  *)
RefuseInput(c) ==
    /\ answer[c] = "none" /\ Asked[c] = <<>>
    /\ Answers(c, "input error")
    /\ UNCHANGED <<contractVars, tx, receipt, tokenId>>

(* No msg.value is sent.  estimateGas reverts where the call would; any    *)
(* RPC call may fail, the broadcast also after it reached the chain.       *)
Send(c) ==
    /\ answer[c] = "none" /\ Asked[c] # <<>> /\ Settled
    /\ \/ /\ PublicMint(0)
          /\ tx' = [tx EXCEPT ![c] = "pending"]
          /\ \E a \in {"waiting", "not broadcast"} : Answers(c, a)
       \/ Answers(c, "not broadcast") /\ UNCHANGED tx
    /\ UNCHANGED <<contractVars, receipt, tokenId>>

(* The chain takes the transaction, whether or not the client still waits. *)
IncludeTx(c) ==
    /\ tx[c] = "pending" /\ Settled
    /\ \/ /\ iMint(Host, Host, Asked[c], 0)
          /\ tx' = [tx EXCEPT ![c] = "mined"]
          /\ receipt' = [receipt EXCEPT ![c] = <<nextTokenId, Asked[c]>>]
       \/ /\ ~PublicMint(0)
          /\ tx' = [tx EXCEPT ![c] = "reverted"]
          /\ UNCHANGED <<contractVars, receipt>>
    /\ UNCHANGED <<answer, tokenId>>

(* As if the newest token of the contract were the one just minted.        *)
latestTokenId(c) == nextTokenId - 1

parseMintEventFromReceipt(c) == receipt[c][1]
assertEventDataMatches(c)    == receipt[c][2] = Asked[c]

(* tx.wait() returns a receipt.                                            *)
WaitReturns(c) ==
    /\ answer[c] = "waiting" /\ tx[c] = "mined"
    /\ IF assertEventDataMatches(c)
       THEN Answers(c, "returned")
            /\ tokenId' = [tokenId EXCEPT ![c] = parseMintEventFromReceipt(c)]
       ELSE Answers(c, "event mismatch") /\ UNCHANGED tokenId
    /\ UNCHANGED <<contractVars, tx, receipt>>

(* tx.wait() throws: the transaction reverted, or was replaced, or its     *)
(* receipt could not be fetched, which says nothing of the transaction.    *)
WaitThrows(c) ==
    /\ answer[c] = "waiting"
    /\ Answers(c, "not received")
    /\ UNCHANGED <<contractVars, tx, receipt, tokenId>>

ClientNext ==
    \E c \in Call :
        RefuseInput(c) \/ Send(c) \/ IncludeTx(c) \/ WaitReturns(c) \/ WaitThrows(c)

ClientSpec ==
    /\ ContractInit /\ ClientInit
    /\ [][ClientNext \/ (ContractNext /\ UNCHANGED clientVars)]_<<contractVars, clientVars>>

-----------------------------------------------------------------------------
(* The token a call answers with carries the data of this call and was     *)
(* minted by the host, and no other call answers with it, whoever minted   *)
(* in between; the host's key is filed under this id.                      *)
AnswerIsOwnToken ==
    \A c \in Call : answer[c] = "returned" =>
        /\ tokenId[c] \in Minted
        /\ intelligentData[tokenId[c]] = Asked[c]
        /\ tokenCreator[tokenId[c]] = Host
        /\ \A d \in Call \ {c} : answer[d] = "returned" => tokenId[d] # tokenId[c]

=============================================================================
