------------------------------ MODULE AgenticID ------------------------------
(***************************************************************************)
(* The ERC-7857 contract that holds the receipts: minting with and without *)
(* data, transfer, cloning, and the authorisations an owner grants, which  *)
(* are kept twice in both directions, per token and per user, as a list    *)
(* and as a mapping.                                                       *)
(*                                                                         *)
(* A call is one step, but for the ones that mint: _safeMint calls a       *)
(* receiver that is a contract, which may call back before the minting     *)
(* call has written what the token holds.  Then the call up to there is    *)
(* one step, the ones nested in it are others, and Return is the rest of   *)
(* it.  A call that reverts changes nothing and is no step, nor is a       *)
(* transaction that is undone with all its nested calls.                   *)
(*                                                                         *)
(* The deployer holds all three roles.  What a call takes for the sender's *)
(* ERC-721 approvals is Operators.                                         *)
(***************************************************************************)
EXTENDS Integers, Sequences

CONSTANTS
    Account,    \* addresses that send, receive and are authorised
    Contract,   \* the accounts with code, which accept tokens
    Deployer,   \* the account that deployed the contract
    Operators,  \* <<owner, account>>: the account may move the owner's tokens
    Data,       \* the IntelligentData[] arrays that are minted, <<>> included
    Fee,        \* mint fees, and the values sent
    Batch,      \* the tokenIds arrays given to batchAuthorizeUsage
    Limit,      \* authorisations per token (100 in the contract)
    MaxTokens,  \* bound: tokens minted
    None        \* no account

ASSUME ContractAssumption ==
    /\ Deployer \in Account /\ Contract \subseteq Account
    /\ None \notin Account \cup Nat
    /\ Operators \subseteq Account \X Account
    /\ MaxTokens \in Nat /\ Limit \in Nat
    /\ Fee \subseteq Nat /\ 0 \in Fee
    /\ <<>> \in Data

ASSUME ArrayAssumption ==
    /\ \A d \in Data : d \in Seq({d[i] : i \in DOMAIN d})
    /\ Batch \subseteq Seq(0..(MaxTokens - 1))

VARIABLES
    nextTokenId,
    owner,              \* ERC721's owner of each token
    calls,              \* the minting calls whose receiver is being called
    paused,
    mintFee,
    intelligentData,
    tokenCreator,
    cloneSource,        \* 0 when the token is no clone
    authorizedUsers,    \* per token: the list
    isAuthorizedUser,   \* per token: the mapping, as the set it is true of
    authorizedTokens,   \* per user: the list
    isAuthorizedToken,  \* per user: the mapping
    grants,             \* history: the live grants, by whom and how
    moved,              \* history: tokens transferred with their grants
    clones,             \* history: the IntelligentClone events
    early               \* history: clones of tokens whose mint was not over

content == <<intelligentData, tokenCreator, cloneSource, clones, early>>
supply  == <<nextTokenId, owner, calls, content>>
terms   == <<paused, mintFee>>
rights  == <<authorizedUsers, isAuthorizedUser, authorizedTokens, isAuthorizedToken, grants>>
contractVars == <<supply, terms, rights, moved>>

Token   == 0..(MaxTokens - 1)
Minted  == 0..(nextTokenId - 1)
Grant   == [token : Token, user : Account, by : Account, how : {"single", "batch"}]

(* What a call has yet to write of the token it mints: the data and the    *)
(* creator, or a copy of the source's.                                     *)
Frame   == [token : Token, datas : Data, creator : Account \cup {None},
            source : Token \cup {None}]
MintOf(datas, creator) ==
    [token |-> nextTokenId, datas |-> datas, creator |-> creator, source |-> None]
CloneOf(t) ==
    [token |-> nextTokenId, datas |-> <<>>, creator |-> None, source |-> t]

Minting == {f.token : f \in calls}

(* Both lists are sequences of the right kind, both mappings sets.         *)
ContractTypeOK ==
    /\ nextTokenId \in 0..MaxTokens
    /\ owner \in [Token -> Account \cup {None}]
    /\ calls \subseteq Frame
    /\ paused \in BOOLEAN /\ mintFee \in Fee
    /\ intelligentData \in [Token -> Data]
    /\ tokenCreator \in [Token -> Account \cup {None}]
    /\ cloneSource \in [Token -> Token]
    /\ authorizedUsers \in [Token -> Seq(Account)]
    /\ isAuthorizedUser \in [Token -> SUBSET Account]
    /\ authorizedTokens \in [Account -> Seq(Token)]
    /\ isAuthorizedToken \in [Account -> SUBSET Token]
    /\ grants \subseteq Grant
    /\ moved \subseteq Token
    /\ clones \subseteq Token \X Token
    /\ early \subseteq Token

ContractInit ==
    /\ nextTokenId = 0
    /\ owner = [t \in Token |-> None]
    /\ calls = {}
    /\ paused = FALSE /\ mintFee = 0
    /\ intelligentData = [t \in Token |-> <<>>]
    /\ tokenCreator = [t \in Token |-> None]
    /\ cloneSource = [t \in Token |-> 0]
    /\ authorizedUsers = [t \in Token |-> <<>>]
    /\ isAuthorizedUser = [t \in Token |-> {}]
    /\ authorizedTokens = [u \in Account |-> <<>>]
    /\ isAuthorizedToken = [u \in Account |-> {}]
    /\ grants = {} /\ moved = {} /\ clones = {} /\ early = {}

-----------------------------------------------------------------------------
(* Minting. *)

(* As if the data went to the token minted before.                         *)
setIntelligentDataOffByOne(t, datas) ==
    [intelligentData EXCEPT ![IF t = 0 THEN 0 ELSE t - 1] = datas]

setIntelligentData(t, datas) == [intelligentData EXCEPT ![t] = datas]

FillMint(f) ==
    /\ intelligentData' = setIntelligentData(f.token, f.datas)
    /\ tokenCreator' = [tokenCreator EXCEPT ![f.token] = f.creator]
    /\ UNCHANGED <<cloneSource, clones, early>>

Cloned(f) ==
    /\ cloneSource' = [cloneSource EXCEPT ![f.token] = f.source]
    /\ clones' = clones \cup {<<f.source, f.token>>}
    /\ early' = IF f.source \in Minting THEN early \cup {f.token} ELSE early

(* As if whoever holds the source were the clone's creator.                *)
FillCloneByOwner(f) ==
    /\ intelligentData' = [intelligentData EXCEPT ![f.token] = @ \o intelligentData[f.source]]
    /\ tokenCreator' = [tokenCreator EXCEPT ![f.token] = owner[f.source]]
    /\ Cloned(f)

(* As if the loop pushed onto the array it reads.                          *)
FillCloneOntoSource(f) ==
    /\ intelligentData' = [intelligentData EXCEPT ![f.source] = @ \o @]
    /\ tokenCreator' = [tokenCreator EXCEPT ![f.token] = tokenCreator[f.source]]
    /\ Cloned(f)

(* The source as it is when the receiver has returned.                     *)
FillClone(f) ==
    /\ intelligentData' = [intelligentData EXCEPT ![f.token] = @ \o intelligentData[f.source]]
    /\ tokenCreator' = [tokenCreator EXCEPT ![f.token] = tokenCreator[f.source]]
    /\ Cloned(f)

Fill(f) == IF f.source = None THEN FillMint(f) ELSE FillClone(f)

(* The token has its owner, who is called if it is a contract, and then    *)
(* its content.                                                            *)
safeMint(to, f) ==
    /\ nextTokenId < MaxTokens
    /\ owner' = [owner EXCEPT ![nextTokenId] = to]
    /\ nextTokenId' = nextTokenId + 1
    /\ IF to \in Contract
       THEN calls' = calls \cup {f} /\ UNCHANGED content
       ELSE Fill(f) /\ UNCHANGED calls
    /\ UNCHANGED <<terms, rights, moved>>

(* The innermost of the receivers returns.                                 *)
Return(f) ==
    /\ \A g \in calls : g.token <= f.token
    /\ calls' = calls \ {f}
    /\ Fill(f)
    /\ UNCHANGED <<nextTokenId, owner, terms, rights, moved>>

PublicMint(value) == ~paused /\ value >= mintFee

mint(sender, to, value) == PublicMint(value) /\ safeMint(to, MintOf(<<>>, sender))
iMint(sender, to, datas, value) == PublicMint(value) /\ safeMint(to, MintOf(datas, sender))
mintWithRole(sender, to) == sender = Deployer /\ safeMint(to, MintOf(<<>>, sender))
iMintWithRole(sender, to, datas, creator) ==
    sender = Deployer /\ safeMint(to, MintOf(datas, creator))

-----------------------------------------------------------------------------
(* Authorisations. *)

(* As if the element at the place of x were the one to be popped.          *)
Pop(s, x) == IF s = <<>> THEN s ELSE SubSeq(s, 1, Len(s) - 1)

(* Where the loop of revokeAuthorization breaks off.                       *)
FirstAt(s, x) == CHOOSE i \in DOMAIN s : s[i] = x /\ \A j \in DOMAIN s : s[j] = x => i <= j

(* It overwrites the first x of s with the last element and pops; a list   *)
(* without x stays as it is.                                               *)
SwapPop(s, x) ==
    IF \A i \in DOMAIN s : s[i] # x THEN s
    ELSE SubSeq([s EXCEPT ![FirstAt(s, x)] = s[Len(s)]], 1, Len(s) - 1)

(* Every list of tokens without t, for the users in us.                    *)
WithoutToken(us, t) ==
    [u \in Account |-> IF u \in us THEN SwapPop(authorizedTokens[u], t) ELSE authorizedTokens[u]]
WithoutTokenFlag(us, t) ==
    [u \in Account |-> IF u \in us THEN isAuthorizedToken[u] \ {t} ELSE isAuthorizedToken[u]]

Listed(t) == {authorizedUsers[t][i] : i \in DOMAIN authorizedUsers[t]}

authorizeUsage(sender, t, user) ==
    /\ owner[t] = sender
    /\ user \notin isAuthorizedUser[t]
    /\ Len(authorizedUsers[t]) < Limit
    /\ authorizedUsers' = [authorizedUsers EXCEPT ![t] = Append(@, user)]
    /\ isAuthorizedUser' = [isAuthorizedUser EXCEPT ![t] = @ \cup {user}]
    /\ authorizedTokens' = [authorizedTokens EXCEPT ![user] = Append(@, t)]
    /\ isAuthorizedToken' = [isAuthorizedToken EXCEPT ![user] = @ \cup {t}]
    /\ grants' = grants \cup {[token |-> t, user |-> user, by |-> sender, how |-> "single"]}
    /\ UNCHANGED <<supply, terms, moved>>

(* As if the per-user side were forgotten here as in the batch.            *)
revokeAuthorizationOneSided(sender, t, user) ==
    /\ owner[t] = sender
    /\ user \in isAuthorizedUser[t]
    /\ authorizedUsers' = [authorizedUsers EXCEPT ![t] = SwapPop(@, user)]
    /\ isAuthorizedUser' = [isAuthorizedUser EXCEPT ![t] = @ \ {user}]
    /\ grants' = {g \in grants : g.token # t \/ g.user # user}
    /\ UNCHANGED <<authorizedTokens, isAuthorizedToken, supply, terms, moved>>

revokeAuthorization(sender, t, user) ==
    /\ owner[t] = sender
    /\ user \in isAuthorizedUser[t]
    /\ authorizedUsers' = [authorizedUsers EXCEPT ![t] = SwapPop(@, user)]
    /\ isAuthorizedUser' = [isAuthorizedUser EXCEPT ![t] = @ \ {user}]
    /\ authorizedTokens' = WithoutToken({user}, t)
    /\ isAuthorizedToken' = WithoutTokenFlag({user}, t)
    /\ grants' = {g \in grants : g.token # t \/ g.user # user}
    /\ UNCHANGED <<supply, terms, moved>>

(* The loop requires every token to be the sender's, and room for the ones *)
(* that are not authorised yet; a token listed twice is pushed once.       *)
batchAuthorizeUsage(sender, tokenIds, user) ==
    LET listed == {tokenIds[i] : i \in DOMAIN tokenIds}
        fresh  == {t \in listed : user \notin isAuthorizedUser[t]}
    IN  /\ \A t \in listed : owner[t] = sender
        /\ \A t \in fresh : Len(authorizedUsers[t]) < Limit
        /\ authorizedUsers' = [t \in Token |->
               IF t \in fresh THEN Append(authorizedUsers[t], user) ELSE authorizedUsers[t]]
        /\ isAuthorizedUser' = [t \in Token |->
               IF t \in fresh THEN isAuthorizedUser[t] \cup {user} ELSE isAuthorizedUser[t]]
        /\ grants' = grants \cup
               {[token |-> t, user |-> user, by |-> sender, how |-> "batch"] : t \in fresh}
        /\ UNCHANGED <<authorizedTokens, isAuthorizedToken, supply, terms, moved>>

(* _clearAuthorizations: the mapping of every listed user, then the list.  *)
clearAuthorizations(t) ==
    /\ isAuthorizedUser' = [isAuthorizedUser EXCEPT ![t] = @ \ Listed(t)]
    /\ isAuthorizedToken' = WithoutTokenFlag(Listed(t), t)
    /\ authorizedTokens' = WithoutToken(Listed(t), t)
    /\ authorizedUsers' = [authorizedUsers EXCEPT ![t] = <<>>]
    /\ grants' = {g \in grants : g.token # t}

-----------------------------------------------------------------------------
(* Transfers and clones. *)

MayMove(sender, from) == sender = from \/ <<from, sender>> \in Operators

(* As if the authorisations went with the token.                           *)
iTransferFromKeepingGrants(sender, from, to, t) ==
    /\ owner[t] = from /\ MayMove(sender, from)
    /\ owner' = [owner EXCEPT ![t] = to]
    /\ UNCHANGED <<nextTokenId, calls, content, terms, rights, moved>>

iTransferFrom(sender, from, to, t) ==
    /\ owner[t] = from /\ MayMove(sender, from)
    /\ owner' = [owner EXCEPT ![t] = to]
    /\ clearAuthorizations(t)
    /\ moved' = moved \ {t}
    /\ UNCHANGED <<nextTokenId, calls, content, terms>>

(* ERC721's own transferFrom, inherited as it is.                          *)
transferFrom(sender, from, to, t) ==
    /\ owner[t] = from /\ MayMove(sender, from)
    /\ owner' = [owner EXCEPT ![t] = to]
    /\ moved' = moved \cup {t}
    /\ UNCHANGED <<nextTokenId, calls, content, terms, rights>>

iCloneFrom(sender, from, to, t) ==
    /\ owner[t] = from /\ MayMove(sender, from)
    /\ safeMint(to, CloneOf(t))

-----------------------------------------------------------------------------
(* Administration. *)

setMintFee(sender, fee) ==
    /\ sender = Deployer
    /\ mintFee' = fee
    /\ UNCHANGED <<paused, supply, rights, moved>>

pause(sender) ==
    /\ sender = Deployer /\ ~paused
    /\ paused' = TRUE
    /\ UNCHANGED <<mintFee, supply, rights, moved>>

unpause(sender) ==
    /\ sender = Deployer /\ paused
    /\ paused' = FALSE
    /\ UNCHANGED <<mintFee, supply, rights, moved>>

(* No transaction begins while another one is under way, but the contracts *)
(* it has called may call.                                                 *)
Settled        == calls = {}
MayCall(sender) == Settled \/ sender \in Contract

Called(sender, to) ==
    \/ \E value \in Fee : mint(sender, to, value)
    \/ \E datas \in Data, value \in Fee : iMint(sender, to, datas, value)
    \/ mintWithRole(sender, to)
    \/ \E datas \in Data, creator \in Account : iMintWithRole(sender, to, datas, creator)
    \/ \E t \in Minted : authorizeUsage(sender, t, to) \/ revokeAuthorization(sender, t, to)
    \/ \E tokenIds \in Batch : batchAuthorizeUsage(sender, tokenIds, to)
    \/ \E from \in Account, t \in Minted :
          \/ iTransferFrom(sender, from, to, t)
          \/ transferFrom(sender, from, to, t)
          \/ iCloneFrom(sender, from, to, t)
    \/ \E fee \in Fee : setMintFee(sender, fee)
    \/ pause(sender) \/ unpause(sender)

(* Any account sends any call.                                             *)
ContractNext ==
    \/ \E sender, to \in Account : MayCall(sender) /\ Called(sender, to)
    \/ \E f \in calls : Return(f)

ContractSpec == ContractInit /\ [][ContractNext]_contractVars

-----------------------------------------------------------------------------
(* List and mapping say the same in both directions, each user and token   *)
(* listed once, after any mix of pushes and swap-pops, and no list grows   *)
(* past the limit: what the loops of revoke and clear rely on.             *)
ListsExact ==
    /\ \A t \in Token :
          /\ Listed(t) = isAuthorizedUser[t]
          /\ \A i, j \in DOMAIN authorizedUsers[t] :
                authorizedUsers[t][i] = authorizedUsers[t][j] => i = j
          /\ Len(authorizedUsers[t]) <= Limit
    /\ \A u \in Account :
          LET s == authorizedTokens[u]
          IN  /\ {s[i] : i \in DOMAIN s} = isAuthorizedToken[u]
              /\ \A i, j \in DOMAIN s : s[i] = s[j] => i = j

(* The per-user index is the per-token one without what a batch granted:   *)
(* authorizedTokensOf never names a token the user has no right to, and    *)
(* the batch is the only way for it to miss one.                           *)
IndexAgrees ==
    \A t \in Token, u \in Account :
        t \in isAuthorizedToken[u] <=>
            /\ u \in isAuthorizedUser[t]
            /\ \A g \in grants : g.token = t /\ g.user = u => g.how = "single"

(* Whoever may use a token has it from its present owner, whatever the     *)
(* owners before granted, unless the token came by a plain transferFrom.   *)
GrantsOfOwner ==
    \A t \in Token \ moved : \A u \in isAuthorizedUser[t] :
        \E g \in grants : g.token = t /\ g.user = u /\ g.by = owner[t]

(* A clone keeps the data and the creator of its source, and so does the   *)
(* clone of a clone; cloneSource leads back to where it began.  The one    *)
(* exception is the clone that a receiver makes of a token it is just      *)
(* being minted: it stays without data and creator, whatever the token     *)
(* gets afterwards.                                                        *)
CloneFaithful ==
    \A c \in clones :
        /\ c[1] < c[2] /\ c[2] < nextTokenId
        /\ cloneSource[c[2]] = c[1]
        /\ IF c[2] \in early
           THEN intelligentData[c[2]] = <<>> /\ tokenCreator[c[2]] = None
           ELSE /\ intelligentData[c[2]] = intelligentData[c[1]]
                /\ tokenCreator[c[2]] = tokenCreator[c[1]]

(* What a token says of its receipt is never changed, by nobody, once its  *)
(* mint is over: a link to a receipt means the same for good.              *)
DataFrozen ==
    [][\A t \in Minted \ Minting : /\ owner'[t] # None
                                   /\ intelligentData'[t] = intelligentData[t]
                                   /\ tokenCreator'[t] = tokenCreator[t]]_contractVars

=============================================================================
