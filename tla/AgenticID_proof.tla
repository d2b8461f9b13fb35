-------------------------- MODULE AgenticID_proof --------------------------
(***************************************************************************)
(* Theorems about AgenticID for any accounts, data and number of tokens:   *)
(* the two bookkeepings of authorisations agree as far as the code lets    *)
(* them, rights end with the ownership they came from, and what a token    *)
(* says of its receipt is never changed, nor differs in its clones.        *)
(***************************************************************************)
EXTENDS AgenticID, SequenceTheorems, TLAPS

USE ContractAssumption

-----------------------------------------------------------------------------
(* Lists without repetitions. *)

Elements(s)  == {s[i] : i \in DOMAIN s}
Distinct(s)  == \A i, j \in DOMAIN s : s[i] = s[j] => i = j

LEMMA AppendNew ==
    ASSUME NEW S, NEW s \in Seq(S), NEW x \in S, Distinct(s), x \notin Elements(s)
    PROVE  /\ Append(s, x) \in Seq(S)
           /\ Distinct(Append(s, x))
           /\ Elements(Append(s, x)) = Elements(s) \cup {x}
           /\ Len(Append(s, x)) = Len(s) + 1
  <1> DEFINE n == Len(s)
             r == Append(s, x)
  <1>1. /\ r \in Seq(S) /\ n \in Nat /\ Len(r) = n + 1 /\ DOMAIN s = 1..n /\ DOMAIN r = 1..(n + 1)
        /\ r[n + 1] = x /\ \A i \in 1..n : r[i] = s[i]
      OBVIOUS
  <1> HIDE DEF r, n
  <1>2. \A i \in 1..(n + 1) : i = n + 1 \/ i \in 1..n
      BY <1>1
  <1>3. \A i \in 1..n : s[i] # x
      BY <1>1 DEF Elements
  <1>4. Distinct(r)
    <2> SUFFICES ASSUME NEW i \in 1..(n + 1), NEW j \in 1..(n + 1), r[i] = r[j] PROVE i = j
        BY <1>1 DEF Distinct
    <2>1. CASE i \in 1..n /\ j \in 1..n
        BY <2>1, <1>1 DEF Distinct
    <2>2. CASE i = n + 1 \/ j = n + 1
        BY <2>2, <1>1, <1>2, <1>3
    <2> QED BY <2>1, <2>2, <1>2
  <1>5. Elements(r) = Elements(s) \cup {x}
    <2>1. \A y \in Elements(r) : y \in Elements(s) \cup {x}
        BY <1>1, <1>2 DEF Elements
    <2>2. \A y \in Elements(s) \cup {x} : y \in Elements(r)
      <3>1. n + 1 \in 1..(n + 1) /\ \A i \in 1..n : i \in 1..(n + 1)
          BY <1>1
      <3> QED BY <3>1, <1>1 DEF Elements
    <2> QED BY <2>1, <2>2
  <1> QED BY <1>1, <1>4, <1>5 DEF r, n

(* The loop of revoke and clear removes exactly x, and nothing else moves  *)
(* out or twice in.                                                        *)
LEMMA SwapPopRemoves ==
    ASSUME NEW S, NEW s \in Seq(S), NEW x, Distinct(s)
    PROVE  /\ SwapPop(s, x) \in Seq(S)
           /\ Distinct(SwapPop(s, x))
           /\ Elements(SwapPop(s, x)) = Elements(s) \ {x}
           /\ Len(SwapPop(s, x)) <= Len(s)
  <1> DEFINE n == Len(s)
  <1>1. n \in Nat /\ DOMAIN s = 1..n /\ \A i \in 1..n : s[i] \in S
      OBVIOUS
  <1>2. CASE \A i \in DOMAIN s : s[i] # x
    <2>1. SwapPop(s, x) = s /\ x \notin Elements(s)
        BY <1>2 DEF SwapPop, Elements
    <2> QED BY <2>1, <1>1
  <1>3. CASE ~ \A i \in DOMAIN s : s[i] # x
    <2>1. PICK f \in 1..n : s[f] = x
        BY <1>1, <1>3
    <2>2. \A i \in 1..n : s[i] = x => i = f
        BY <1>1, <2>1 DEF Distinct
    <2> DEFINE q == [s EXCEPT ![f] = s[n]]
               r == SubSeq(q, 1, n - 1)
    <2>3. FirstAt(s, x) = f
        BY <1>1, <2>1, <2>2 DEF FirstAt
    <2>4. SwapPop(s, x) = r
        BY <1>3, <2>3 DEF SwapPop
    <2>5. DOMAIN q = 1..n /\ \A i \in 1..n : q[i] = IF i = f THEN s[n] ELSE s[i]
        BY <1>1
    <2> HIDE DEF n, q
    <2>6. n \in 1..n /\ n - 1 \in Nat /\ \A i \in 1..(n - 1) : i \in 1..n /\ i # n
        BY <1>1, <2>1
    <2>7. \A i \in 1..(n - 1) : q[i] \in S
        BY <1>1, <2>5, <2>6
    <2>8. /\ r \in Seq(S)
          /\ Len(r) = IF 1 <= n - 1 THEN (n - 1) - 1 + 1 ELSE 0
          /\ \A i \in 1..((n - 1) - 1 + 1) : r[i] = q[1 + i - 1]
        BY <2>7, <1>1, SubSeqProperties
    <2> HIDE DEF r
    <2>9. DOMAIN r = 1..(n - 1) /\ Len(r) = n - 1
        BY <2>8, <2>6
    <2>10. \A i \in 1..(n - 1) : r[i] = IF i = f THEN s[n] ELSE s[i]
        BY <2>5, <2>6, <2>8
    <2>11. \A i \in 1..n : i = n \/ i \in 1..(n - 1)
        BY <1>1
    <2>12. Distinct(r)
      <3> SUFFICES ASSUME NEW i \in 1..(n - 1), NEW j \in 1..(n - 1), r[i] = r[j] PROVE i = j
          BY <2>9 DEF Distinct
      <3> QED BY <1>1, <2>6, <2>10 DEF Distinct
    <2>13. Elements(r) = Elements(s) \ {x}
      <3>1. \A y \in Elements(r) : y \in Elements(s) \ {x}
          BY <1>1, <2>2, <2>6, <2>9, <2>10 DEF Elements
      <3>2. \A y \in Elements(s) \ {x} : y \in Elements(r)
        <4> SUFFICES ASSUME NEW i \in 1..n, s[i] # x PROVE s[i] \in Elements(r)
            BY <1>1 DEF Elements
        <4>1. i # f
            BY <2>1, <2>2
        <4>2. CASE i = n
          <5>1. f \in 1..(n - 1)
              BY <2>11, <4>1, <4>2
          <5>2. r[f] = s[i]
              BY <2>10, <4>2, <5>1
          <5> QED BY <2>9, <5>1, <5>2 DEF Elements
        <4>3. CASE i # n
          <5>1. i \in 1..(n - 1)
              BY <2>11, <4>3
          <5>2. r[i] = s[i]
              BY <2>10, <4>1, <5>1
          <5> QED BY <2>9, <5>1, <5>2 DEF Elements
        <4> QED BY <4>2, <4>3
      <3> QED BY <3>1, <3>2
    <2> QED BY <1>1, <2>4, <2>8, <2>9, <2>12, <2>13 DEF n, r
  <1> QED BY <1>2, <1>3

-----------------------------------------------------------------------------
(***************************************************************************)
(* The inductive invariant.  A swap-pop clears a list of exactly one user  *)
(* only if the list has no repetitions, and a push keeps it so only if the *)
(* mapping it is guarded by is the list; the push onto the per-user list   *)
(* is guarded by the per-token mapping, so the index has to agree.         *)
(***************************************************************************)

(* Nothing is known of a token before it is minted, and it has an owner    *)
(* from then on.                                                           *)
SupplyExact ==
    \A t \in Token :
        /\ t < nextTokenId => owner[t] # None
        /\ t >= nextTokenId =>
              /\ owner[t] = None /\ intelligentData[t] = <<>> /\ tokenCreator[t] = None
              /\ isAuthorizedUser[t] = {}

(* Nothing is written yet of a token whose mint is under way, and a clone  *)
(* of it, which is complete, is an early one.                              *)
CallsExact ==
    /\ \A f \in calls : /\ f.token < nextTokenId
                        /\ intelligentData[f.token] = <<>> /\ tokenCreator[f.token] = None
                        /\ f.source # None => f.source < f.token
    /\ \A f, g \in calls : f.token = g.token => f = g
    /\ \A c \in clones : c[2] \notin Minting /\ (c[1] \in Minting => c[2] \in early)
    /\ \A u \in early : u < nextTokenId /\ u \notin Minting

(* A recorded grant is in force.                                           *)
GrantsLive == \A g \in grants : g.user \in isAuthorizedUser[g.token]

(* ListsExact, in the words of the lemmas above.                           *)
ListsOK ==
    /\ \A t \in Token :
          /\ Elements(authorizedUsers[t]) = isAuthorizedUser[t]
          /\ Distinct(authorizedUsers[t])
          /\ Len(authorizedUsers[t]) <= Limit
    /\ \A u \in Account :
          /\ Elements(authorizedTokens[u]) = isAuthorizedToken[u]
          /\ Distinct(authorizedTokens[u])

RightsInv == ListsOK /\ IndexAgrees /\ GrantsLive /\ GrantsOfOwner

IInv == ContractTypeOK /\ SupplyExact /\ RightsInv /\ CloneFaithful /\ CallsExact

LEMMA Lists == ListsOK <=> ListsExact
  BY DEF ListsOK, ListsExact, Elements, Distinct, Listed

LEMMA InitInv == ContractInit => IInv
  <1> SUFFICES ASSUME ContractInit PROVE IInv
      OBVIOUS
  <1>1. ContractTypeOK
    <2>1. authorizedUsers \in [Token -> Seq(Account)] /\ authorizedTokens \in [Account -> Seq(Token)]
        BY DEF ContractInit
    <2>2. cloneSource \in [Token -> Token]
        BY DEF ContractInit, Token
    <2>3. nextTokenId \in 0..MaxTokens
        BY DEF ContractInit
    <2>4. paused \in BOOLEAN /\ mintFee \in Fee
        BY DEF ContractInit
    <2>5. /\ grants \subseteq Grant /\ moved \subseteq Token /\ clones \subseteq Token \X Token
          /\ calls \subseteq Frame /\ early \subseteq Token
        BY DEF ContractInit
    <2>6. /\ owner \in [Token -> Account \cup {None}] /\ intelligentData \in [Token -> Data]
          /\ tokenCreator \in [Token -> Account \cup {None}]
          /\ isAuthorizedUser \in [Token -> SUBSET Account]
          /\ isAuthorizedToken \in [Account -> SUBSET Token]
        BY DEF ContractInit
    <2> QED BY <2>1, <2>2, <2>3, <2>4, <2>5, <2>6 DEF ContractTypeOK
  <1>2. SupplyExact
      BY DEF ContractInit, SupplyExact, Token
  <1>3. ListsOK
    <2>1. Elements(<<>>) = {} /\ Distinct(<<>>) /\ Len(<<>>) = 0
        BY DEF Elements, Distinct
    <2> QED BY <2>1 DEF ContractInit, ListsOK
  <1>4. IndexAgrees /\ GrantsLive /\ GrantsOfOwner /\ CloneFaithful /\ CallsExact
      BY DEF ContractInit, IndexAgrees, GrantsLive, GrantsOfOwner, CloneFaithful, CallsExact
  <1> QED BY <1>1, <1>2, <1>3, <1>4 DEF IInv, RightsInv

(* What changes no right keeps the rights exact, if it gives no token with *)
(* rights another owner but by transferFrom.                               *)
LEMMA RightsKept ==
    ASSUME RightsInv, UNCHANGED rights,
           \A t \in Token : t \notin moved' => t \notin moved /\ (owner'[t] = owner[t] \/ isAuthorizedUser[t] = {})
    PROVE  RightsInv'
  <1>1. /\ authorizedUsers' = authorizedUsers /\ isAuthorizedUser' = isAuthorizedUser
        /\ authorizedTokens' = authorizedTokens /\ isAuthorizedToken' = isAuthorizedToken
        /\ grants' = grants
      BY DEF rights
  <1>2. ListsOK' /\ IndexAgrees' /\ GrantsLive'
      BY <1>1 DEF RightsInv, ListsOK, IndexAgrees, GrantsLive
  <1>3. GrantsOfOwner'
      BY <1>1 DEF RightsInv, GrantsOfOwner
  <1> QED BY <1>2, <1>3 DEF RightsInv

-----------------------------------------------------------------------------
(* Minting: the next token is new in every respect.                        *)

LEMMA FrameTypes ==
    ASSUME ContractTypeOK, nextTokenId \in Token
    PROVE  /\ \A datas \in Data, creator \in Account : MintOf(datas, creator) \in Frame
           /\ \A t \in Token : CloneOf(t) \in Frame
  BY DEF MintOf, CloneOf, Frame

(* What the rest of a minting call writes: f.token and nothing else, and   *)
(* if the source of a clone is not filled yet, nothing at all.             *)
LEMMA FillStep ==
    ASSUME ContractTypeOK, CloneFaithful, NEW f \in Frame, Fill(f),
           nextTokenId' \in Nat, nextTokenId <= nextTokenId', f.token < nextTokenId',
           intelligentData[f.token] = <<>>, tokenCreator[f.token] = None,
           f.source # None => f.source < f.token,
           f.source \in Minting => intelligentData[f.source] = <<>> /\ tokenCreator[f.source] = None,
           f.token \notin early,
           \A c \in clones : c[2] # f.token /\ (c[1] = f.token => c[2] \in early)
    PROVE  /\ intelligentData' \in [Token -> Data] /\ tokenCreator' \in [Token -> Account \cup {None}]
           /\ cloneSource' \in [Token -> Token] /\ clones' \subseteq Token \X Token
           /\ early \subseteq early' /\ early' \subseteq Token
           /\ early' \subseteq early \cup {f.token}
           /\ \A u \in Token : u # f.token =>
                 intelligentData'[u] = intelligentData[u] /\ tokenCreator'[u] = tokenCreator[u]
           /\ \A c \in clones' : \/ c \in clones
                                 \/ /\ c = <<f.source, f.token>> /\ f.source # f.token
                                    /\ f.source \in Minting => f.token \in early'
           /\ CloneFaithful'
  <1>1. /\ f.token \in Token /\ f.datas \in Data /\ f.creator \in Account \cup {None}
        /\ f.source \in Token \cup {None} /\ f.token \in Nat /\ Token \subseteq Nat
        /\ nextTokenId \in Nat
      BY DEF Frame, Token, ContractTypeOK
  <1>2. /\ intelligentData \in [Token -> Data] /\ tokenCreator \in [Token -> Account \cup {None}]
        /\ cloneSource \in [Token -> Token] /\ clones \subseteq Token \X Token /\ early \subseteq Token
      BY DEF ContractTypeOK
  <1>3. \A c \in clones : /\ c[1] \in Token /\ c[2] \in Token /\ c[1] < c[2] /\ c[2] < nextTokenId
                          /\ cloneSource[c[2]] = c[1]
                          /\ IF c[2] \in early
                             THEN intelligentData[c[2]] = <<>> /\ tokenCreator[c[2]] = None
                             ELSE /\ intelligentData[c[2]] = intelligentData[c[1]]
                                  /\ tokenCreator[c[2]] = tokenCreator[c[1]]
      BY <1>2 DEF CloneFaithful
  <1>4. ASSUME NEW c \in clones
        PROVE  c[2] # f.token /\ (c[1] = f.token => c[2] \in early) /\ c[2] < nextTokenId'
    <2>1. c[2] \in Nat /\ c[2] < nextTokenId
        BY <1>1, <1>3
    <2> QED BY <1>1, <2>1
  <1>5. CASE f.source = None
    <2>1. /\ intelligentData' = [intelligentData EXCEPT ![f.token] = f.datas]
          /\ tokenCreator' = [tokenCreator EXCEPT ![f.token] = f.creator]
          /\ cloneSource' = cloneSource /\ clones' = clones /\ early' = early
        BY <1>5 DEF Fill, FillMint, setIntelligentData
    <2>2. \A u \in Token : u # f.token =>
              intelligentData'[u] = intelligentData[u] /\ tokenCreator'[u] = tokenCreator[u]
        BY <1>2, <2>1
    <2>3. CloneFaithful'
      <3> SUFFICES ASSUME NEW c \in clones
                   PROVE  /\ c[1] < c[2] /\ c[2] < nextTokenId'
                          /\ cloneSource[c[2]] = c[1]
                          /\ IF c[2] \in early
                             THEN intelligentData'[c[2]] = <<>> /\ tokenCreator'[c[2]] = None
                             ELSE /\ intelligentData'[c[2]] = intelligentData'[c[1]]
                                  /\ tokenCreator'[c[2]] = tokenCreator'[c[1]]
          BY <2>1 DEF CloneFaithful
      <3>1. c[2] # f.token /\ (c[1] = f.token => c[2] \in early) /\ c[2] < nextTokenId'
          BY <1>4
      <3> QED BY <1>3, <2>2, <3>1
    <2> QED BY <1>1, <1>2, <2>1, <2>2, <2>3
  <1>6. CASE f.source # None
    <2> DEFINE s == f.source
    <2>1. s \in Token /\ s < f.token /\ s # f.token
        BY <1>1, <1>6
    <2>2. <<>> \o intelligentData[s] = intelligentData[s]
      <3>1. intelligentData[s] \in Seq({intelligentData[s][i] : i \in DOMAIN intelligentData[s]})
          BY <1>2, <2>1, ArrayAssumption
      <3> QED BY <3>1
    <2>3. /\ intelligentData' = [intelligentData EXCEPT ![f.token] = intelligentData[s]]
          /\ tokenCreator' = [tokenCreator EXCEPT ![f.token] = tokenCreator[s]]
          /\ cloneSource' = [cloneSource EXCEPT ![f.token] = s]
          /\ clones' = clones \cup {<<s, f.token>>}
          /\ early' = IF s \in Minting THEN early \cup {f.token} ELSE early
        BY <1>1, <1>2, <1>6, <2>2 DEF Fill, FillClone, Cloned
    <2> HIDE DEF s
    <2>4. \A u \in Token :
             /\ intelligentData'[u] = IF u = f.token THEN intelligentData[s] ELSE intelligentData[u]
             /\ tokenCreator'[u] = IF u = f.token THEN tokenCreator[s] ELSE tokenCreator[u]
             /\ cloneSource'[u] = IF u = f.token THEN s ELSE cloneSource[u]
        BY <1>2, <2>3
    <2>5. CloneFaithful'
      <3> SUFFICES ASSUME NEW c \in clones'
                   PROVE  /\ c[1] < c[2] /\ c[2] < nextTokenId'
                          /\ cloneSource'[c[2]] = c[1]
                          /\ IF c[2] \in early'
                             THEN intelligentData'[c[2]] = <<>> /\ tokenCreator'[c[2]] = None
                             ELSE /\ intelligentData'[c[2]] = intelligentData'[c[1]]
                                  /\ tokenCreator'[c[2]] = tokenCreator'[c[1]]
          BY DEF CloneFaithful
      <3>1. CASE c \in clones
        <4>1. c[2] # f.token /\ (c[1] = f.token => c[2] \in early) /\ c[2] < nextTokenId'
            BY <1>4, <3>1
        <4>2. c[2] \in early' <=> c[2] \in early
            BY <2>3, <4>1
        <4> QED BY <1>3, <2>4, <3>1, <4>1, <4>2
      <3>2. CASE c = <<s, f.token>>
        <4>1. c[1] = s /\ c[2] = f.token
            BY <3>2
        <4>2. CASE s \in Minting
          <5>1. /\ f.token \in early' /\ intelligentData'[f.token] = <<>> /\ tokenCreator'[f.token] = None
                /\ cloneSource'[f.token] = s
              BY <1>1, <2>3, <2>4, <4>2 DEF s
          <5> QED BY <2>1, <4>1, <5>1
        <4>3. CASE s \notin Minting
          <5>1. /\ intelligentData'[f.token] = intelligentData'[s] /\ tokenCreator'[f.token] = tokenCreator'[s]
                /\ cloneSource'[f.token] = s
              BY <1>1, <2>1, <2>4
          <5>2. f.token \notin early'
              BY <2>3, <4>3
          <5> QED BY <2>1, <4>1, <5>1, <5>2
        <4> QED BY <4>2, <4>3
      <3> QED BY <2>3, <3>1, <3>2
    <2>6. /\ intelligentData' \in [Token -> Data] /\ tokenCreator' \in [Token -> Account \cup {None}]
          /\ cloneSource' \in [Token -> Token]
        BY <1>1, <1>2, <2>1, <2>3
    <2>7. /\ clones' \subseteq Token \X Token /\ early' \subseteq Token /\ early \subseteq early'
          /\ early' \subseteq early \cup {f.token}
      <3>1. <<s, f.token>> \in Token \X Token
          BY <1>1, <2>1 DEF s
      <3>2. clones' \subseteq Token \X Token
          BY <1>2, <2>3, <3>1
      <3>3. early' = early \/ early' = early \cup {f.token}
          BY <2>3
      <3> QED BY <1>1, <1>2, <3>2, <3>3
    <2>8. \A c \in clones' : \/ c \in clones
                             \/ c = <<s, f.token>> /\ s # f.token /\ (s \in Minting => f.token \in early')
        BY <2>1, <2>3
    <2>9. \A u \in Token : u # f.token =>
              intelligentData'[u] = intelligentData[u] /\ tokenCreator'[u] = tokenCreator[u]
        BY <2>4
    <2> QED BY <2>5, <2>6, <2>7, <2>8, <2>9 DEF s
  <1> QED BY <1>5, <1>6

(* A token more, which has an owner. *)
LEMMA Grown ==
    ASSUME SupplyExact, nextTokenId \in Token, nextTokenId' = nextTokenId + 1,
           isAuthorizedUser' = isAuthorizedUser,
           \A u \in Token : u # nextTokenId =>
              /\ owner'[u] = owner[u] /\ intelligentData'[u] = intelligentData[u]
              /\ tokenCreator'[u] = tokenCreator[u],
           owner'[nextTokenId] # None
    PROVE  SupplyExact'
  <1> SUFFICES ASSUME NEW u \in Token
               PROVE  /\ u < nextTokenId' => owner'[u] # None
                      /\ u >= nextTokenId' =>
                            /\ owner'[u] = None /\ intelligentData'[u] = <<>> /\ tokenCreator'[u] = None
                            /\ isAuthorizedUser'[u] = {}
      BY DEF SupplyExact
  <1>1. u \in Nat /\ nextTokenId \in Nat
      BY DEF Token
  <1>2. /\ u < nextTokenId' => u < nextTokenId \/ u = nextTokenId
        /\ u >= nextTokenId' => u >= nextTokenId /\ u # nextTokenId
      BY <1>1
  <1> QED BY <1>2 DEF SupplyExact

LEMMA MintStep ==
    ASSUME IInv, NEW to \in Account, NEW f \in Frame, safeMint(to, f),
           f.token = nextTokenId, f.source # None => f.source < nextTokenId
    PROVE  IInv'
  <1> DEFINE n == nextTokenId
  <1>1. /\ n \in Token /\ n + 1 \in 0..MaxTokens /\ n' = n + 1 /\ n \in Nat /\ n' \in Nat
        /\ owner' = [owner EXCEPT ![n] = to] /\ UNCHANGED <<terms, rights, moved>>
      BY DEF IInv, ContractTypeOK, safeMint, Token
  <1>2. ContractTypeOK /\ SupplyExact /\ RightsInv /\ CloneFaithful /\ CallsExact
      BY DEF IInv
  <1>3. /\ authorizedUsers' = authorizedUsers /\ isAuthorizedUser' = isAuthorizedUser
        /\ authorizedTokens' = authorizedTokens /\ isAuthorizedToken' = isAuthorizedToken
        /\ grants' = grants /\ paused' = paused /\ mintFee' = mintFee /\ moved' = moved
      BY <1>1 DEF rights, terms
  <1>4. /\ owner[n] = None /\ intelligentData[n] = <<>> /\ tokenCreator[n] = None
        /\ isAuthorizedUser[n] = {}
      BY <1>1, <1>2 DEF SupplyExact
  <1>5. \A g \in calls : /\ g.token \in Token /\ g.token < n /\ g.token # n
                         /\ intelligentData[g.token] = <<>> /\ tokenCreator[g.token] = None
                         /\ g.source # None => g.source < g.token
    <2> SUFFICES ASSUME NEW g \in calls
                 PROVE  /\ g.token \in Token /\ g.token < n /\ g.token # n
                        /\ intelligentData[g.token] = <<>> /\ tokenCreator[g.token] = None
                        /\ g.source # None => g.source < g.token
        OBVIOUS
    <2>1. g \in Frame
        BY <1>2 DEF ContractTypeOK
    <2>2. g.token \in Token
        BY <2>1 DEF Frame
    <2> QED BY <1>1, <1>2, <2>2 DEF CallsExact
  <1>6. \A c \in clones : /\ c[1] \in Token /\ c[2] \in Token /\ c[1] < n /\ c[2] < n
                          /\ c[1] # n /\ c[2] # n
    <2> SUFFICES ASSUME NEW c \in clones PROVE c[1] \in Token /\ c[2] \in Token /\ c[1] < n /\ c[2] < n
        BY <1>1 DEF Token
    <2>1. c[1] \in Token /\ c[2] \in Token /\ c[1] \in Nat /\ c[2] \in Nat
        BY <1>2 DEF ContractTypeOK, Token
    <2> QED BY <1>1, <1>2, <2>1 DEF CloneFaithful
  <1>7. \A u \in Token : owner'[u] = IF u = n THEN to ELSE owner[u]
      BY <1>1, <1>2 DEF ContractTypeOK
  <1>8. RightsInv'
      BY <1>1, <1>2, <1>4, <1>7, RightsKept
  <1>9. n \notin early /\ \A u \in early : u \in Token /\ u < n
    <2>1. \A u \in early : u \in Token /\ u < n
        BY <1>2 DEF CallsExact, ContractTypeOK
    <2> QED BY <1>1, <2>1
  <1>10. CASE to \in Contract
    <2>1. /\ calls' = calls \cup {f} /\ intelligentData' = intelligentData /\ tokenCreator' = tokenCreator
          /\ cloneSource' = cloneSource /\ clones' = clones /\ early' = early
        BY <1>10 DEF safeMint, content
    <2>2. Minting' = Minting \cup {n}
        BY <2>1 DEF Minting
    <2>3. ContractTypeOK'
        BY <1>1, <1>2, <1>3, <2>1 DEF ContractTypeOK
    <2>4. SupplyExact'
        BY <1>1, <1>2, <1>3, <1>7, <2>1, Grown
    <2>5. CallsExact'
      <3>1. \A g \in calls' : /\ g.token < n' /\ intelligentData[g.token] = <<>> /\ tokenCreator[g.token] = None
                              /\ g.source # None => g.source < g.token
        <4> SUFFICES ASSUME NEW g \in calls, TRUE PROVE g.token < n'
            BY <1>1, <1>4, <1>5, <2>1
        <4>1. g.token \in Nat /\ g.token < n
            BY <1>5 DEF Token
        <4> QED BY <1>1, <4>1
      <3>2. \A g, h \in calls' : g.token = h.token => g = h
          BY <1>2, <1>5, <2>1 DEF CallsExact
      <3>3. \A c \in clones : c[2] \notin Minting' /\ (c[1] \in Minting' => c[2] \in early)
          BY <1>2, <1>6, <2>2 DEF CallsExact
      <3>4. \A u \in early : u < n' /\ u \notin Minting'
        <4> SUFFICES ASSUME NEW u \in early PROVE u < n' /\ u \notin Minting'
            OBVIOUS
        <4>1. u \in Nat /\ u < n /\ u \notin Minting
            BY <1>2, <1>9 DEF CallsExact, Token
        <4> QED BY <1>1, <2>2, <4>1
      <3> QED BY <2>1, <3>1, <3>2, <3>3, <3>4 DEF CallsExact
    <2>6. CloneFaithful'
      <3>1. \A c \in clones : c[2] < n'
        <4> SUFFICES ASSUME NEW c \in clones PROVE c[2] < n'
            OBVIOUS
        <4>1. c[2] \in Nat /\ c[2] < n
            BY <1>6 DEF Token
        <4> QED BY <1>1, <4>1
      <3> QED BY <1>2, <2>1, <3>1 DEF CloneFaithful
    <2> QED BY <1>8, <2>3, <2>4, <2>5, <2>6 DEF IInv
  <1>11. CASE to \notin Contract
    <2>1. Fill(f) /\ calls' = calls
        BY <1>11 DEF safeMint
    <2>2. f.source \in Minting => intelligentData[f.source] = <<>> /\ tokenCreator[f.source] = None
        BY <1>5 DEF Minting
    <2>3. n <= n' /\ f.token < n'
        BY <1>1
    <2>4. /\ intelligentData' \in [Token -> Data] /\ tokenCreator' \in [Token -> Account \cup {None}]
          /\ cloneSource' \in [Token -> Token] /\ clones' \subseteq Token \X Token
          /\ early \subseteq early' /\ early' \subseteq Token
          /\ early' \subseteq early \cup {n}
          /\ \A u \in Token : u # n =>
                intelligentData'[u] = intelligentData[u] /\ tokenCreator'[u] = tokenCreator[u]
          /\ \A c \in clones' : \/ c \in clones
                                \/ /\ c = <<f.source, n>> /\ f.source # n
                                   /\ f.source \in Minting => n \in early'
          /\ CloneFaithful'
        BY <1>1, <1>2, <1>4, <1>6, <1>9, <2>1, <2>2, <2>3, FillStep
    <2>5. Minting' = Minting /\ n \notin Minting
        BY <1>5, <2>1 DEF Minting
    <2>6. ContractTypeOK'
        BY <1>1, <1>2, <1>3, <2>1, <2>4 DEF ContractTypeOK
    <2>7. SupplyExact'
        BY <1>1, <1>2, <1>3, <1>7, <2>4, Grown
    <2>8. CallsExact'
      <3>1. \A g \in calls : /\ g.token < n' /\ intelligentData'[g.token] = <<>> /\ tokenCreator'[g.token] = None
                             /\ g.source # None => g.source < g.token
        <4> SUFFICES ASSUME NEW g \in calls PROVE g.token < n'
            BY <1>5, <2>4
        <4>1. g.token \in Nat /\ g.token < n
            BY <1>5 DEF Token
        <4> QED BY <1>1, <4>1
      <3>2. \A c \in clones' : c[2] \notin Minting /\ (c[1] \in Minting => c[2] \in early')
          BY <1>2, <2>4, <2>5 DEF CallsExact
      <3>3. \A u \in early' : u < n' /\ u \notin Minting
        <4> SUFFICES ASSUME NEW u \in early' PROVE u < n' /\ u \notin Minting
            OBVIOUS
        <4>1. CASE u = n
            BY <1>1, <2>5, <4>1
        <4>2. CASE u \in early
          <5>1. u \in Nat /\ u < n /\ u \notin Minting
              BY <1>2, <1>9, <4>2 DEF CallsExact, Token
          <5> QED BY <1>1, <5>1
        <4> QED BY <2>4, <4>1, <4>2
      <3> QED BY <1>2, <2>1, <2>5, <3>1, <3>2, <3>3 DEF CallsExact
    <2> QED BY <1>8, <2>4, <2>6, <2>7, <2>8 DEF IInv
  <1> QED BY <1>10, <1>11

(* The receiver has returned: what the call had yet to write is written.   *)
LEMMA ReturnStep ==
    ASSUME IInv, NEW f \in calls, Return(f)
    PROVE  IInv'
  <1>1. /\ ContractTypeOK /\ SupplyExact /\ RightsInv /\ CloneFaithful /\ CallsExact
        /\ calls' = calls \ {f} /\ Fill(f) /\ nextTokenId' = nextTokenId /\ owner' = owner
        /\ UNCHANGED <<terms, rights, moved>>
      BY DEF IInv, Return
  <1>2. /\ authorizedUsers' = authorizedUsers /\ isAuthorizedUser' = isAuthorizedUser
        /\ authorizedTokens' = authorizedTokens /\ isAuthorizedToken' = isAuthorizedToken
        /\ grants' = grants /\ paused' = paused /\ mintFee' = mintFee /\ moved' = moved
      BY <1>1 DEF rights, terms
  <1>3. /\ f \in Frame /\ f.token \in Token /\ f.token \in Minting /\ f.token < nextTokenId
        /\ intelligentData[f.token] = <<>> /\ tokenCreator[f.token] = None
        /\ f.source # None => f.source < f.token
        /\ nextTokenId \in Nat /\ nextTokenId <= nextTokenId
      BY <1>1 DEF ContractTypeOK, CallsExact, Frame, Minting
  <1>4. f.source \in Minting => intelligentData[f.source] = <<>> /\ tokenCreator[f.source] = None
      BY <1>1 DEF CallsExact, Minting
  <1>5. /\ f.token \notin early
        /\ \A c \in clones : c[2] # f.token /\ (c[1] = f.token => c[2] \in early)
      BY <1>1, <1>3 DEF CallsExact
  <1>6. /\ intelligentData' \in [Token -> Data] /\ tokenCreator' \in [Token -> Account \cup {None}]
        /\ cloneSource' \in [Token -> Token] /\ clones' \subseteq Token \X Token
        /\ early \subseteq early' /\ early' \subseteq Token
        /\ early' \subseteq early \cup {f.token}
        /\ \A u \in Token : u # f.token =>
              intelligentData'[u] = intelligentData[u] /\ tokenCreator'[u] = tokenCreator[u]
        /\ \A c \in clones' : \/ c \in clones
                              \/ /\ c = <<f.source, f.token>> /\ f.source # f.token
                                 /\ f.source \in Minting => f.token \in early'
        /\ CloneFaithful'
      BY <1>1, <1>3, <1>4, <1>5, FillStep
  <1>7. \A g \in calls' : g.token # f.token
      BY <1>1 DEF CallsExact
  <1>8. Minting' \subseteq Minting /\ f.token \notin Minting'
      BY <1>1, <1>7 DEF Minting
  <1>9. ContractTypeOK'
      BY <1>1, <1>2, <1>6 DEF ContractTypeOK
  <1>10. SupplyExact'
    <2> SUFFICES ASSUME NEW u \in Token
                 PROVE  /\ u < nextTokenId => owner[u] # None
                        /\ u >= nextTokenId =>
                              /\ owner[u] = None /\ intelligentData'[u] = <<>> /\ tokenCreator'[u] = None
                              /\ isAuthorizedUser[u] = {}
        BY <1>1, <1>2 DEF SupplyExact
    <2>1. u >= nextTokenId => u # f.token
        BY <1>3 DEF Token
    <2> QED BY <1>1, <1>6, <2>1 DEF SupplyExact
  <1>11. RightsInv'
      BY <1>1, RightsKept
  <1>12. CallsExact'
    <2>1. \A g \in calls' : /\ g.token < nextTokenId
                            /\ intelligentData'[g.token] = <<>> /\ tokenCreator'[g.token] = None
                            /\ g.source # None => g.source < g.token
      <3> SUFFICES ASSUME NEW g \in calls'
                   PROVE  intelligentData'[g.token] = <<>> /\ tokenCreator'[g.token] = None
          BY <1>1 DEF CallsExact
      <3>1. g \in calls /\ g.token \in Token
          BY <1>1 DEF ContractTypeOK, Frame
      <3> QED BY <1>1, <1>6, <1>7, <3>1 DEF CallsExact
    <2>2. \A c \in clones' : c[2] \notin Minting' /\ (c[1] \in Minting' => c[2] \in early')
      <3> SUFFICES ASSUME NEW c \in clones'
                   PROVE  c[2] \notin Minting' /\ (c[1] \in Minting' => c[2] \in early')
          OBVIOUS
      <3>1. CASE c \in clones
          BY <1>1, <1>6, <1>8, <3>1 DEF CallsExact
      <3>2. CASE c \notin clones
          BY <1>6, <1>8, <3>2
      <3> QED BY <3>1, <3>2
    <2>3. \A u \in early' : u < nextTokenId /\ u \notin Minting'
        BY <1>1, <1>3, <1>6, <1>8 DEF CallsExact
    <2> QED BY <1>1, <2>1, <2>2, <2>3 DEF CallsExact
  <1> QED BY <1>6, <1>9, <1>10, <1>11, <1>12 DEF IInv

LEMMA CloneStep ==
    ASSUME IInv, NEW sender \in Account, NEW from \in Account, NEW to \in Account, NEW t \in Minted,
           iCloneFrom(sender, from, to, t)
    PROVE  IInv'
  <1>1. safeMint(to, CloneOf(t)) /\ nextTokenId < MaxTokens /\ nextTokenId \in 0..MaxTokens
      BY DEF IInv, ContractTypeOK, iCloneFrom, safeMint
  <1>2. t \in Token /\ t < nextTokenId /\ nextTokenId \in Token
      BY <1>1 DEF Minted, Token
  <1>3. CloneOf(t) \in Frame /\ CloneOf(t).token = nextTokenId /\ CloneOf(t).source = t
      BY <1>2, FrameTypes DEF IInv, CloneOf
  <1> QED BY <1>1, <1>2, <1>3, MintStep

LEMMA IssueStep ==
    ASSUME IInv, NEW to \in Account, NEW datas \in Data, NEW creator \in Account,
           safeMint(to, MintOf(datas, creator))
    PROVE  IInv'
  <1>1. nextTokenId \in Token
      BY DEF IInv, ContractTypeOK, Token, safeMint
  <1>2. /\ MintOf(datas, creator) \in Frame /\ MintOf(datas, creator).token = nextTokenId
        /\ MintOf(datas, creator).source = None
      BY <1>1, FrameTypes DEF IInv, MintOf
  <1> QED BY <1>2, MintStep

-----------------------------------------------------------------------------
(* Authorisations. *)

(* What a call that changes rights alone leaves as it is. *)
LEMMA SupplyKept ==
    ASSUME IInv, UNCHANGED <<nextTokenId, calls, content>>,
           \A t \in Token :
              /\ owner'[t] = owner[t] \/ (owner'[t] # None /\ owner[t] # None)
              /\ owner[t] = None => isAuthorizedUser'[t] = {}
    PROVE  SupplyExact' /\ CloneFaithful' /\ CallsExact'
  <1>1. /\ nextTokenId' = nextTokenId /\ calls' = calls /\ intelligentData' = intelligentData
        /\ tokenCreator' = tokenCreator /\ cloneSource' = cloneSource
        /\ clones' = clones /\ early' = early /\ Minting' = Minting
      BY DEF content, Minting
  <1>2. CloneFaithful' /\ CallsExact'
      BY <1>1 DEF IInv, CloneFaithful, CallsExact
  <1>3. SupplyExact'
    <2> SUFFICES ASSUME NEW u \in Token
                 PROVE  /\ u < nextTokenId => owner'[u] # None
                        /\ u >= nextTokenId =>
                              /\ owner'[u] = None /\ intelligentData[u] = <<>> /\ tokenCreator[u] = None
                              /\ isAuthorizedUser'[u] = {}
        BY <1>1 DEF SupplyExact
    <2>1. /\ u < nextTokenId => owner[u] # None
          /\ u >= nextTokenId =>
                owner[u] = None /\ intelligentData[u] = <<>> /\ tokenCreator[u] = None
        BY DEF IInv, SupplyExact
    <2> QED BY <2>1
  <1> QED BY <1>2, <1>3

(* A token without an owner is one nobody minted, and has no rights. *)
LEMMA NobodysToken ==
    ASSUME IInv, NEW u \in Token, owner[u] = None
    PROVE  u >= nextTokenId /\ isAuthorizedUser[u] = {}
  <1>1. u \in Nat /\ nextTokenId \in Nat
      BY DEF Token, IInv, ContractTypeOK
  <1>2. /\ u < nextTokenId => owner[u] # None
        /\ u >= nextTokenId => isAuthorizedUser[u] = {}
      BY DEF IInv, SupplyExact
  <1> QED BY <1>1, <1>2

LEMMA AuthorizeStep ==
    ASSUME IInv, NEW sender \in Account, NEW user \in Account, NEW t \in Minted,
           authorizeUsage(sender, t, user)
    PROVE  IInv'
  <1> DEFINE g == [token |-> t, user |-> user, by |-> sender, how |-> "single"]
  <1>1. t \in Token
      BY DEF IInv, ContractTypeOK, Minted, Token
  <1>2. /\ owner[t] = sender /\ user \notin isAuthorizedUser[t] /\ Len(authorizedUsers[t]) < Limit
        /\ authorizedUsers' = [authorizedUsers EXCEPT ![t] = Append(@, user)]
        /\ isAuthorizedUser' = [isAuthorizedUser EXCEPT ![t] = @ \cup {user}]
        /\ authorizedTokens' = [authorizedTokens EXCEPT ![user] = Append(@, t)]
        /\ isAuthorizedToken' = [isAuthorizedToken EXCEPT ![user] = @ \cup {t}]
        /\ grants' = grants \cup {g}
        /\ UNCHANGED <<nextTokenId, owner, calls, content, terms, moved>>
      BY DEF authorizeUsage, supply
  <1>3. /\ authorizedUsers \in [Token -> Seq(Account)] /\ isAuthorizedUser \in [Token -> SUBSET Account]
        /\ authorizedTokens \in [Account -> Seq(Token)] /\ isAuthorizedToken \in [Account -> SUBSET Token]
        /\ grants \subseteq Grant
      BY DEF IInv, ContractTypeOK
  <1>4. ListsOK /\ IndexAgrees /\ GrantsLive /\ GrantsOfOwner
      BY DEF IInv, RightsInv
  <1>5. t \notin isAuthorizedToken[user]
      BY <1>1, <1>2, <1>4 DEF IndexAgrees
  <1>6. LET s == authorizedUsers'[t]
        IN  /\ s \in Seq(Account) /\ Distinct(s) /\ Elements(s) = isAuthorizedUser'[t]
            /\ Len(s) = Len(authorizedUsers[t]) + 1
    <2>1. /\ authorizedUsers[t] \in Seq(Account) /\ Distinct(authorizedUsers[t])
          /\ user \notin Elements(authorizedUsers[t])
          /\ Elements(authorizedUsers[t]) = isAuthorizedUser[t]
        BY <1>1, <1>2, <1>3, <1>4 DEF ListsOK
    <2>2. /\ authorizedUsers'[t] = Append(authorizedUsers[t], user)
          /\ isAuthorizedUser'[t] = isAuthorizedUser[t] \cup {user}
        BY <1>1, <1>2, <1>3
    <2> QED BY <2>1, <2>2, AppendNew
  <1>7. LET s == authorizedTokens'[user]
        IN  s \in Seq(Token) /\ Distinct(s) /\ Elements(s) = isAuthorizedToken'[user]
    <2>1. /\ authorizedTokens[user] \in Seq(Token) /\ Distinct(authorizedTokens[user])
          /\ t \notin Elements(authorizedTokens[user])
          /\ Elements(authorizedTokens[user]) = isAuthorizedToken[user]
        BY <1>3, <1>4, <1>5 DEF ListsOK
    <2>2. /\ authorizedTokens'[user] = Append(authorizedTokens[user], t)
          /\ isAuthorizedToken'[user] = isAuthorizedToken[user] \cup {t}
        BY <1>2, <1>3
    <2> QED BY <1>1, <2>1, <2>2, AppendNew
  <1>8. \A u \in Token : /\ u # t => authorizedUsers'[u] = authorizedUsers[u]
                         /\ isAuthorizedUser'[u] = IF u = t THEN isAuthorizedUser[t] \cup {user}
                                                   ELSE isAuthorizedUser[u]
      BY <1>1, <1>2, <1>3
  <1>9. \A a \in Account : /\ a # user => authorizedTokens'[a] = authorizedTokens[a]
                           /\ isAuthorizedToken'[a] = IF a = user THEN isAuthorizedToken[user] \cup {t}
                                                      ELSE isAuthorizedToken[a]
      BY <1>2, <1>3
  <1>10. g.token = t /\ g.user = user /\ g.by = sender /\ g.how = "single" /\ g \in Grant
      BY <1>1 DEF Grant
  <1> HIDE DEF g
  <1>11. \A h \in grants : h.token # t \/ h.user # user
      BY <1>2, <1>4 DEF GrantsLive
  <1>12. ListsOK'
    <2>1. ASSUME NEW u \in Token
          PROVE  /\ Elements(authorizedUsers'[u]) = isAuthorizedUser'[u]
                 /\ Distinct(authorizedUsers'[u]) /\ Len(authorizedUsers'[u]) <= Limit
      <3>1. CASE u = t
        <4>1. Len(authorizedUsers[t]) \in Nat
            BY <1>1, <1>3
        <4> QED BY <1>2, <1>6, <3>1, <4>1
      <3>2. CASE u # t
          BY <1>4, <1>8, <3>2 DEF ListsOK
      <3> QED BY <3>1, <3>2
    <2>2. ASSUME NEW a \in Account
          PROVE  Elements(authorizedTokens'[a]) = isAuthorizedToken'[a] /\ Distinct(authorizedTokens'[a])
        BY <1>4, <1>7, <1>9 DEF ListsOK
    <2> QED BY <2>1, <2>2 DEF ListsOK
  <1>13. IndexAgrees'
    <2> SUFFICES ASSUME NEW u \in Token, NEW a \in Account
                 PROVE  u \in isAuthorizedToken'[a] <=>
                           /\ a \in isAuthorizedUser'[u]
                           /\ \A h \in grants' : h.token = u /\ h.user = a => h.how = "single"
        BY DEF IndexAgrees
    <2>1. CASE u = t /\ a = user
        BY <1>2, <1>8, <1>9, <1>10, <1>11, <2>1
    <2>2. CASE ~(u = t /\ a = user)
      <3>1. (u \in isAuthorizedToken'[a] <=> u \in isAuthorizedToken[a])
            /\ (a \in isAuthorizedUser'[u] <=> a \in isAuthorizedUser[u])
          BY <1>8, <1>9, <2>2
      <3> QED BY <1>2, <1>4, <1>10, <2>2, <3>1 DEF IndexAgrees
    <2> QED BY <2>1, <2>2
  <1>14. GrantsLive'
    <2>1. \A h \in grants : h.token \in Token
        BY <1>3 DEF Grant
    <2> QED BY <1>1, <1>2, <1>4, <1>8, <1>10, <2>1 DEF GrantsLive
  <1>15. GrantsOfOwner'
      BY <1>1, <1>2, <1>4, <1>8, <1>10 DEF GrantsOfOwner
  <1>16. ContractTypeOK'
    <2>1. authorizedUsers' \in [Token -> Seq(Account)] /\ isAuthorizedUser' \in [Token -> SUBSET Account]
        BY <1>1, <1>2, <1>3
    <2>2. authorizedTokens' \in [Account -> Seq(Token)] /\ isAuthorizedToken' \in [Account -> SUBSET Token]
        BY <1>1, <1>2, <1>3
    <2>3. grants' \subseteq Grant
        BY <1>2, <1>3, <1>10
    <2>4. paused' = paused /\ mintFee' = mintFee
        BY <1>2 DEF terms
    <2> QED BY <1>2, <2>1, <2>2, <2>3, <2>4 DEF IInv, ContractTypeOK, content
  <1>17. SupplyExact' /\ CloneFaithful' /\ CallsExact'
    <2>1. owner[t] # None
        BY <1>2
    <2>2. \A u \in Token : owner[u] = None => isAuthorizedUser'[u] = {}
        BY <1>8, <2>1, NobodysToken
    <2> QED BY <1>2, <2>2, SupplyKept
  <1> QED BY <1>12, <1>13, <1>14, <1>15, <1>16, <1>17 DEF IInv, RightsInv

(* revokeAuthorization takes t and user out of both directions. *)
LEMMA RevokeStep ==
    ASSUME IInv, NEW sender \in Account, NEW user \in Account, NEW t \in Minted,
           revokeAuthorization(sender, t, user)
    PROVE  IInv'
  <1>1. t \in Token
      BY DEF IInv, ContractTypeOK, Minted, Token
  <1>2. /\ owner[t] = sender
        /\ authorizedUsers' = [authorizedUsers EXCEPT ![t] = SwapPop(@, user)]
        /\ isAuthorizedUser' = [isAuthorizedUser EXCEPT ![t] = @ \ {user}]
        /\ authorizedTokens' = WithoutToken({user}, t)
        /\ isAuthorizedToken' = WithoutTokenFlag({user}, t)
        /\ grants' = {g \in grants : g.token # t \/ g.user # user}
        /\ UNCHANGED <<nextTokenId, owner, calls, content, terms, moved>>
      BY DEF revokeAuthorization, supply
  <1>3. /\ authorizedUsers \in [Token -> Seq(Account)] /\ isAuthorizedUser \in [Token -> SUBSET Account]
        /\ authorizedTokens \in [Account -> Seq(Token)] /\ isAuthorizedToken \in [Account -> SUBSET Token]
        /\ grants \subseteq Grant
      BY DEF IInv, ContractTypeOK
  <1>4. ListsOK /\ IndexAgrees /\ GrantsLive /\ GrantsOfOwner
      BY DEF IInv, RightsInv
  <1>5. \A u \in Token :
           /\ authorizedUsers'[u] = IF u = t THEN SwapPop(authorizedUsers[t], user) ELSE authorizedUsers[u]
           /\ isAuthorizedUser'[u] = IF u = t THEN isAuthorizedUser[t] \ {user} ELSE isAuthorizedUser[u]
      BY <1>1, <1>2, <1>3
  <1>6. /\ authorizedTokens' = [a \in Account |-> IF a \in {user} THEN SwapPop(authorizedTokens[a], t)
                                                  ELSE authorizedTokens[a]]
        /\ isAuthorizedToken' = [a \in Account |-> IF a \in {user} THEN isAuthorizedToken[a] \ {t}
                                                   ELSE isAuthorizedToken[a]]
      BY <1>2 DEF WithoutToken, WithoutTokenFlag
  <1>7. /\ SwapPop(authorizedUsers[t], user) \in Seq(Account)
        /\ Distinct(SwapPop(authorizedUsers[t], user))
        /\ Elements(SwapPop(authorizedUsers[t], user)) = isAuthorizedUser[t] \ {user}
        /\ Len(SwapPop(authorizedUsers[t], user)) <= Len(authorizedUsers[t])
    <2>1. authorizedUsers[t] \in Seq(Account) /\ Distinct(authorizedUsers[t])
          /\ Elements(authorizedUsers[t]) = isAuthorizedUser[t]
        BY <1>1, <1>3, <1>4 DEF ListsOK
    <2> QED BY <2>1, SwapPopRemoves
  <1>8. /\ SwapPop(authorizedTokens[user], t) \in Seq(Token)
        /\ Distinct(SwapPop(authorizedTokens[user], t))
        /\ Elements(SwapPop(authorizedTokens[user], t)) = isAuthorizedToken[user] \ {t}
    <2>1. authorizedTokens[user] \in Seq(Token) /\ Distinct(authorizedTokens[user])
          /\ Elements(authorizedTokens[user]) = isAuthorizedToken[user]
        BY <1>3, <1>4 DEF ListsOK
    <2> QED BY <2>1, SwapPopRemoves
  <1>9. ListsOK'
    <2>1. ASSUME NEW u \in Token
          PROVE  /\ Elements(authorizedUsers'[u]) = isAuthorizedUser'[u]
                 /\ Distinct(authorizedUsers'[u]) /\ Len(authorizedUsers'[u]) <= Limit
      <3>1. CASE u = t
        <4>1. /\ Len(authorizedUsers[t]) \in Nat /\ Len(authorizedUsers[t]) <= Limit
              /\ Len(SwapPop(authorizedUsers[t], user)) \in Nat
            BY <1>1, <1>3, <1>4, <1>7 DEF ListsOK
        <4>2. /\ authorizedUsers'[u] = SwapPop(authorizedUsers[t], user)
              /\ isAuthorizedUser'[u] = isAuthorizedUser[t] \ {user}
            BY <1>5, <3>1
        <4>3. Len(authorizedUsers'[u]) <= Limit
            BY <1>7, <4>1, <4>2
        <4> QED BY <1>7, <4>2, <4>3
      <3>2. CASE u # t
          BY <1>4, <1>5, <3>2 DEF ListsOK
      <3> QED BY <3>1, <3>2
    <2>2. ASSUME NEW a \in Account
          PROVE  Elements(authorizedTokens'[a]) = isAuthorizedToken'[a] /\ Distinct(authorizedTokens'[a])
        BY <1>4, <1>6, <1>8 DEF ListsOK
    <2> QED BY <2>1, <2>2 DEF ListsOK
  <1>10. IndexAgrees'
    <2> SUFFICES ASSUME NEW u \in Token, NEW a \in Account
                 PROVE  u \in isAuthorizedToken'[a] <=>
                           /\ a \in isAuthorizedUser'[u]
                           /\ \A h \in grants' : h.token = u /\ h.user = a => h.how = "single"
        BY DEF IndexAgrees
    <2>1. CASE u = t /\ a = user
        BY <1>5, <1>6, <2>1
    <2>2. CASE ~(u = t /\ a = user)
      <3>1. /\ u \in isAuthorizedToken'[a] <=> u \in isAuthorizedToken[a]
            /\ a \in isAuthorizedUser'[u] <=> a \in isAuthorizedUser[u]
          BY <1>5, <1>6, <2>2
      <3> QED BY <1>2, <1>4, <2>2, <3>1 DEF IndexAgrees
    <2> QED BY <2>1, <2>2
  <1>11. GrantsLive'
    <2>1. \A h \in grants : h.token \in Token
        BY <1>3 DEF Grant
    <2> QED BY <1>2, <1>4, <1>5, <2>1 DEF GrantsLive
  <1>12. GrantsOfOwner'
      BY <1>2, <1>4, <1>5 DEF GrantsOfOwner
  <1>13. ContractTypeOK'
    <2>1. authorizedUsers' \in [Token -> Seq(Account)] /\ isAuthorizedUser' \in [Token -> SUBSET Account]
        BY <1>1, <1>2, <1>3, <1>7
    <2>2. authorizedTokens' \in [Account -> Seq(Token)] /\ isAuthorizedToken' \in [Account -> SUBSET Token]
        BY <1>3, <1>6, <1>8
    <2>3. paused' = paused /\ mintFee' = mintFee /\ grants' \subseteq Grant
        BY <1>2, <1>3 DEF terms
    <2> QED BY <1>2, <2>1, <2>2, <2>3 DEF IInv, ContractTypeOK, content
  <1>14. SupplyExact' /\ CloneFaithful' /\ CallsExact'
    <2>1. \A u \in Token : owner[u] = None => isAuthorizedUser'[u] = {}
        BY <1>5, NobodysToken
    <2> QED BY <1>2, <2>1, SupplyKept
  <1> QED BY <1>9, <1>10, <1>11, <1>12, <1>13, <1>14 DEF IInv, RightsInv

(* batchAuthorizeUsage leaves the direction per user alone, and says so.   *)
LEMMA BatchStep ==
    ASSUME IInv, NEW sender \in Account, NEW user \in Account, NEW tokenIds \in Batch,
           batchAuthorizeUsage(sender, tokenIds, user)
    PROVE  IInv'
  <1> DEFINE listed == {tokenIds[i] : i \in DOMAIN tokenIds}
             fresh  == {u \in listed : user \notin isAuthorizedUser[u]}
             given  == {[token |-> u, user |-> user, by |-> sender, how |-> "batch"] : u \in fresh}
  <1>1. listed \subseteq Token /\ fresh \subseteq Token
      BY ArrayAssumption DEF Token
  <1>2. /\ \A u \in listed : owner[u] = sender
        /\ \A u \in fresh : Len(authorizedUsers[u]) < Limit
        /\ authorizedUsers' = [u \in Token |->
               IF u \in fresh THEN Append(authorizedUsers[u], user) ELSE authorizedUsers[u]]
        /\ isAuthorizedUser' = [u \in Token |->
               IF u \in fresh THEN isAuthorizedUser[u] \cup {user} ELSE isAuthorizedUser[u]]
        /\ grants' = grants \cup given
        /\ UNCHANGED <<nextTokenId, owner, calls, content, terms, moved>>
        /\ authorizedTokens' = authorizedTokens /\ isAuthorizedToken' = isAuthorizedToken
      BY DEF batchAuthorizeUsage, supply
  <1>3. /\ authorizedUsers \in [Token -> Seq(Account)] /\ isAuthorizedUser \in [Token -> SUBSET Account]
        /\ authorizedTokens \in [Account -> Seq(Token)] /\ isAuthorizedToken \in [Account -> SUBSET Token]
        /\ grants \subseteq Grant
      BY DEF IInv, ContractTypeOK
  <1>4. ListsOK /\ IndexAgrees /\ GrantsLive /\ GrantsOfOwner
      BY DEF IInv, RightsInv
  <1>5. \A h : h \in given <=> \E u \in fresh : h = [token |-> u, user |-> user, by |-> sender, how |-> "batch"]
      OBVIOUS
  <1>6. \A u \in fresh : owner[u] = sender /\ user \notin isAuthorizedUser[u]
      BY <1>2
  <1> HIDE DEF listed, fresh, given
  <1>7. /\ \A h \in given : h \in Grant /\ h.token \in fresh /\ h.user = user /\ h.by = sender /\ h.how = "batch"
        /\ \A u \in fresh : \E h \in given : h.token = u /\ h.user = user /\ h.by = sender /\ h.how = "batch"
    <2>1. ASSUME NEW u \in fresh, NEW h,
                 h = [token |-> u, user |-> user, by |-> sender, how |-> "batch"]
          PROVE  h \in Grant /\ h.token = u /\ h.user = user /\ h.by = sender /\ h.how = "batch"
        BY <1>1, <2>1 DEF Grant
    <2>2. \A h \in given : h \in Grant /\ h.token \in fresh /\ h.user = user /\ h.by = sender
                            /\ h.how = "batch"
        BY <1>5, <2>1
    <2>3. ASSUME NEW u \in fresh
          PROVE  \E h \in given : h.token = u /\ h.user = user /\ h.by = sender /\ h.how = "batch"
      <3> DEFINE h == [token |-> u, user |-> user, by |-> sender, how |-> "batch"]
      <3>1. h \in given
          BY <1>5
      <3> QED BY <2>1, <3>1
    <2> QED BY <2>2, <2>3
  <1>8. ASSUME NEW u \in Token
        PROVE  /\ authorizedUsers'[u] \in Seq(Account) /\ Distinct(authorizedUsers'[u])
               /\ Elements(authorizedUsers'[u]) = isAuthorizedUser'[u]
               /\ Len(authorizedUsers'[u]) <= Limit
    <2>1. /\ authorizedUsers[u] \in Seq(Account) /\ Distinct(authorizedUsers[u])
          /\ Elements(authorizedUsers[u]) = isAuthorizedUser[u]
          /\ Len(authorizedUsers[u]) \in Nat /\ Len(authorizedUsers[u]) <= Limit
        BY <1>3, <1>4 DEF ListsOK
    <2>2. CASE u \in fresh
      <3>1. /\ authorizedUsers'[u] = Append(authorizedUsers[u], user)
            /\ isAuthorizedUser'[u] = isAuthorizedUser[u] \cup {user}
            /\ Len(authorizedUsers[u]) < Limit /\ user \notin Elements(authorizedUsers[u])
          BY <1>2, <1>6, <2>1, <2>2
      <3>2. /\ Append(authorizedUsers[u], user) \in Seq(Account)
            /\ Distinct(Append(authorizedUsers[u], user))
            /\ Elements(Append(authorizedUsers[u], user)) = Elements(authorizedUsers[u]) \cup {user}
            /\ Len(Append(authorizedUsers[u], user)) = Len(authorizedUsers[u]) + 1
          BY <2>1, <3>1, AppendNew
      <3> QED BY <2>1, <3>1, <3>2
    <2>3. CASE u \notin fresh
      <3>1. authorizedUsers'[u] = authorizedUsers[u] /\ isAuthorizedUser'[u] = isAuthorizedUser[u]
          BY <1>2, <2>3
      <3> QED BY <2>1, <3>1
    <2> QED BY <2>2, <2>3
  <1>9. ListsOK'
      BY <1>2, <1>4, <1>8 DEF ListsOK
  <1>10. IndexAgrees'
    <2> SUFFICES ASSUME NEW u \in Token, NEW a \in Account
                 PROVE  u \in isAuthorizedToken[a] <=>
                           /\ a \in isAuthorizedUser'[u]
                           /\ \A h \in grants' : h.token = u /\ h.user = a => h.how = "single"
        BY <1>2 DEF IndexAgrees
    <2>1. CASE u \in fresh /\ a = user
      <3>1. u \notin isAuthorizedToken[a]
          BY <1>4, <1>6, <2>1 DEF IndexAgrees
      <3>2. PICK h \in given : h.token = u /\ h.user = a /\ h.how = "batch"
          BY <1>7, <2>1
      <3> QED BY <1>2, <3>1, <3>2
    <2>2. CASE ~(u \in fresh /\ a = user)
      <3>1. a \in isAuthorizedUser'[u] <=> a \in isAuthorizedUser[u]
          BY <1>2, <2>2
      <3>2. \A h \in given : ~(h.token = u /\ h.user = a)
          BY <1>7, <2>2
      <3> QED BY <1>2, <1>4, <3>1, <3>2 DEF IndexAgrees
    <2> QED BY <2>1, <2>2
  <1>11. GrantsLive'
    <2>1. \A h \in grants : h.token \in Token
        BY <1>3 DEF Grant
    <2>2. \A u \in Token : isAuthorizedUser[u] \subseteq isAuthorizedUser'[u]
        BY <1>2
    <2>3. \A h \in given : h.user \in isAuthorizedUser'[h.token]
        BY <1>1, <1>2, <1>7
    <2> QED BY <1>2, <1>4, <2>1, <2>2, <2>3 DEF GrantsLive
  <1>12. GrantsOfOwner'
    <2> SUFFICES ASSUME NEW u \in Token \ moved, NEW a \in isAuthorizedUser'[u]
                 PROVE  \E h \in grants' : h.token = u /\ h.user = a /\ h.by = owner[u]
        BY <1>2 DEF GrantsOfOwner
    <2>1. CASE a \in isAuthorizedUser[u]
        BY <1>2, <1>4, <2>1 DEF GrantsOfOwner
    <2>2. CASE a \notin isAuthorizedUser[u]
      <3>1. u \in fresh /\ a = user
          BY <1>2, <2>2
      <3> QED BY <1>2, <1>6, <1>7, <3>1
    <2> QED BY <2>1, <2>2
  <1>13. ContractTypeOK'
    <2>1. authorizedUsers' \in [Token -> Seq(Account)]
        BY <1>2, <1>8
    <2>2. isAuthorizedUser' \in [Token -> SUBSET Account]
        BY <1>2, <1>3
    <2>3. paused' = paused /\ mintFee' = mintFee /\ grants' \subseteq Grant
        BY <1>2, <1>3, <1>7 DEF terms
    <2> QED BY <1>2, <2>1, <2>2, <2>3 DEF IInv, ContractTypeOK, content
  <1>14. SupplyExact' /\ CloneFaithful' /\ CallsExact'
    <2>1. \A u \in Token : owner[u] = None => isAuthorizedUser'[u] = {}
        BY <1>2, <1>6, NobodysToken
    <2> QED BY <1>2, <2>1, SupplyKept
  <1> QED BY <1>9, <1>10, <1>11, <1>12, <1>13, <1>14 DEF IInv, RightsInv

-----------------------------------------------------------------------------
(* Transfers: _clearAuthorizations leaves nobody with a right to t, in     *)
(* either direction, since the list it walks is all of them.               *)
LEMMA TransferStep ==
    ASSUME IInv, NEW sender \in Account, NEW from \in Account, NEW to \in Account, NEW t \in Minted,
           iTransferFrom(sender, from, to, t)
    PROVE  IInv'
  <1>1. t \in Token
      BY DEF IInv, ContractTypeOK, Minted, Token
  <1>2. /\ owner[t] = from /\ owner' = [owner EXCEPT ![t] = to]
        /\ authorizedUsers' = [authorizedUsers EXCEPT ![t] = <<>>]
        /\ isAuthorizedUser' = [isAuthorizedUser EXCEPT ![t] = @ \ Listed(t)]
        /\ authorizedTokens' = WithoutToken(Listed(t), t)
        /\ isAuthorizedToken' = WithoutTokenFlag(Listed(t), t)
        /\ grants' = {g \in grants : g.token # t}
        /\ moved' = moved \ {t}
        /\ UNCHANGED <<nextTokenId, calls, content, terms>>
      BY DEF iTransferFrom, clearAuthorizations
  <1>3. /\ authorizedUsers \in [Token -> Seq(Account)] /\ isAuthorizedUser \in [Token -> SUBSET Account]
        /\ authorizedTokens \in [Account -> Seq(Token)] /\ isAuthorizedToken \in [Account -> SUBSET Token]
        /\ grants \subseteq Grant /\ owner \in [Token -> Account \cup {None}]
      BY DEF IInv, ContractTypeOK
  <1>4. ListsOK /\ IndexAgrees /\ GrantsLive /\ GrantsOfOwner
      BY DEF IInv, RightsInv
  <1>5. Listed(t) = isAuthorizedUser[t]
      BY <1>1, <1>4 DEF ListsOK, Listed, Elements
  <1>6. \A u \in Token :
           /\ authorizedUsers'[u] = IF u = t THEN <<>> ELSE authorizedUsers[u]
           /\ isAuthorizedUser'[u] = IF u = t THEN {} ELSE isAuthorizedUser[u]
           /\ owner'[u] = IF u = t THEN to ELSE owner[u]
    <2>1. isAuthorizedUser[t] \ Listed(t) = {}
        BY <1>5
    <2>2. \A u \in Token : isAuthorizedUser'[u] = IF u = t THEN isAuthorizedUser[t] \ Listed(t)
                                                  ELSE isAuthorizedUser[u]
        BY <1>1, <1>2, <1>3
    <2>3. \A u \in Token : /\ authorizedUsers'[u] = IF u = t THEN <<>> ELSE authorizedUsers[u]
                           /\ owner'[u] = IF u = t THEN to ELSE owner[u]
        BY <1>1, <1>2, <1>3
    <2> QED BY <2>1, <2>2, <2>3
  <1>7. /\ authorizedTokens' = [a \in Account |->
               IF a \in isAuthorizedUser[t] THEN SwapPop(authorizedTokens[a], t) ELSE authorizedTokens[a]]
        /\ isAuthorizedToken' = [a \in Account |->
               IF a \in isAuthorizedUser[t] THEN isAuthorizedToken[a] \ {t} ELSE isAuthorizedToken[a]]
      BY <1>2, <1>5 DEF WithoutToken, WithoutTokenFlag
  <1>8. ASSUME NEW a \in Account
        PROVE  /\ authorizedTokens'[a] \in Seq(Token) /\ Distinct(authorizedTokens'[a])
               /\ Elements(authorizedTokens'[a]) = isAuthorizedToken'[a]
    <2>1. authorizedTokens[a] \in Seq(Token) /\ Distinct(authorizedTokens[a])
          /\ Elements(authorizedTokens[a]) = isAuthorizedToken[a]
        BY <1>3, <1>4 DEF ListsOK
    <2>2. /\ SwapPop(authorizedTokens[a], t) \in Seq(Token)
          /\ Distinct(SwapPop(authorizedTokens[a], t))
          /\ Elements(SwapPop(authorizedTokens[a], t)) = isAuthorizedToken[a] \ {t}
        BY <2>1, SwapPopRemoves
    <2> QED BY <1>7, <2>1, <2>2
  <1>9. ListsOK'
    <2>1. Elements(<<>>) = {} /\ Distinct(<<>>) /\ Len(<<>>) <= Limit
        BY DEF Elements, Distinct
    <2>2. ASSUME NEW u \in Token
          PROVE  /\ Elements(authorizedUsers'[u]) = isAuthorizedUser'[u]
                 /\ Distinct(authorizedUsers'[u]) /\ Len(authorizedUsers'[u]) <= Limit
      <3>1. CASE u = t
        <4>1. authorizedUsers'[u] = <<>> /\ isAuthorizedUser'[u] = {}
            BY <1>6, <3>1
        <4> QED BY <2>1, <4>1
      <3>2. CASE u # t
          BY <1>4, <1>6, <3>2 DEF ListsOK
      <3> QED BY <3>1, <3>2
    <2> QED BY <1>8, <2>2 DEF ListsOK
  <1>10. IndexAgrees'
    <2> SUFFICES ASSUME NEW u \in Token, NEW a \in Account
                 PROVE  u \in isAuthorizedToken'[a] <=>
                           /\ a \in isAuthorizedUser'[u]
                           /\ \A h \in grants' : h.token = u /\ h.user = a => h.how = "single"
        BY DEF IndexAgrees
    <2>1. CASE u = t
        BY <1>4, <1>6, <1>7, <2>1 DEF IndexAgrees
    <2>2. CASE u # t
      <3>1. /\ u \in isAuthorizedToken'[a] <=> u \in isAuthorizedToken[a]
            /\ a \in isAuthorizedUser'[u] <=> a \in isAuthorizedUser[u]
          BY <1>6, <1>7, <2>2
      <3> QED BY <1>2, <1>4, <2>2, <3>1 DEF IndexAgrees
    <2> QED BY <2>1, <2>2
  <1>11. GrantsLive'
    <2>1. \A h \in grants : h.token \in Token
        BY <1>3 DEF Grant
    <2> QED BY <1>2, <1>4, <1>6, <2>1 DEF GrantsLive
  <1>12. GrantsOfOwner'
    <2> SUFFICES ASSUME NEW u \in Token \ moved', NEW a \in isAuthorizedUser'[u]
                 PROVE  \E h \in grants' : h.token = u /\ h.user = a /\ h.by = owner'[u]
        BY DEF GrantsOfOwner
    <2>1. u # t /\ u \notin moved /\ a \in isAuthorizedUser[u] /\ owner'[u] = owner[u]
        BY <1>2, <1>6
    <2>2. PICK h \in grants : h.token = u /\ h.user = a /\ h.by = owner[u]
        BY <1>4, <2>1 DEF GrantsOfOwner
    <2> QED BY <1>2, <2>1, <2>2
  <1>13. ContractTypeOK'
    <2>1. authorizedUsers' \in [Token -> Seq(Account)] /\ isAuthorizedUser' \in [Token -> SUBSET Account]
        BY <1>1, <1>2, <1>3
    <2>2. authorizedTokens' \in [Account -> Seq(Token)]
        BY <1>7, <1>8
    <2>3. isAuthorizedToken' \in [Account -> SUBSET Token]
        BY <1>3, <1>7
    <2>4. paused' = paused /\ mintFee' = mintFee /\ grants' \subseteq Grant
        BY <1>2, <1>3 DEF terms
    <2>5. owner' \in [Token -> Account \cup {None}]
        BY <1>1, <1>2, <1>3
    <2> QED BY <1>2, <2>1, <2>2, <2>3, <2>4, <2>5 DEF IInv, ContractTypeOK, content
  <1>14. SupplyExact' /\ CloneFaithful' /\ CallsExact'
    <2>1. \A u \in Token : owner[u] = None => isAuthorizedUser'[u] = {}
        BY <1>6, NobodysToken
    <2>2. \A u \in Token : owner'[u] = owner[u] \/ (owner'[u] # None /\ owner[u] # None)
        BY <1>2, <1>6
    <2> QED BY <1>2, <2>1, <2>2, SupplyKept
  <1> QED BY <1>9, <1>10, <1>11, <1>12, <1>13, <1>14 DEF IInv, RightsInv

LEMMA PlainTransferStep ==
    ASSUME IInv, NEW sender \in Account, NEW from \in Account, NEW to \in Account, NEW t \in Minted,
           transferFrom(sender, from, to, t)
    PROVE  IInv'
  <1>1. t \in Token /\ owner \in [Token -> Account \cup {None}] /\ moved \subseteq Token
      BY DEF IInv, ContractTypeOK, Minted, Token
  <1>2. /\ owner[t] = from /\ owner' = [owner EXCEPT ![t] = to] /\ moved' = moved \cup {t}
        /\ UNCHANGED <<nextTokenId, calls, content, terms, rights>>
      BY DEF transferFrom
  <1>3. \A u \in Token : owner'[u] = IF u = t THEN to ELSE owner[u]
      BY <1>1, <1>2
  <1>4. /\ authorizedUsers' = authorizedUsers /\ isAuthorizedUser' = isAuthorizedUser
        /\ authorizedTokens' = authorizedTokens /\ isAuthorizedToken' = isAuthorizedToken
        /\ grants' = grants /\ paused' = paused /\ mintFee' = mintFee
      BY <1>2 DEF rights, terms
  <1>5. RightsInv'
      BY <1>2, <1>3, RightsKept DEF IInv
  <1>6. SupplyExact' /\ CloneFaithful' /\ CallsExact'
    <2>1. \A u \in Token : owner[u] = None => isAuthorizedUser'[u] = {}
        BY <1>4, NobodysToken
    <2>2. \A u \in Token : owner'[u] = owner[u] \/ (owner'[u] # None /\ owner[u] # None)
        BY <1>2, <1>3
    <2> QED BY <1>2, <2>1, <2>2, SupplyKept
  <1>7. ContractTypeOK'
      BY <1>1, <1>2, <1>4 DEF IInv, ContractTypeOK, content
  <1> QED BY <1>5, <1>6, <1>7 DEF IInv

LEMMA AdministrationStep ==
    ASSUME IInv, NEW sender \in Account,
           \/ \E fee \in Fee : setMintFee(sender, fee)
           \/ pause(sender)
           \/ unpause(sender)
           \/ UNCHANGED contractVars
    PROVE  IInv'
  <1>1. UNCHANGED <<supply, rights, moved>> /\ paused' \in BOOLEAN /\ mintFee' \in Fee
      BY DEF setMintFee, pause, unpause, contractVars, terms, IInv, ContractTypeOK
  <1>2. /\ nextTokenId' = nextTokenId /\ owner' = owner /\ UNCHANGED <<calls, content>>
        /\ calls' = calls /\ intelligentData' = intelligentData
        /\ tokenCreator' = tokenCreator /\ cloneSource' = cloneSource /\ clones' = clones
        /\ early' = early
        /\ authorizedUsers' = authorizedUsers /\ isAuthorizedUser' = isAuthorizedUser
        /\ authorizedTokens' = authorizedTokens /\ isAuthorizedToken' = isAuthorizedToken
        /\ grants' = grants /\ moved' = moved
      BY <1>1 DEF supply, content, rights
  <1>3. ContractTypeOK' /\ SupplyExact' /\ CloneFaithful' /\ CallsExact'
    <2>1. ContractTypeOK'
        BY <1>1, <1>2 DEF IInv, ContractTypeOK
    <2>2. \A t \in Token : owner[t] = None => isAuthorizedUser'[t] = {}
        BY <1>2, NobodysToken
    <2> QED BY <1>2, <2>1, <2>2, SupplyKept
  <1>4. RightsInv'
      BY <1>1, <1>2, RightsKept DEF IInv
  <1> QED BY <1>3, <1>4 DEF IInv

LEMMA Step == IInv /\ [ContractNext]_contractVars => IInv'
  <1> SUFFICES ASSUME IInv, [ContractNext]_contractVars PROVE IInv'
      OBVIOUS
  <1>1. CASE UNCHANGED contractVars
      BY <1>1, AdministrationStep
  <1>2. CASE \E f \in calls : Return(f)
      BY <1>2, ReturnStep
  <1>3. ASSUME NEW sender \in Account, NEW to \in Account, Called(sender, to)
        PROVE  IInv'
    <2>1. ASSUME NEW datas \in Data, NEW creator \in Account, safeMint(to, MintOf(datas, creator)) PROVE IInv'
        BY <2>1, IssueStep
    <2>2. CASE \E value \in Fee : mint(sender, to, value)
        BY ContractAssumption, <2>1, <2>2 DEF mint
    <2>3. CASE \E datas \in Data, value \in Fee : iMint(sender, to, datas, value)
        BY <2>1, <2>3 DEF iMint
    <2>4. CASE mintWithRole(sender, to)
        BY <2>1, <2>4 DEF mintWithRole
    <2>5. CASE \E datas \in Data, creator \in Account : iMintWithRole(sender, to, datas, creator)
        BY <2>1, <2>5 DEF iMintWithRole
    <2>6. CASE \E t \in Minted : authorizeUsage(sender, t, to) \/ revokeAuthorization(sender, t, to)
        BY <2>6, AuthorizeStep, RevokeStep
    <2>7. CASE \E tokenIds \in Batch : batchAuthorizeUsage(sender, tokenIds, to)
        BY <2>7, BatchStep
    <2>8. CASE \E from \in Account, t \in Minted :
                 \/ iTransferFrom(sender, from, to, t)
                 \/ transferFrom(sender, from, to, t)
                 \/ iCloneFrom(sender, from, to, t)
        BY <2>8, TransferStep, PlainTransferStep, CloneStep
    <2>9. CASE (\E fee \in Fee : setMintFee(sender, fee)) \/ pause(sender) \/ unpause(sender)
        BY <2>9, AdministrationStep
    <2> QED BY <1>3, <2>2, <2>3, <2>4, <2>5, <2>6, <2>7, <2>8, <2>9 DEF Called
  <1> QED BY <1>1, <1>2, <1>3 DEF ContractNext

LEMMA Inductive == ContractSpec => []IInv
  BY InitInv, Step, PTL DEF ContractSpec

-----------------------------------------------------------------------------
(* List and mapping agree in both directions, without repetitions, and no  *)
(* list passes the limit, after any calls of any accounts.                 *)
THEOREM ListsAreExact == ContractSpec => [](ContractTypeOK /\ ListsExact)
  <1>1. IInv => ContractTypeOK /\ ListsExact
      BY Lists DEF IInv, RightsInv
  <1> QED BY Inductive, <1>1, PTL

(* authorizedTokensOf misses exactly what a batch granted.                 *)
THEOREM IndexesAgree == ContractSpec => []IndexAgrees
  <1>1. IInv => IndexAgrees
      BY DEF IInv, RightsInv
  <1> QED BY Inductive, <1>1, PTL

(* A right to a token comes from its present owner, unless a plain         *)
(* transferFrom carried it over.                                           *)
THEOREM RightsAreTheOwners == ContractSpec => []GrantsOfOwner
  <1>1. IInv => GrantsOfOwner
      BY DEF IInv, RightsInv
  <1> QED BY Inductive, <1>1, PTL

(* Clones, and clones of clones, keep data and creator, whatever receivers *)
(* call while their tokens are minted; a clone of a token that is still    *)
(* being minted has neither and gets none.                                 *)
THEOREM ClonesAreFaithful == ContractSpec => []CloneFaithful
  <1>1. IInv => CloneFaithful
      BY DEF IInv
  <1> QED BY Inductive, <1>1, PTL

(* Whatever is called, the only token written is the next one, or one      *)
(* whose mint is under way; and of the calls that may come to be under way *)
(* it is the next token's.                                                 *)
WritesOnly(n) ==
    /\ \E d : intelligentData' = [intelligentData EXCEPT ![n] = d]
    /\ \E c : tokenCreator' = [tokenCreator EXCEPT ![n] = c]

LEMMA FillWrites ==
    ASSUME NEW f, Fill(f)
    PROVE  WritesOnly(f.token)
  BY DEF Fill, FillMint, FillClone, setIntelligentData, WritesOnly

Grows ==
    /\ nextTokenId' = nextTokenId + 1
    /\ UNCHANGED content \/ WritesOnly(nextTokenId)
    /\ \A g \in calls' : g \in calls \/ g.token = nextTokenId

LEMMA MintWrites ==
    ASSUME NEW to, NEW f, safeMint(to, f), f.token = nextTokenId
    PROVE  Grows
  BY FillWrites DEF safeMint, Grows

LEMMA SupplyGrows ==
    ASSUME ContractNext
    PROVE  \/ nextTokenId' = nextTokenId /\ UNCHANGED <<calls, content>>
           \/ Grows
           \/ nextTokenId' = nextTokenId /\ calls' \subseteq calls /\ \E f \in calls : WritesOnly(f.token)
  <1> DEFINE Still == nextTokenId' = nextTokenId /\ UNCHANGED <<calls, content>>
             Filled == nextTokenId' = nextTokenId /\ calls' \subseteq calls /\ \E f \in calls : WritesOnly(f.token)
  <1>1. ASSUME NEW to, NEW datas, NEW creator, safeMint(to, MintOf(datas, creator)) PROVE Grows
    <2>1. MintOf(datas, creator).token = nextTokenId
        BY DEF MintOf
    <2> QED BY <1>1, <2>1, MintWrites
  <1>2. ASSUME NEW sender, NEW to, NEW value, NEW datas, NEW creator,
               \/ mint(sender, to, value) \/ iMint(sender, to, datas, value)
               \/ mintWithRole(sender, to) \/ iMintWithRole(sender, to, datas, creator)
        PROVE  Grows
      BY <1>1, <1>2 DEF mint, iMint, mintWithRole, iMintWithRole
  <1>3. ASSUME NEW sender, NEW from, NEW to, NEW t, iCloneFrom(sender, from, to, t) PROVE Grows
    <2>1. CloneOf(t).token = nextTokenId /\ safeMint(to, CloneOf(t))
        BY <1>3 DEF iCloneFrom, CloneOf
    <2> QED BY <2>1, MintWrites
  <1>4. ASSUME NEW sender, NEW to, NEW t, NEW tokenIds,
               \/ authorizeUsage(sender, t, to) \/ revokeAuthorization(sender, t, to)
               \/ batchAuthorizeUsage(sender, tokenIds, to)
        PROVE  Still
      BY <1>4 DEF authorizeUsage, revokeAuthorization, batchAuthorizeUsage, supply
  <1>5. ASSUME NEW sender, NEW from, NEW to, NEW t,
               iTransferFrom(sender, from, to, t) \/ transferFrom(sender, from, to, t)
        PROVE  Still
      BY <1>5 DEF iTransferFrom, transferFrom
  <1>6. ASSUME NEW sender, NEW fee, setMintFee(sender, fee) \/ pause(sender) \/ unpause(sender)
        PROVE  Still
      BY <1>6 DEF setMintFee, pause, unpause, supply
  <1>7. ASSUME NEW f \in calls, Return(f) PROVE Filled
      BY <1>7, FillWrites DEF Return
  <1> HIDE DEF Still, Filled
  <1>8. ASSUME NEW sender, NEW to, Called(sender, to) PROVE Still \/ Grows
      BY <1>2, <1>3, <1>4, <1>5, <1>6, <1>8 DEF Called
  <1>9. Still \/ Grows \/ Filled
      BY <1>7, <1>8 DEF ContractNext
  <1> QED BY <1>9 DEF Still, Filled

(* No call changes what a token says of its receipt once it is minted.     *)
THEOREM DataIsFrozen == ContractSpec => DataFrozen
  <1> DEFINE Frozen ==
          \A t \in Minted \ Minting : /\ owner'[t] # None
                                      /\ intelligentData'[t] = intelligentData[t]
                                      /\ tokenCreator'[t] = tokenCreator[t]
  <1>1. IInv /\ [ContractNext]_contractVars => [Frozen]_contractVars
    <2> SUFFICES ASSUME IInv, ContractNext, NEW t \in Minted \ Minting
                 PROVE  /\ owner'[t] # None
                        /\ intelligentData'[t] = intelligentData[t]
                        /\ tokenCreator'[t] = tokenCreator[t]
        OBVIOUS
    <2>1. /\ t \in Token /\ nextTokenId \in Nat /\ t # nextTokenId /\ t < nextTokenId /\ t \in Nat
          /\ \A f \in calls : f.token # t
        BY DEF IInv, ContractTypeOK, Minted, Minting, Token
    <2>2. t < nextTokenId'
        BY <2>1, SupplyGrows DEF Grows
    <2>3. owner'[t] # None
        BY Step, <2>1, <2>2 DEF IInv, SupplyExact
    <2>4. intelligentData \in [Token -> Data] /\ tokenCreator \in [Token -> Account \cup {None}]
        BY DEF IInv, ContractTypeOK
    <2>5. ASSUME NEW n, n # t, WritesOnly(n)
          PROVE  intelligentData'[t] = intelligentData[t] /\ tokenCreator'[t] = tokenCreator[t]
        BY <2>1, <2>4, <2>5 DEF WritesOnly
    <2>6. UNCHANGED content \/ \E n : n # t /\ WritesOnly(n)
        BY <2>1, SupplyGrows DEF Grows
    <2>7. intelligentData'[t] = intelligentData[t] /\ tokenCreator'[t] = tokenCreator[t]
        BY <2>5, <2>6 DEF content
    <2> QED BY <2>3, <2>7
  <1>2. [][Frozen]_contractVars <=> DataFrozen
      BY DEF DataFrozen
  <1> QED BY Inductive, <1>1, <1>2, PTL DEF ContractSpec

=============================================================================
