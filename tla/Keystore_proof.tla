--------------------------- MODULE Keystore_proof ---------------------------
(***************************************************************************)
(* Theorems about Keystore for any number of runs and tokens: its types on *)
(* any networks, and on a single one that no throw and no crash between    *)
(* two file steps loses a key or files one under another receipt's token,  *)
(* so that /share and recovery answer as they should, and the files keep   *)
(* what KeyVault promises.                                                 *)
(***************************************************************************)
EXTENDS Keystore, TLAPS

USE KeystoreAssumption

(* The plugin stays configured for one network.  KeystoreNetworks shows    *)
(* that PathsCollisionFree needs it.                                       *)
OneNetwork == \A c, d \in Chain : c = d

-----------------------------------------------------------------------------
(* A name and its file determine each other. *)
LEMMA FileNames ==
    /\ \A r \in Run : encodeFilename(r) \in File /\ decodeFilename(encodeFilename(r)) = r
    /\ \A r, q \in Run : encodeFilename(r) = encodeFilename(q) => r = q
    /\ \A f \in File : \E r \in Run : f = encodeFilename(r)
BY DEF File, encodeFilename, decodeFilename

(* What CHOOSE finds for a run that has a token. *)
LEMMA TokenFound ==
    ASSUME NEW r, IsMinted(r)
    PROVE  /\ TokenOf(r) \in Token
           /\ TokenOf(r) + 1 \in DOMAIN minted[home[r]]
           /\ minted[home[r]][TokenOf(r) + 1] = r
BY DEF IsMinted, TokenOf

-----------------------------------------------------------------------------
(***************************************************************************)
(* Types.  The pointer is written with the token of the run whose call is  *)
(* under way, so a call past the key's move must be of a run with a token. *)
(***************************************************************************)

CallsNamed ==
    /\ call.step # "none" => call.run \in Run
    /\ call.step = "write meta" => phase[call.run] = "saving"
    /\ call.step \in {"unlink meta", "write pointer"} =>
          phase[call.run] = "committing" /\ IsMinted(call.run)

TInv == TypeOK /\ CallsNamed

LEMMA TInvInit == Init => TInv
  <1> SUFFICES ASSUME Init PROVE TInv
      OBVIOUS
  <1>1. TypeOK
      BY DEF Init, TypeOK, Idle, Step, Phase
  <1>2. CallsNamed
      BY DEF Init, CallsNamed, Idle
  <1> QED BY <1>1, <1>2 DEF TInv

(* A run that has a token keeps it. *)
LEMMA MintedStays ==
    ASSUME TypeOK, NEW r \in Run, Mint(r), NEW q \in Run, IsMinted(q)
    PROVE  IsMinted(q)'
  <1> PICK t \in Token : t + 1 \in DOMAIN minted[home[q]] /\ minted[home[q]][t + 1] = q
      BY DEF IsMinted
  <1>1. minted[home[q]] \in Seq(Run) /\ home[q] \in Chain /\ home[r] \in Chain
      BY DEF TypeOK
  <1>2. home' = home /\ minted' = [minted EXCEPT ![home[r]] = Append(@, r)]
      BY DEF Mint
  <1>3. t + 1 \in DOMAIN minted'[home[q]] /\ minted'[home[q]][t + 1] = q
    <2>1. CASE home[q] = home[r]
        BY <1>1, <1>2, <2>1 DEF TypeOK
    <2>2. CASE home[q] # home[r]
        BY <1>1, <1>2, <2>2 DEF TypeOK
    <2> QED BY <2>1, <2>2
  <1> QED BY <1>2, <1>3 DEF IsMinted

LEMMA TypeStep ==
    ASSUME TInv, [Next]_vars
    PROVE  TypeOK'
  <1> USE DEF TInv, TypeOK
  <1>1. ASSUME NEW r \in Run, SetPending(r) PROVE TypeOK'
      BY <1>1, FileNames DEF SetPending, Step, Phase
  <1>2. ASSUME NEW r \in Run, Mint(r) PROVE TypeOK'
    <2>1. minted' \in [Chain -> Seq(Run)]
        BY <1>2 DEF Mint
    <2> QED BY <1>2, <2>1 DEF Mint, disk
  <1>3. ASSUME NEW r \in Run, CommitPending(r) PROVE TypeOK'
      BY <1>3, FileNames, TokenFound DEF CommitPending, CommitStarts, Step, Phase
  <1>4. ASSUME NEW r \in Run, Put(r) PROVE TypeOK'
      BY <1>4, TokenFound DEF Put, CommitStarts, Step, Phase
  <1>5. CASE WriteMeta
    <2>1. call.run \in Run /\ encodeFilename(call.run) \in File
        BY <1>5, FileNames DEF WriteMeta, CallsNamed
    <2>2. pendingMeta' \subseteq File
        BY <1>5, <2>1 DEF WriteMeta
    <2> QED BY <1>5, <2>1, <2>2 DEF WriteMeta, Idle, Step, Phase
  <1>6. CASE UnlinkMeta
      BY <1>6 DEF UnlinkMeta, Step
  <1>7. CASE WritePointer
      BY <1>7, TokenFound DEF WritePointer, CallsNamed, Idle, Step, Phase
  <1>8. ASSUME NEW r \in Run, Refuses(r) PROVE TypeOK'
      BY <1>8 DEF Refuses, disk, Phase
  <1>9. ASSUME NEW r \in Run, Wipe(r) PROVE TypeOK'
      BY <1>9, FileNames DEF Wipe
  <1>10. ASSUME NEW t \in Token, remove(t) PROVE TypeOK'
      BY <1>10 DEF remove
  <1>11. CASE Throws
      BY <1>11 DEF Throws, disk, Idle, Step, Phase
  <1>12. CASE Crash
      BY <1>12 DEF Crash, disk, Idle, Step, Phase
  <1>13. CASE UNCHANGED vars
      BY <1>13 DEF vars, disk
  <1> QED BY <1>1, <1>2, <1>3, <1>4, <1>5, <1>6, <1>7, <1>8, <1>9, <1>10, <1>11, <1>12, <1>13
         DEF Next

LEMMA CallsStep ==
    ASSUME TInv, [Next]_vars
    PROVE  CallsNamed'
  <1> USE DEF TInv, CallsNamed
  <1>1. ASSUME NEW r \in Run, SetPending(r) PROVE CallsNamed'
      BY <1>1 DEF SetPending, TypeOK
  <1>2. ASSUME NEW r \in Run, Mint(r) PROVE CallsNamed'
      BY <1>2, MintedStays DEF Mint
  <1>3. ASSUME NEW r \in Run, CommitPending(r) PROVE CallsNamed'
      BY <1>3 DEF CommitPending, CommitStarts, TypeOK, IsMinted
  <1>4. ASSUME NEW r \in Run, Put(r) PROVE CallsNamed'
      BY <1>4 DEF Put, CommitStarts, TypeOK, IsMinted
  <1>5. CASE WriteMeta
      BY <1>5 DEF WriteMeta, Idle
  <1>6. CASE UnlinkMeta
      BY <1>6 DEF UnlinkMeta, IsMinted, TypeOK
  <1>7. CASE WritePointer
      BY <1>7 DEF WritePointer, Idle
  <1>8. ASSUME NEW r \in Run, Refuses(r) PROVE CallsNamed'
      BY <1>8 DEF Refuses, Idle, IsMinted
  <1>9. ASSUME NEW r \in Run, Wipe(r) PROVE CallsNamed'
      BY <1>9 DEF Wipe, IsMinted
  <1>10. ASSUME NEW t \in Token, remove(t) PROVE CallsNamed'
      BY <1>10 DEF remove, IsMinted
  <1>11. CASE Throws
      BY <1>11 DEF Throws, Idle
  <1>12. CASE Crash
      BY <1>12 DEF Crash, Idle
  <1>13. CASE UNCHANGED vars
      BY <1>13 DEF vars, disk, IsMinted
  <1> QED BY <1>1, <1>2, <1>3, <1>4, <1>5, <1>6, <1>7, <1>8, <1>9, <1>10, <1>11, <1>12, <1>13
         DEF Next

(* Every file of the keystore holds what the calls write there, on any     *)
(* number of networks: last-receipt.json names a token id.                 *)
THEOREM KeystoreTypes == Spec => []TypeOK
  <1>1. TInv /\ [Next]_vars => TInv'
      BY TypeStep, CallsStep DEF TInv
  <1>2. TInv => TypeOK
      BY DEF TInv
  <1> QED BY TInvInit, <1>1, <1>2, PTL DEF Spec

-----------------------------------------------------------------------------
(***************************************************************************)
(* Keys on one network.  CommitPending moves whatever the pending file     *)
(* holds over whatever is filed under the token, so KeyKept needs to know  *)
(* that the former is the run's own key and the latter no other run's.     *)
(***************************************************************************)

(* A pending file holds the key of the run it is named after.              *)
PendingNamed == \A r \in Run : pendingKey[encodeFilename(r)] \in {None, r}

(* A run has one token, and what is filed under a token is of its run.     *)
TokensKeyed ==
    /\ \A c \in Chain : \A i, j \in DOMAIN minted[c] : minted[c][i] = minted[c][j] => i = j
    /\ \A c \in Chain : Len(minted[c]) <= MaxTokens
    /\ \A t \in Token, c \in Chain : tokenKey[t] # None =>
          t + 1 \in DOMAIN minted[c] /\ minted[c][t + 1] = tokenKey[t]

Held(r) ==
    \/ pendingKey[encodeFilename(r)] = r
    \/ \E t \in Token : tokenKey[t] = r
    \/ r \in taken

(* From the first file step of setPending on, the key is somewhere.        *)
KeysHeld ==
    \A r \in Run :
        phase[r] \in {"saving", "saved", "committing", "uncommitted", "lost", "done"} => Held(r)

(* A pending file that a receipt may need has its sidecar: unlinking one   *)
(* comes after the file was moved.                                         *)
SidecarsKept ==
    \A r \in Run :
        /\ phase[r] = "committing" => pendingKey[encodeFilename(r)] = None
        /\ phase[r] \in {"saved", "uncommitted", "lost"}
              /\ pendingKey[encodeFilename(r)] # None => encodeFilename(r) \in pendingMeta

(* The pointer names a token whose key is there or was removed, and so     *)
(* will the one about to be written.                                       *)
PointerBacked ==
    /\ last # None =>
          \A c \in Chain : /\ last + 1 \in DOMAIN minted[c]
                           /\ tokenKey[last] # None \/ minted[c][last + 1] \in taken
    /\ call.step \in {"unlink meta", "write pointer"} => tokenKey[TokenOf(call.run)] = call.run

KeyInv == PendingNamed /\ TokensKeyed /\ KeysHeld /\ SidecarsKept /\ PointerBacked

IInv == TInv /\ KeyInv

LEMMA KeyInvInit == Init => KeyInv
  <1> SUFFICES ASSUME Init PROVE KeyInv
      OBVIOUS
  <1>1. PendingNamed
      BY FileNames DEF Init, PendingNamed
  <1>2. TokensKeyed
      BY DEF Init, TokensKeyed, Token
  <1>3. KeysHeld
      BY DEF Init, KeysHeld
  <1>4. SidecarsKept
      BY FileNames DEF Init, SidecarsKept
  <1>5. PointerBacked
      BY DEF Init, PointerBacked, Idle
  <1> QED BY <1>1, <1>2, <1>3, <1>4, <1>5 DEF KeyInv

(* Writing a run's own file leaves those of the others. *)
LEMMA SetPendingStep ==
    ASSUME IInv, NEW r \in Run, SetPending(r)
    PROVE  KeyInv'
  <1> USE DEF IInv, TInv, TypeOK, KeyInv
  <1>1. \A q \in Run : pendingKey'[encodeFilename(q)] =
                          IF q = r THEN r ELSE pendingKey[encodeFilename(q)]
      BY FileNames DEF SetPending
  <1>2. \A q \in Run : phase'[q] = IF q = r THEN "saving" ELSE phase[q]
      BY DEF SetPending
  <1>3. PendingNamed'
      BY <1>1 DEF PendingNamed
  <1>4. TokensKeyed'
      BY DEF TokensKeyed, SetPending
  <1>5. KeysHeld'
      BY <1>1, <1>2 DEF KeysHeld, Held, SetPending
  <1>6. SidecarsKept'
      BY <1>1, <1>2 DEF SidecarsKept, SetPending
  <1>7. PointerBacked'
      BY DEF PointerBacked, SetPending
  <1> QED BY <1>3, <1>4, <1>5, <1>6, <1>7

(* A mint adds a run that has no token yet.                                *)
LEMMA MintStep ==
    ASSUME OneNetwork, IInv, NEW r \in Run, Mint(r)
    PROVE  KeyInv'
  <1> USE DEF IInv, TInv, TypeOK, KeyInv
  <1> DEFINE c == home[r]
  <1>0. c \in Chain /\ \A d \in Chain : d = c
      BY DEF OneNetwork
  <1>1. minted[c] \in Seq(Run) /\ minted'[c] = Append(minted[c], r) /\ Len(minted[c]) < MaxTokens
      BY <1>0 DEF Mint
  <1>2. /\ Len(minted[c]) \in Nat /\ Len(minted'[c]) = Len(minted[c]) + 1
        /\ minted'[c][Len(minted[c]) + 1] = r
        /\ \A i \in DOMAIN minted[c] : minted'[c][i] = minted[c][i]
        /\ DOMAIN minted'[c] = 1..(Len(minted[c]) + 1)
        /\ DOMAIN minted[c] = 1..Len(minted[c])
      BY <1>1
  <1>3. \A i \in DOMAIN minted[c] : minted[c][i] # r
    <2> SUFFICES ASSUME NEW i \in DOMAIN minted[c], minted[c][i] = r PROVE FALSE
        OBVIOUS
    <2>1. i \in 1..Len(minted[c]) /\ i - 1 \in Token /\ i - 1 + 1 = i
        BY <1>1, <1>2 DEF Token
    <2> QED BY <2>1 DEF IsMinted, Mint
  <1>9. /\ \A i, j \in DOMAIN minted[c] : minted[c][i] = minted[c][j] => i = j
        /\ \A t \in Token : tokenKey[t] # None =>
              t + 1 \in DOMAIN minted[c] /\ minted[c][t + 1] = tokenKey[t]
        /\ last # None => last + 1 \in DOMAIN minted[c]
      BY <1>0 DEF TokensKeyed, PointerBacked
  <1>4. PendingNamed'
      BY DEF PendingNamed, Mint, disk
  <1> HIDE DEF IInv, TInv, TypeOK, KeyInv, c
  <1>5. TokensKeyed'
    <2>1. \A i, j \in DOMAIN minted'[c] : minted'[c][i] = minted'[c][j] => i = j
      <3> SUFFICES ASSUME NEW i \in 1..(Len(minted[c]) + 1), NEW j \in 1..(Len(minted[c]) + 1),
                          minted'[c][i] = minted'[c][j]
                   PROVE  i = j
          BY <1>2
      <3>1. \A k \in 1..(Len(minted[c]) + 1) : k = Len(minted[c]) + 1 \/ k \in 1..Len(minted[c])
          BY <1>2
      <3>2. CASE i \in 1..Len(minted[c]) /\ j \in 1..Len(minted[c])
          BY <3>2, <1>2, <1>9
      <3>3. CASE i = Len(minted[c]) + 1 \/ j = Len(minted[c]) + 1
          BY <3>1, <3>3, <1>2, <1>3
      <3> QED BY <3>1, <3>2, <3>3
    <2>2. Len(minted'[c]) <= MaxTokens
        BY <1>1, <1>2
    <2>3. \A t \in Token : tokenKey[t] # None =>
             t + 1 \in DOMAIN minted'[c] /\ minted'[c][t + 1] = tokenKey[t]
        BY <1>2, <1>9 DEF Token
    <2>4. tokenKey' = tokenKey
        BY DEF Mint, disk
    <2> QED BY <1>0, <2>1, <2>2, <2>3, <2>4 DEF TokensKeyed
  <1>6. KeysHeld'
      BY DEF KeysHeld, Held, Mint, disk, IInv, KeyInv
  <1>7. SidecarsKept'
      BY DEF SidecarsKept, Mint, disk, IInv, KeyInv
  <1>8. PointerBacked'
    <2>1. last # None =>
             last + 1 \in DOMAIN minted'[c] /\ minted'[c][last + 1] = minted[c][last + 1]
        BY <1>2, <1>9 DEF Token
    <2>2. ASSUME call.step \in {"unlink meta", "write pointer"}
          PROVE  TokenOf(call.run)' = TokenOf(call.run)
      <3>1. call.run \in Run /\ IsMinted(call.run)
          BY <2>2 DEF CallsNamed, IInv, TInv, TypeOK
      <3>2. IsMinted(call.run)' /\ call' = call /\ home' = home
          BY <3>1, MintedStays DEF Mint, IInv, TInv
      <3>3. home[call.run] = c
          BY <1>0, <3>1 DEF IInv, TInv, TypeOK
      <3>4. /\ TokenOf(call.run) \in Token /\ TokenOf(call.run) + 1 \in DOMAIN minted[c]
            /\ minted[c][TokenOf(call.run) + 1] = call.run
          BY <3>1, <3>3, TokenFound
      <3>5. \A t \in Token : t + 1 \in DOMAIN minted'[c] /\ minted'[c][t + 1] = call.run
                                => t = TokenOf(call.run)
        <4> SUFFICES ASSUME NEW t \in Token, t + 1 \in DOMAIN minted'[c],
                            minted'[c][t + 1] = call.run
                     PROVE  t = TokenOf(call.run)
            OBVIOUS
        <4>1. t \in Nat /\ TokenOf(call.run) \in Nat
            BY <3>4 DEF Token
        <4>2. t + 1 # Len(minted[c]) + 1
            BY <1>2, <1>3, <3>4
        <4>3. t + 1 \in DOMAIN minted[c] /\ minted[c][t + 1] = call.run
            BY <1>2, <4>1, <4>2
        <4> QED BY <1>9, <3>4, <4>1, <4>3
      <3>6. minted'[c][TokenOf(call.run) + 1] = call.run /\ TokenOf(call.run) + 1 \in DOMAIN minted'[c]
          BY <1>2, <3>4
      <3> QED BY <3>2, <3>3, <3>4, <3>5, <3>6 DEF TokenOf
    <2>3. last' = last /\ tokenKey' = tokenKey /\ taken' = taken /\ call' = call
        BY DEF Mint, disk
    <2> QED BY <1>0, <2>1, <2>2, <2>3 DEF PointerBacked, IInv, KeyInv
  <1> QED BY <1>4, <1>5, <1>6, <1>7, <1>8 DEF KeyInv
(* commitPending's rename and put's write: the key goes over nothing but   *)
(* itself, since the token is this run's.                                  *)
LEMMA FileKey ==
    ASSUME OneNetwork, IInv, NEW r \in Run, IsMinted(r), encodeFilename(r) \in File,
           tokenKey' = [tokenKey EXCEPT ![TokenOf(r)] = r],
           pendingKey' \in {pendingKey, [pendingKey EXCEPT ![encodeFilename(r)] = None]},
           NEW step \in {"unlink meta", "write pointer"}, CommitStarts(r, step),
           pendingKey'[encodeFilename(r)] = None,
           UNCHANGED <<pendingMeta, last>>
    PROVE  KeyInv' /\ \A t \in Token : tokenKey[t] # None => tokenKey'[t] = tokenKey[t]
  <1> USE DEF IInv, TInv, TypeOK, KeyInv
  <1>1. /\ TokenOf(r) \in Token
        /\ \A c \in Chain : TokenOf(r) + 1 \in DOMAIN minted[c] /\ minted[c][TokenOf(r) + 1] = r
      BY TokenFound DEF OneNetwork
  <1>2. \A t \in Token : tokenKey'[t] = IF t = TokenOf(r) THEN r ELSE tokenKey[t]
      BY <1>1
  <1>3. \A c \in Chain : c = net
      BY DEF OneNetwork
  <1>4. tokenKey[TokenOf(r)] \in {None, r}
      BY <1>1, <1>3 DEF TokensKeyed
  <1>5. \A t \in Token : tokenKey[t] # None => tokenKey'[t] = tokenKey[t]
      BY <1>2, <1>4
  <1>6. \A q \in Run : pendingKey'[encodeFilename(q)] =
                          IF q = r THEN None ELSE pendingKey[encodeFilename(q)]
      BY FileNames
  <1>7. \A q \in Run : phase'[q] = IF q = r THEN "committing" ELSE phase[q]
      BY DEF CommitStarts
  <1>8. call'.run = r /\ minted' = minted /\ home' = home /\ taken' = taken
      BY DEF CommitStarts
  <1>9. PendingNamed'
      BY <1>6 DEF PendingNamed
  <1>10. TokensKeyed'
    <2> SUFFICES ASSUME NEW t \in Token, NEW c \in Chain, tokenKey'[t] # None
                 PROVE  t + 1 \in DOMAIN minted[c] /\ minted[c][t + 1] = tokenKey'[t]
        BY <1>8 DEF TokensKeyed
    <2>1. CASE t = TokenOf(r)
        BY <1>1, <1>2, <2>1
    <2>2. CASE t # TokenOf(r)
        BY <1>2, <2>2 DEF TokensKeyed
    <2> QED BY <2>1, <2>2
  <1>11. KeysHeld'
    <2> SUFFICES ASSUME NEW q \in Run,
                        phase'[q] \in {"saving", "saved", "committing", "uncommitted", "lost", "done"}
                 PROVE  Held(q)'
        BY DEF KeysHeld
    <2>1. CASE q = r
        BY <1>1, <1>2, <2>1 DEF Held
    <2>2. CASE q # r
      <3>1. Held(q)
          BY <1>7, <2>2 DEF KeysHeld
      <3> QED BY <1>5, <1>6, <1>8, <2>2, <3>1 DEF Held
    <2> QED BY <2>1, <2>2
  <1>12. SidecarsKept'
      BY <1>6, <1>7 DEF SidecarsKept
  <1>13. PointerBacked'
    <2>1. TokenOf(r)' = TokenOf(r)
        BY <1>8 DEF TokenOf
    <2>2. tokenKey'[TokenOf(r)] = r
        BY <1>1, <1>2
    <2>3. last # None => last \in Token
        OBVIOUS
    <2> QED BY <1>5, <1>8, <2>1, <2>2, <2>3 DEF PointerBacked
  <1> QED BY <1>5, <1>9, <1>10, <1>11, <1>12, <1>13

LEMMA CommitPendingStep ==
    ASSUME OneNetwork, IInv, NEW r \in Run, CommitPending(r)
    PROVE  KeyInv' /\ \A t \in Token : tokenKey[t] # None => tokenKey'[t] = tokenKey[t]
  <1>1. IsMinted(r) /\ encodeFilename(r) \in File /\ pendingKey[encodeFilename(r)] = r
      BY FileNames DEF CommitPending, IInv, KeyInv, PendingNamed
  <1>2. pendingKey'[encodeFilename(r)] = None
      BY <1>1 DEF CommitPending, IInv, TInv, TypeOK
  <1>3. /\ tokenKey' = [tokenKey EXCEPT ![TokenOf(r)] = r]
        /\ pendingKey' \in {pendingKey, [pendingKey EXCEPT ![encodeFilename(r)] = None]}
        /\ CommitStarts(r, "unlink meta")
        /\ UNCHANGED <<pendingMeta, last>>
      BY <1>1 DEF CommitPending
  <1> QED BY <1>1, <1>2, <1>3, FileKey

LEMMA PutStep ==
    ASSUME OneNetwork, IInv, NEW r \in Run, Put(r)
    PROVE  KeyInv' /\ \A t \in Token : tokenKey[t] # None => tokenKey'[t] = tokenKey[t]
  <1>1. IsMinted(r) /\ encodeFilename(r) \in File
      BY FileNames DEF Put
  <1>2. /\ tokenKey' = [tokenKey EXCEPT ![TokenOf(r)] = r]
        /\ pendingKey' \in {pendingKey, [pendingKey EXCEPT ![encodeFilename(r)] = None]}
        /\ CommitStarts(r, "write pointer")
        /\ pendingKey'[encodeFilename(r)] = None
        /\ UNCHANGED <<pendingMeta, last>>
      BY DEF Put
  <1> QED BY <1>1, <1>2, FileKey

(* The sidecar comes after the key, and goes after the key has moved.      *)
LEMMA SidecarSteps ==
    ASSUME IInv, WriteMeta \/ UnlinkMeta
    PROVE  KeyInv'
  <1> USE DEF IInv, TInv, TypeOK, KeyInv
  <1>1. call.run \in Run
      BY DEF WriteMeta, UnlinkMeta, CallsNamed
  <1>2. /\ pendingKey' = pendingKey /\ tokenKey' = tokenKey /\ last' = last
        /\ minted' = minted /\ home' = home /\ taken' = taken
      BY DEF WriteMeta, UnlinkMeta
  <1>3. PendingNamed' /\ TokensKeyed'
      BY <1>2 DEF PendingNamed, TokensKeyed
  <1>4. KeysHeld'
    <2>1. CASE WriteMeta
        BY <1>1, <1>2, <2>1 DEF KeysHeld, Held, WriteMeta, CallsNamed
    <2>2. CASE UnlinkMeta
        BY <1>2, <2>2 DEF KeysHeld, Held, UnlinkMeta
    <2> QED BY <2>1, <2>2
  <1>5. SidecarsKept'
    <2>1. CASE WriteMeta
        BY <1>1, <1>2, <2>1 DEF SidecarsKept, WriteMeta
    <2>2. CASE UnlinkMeta
      <3>1. phase[call.run] = "committing" /\ phase' = phase
          BY <2>2 DEF UnlinkMeta, CallsNamed
      <3>2. \A q \in Run : q # call.run /\ encodeFilename(q) \in pendingMeta
                              => encodeFilename(q) \in pendingMeta'
          BY <1>1, <2>2, FileNames DEF UnlinkMeta
      <3> QED BY <1>1, <1>2, <3>1, <3>2 DEF SidecarsKept
    <2> QED BY <2>1, <2>2
  <1>6. PointerBacked'
    <2>1. CASE WriteMeta
        BY <1>2, <2>1 DEF PointerBacked, WriteMeta, Idle
    <2>2. CASE UnlinkMeta
      <3>1. call.step = "unlink meta" /\ call'.run = call.run
          BY <2>2 DEF UnlinkMeta
      <3>2. TokenOf(call.run)' = TokenOf(call.run)
          BY <1>2, <3>1 DEF TokenOf
      <3> QED BY <1>2, <3>1, <3>2 DEF PointerBacked
    <2> QED BY <2>1, <2>2
  <1> QED BY <1>3, <1>4, <1>5, <1>6

(* The pointer names the token whose key was just filed.                   *)
LEMMA WritePointerStep ==
    ASSUME OneNetwork, IInv, WritePointer
    PROVE  KeyInv'
  <1> USE DEF IInv, TInv, TypeOK, KeyInv
  <1>1. call.run \in Run /\ IsMinted(call.run) /\ phase[call.run] = "committing"
      BY DEF WritePointer, CallsNamed
  <1>2. /\ pendingKey' = pendingKey /\ pendingMeta' = pendingMeta /\ tokenKey' = tokenKey
        /\ minted' = minted /\ taken' = taken /\ call' = Idle /\ last' = TokenOf(call.run)
        /\ phase' = [phase EXCEPT ![call.run] = "done"]
      BY DEF WritePointer
  <1>3. PendingNamed' /\ TokensKeyed' /\ KeysHeld' /\ SidecarsKept'
      BY <1>1, <1>2 DEF PendingNamed, TokensKeyed, KeysHeld, Held, SidecarsKept
  <1>4. \A c \in Chain : last' + 1 \in DOMAIN minted[c]
      BY <1>1, <1>2, TokenFound DEF OneNetwork
  <1>5. tokenKey[last'] = call.run /\ call.run # None
      BY <1>1, <1>2 DEF PointerBacked, WritePointer
  <1> QED BY <1>2, <1>3, <1>4, <1>5 DEF PointerBacked, Idle

(* A throw and a crash leave the disk as it is.                            *)
LEMMA InterruptionStep ==
    ASSUME IInv, \/ \E r \in Run : Refuses(r)
                 \/ Throws
                 \/ Crash
    PROVE  KeyInv'
  <1> USE DEF IInv, TInv, TypeOK, KeyInv
  <1>1. UNCHANGED <<disk, minted, taken>> /\ call' = Idle
      BY DEF Refuses, Throws, Crash
  <1>2. /\ pendingKey' = pendingKey /\ pendingMeta' = pendingMeta /\ tokenKey' = tokenKey
        /\ last' = last
      BY <1>1 DEF disk
  <1>3. \A q \in Run :
           \/ phase'[q] = phase[q]
           \/ phase'[q] = "aborted"
           \/ /\ phase[q] \in {"saved", "committing"}
              /\ phase'[q] \in {"uncommitted", "lost"}
    <2>1. ASSUME NEW r \in Run, Refuses(r)
          PROVE  \A q \in Run : \/ phase'[q] = phase[q] \/ phase'[q] = "aborted"
                                \/ phase[q] = "saved" /\ phase'[q] = "uncommitted"
        BY <2>1 DEF Refuses
    <2>2. CASE Throws
        BY <2>2 DEF Throws, CallsNamed
    <2>3. CASE Crash
        BY <2>3 DEF Crash
    <2> QED BY <2>1, <2>2, <2>3
  <1>4. PendingNamed' /\ TokensKeyed'
      BY <1>1, <1>2 DEF PendingNamed, TokensKeyed
  <1>5. KeysHeld'
      BY <1>1, <1>2, <1>3 DEF KeysHeld, Held
  <1>6. SidecarsKept'
      BY <1>1, <1>2, <1>3 DEF SidecarsKept
  <1>7. PointerBacked'
      BY <1>1, <1>2 DEF PointerBacked, Idle
  <1> QED BY <1>4, <1>5, <1>6, <1>7

(* What the operator deletes is in taken.                                  *)
LEMMA OperatorStep ==
    ASSUME OneNetwork, IInv, \/ \E r \in Run : Wipe(r)
                             \/ \E t \in Token : remove(t)
    PROVE  KeyInv'
  <1> USE DEF IInv, TInv, TypeOK, KeyInv
  <1>1. ASSUME NEW r \in Run, Wipe(r) PROVE KeyInv'
    <2>1. \A q \in Run : pendingKey'[encodeFilename(q)] =
                            IF q = r THEN None ELSE pendingKey[encodeFilename(q)]
        BY <1>1, FileNames DEF Wipe
    <2>2. taken' = taken \cup {r}
        BY <1>1 DEF Wipe, PendingNamed
    <2>3. PendingNamed' /\ TokensKeyed' /\ KeysHeld' /\ SidecarsKept'
        BY <1>1, <2>1, <2>2 DEF Wipe, PendingNamed, TokensKeyed, KeysHeld, Held, SidecarsKept
    <2>4. PointerBacked'
        BY <1>1 DEF Wipe, PointerBacked, TokenOf
    <2> QED BY <2>3, <2>4
  <1>2. ASSUME NEW t \in Token, remove(t) PROVE KeyInv'
    <2>1. \A u \in Token : tokenKey'[u] = IF u = t THEN None ELSE tokenKey[u]
        BY <1>2 DEF remove
    <2>2. /\ taken' = taken \cup {tokenKey[t]} /\ call' = Idle /\ tokenKey[t] # None
          /\ pendingKey' = pendingKey /\ pendingMeta' = pendingMeta /\ last' = last
          /\ minted' = minted /\ phase' = phase
        BY <1>2 DEF remove
    <2>3. PendingNamed' /\ TokensKeyed' /\ SidecarsKept'
        BY <2>1, <2>2 DEF PendingNamed, TokensKeyed, SidecarsKept
    <2>4. KeysHeld'
        BY <2>1, <2>2 DEF KeysHeld, Held
    <2>5. ASSUME last # None, NEW c \in Chain
          PROVE  tokenKey'[last] # None \/ minted[c][last + 1] \in taken'
        BY <2>1, <2>2, <2>5 DEF PointerBacked, TokensKeyed
    <2>6. PointerBacked'
        BY <2>2, <2>5 DEF PointerBacked, Idle
    <2> QED BY <2>3, <2>4, <2>6
  <1> QED BY <1>1, <1>2

LEMMA KeyInvStep ==
    ASSUME OneNetwork, IInv, [Next]_vars
    PROVE  KeyInv'
  <1>1. CASE UNCHANGED vars
      BY <1>1 DEF IInv, KeyInv, PendingNamed, TokensKeyed, KeysHeld, Held, SidecarsKept,
                  PointerBacked, TokenOf, vars, disk
  <1> QED BY <1>1, SetPendingStep, MintStep, CommitPendingStep, PutStep, SidecarSteps,
             WritePointerStep, InterruptionStep, OperatorStep DEF Next

LEMMA Inductive ==
    ASSUME OneNetwork
    PROVE  Spec => []IInv
  <1>1. Init => IInv
      BY TInvInit, KeyInvInit DEF IInv
  <1>2. IInv /\ [Next]_vars => IInv'
      BY TypeStep, CallsStep, KeyInvStep DEF IInv, TInv
  <1> QED BY <1>1, <1>2, PTL DEF Spec

-----------------------------------------------------------------------------
(* A key whose setPending returned is never lost to a throw or a crash     *)
(* between two file steps of any call.                                     *)
THEOREM KeysAreKept ==
    ASSUME OneNetwork
    PROVE  Spec => []KeyKept
  <1>1. IInv => KeyKept
      BY FileNames DEF IInv, KeyInv, KeysHeld, Held, KeyKept
  <1> QED BY Inductive, <1>1, PTL

(* What is filed under a token stays until the operator removes it: the    *)
(* rename of commitPending and the write of put replace nothing.           *)
THEOREM PathsAreCollisionFree ==
    ASSUME OneNetwork
    PROVE  Spec => PathsCollisionFree
  <1> DEFINE Stays == \A t \in Token : tokenKey[t] # None => tokenKey'[t] \in {tokenKey[t], None}
  <1>1. IInv /\ [Next]_vars => [Stays]_vars
    <2> SUFFICES ASSUME IInv, [Next]_vars PROVE Stays
        OBVIOUS
    <2>1. CASE tokenKey' = tokenKey
        BY <2>1
    <2>2. ASSUME NEW r \in Run, CommitPending(r) \/ Put(r) PROVE Stays
        BY <2>2, CommitPendingStep, PutStep
    <2>3. ASSUME NEW t \in Token, remove(t) PROVE Stays
        BY <2>3 DEF remove, IInv, TInv, TypeOK
    <2> QED BY <2>1, <2>2, <2>3 DEF Next, SetPending, Mint, WriteMeta, UnlinkMeta, WritePointer,
               Refuses, Wipe, Throws, Crash, vars, disk
  <1>2. [][Stays]_vars <=> PathsCollisionFree
      BY DEF PathsCollisionFree
  <1> QED BY Inductive, <1>1, <1>2, PTL DEF Spec

(* Recovery sees session and run of every key a receipt may need.          *)
THEOREM PendingIsListed ==
    ASSUME OneNetwork
    PROVE  Spec => []PendingListed
  <1>1. IInv => PendingListed
    <2> SUFFICES ASSUME IInv, NEW r \in Run,
                        phase[r] \in {"saved", "uncommitted", "lost"},
                        pendingKey[encodeFilename(r)] # None
                 PROVE  [name |-> r, split |-> TRUE] \in listPending
        BY DEF PendingListed
    <2>1. encodeFilename(r) \in {f \in File : pendingKey[f] # None}
        BY FileNames
    <2>2. decodeFilename(encodeFilename(r)) = r /\ encodeFilename(r) \in pendingMeta
        BY FileNames DEF IInv, KeyInv, SidecarsKept
    <2> QED BY <2>1, <2>2 DEF listPending
  <1> QED BY Inductive, <1>1, PTL

(* /share without an argument opens the last receipt unless the operator   *)
(* removed its key.                                                        *)
THEOREM LastReceiptOpens ==
    ASSUME OneNetwork
    PROVE  Spec => []ShareLastFindsKey
  <1>1. IInv => ShareLastFindsKey
    <2> SUFFICES ASSUME IInv PROVE ShareLastFindsKey
        OBVIOUS
    <2> DEFINE found == [handled |-> TRUE, token |-> last,
                         key |-> IF last = None THEN None ELSE get(last)]
    <2>1. \A e : Gate(e) /\ e.arg \in {None, Last} /\ e.word \in {None, Last}
                   => handleShareCommand(e) = found
        BY DEF handleShareCommand, parseTokenIdArg, Reply, getLast
    <2>2. /\ nativeShare(None, NoBody) = found
          /\ nativeShare(Last, NoBody) = found
          /\ \A w \in {Last, None} :
                inboundClaim([authorized |-> TRUE, isShare |-> TRUE, word |-> w, arg |-> None]) = found
        BY <2>1 DEF nativeShare, NoBody, inboundClaim, Gate
    <2>3. last # None => get(last) # None \/ minted[net][last + 1] \in taken
        BY DEF IInv, TInv, TypeOK, KeyInv, PointerBacked, get
    <2> QED BY <2>2, <2>3 DEF ShareLastFindsKey
  <1> QED BY Inductive, <1>1, PTL

(* A reply to /share holds the key of the receipt it names, which is the   *)
(* one that was asked for, and only an authorized sender gets one.         *)
THEOREM ShareOpensTheReceipt ==
    ASSUME OneNetwork
    PROVE  Spec => []ShareOpens
  <1>1. ASSUME IInv, NEW e, e.authorized \in BOOLEAN, e.isShare \in BOOLEAN,
               e.arg \in Argument, e.word \in Argument
        PROVE  Opens(e, handleShareCommand(e))
    <2> DEFINE asked == parseTokenIdArg(e)
               token == IF asked = None THEN last ELSE asked
    <2> SUFFICES ASSUME handleShareCommand(e).key # None PROVE
                   /\ Gate(e)
                   /\ handleShareCommand(e).key = minted[net][handleShareCommand(e).token + 1]
                   /\ LET named == {e.arg, e.word} \ {None, Last}
                      IN  \/ handleShareCommand(e).token \in named
                          \/ named = {} /\ handleShareCommand(e).token = last
        BY DEF Opens
    <2>1. Gate(e)
        BY DEF handleShareCommand, NotHandled
    <2>2. /\ handleShareCommand(e).token = token
          /\ handleShareCommand(e).key = IF token = None THEN None ELSE get(token)
        BY <2>1 DEF handleShareCommand, Reply, getLast
    <2>3. token \in Token /\ tokenKey[token] # None /\ handleShareCommand(e).key = tokenKey[token]
        BY <2>2 DEF get
    <2>4. tokenKey[token] = minted[net][token + 1]
        BY <1>1, <2>3 DEF IInv, TInv, TypeOK, KeyInv, TokensKeyed
    <2>5. asked # None => asked \in {e.arg, e.word} \ {None, Last}
        BY DEF parseTokenIdArg
    <2>6. asked = None => {e.arg, e.word} \ {None, Last} = {}
        BY DEF parseTokenIdArg
    <2> QED BY <2>1, <2>2, <2>3, <2>4, <2>5, <2>6
  <1>2. IInv => ShareOpens
    <2> SUFFICES ASSUME IInv PROVE ShareOpens
        OBVIOUS
    <2>1. ASSUME NEW e \in Event PROVE Opens(e, inboundClaim(e))
      <3>1. CASE Gate(e)
        <4>1. /\ e.authorized \in BOOLEAN /\ e.isShare \in BOOLEAN
              /\ e.arg \in Argument /\ e.word \in Argument
            BY DEF Event
        <4>2. inboundClaim(e) = handleShareCommand(e)
            BY <3>1 DEF inboundClaim
        <4> QED BY <1>1, <4>1, <4>2
      <3>2. CASE ~Gate(e)
          BY <3>2 DEF inboundClaim, NotHandled, Opens
      <3> QED BY <3>1, <3>2
    <2>2. ASSUME NEW arg \in Argument, NEW b \in Body
          PROVE  Opens([authorized |-> TRUE, arg |-> arg, isShare |-> b.isShare, word |-> b.word],
                       nativeShare(arg, b))
      <3> DEFINE e == [authorized |-> TRUE, arg |-> arg, isShare |-> b.isShare, word |-> b.word]
      <3>1. b.isShare \in BOOLEAN /\ b.word \in Argument
        <4>1. CASE b = NoBody
            BY <4>1 DEF NoBody, Argument
        <4>2. CASE b \in [isShare : BOOLEAN, word : Argument]
            BY <4>2
        <4> QED BY <4>1, <4>2 DEF Body
      <3>2. nativeShare(arg, b) = handleShareCommand(e)
          BY DEF nativeShare
      <3>3. /\ e.authorized \in BOOLEAN /\ e.isShare \in BOOLEAN
            /\ e.arg \in Argument /\ e.word \in Argument
          BY <3>1
      <3> HIDE DEF e
      <3>4. Opens(e, handleShareCommand(e))
          BY <1>1, <3>3
      <3> QED BY <3>2, <3>4 DEF e
    <2> QED BY <2>1, <2>2 DEF ShareOpens
  <1> QED BY Inductive, <1>2, PTL

-----------------------------------------------------------------------------
(***************************************************************************)
(* The files implement KeyVault.  A step files, removes or saves the key   *)
(* of one run only if that key was where the vault requires it: a key is   *)
(* not filed before the commit, not pending as well as filed, and that of  *)
(* a new run was never anywhere.                                           *)
(***************************************************************************)

CopyInv ==
    /\ \A r \in Run : phase[r] = "new" => pendingKey[encodeFilename(r)] = None /\ r \notin taken
    /\ \A r \in Run, t \in Token :
          phase[r] \in {"new", "saving", "saved"} \/ pendingKey[encodeFilename(r)] = r
             => tokenKey[t] # r

LEMMA CopyInit == Init => CopyInv
BY FileNames DEF Init, CopyInv

LEMMA CopyStep ==
    ASSUME IInv, CopyInv, [Next]_vars
    PROVE  CopyInv'
  <1> USE DEF IInv, TInv, TypeOK, KeyInv
  <1>1. ASSUME NEW r \in Run, SetPending(r) PROVE CopyInv'
    <2>1. /\ \A q \in Run : pendingKey'[encodeFilename(q)] =
                             IF q = r THEN r ELSE pendingKey[encodeFilename(q)]
          /\ \A q \in Run : phase'[q] = IF q = r THEN "saving" ELSE phase[q]
        BY <1>1, FileNames DEF SetPending
    <2> QED BY <1>1, <2>1 DEF SetPending, CopyInv
  <1>2. ASSUME NEW r \in Run, Mint(r) PROVE CopyInv'
      BY <1>2 DEF Mint, disk, CopyInv
  <1>3. ASSUME NEW r \in Run, CommitPending(r) \/ Put(r) PROVE CopyInv'
    <2>1. /\ pendingKey'[encodeFilename(r)] = None
          /\ tokenKey' = [tokenKey EXCEPT ![TokenOf(r)] = r]
          /\ phase' = [phase EXCEPT ![r] = "committing"] /\ taken' = taken
          /\ \A q \in Run : q # r => pendingKey'[encodeFilename(q)] = pendingKey[encodeFilename(q)]
        BY <1>3, FileNames DEF CommitPending, Put, CommitStarts, PendingNamed
    <2> QED BY <2>1 DEF CopyInv
  <1>4. CASE WriteMeta
      BY <1>4 DEF WriteMeta, CopyInv, CallsNamed
  <1>5. CASE UnlinkMeta \/ WritePointer
      BY <1>5 DEF UnlinkMeta, WritePointer, CopyInv, CallsNamed
  <1>6. ASSUME NEW r \in Run, Refuses(r) PROVE CopyInv'
      BY <1>6 DEF Refuses, disk, CopyInv
  <1>7. CASE Throws
      BY <1>7 DEF Throws, disk, CopyInv, CallsNamed
  <1>8. CASE Crash
      BY <1>8 DEF Crash, disk, CopyInv
  <1>9. ASSUME NEW r \in Run, Wipe(r) PROVE CopyInv'
    <2>1. \A q \in Run : pendingKey'[encodeFilename(q)] =
                            IF q = r THEN None ELSE pendingKey[encodeFilename(q)]
        BY <1>9, FileNames DEF Wipe
    <2>2. taken' = taken \cup {r} /\ phase[r] # "new"
        BY <1>9 DEF Wipe, PendingNamed, CopyInv
    <2> QED BY <1>9, <2>1, <2>2 DEF Wipe, CopyInv
  <1>10. ASSUME NEW t \in Token, remove(t) PROVE CopyInv'
      BY <1>10 DEF remove, CopyInv
  <1>11. CASE UNCHANGED vars
      BY <1>11 DEF vars, disk, CopyInv
  <1> QED BY <1>1, <1>2, <1>3, <1>4, <1>5, <1>6, <1>7, <1>8, <1>9, <1>10, <1>11 DEF Next

(* What the mapping says of each key.                                      *)
PlaceFacts ==
    \A r \in Run :
        /\ \A t \in Token : tokenKey[t] = r => Place(r) = Vault!Filed(t)
        /\ (\A t \in Token : tokenKey[t] # r) =>
              Place(r) = IF pendingKey[encodeFilename(r)] = r THEN Vault!Pending
                         ELSE IF r \in taken THEN Vault!Removed ELSE Vault!Nowhere

LEMMA PlacesFound == IInv => PlaceFacts
  <1> SUFFICES ASSUME IInv, NEW r \in Run
               PROVE /\ \A t \in Token : tokenKey[t] = r => Place(r) = Vault!Filed(t)
                     /\ (\A t \in Token : tokenKey[t] # r) =>
                           Place(r) = IF pendingKey[encodeFilename(r)] = r THEN Vault!Pending
                                      ELSE IF r \in taken THEN Vault!Removed ELSE Vault!Nowhere
      BY DEF PlaceFacts
  <1>1. ASSUME NEW t \in Token, tokenKey[t] = r PROVE Place(r) = Vault!Filed(t)
    <2>1. \A u \in Token : tokenKey[u] = r => u = t
      <3> SUFFICES ASSUME NEW u \in Token, tokenKey[u] = r PROVE u = t
          OBVIOUS
      <3>1. net \in Chain /\ r # None
          BY DEF IInv, TInv, TypeOK
      <3>2. /\ t + 1 \in DOMAIN minted[net] /\ minted[net][t + 1] = r
            /\ u + 1 \in DOMAIN minted[net] /\ minted[net][u + 1] = r
          BY <1>1, <3>1 DEF IInv, KeyInv, TokensKeyed
      <3>3. t + 1 = u + 1
          BY <3>1, <3>2 DEF IInv, KeyInv, TokensKeyed
      <3> QED BY <3>3 DEF Token
    <2>2. FiledAt(r) = {t}
        BY <1>1, <2>1 DEF FiledAt
    <2> QED BY <2>2 DEF Place, Vault!Filed
  <1>2. ASSUME \A t \in Token : tokenKey[t] # r
        PROVE  Place(r) = IF pendingKey[encodeFilename(r)] = r THEN Vault!Pending
                          ELSE IF r \in taken THEN Vault!Removed ELSE Vault!Nowhere
    <2>1. FiledAt(r) = {}
        BY <1>2 DEF FiledAt
    <2> QED BY <2>1 DEF Place, Vault!Pending, Vault!Removed, Vault!Nowhere
  <1> QED BY <1>1, <1>2

(* A key whose files a step leaves alone stays where it is. *)
LEMMA PlaceFrame ==
    ASSUME PlaceFacts, PlaceFacts', NEW q \in Run,
           \A t \in Token : tokenKey'[t] = q <=> tokenKey[t] = q,
           pendingKey'[encodeFilename(q)] = q <=> pendingKey[encodeFilename(q)] = q,
           q \in taken' <=> q \in taken
    PROVE  Place(q)' = Place(q)
  <1>1. CASE \E t \in Token : tokenKey[t] = q
    <2> PICK t \in Token : tokenKey[t] = q
        BY <1>1
    <2>1. Place(q) = Vault!Filed(t)
        BY DEF PlaceFacts
    <2>2. Place(q)' = Vault!Filed(t)
        BY DEF PlaceFacts
    <2> QED BY <2>1, <2>2
  <1>2. CASE \A t \in Token : tokenKey[t] # q
      BY <1>2 DEF PlaceFacts
  <1> QED BY <1>1, <1>2

(* A step that moves the key of one run is a move of the vault.            *)
LEMMA PlaceMoves ==
    ASSUME PlaceFacts, PlaceFacts', NEW r \in Run, NEW to, Place(r)' = to,
           \A q \in Run : q # r =>
               /\ \A t \in Token : tokenKey'[t] = q <=> tokenKey[t] = q
               /\ pendingKey'[encodeFilename(q)] = q <=> pendingKey[encodeFilename(q)] = q
               /\ q \in taken' <=> q \in taken,
           UNCHANGED <<minted, net, last>>
    PROVE  Vault!Moves(r, to)
  <1>1. \A q \in Run : Place(q)' = IF q = r THEN to ELSE Place(q)
      BY PlaceFrame
  <1> QED BY <1>1 DEF Vault!Moves

LEMMA PlacesStay ==
    ASSUME PlaceFacts, PlaceFacts', UNCHANGED <<tokenKey, pendingKey, taken>>
    PROVE  [r \in Run |-> Place(r)]' = [r \in Run |-> Place(r)]
  <1>1. \A q \in Run : Place(q)' = Place(q)
      BY PlaceFrame
  <1> QED BY <1>1

LEMMA StepImplements ==
    ASSUME OneNetwork, IInv, CopyInv, PlaceFacts, PlaceFacts', [Next]_vars
    PROVE  [Vault!Next]_Vault!vars
  <1> DEFINE place == [r \in Run |-> Place(r)]
  <1>0. net' = net
      BY TypeStep DEF OneNetwork, IInv, TypeOK, TInv
  <1> USE DEF IInv, TInv, TypeOK, KeyInv
  <1>1. ASSUME NEW r \in Run, SetPending(r) PROVE Vault!Save(r)
    <2>1. place[r] = Vault!Nowhere
        BY <1>1 DEF SetPending, CopyInv, PlaceFacts
    <2>2. Place(r)' = Vault!Pending
      <3>1. tokenKey' = tokenKey /\ pendingKey'[encodeFilename(r)] = r
          BY <1>1, FileNames DEF SetPending
      <3> QED BY <1>1, <3>1 DEF SetPending, CopyInv, PlaceFacts
    <2>3. Vault!Moves(r, Vault!Pending)
      <3>1. \A q \in Run : q # r => pendingKey'[encodeFilename(q)] = pendingKey[encodeFilename(q)]
          BY <1>1, FileNames DEF SetPending
      <3> HIDE DEF place
      <3> QED BY <1>1, <2>2, <3>1, PlaceMoves DEF SetPending
    <2> QED BY <2>1, <2>3 DEF Vault!Save
  <1>2. ASSUME NEW r \in Run, Mint(r) PROVE Vault!Mint(r)
    <2>1. home[r] = net /\ net' = net /\ net \in Chain
        BY <1>2 DEF Mint, OneNetwork
    <2>2. place[r] # Vault!Nowhere
      <3>1. Held(r)
          BY <1>2 DEF Mint, KeysHeld
      <3>2. CASE \E t \in Token : tokenKey[t] = r
        <4> PICK t \in Token : tokenKey[t] = r
            BY <3>2
        <4>1. Place(r) = Vault!Filed(t)
            BY DEF PlaceFacts
        <4> QED BY <4>1 DEF Vault!Nowhere, Vault!Filed
      <3>3. CASE \A t \in Token : tokenKey[t] # r
        <4>1. Place(r) \in {Vault!Pending, Vault!Removed}
            BY <3>1, <3>3 DEF Held, PlaceFacts
        <4> QED BY <4>1 DEF Vault!Nowhere, Vault!Pending, Vault!Removed
      <3> QED BY <3>2, <3>3
    <2>3. \A i \in DOMAIN minted[net] : minted[net][i] # r
      <3> SUFFICES ASSUME NEW i \in DOMAIN minted[net], minted[net][i] = r PROVE FALSE
          OBVIOUS
      <3>1. minted[net] \in Seq(Run) /\ Len(minted[net]) < MaxTokens
          BY <1>2, <2>1 DEF Mint
      <3>2. i \in 1..Len(minted[net]) /\ i - 1 \in Token /\ i - 1 + 1 = i
          BY <3>1 DEF Token
      <3> QED BY <1>2, <2>1, <3>2 DEF IsMinted, Mint
    <2>4. minted'[net] = Append(minted[net], r) /\ last' = last
        BY <1>2, <2>1 DEF Mint, disk
    <2>5. place' = place
        BY <1>2, PlacesStay DEF Mint, disk
    <2> QED BY <2>1, <2>2, <2>3, <2>4, <2>5 DEF Vault!Mint
  <1>3. ASSUME NEW r \in Run, CommitPending(r) \/ Put(r) PROVE \E t \in Token : Vault!File(r, t)
    <2>0. IsMinted(r) /\ home[r] = net
        BY <1>3 DEF CommitPending, Put, OneNetwork
    <2> PICK t \in Token : t = TokenOf(r)
        BY <2>0, TokenFound
    <2>1. t + 1 \in DOMAIN minted[net] /\ minted[net][t + 1] = r
        BY <2>0, TokenFound
    <2>2. /\ tokenKey' = [tokenKey EXCEPT ![t] = r]
          /\ \A q \in Run : q # r => pendingKey'[encodeFilename(q)] = pendingKey[encodeFilename(q)]
          /\ taken' = taken /\ minted' = minted /\ last' = last
        BY <1>3, FileNames DEF CommitPending, Put, CommitStarts, PendingNamed
    <2>3. tokenKey[t] \in {None, r}
        BY <2>1 DEF TokensKeyed
    <2>4. place[r] \in {Vault!Pending, Vault!Removed}
      <3>1. CASE CommitPending(r)
          BY <3>1 DEF CommitPending, PendingNamed, CopyInv, PlaceFacts
      <3>2. CASE Put(r)
          BY <3>2 DEF Put, KeysHeld, Held, CopyInv, PlaceFacts
      <3> QED BY <1>3, <3>1, <3>2
    <2>5. Place(r)' = Vault!Filed(t)
        BY <2>1, <2>2 DEF PlaceFacts
    <2>6. Vault!Moves(r, Vault!Filed(t))
      <3>1. \A q \in Run, u \in Token : q # r => (tokenKey'[u] = q <=> tokenKey[u] = q)
          BY <2>1, <2>2, <2>3
      <3> HIDE DEF place
      <3>2. \A q \in Run : q # r =>
               /\ pendingKey'[encodeFilename(q)] = q <=> pendingKey[encodeFilename(q)] = q
               /\ q \in taken' <=> q \in taken
          BY <2>2
      <3>3. UNCHANGED <<minted, net, last>>
          BY <1>0, <2>2
      <3> QED BY <2>5, <3>1, <3>2, <3>3, PlaceMoves
    <2> QED BY <2>1, <2>4, <2>6 DEF Vault!File
  <1>4. ASSUME NEW r \in Run, Wipe(r) PROVE Vault!Remove(r)
    <2>1. /\ \A q \in Run : pendingKey'[encodeFilename(q)] =
                             IF q = r THEN None ELSE pendingKey[encodeFilename(q)]
          /\ pendingKey[encodeFilename(r)] = r /\ taken' = taken \cup {r}
        BY <1>4, FileNames DEF Wipe, PendingNamed
    <2>2. place[r].at = "pending"
        BY <2>1 DEF CopyInv, PlaceFacts, Vault!Pending
    <2>3. Place(r)' = Vault!Removed
      <3>1. tokenKey' = tokenKey /\ pendingKey'[encodeFilename(r)] # r /\ r \in taken'
          BY <1>4, <2>1 DEF Wipe
      <3>2. \A t \in Token : tokenKey'[t] # r
          BY <2>1, <3>1 DEF CopyInv
      <3> QED BY <3>1, <3>2 DEF PlaceFacts
    <2>4. Vault!Moves(r, Vault!Removed)
      <3> HIDE DEF place
      <3> QED BY <1>4, <2>1, <2>3, PlaceMoves DEF Wipe
    <2> QED BY <2>2, <2>4 DEF Vault!Remove
  <1>5. ASSUME NEW t \in Token, remove(t) PROVE \E r \in Run : Vault!Remove(r)
    <2> PICK r \in Run : tokenKey[t] = r
        BY <1>5 DEF remove
    <2>1. /\ r # None /\ taken' = taken \cup {r} /\ pendingKey' = pendingKey
          /\ \A u \in Token : tokenKey'[u] = IF u = t THEN None ELSE tokenKey[u]
        BY <1>5 DEF remove
    <2>2. \A u \in Token : tokenKey[u] = r => u = t
      <3> SUFFICES ASSUME NEW u \in Token, tokenKey[u] = r PROVE u = t
          OBVIOUS
      <3>1. /\ net \in Chain
            /\ t + 1 \in DOMAIN minted[net] /\ minted[net][t + 1] = r
            /\ u + 1 \in DOMAIN minted[net] /\ minted[net][u + 1] = r
          BY <2>1 DEF TokensKeyed
      <3>2. t + 1 = u + 1
          BY <3>1 DEF TokensKeyed
      <3> QED BY <3>2 DEF Token
    <2>3. place[r].at = "filed"
        BY <2>1 DEF PlaceFacts, Vault!Filed
    <2>4. Place(r)' = Vault!Removed
      <3>1. \A u \in Token : tokenKey'[u] # r
          BY <2>1, <2>2
      <3>2. pendingKey'[encodeFilename(r)] # r
          BY <2>1 DEF CopyInv
      <3> QED BY <2>1, <3>1, <3>2 DEF PlaceFacts
    <2>5. Vault!Moves(r, Vault!Removed)
      <3>1. UNCHANGED <<minted, net, last>>
          BY <1>5 DEF remove
      <3>2. \A q \in Run, u \in Token : q # r => (tokenKey'[u] = q <=> tokenKey[u] = q)
          BY <2>1
      <3> HIDE DEF place
      <3> QED BY <2>1, <2>4, <3>1, <3>2, PlaceMoves
    <2> QED BY <2>3, <2>5, <2>1 DEF Vault!Remove
  <1>6. CASE WritePointer
    <2> DEFINE t == TokenOf(call.run)
    <2>1. /\ call.run \in Run /\ t \in Token /\ net' = net /\ home[call.run] = net
          /\ t + 1 \in DOMAIN minted[net] /\ minted[net][t + 1] = call.run
        BY <1>6, TokenFound DEF WritePointer, CallsNamed, OneNetwork
    <2>2. tokenKey[t] = call.run
        BY <1>6 DEF WritePointer, PointerBacked
    <2>3. place[call.run] = Vault!Filed(t)
        BY <2>1, <2>2 DEF PlaceFacts
    <2>4. last' = t /\ minted' = minted
        BY <1>6 DEF WritePointer
    <2>5. place' = place
        BY <1>6, PlacesStay DEF WritePointer
    <2>6. Vault!PointTo(t)
        BY <2>1, <2>3, <2>4, <2>5 DEF Vault!PointTo
    <2> QED BY <2>1, <2>6 DEF Vault!Next
  <1>7. ASSUME UNCHANGED <<tokenKey, pendingKey, last, minted, taken>> PROVE UNCHANGED Vault!vars
    <2>1. place' = place
        BY <1>7, PlacesStay
    <2> QED BY <1>0, <1>7, <2>1 DEF Vault!vars
  <1>8. ASSUME NEW r \in Run, SetPending(r) \/ Mint(r) \/ CommitPending(r) \/ Put(r) \/ Wipe(r)
        PROVE  Vault!Next
      BY <1>1, <1>2, <1>3, <1>4, <1>8 DEF Vault!Next
  <1>9. ASSUME NEW t \in Token, remove(t) PROVE Vault!Next
      BY <1>5, <1>9 DEF Vault!Next
  <1>10. ASSUME WriteMeta \/ UnlinkMeta \/ Throws \/ Crash \/ (\E r \in Run : Refuses(r))
         PROVE  UNCHANGED Vault!vars
    <2>1. UNCHANGED <<tokenKey, pendingKey, last, minted, taken>>
        BY <1>10 DEF WriteMeta, UnlinkMeta, Throws, Crash, Refuses, disk
    <2> QED BY <1>7, <2>1
  <1>11. CASE UNCHANGED vars
      BY <1>7, <1>11 DEF vars, disk
  <1> QED BY <1>6, <1>8, <1>9, <1>10, <1>11 DEF Next

(* On one network the files of the keystore implement KeyVault: every file *)
(* step, throw, crash and removal moves the key of at most one run, from   *)
(* where a vault allows it, and the pointer comes after the filed key.     *)
THEOREM FilesImplementVault ==
    ASSUME OneNetwork
    PROVE  Spec => ImplementsVault
  <1>1. Init => Vault!Init
    <2> SUFFICES ASSUME Init PROVE Vault!Init
        OBVIOUS
    <2>1. PlaceFacts
        BY TInvInit, KeyInvInit, PlacesFound DEF IInv
    <2>2. \A r \in Run : Place(r) = Vault!Nowhere
        BY <2>1, FileNames DEF PlaceFacts, Init
    <2> QED BY <2>2 DEF Init, Vault!Init
  <1>2. IInv /\ CopyInv /\ [Next]_vars => CopyInv'
      BY CopyStep
  <1>3. IInv => PlaceFacts
      BY PlacesFound
  <1>4. IInv /\ CopyInv /\ PlaceFacts /\ PlaceFacts' /\ [Next]_vars => [Vault!Next]_Vault!vars
      BY StepImplements
  <1> QED BY Inductive, CopyInit, <1>1, <1>2, <1>3, <1>4, PTL DEF Spec, ImplementsVault, Vault!Spec

=============================================================================
