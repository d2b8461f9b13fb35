------------------------ MODULE AnchorPlugin_refines ------------------------
(***************************************************************************)
(* The plugin implements EncryptedReceipts: every step of AnchorPlugin,    *)
(* from a state of its inductive invariant, saves a key, stores an         *)
(* envelope, mints a token, files a key, or changes none of these.         *)
(***************************************************************************)
EXTENDS AnchorPlugin_proof

USE BoundsAssumption

ReceiptsStep == [Receipts!Next]_(Receipts!vars)

(* Steps that leave keys, envelopes and tokens alone. *)
LEMMA StutterStep ==
    ASSUME UNCHANGED <<committed, blobs, chain>>, Kept' = Kept
    PROVE  ReceiptsStep
BY DEF ReceiptsStep, Receipts!vars, Kept

LEMMA FrameStep ==
    ASSUME UNCHANGED <<pending, committed, blobs, chain>>, ghosts'.wiped = ghosts.wiped
    PROVE  ReceiptsStep
PROOF
  <1>1. Kept' = Kept
    BY DEF Kept, KeysOnDisk
  <1> QED BY <1>1, StutterStep

LEMMA SaveStep ==
    ASSUME IInv, NEW s \in Session, NEW r \in Run,
           pending' = [pending EXCEPT ![<<s, r>>] = r],
           UNCHANGED <<committed, blobs, chain, ghosts>>
    PROVE  ReceiptsStep
PROOF
  <1>1. Kept \subseteq Kept' /\ r \in Kept'
    BY SetPendingKeeps
  <1>2. Kept' \subseteq Kept \cup {r}
    <2>1. \A n \in Name : pending'[n] \in {pending[n], r}
      BY DEF IInv, TypeOK, DiskTypeOK
    <2> QED BY <2>1 DEF Kept, KeysOnDisk
  <1>3. Kept' = Kept \cup {r}
    BY <1>1, <1>2
  <1>4. r \in Key
    BY DEF Run, Key
  <1>5. Receipts!Save(r)
    BY <1>3 DEF Receipts!Save, Kept
  <1> QED BY <1>4, <1>5 DEF ReceiptsStep, Receipts!Next

LEMMA EndingStep ==
    ASSUME IInv, NEW s \in Session, Ending(s)
    PROVE  ReceiptsStep
PROOF
  <1>1. ASSUME NEW r \in Run, SetPendingThrows(<<s, r>>, r), UNCHANGED <<netVars, ghosts>>
        PROVE  ReceiptsStep
    BY <1>1, SaveStep, FrameStep DEF SetPendingThrows, netVars
  <1>2. ASSUME NEW r \in Run, NEW prefix, TakeAndAnchor(s, r, prefix), UNCHANGED ghosts
        PROVE  ReceiptsStep
    BY <1>2, SaveStep DEF TakeAndAnchor
  <1>3. ASSUME UNCHANGED <<diskVars, netVars, ghosts>>
        PROVE  ReceiptsStep
    BY <1>3, FrameStep DEF diskVars, netVars
  <1> QED BY <1>1, <1>2, <1>3 DEF Ending, AgentEndSkips, AgentEndEmpty, AgentEndKeyFails,
             AgentEnd, SessionEndEmpty, SessionEndKeyFails, SessionEnd

(* The key is on disk before the envelope lands, the envelope in storage   *)
(* before a token points at it.                                            *)
LEMMA NetworkStep ==
    ASSUME IInv, NEW l \in Logger, Network(l)
    PROVE  ReceiptsStep
PROOF
  <1> DEFINE k == anchor[l].key
             p == anchor[l].prefix
  <1>1. k \in Key /\ p \in Prefix
    BY DEF Network, UploadLands, MintLands, AnchorsNamed, Anchor, IInv, KeyInv, TypeOK, MemTypeOK
  <1>2. CASE UploadLands(l)
    <2>1. k \in Kept
      <3>1. wire[l] = "upload" /\ k # None
        BY <1>1, <1>2 DEF UploadLands, Key, None
      <3>2. k \in KeysOnDisk \cup ghosts.wiped
        BY <1>1, <3>1 DEF KeyOutlivesCiphertext, IInv, KeyInv
      <3> QED BY <3>1, <3>2 DEF Kept
    <2>2. Kept' = Kept
      BY <1>2 DEF UploadLands, Kept, KeysOnDisk, diskVars
    <2>3. blobs' = blobs \cup {<<l, k>>} /\ UNCHANGED <<committed, chain>>
      BY <1>2 DEF UploadLands, diskVars
    <2>4. Receipts!Store(l, k)
      BY <2>1, <2>2, <2>3 DEF Receipts!Store, Kept
    <2> QED BY <1>1, <2>4 DEF ReceiptsStep, Receipts!Next
  <1>3. CASE MintLands(l)
    <2>1. <<l, k>> \in blobs
      BY <1>3 DEF MintLands, BlobsBacked, IInv, KeyInv
    <2>2. Kept' = Kept
      BY <1>3 DEF MintLands, Kept, KeysOnDisk, diskVars
    <2>3. /\ Len(chain) + 1 \in Token
          /\ chain' = Append(chain, [log |-> l, key |-> k, prefix |-> p])
          /\ UNCHANGED <<committed, blobs>>
      BY <1>3 DEF MintLands, diskVars, Token, IInv, TypeOK, NetTypeOK
    <2>4. Receipts!Mint(l, k, p)
      BY <2>1, <2>2, <2>3 DEF Receipts!Mint, Kept
    <2> QED BY <1>1, <2>4 DEF ReceiptsStep, Receipts!Next
  <1> QED BY <1>2, <1>3 DEF Network

(* The key of a minted anchor goes under its token, where there was none   *)
(* or this very key.                                                       *)
LEMMA FileStep ==
    ASSUME IInv, NEW l \in Logger, anchor[l].pc = "minted",
           committed' = [committed EXCEPT ![anchor[l].token] = anchor[l].key],
           \/ pending' = pending
           \/ pending' = [pending EXCEPT ![anchor[l].name] = None],
           UNCHANGED <<blobs, chain, ghosts>>
    PROVE  ReceiptsStep
PROOF
  <1> DEFINE n == anchor[l].name
             t == anchor[l].token
             k == anchor[l].key
  <1> USE DEF IInv, KeyInv
  <1>1. /\ n \in Name /\ k \in Key /\ n[2] = k /\ k # None
        /\ t \in Token /\ t \in 1..Len(chain) /\ chain[t].key = k
    BY DEF AnchorsNamed, AnchorsMinted, TypeOK, MemTypeOK, NetTypeOK, Token, Anchor, Key, None
  <1>2. k \in Kept
    <2>1. <<l, k>> \in blobs
      BY DEF BlobsBacked
    <2> QED BY <1>1, <2>1 DEF KeyOutlivesCiphertext, Kept
  <1>3. pending[n] \in {None, k} /\ committed[t] \in {None, k}
    BY <1>1 DEF PendingNamed, Name, KeyOpensReceipt
  <1>4. committed'[t] = k /\ \A u \in Token \ {t} : committed'[u] = committed[u]
    BY <1>1 DEF TypeOK, DiskTypeOK
  <1>5. pending'[n] \in {pending[n], None} /\ \A m \in Name \ {n} : pending'[m] = pending[m]
    BY <1>1 DEF TypeOK, DiskTypeOK
  <1>6. Kept' = Kept
    <2>1. ASSUME NEW j \in Kept
          PROVE  j \in Kept'
      <3>1. CASE j = k
        BY <1>1, <1>4, <3>1 DEF Kept, KeysOnDisk
      <3>2. CASE j \in ghosts.wiped
        BY <3>2 DEF Kept
      <3>3. ASSUME NEW u \in Token, committed[u] = j, j # k, j # None
            PROVE  j \in Kept'
        BY <1>3, <1>4, <3>3 DEF Kept, KeysOnDisk
      <3>4. ASSUME NEW m \in Name, pending[m] = j, j # k, j # None
            PROVE  j \in Kept'
        BY <1>3, <1>5, <3>4 DEF Kept, KeysOnDisk
      <3> QED BY <3>1, <3>2, <3>3, <3>4 DEF Kept, KeysOnDisk
    <2>2. ASSUME NEW j \in Kept'
          PROVE  j \in Kept
      <3>1. CASE j \in ghosts.wiped
        BY <3>1 DEF Kept
      <3>2. ASSUME NEW u \in Token, committed'[u] = j, j # None
            PROVE  j \in Kept
        BY <1>2, <1>4, <3>2 DEF Kept, KeysOnDisk
      <3>3. ASSUME NEW m \in Name, pending'[m] = j, j # None
            PROVE  j \in Kept
        BY <1>5, <3>3 DEF Kept, KeysOnDisk
      <3> QED BY <3>1, <3>2, <3>3 DEF Kept, KeysOnDisk
    <2> QED BY <2>1, <2>2
  <1>7. CASE committed[t] = None
    <2>1. Receipts!File(t)
      BY <1>1, <1>6, <1>7 DEF Receipts!File, Kept
    <2> QED BY <1>1, <2>1 DEF ReceiptsStep, Receipts!Next
  <1>8. CASE committed[t] = k
    <2>1. committed' = committed
      BY <1>1, <1>8 DEF TypeOK, DiskTypeOK
    <2> QED BY <1>6, <2>1, StutterStep
  <1> QED BY <1>3, <1>7, <1>8

LEMMA CommittingStep ==
    ASSUME IInv, NEW l \in Logger, Committing(l)
    PROVE  ReceiptsStep
PROOF
  <1>1. anchor[l].pc = "minted" /\ UNCHANGED <<blobs, chain, ghosts>>
    BY DEF Committing, CommitPending, CommitByPut, RetryFindsNothing, CommitThrows, CommitReturns,
           netVars
  <1>2. pending[anchor[l].name] \in {None, anchor[l].key}
    BY <1>1 DEF AnchorsNamed, PendingNamed, Name, IInv, KeyInv
  <1>3. \/ UNCHANGED <<pending, committed>>
        \/ /\ committed' = [committed EXCEPT ![anchor[l].token] = anchor[l].key]
           /\ \/ pending' = pending
              \/ pending' = [pending EXCEPT ![anchor[l].name] = None]
    BY <1>2 DEF Committing, CommitPending, CommitByPut, RetryFindsNothing, CommitThrows, diskVars
  <1> QED BY <1>1, <1>3, FileStep, FrameStep

(* Deleting a pending key moves it among the keys that were once saved.    *)
LEMMA WipeStep ==
    ASSUME IInv, NEW n \in Name, WipePending(n)
    PROVE  ReceiptsStep
PROOF
  <1>1. /\ UNCHANGED <<blobs, chain, committed>>
        /\ pending[n] # None
        /\ pending' = [pending EXCEPT ![n] = None]
    BY DEF WipePending, netVars
  <1>2. ghosts'.wiped = ghosts.wiped \cup {pending[n]}
    BY DEF WipePending, IInv, TypeOK, EnvTypeOK, Ghosts
  <1>3. pending'[n] = None /\ \A m \in Name \ {n} : pending'[m] = pending[m]
    BY <1>1 DEF IInv, TypeOK, DiskTypeOK
  <1>4. Kept' = Kept
    BY <1>1, <1>2, <1>3 DEF Kept, KeysOnDisk
  <1> QED BY <1>1, <1>4, StutterStep

LEMMA InitReceipts == Init => Receipts!Init
PROOF
  <1> SUFFICES ASSUME Init
               PROVE  Receipts!Init
    OBVIOUS
  <1>1. KeysOnDisk \subseteq {None} /\ ghosts.wiped = {}
    BY DEF Init, KeysOnDisk
  <1> QED BY <1>1 DEF Init, Receipts!Init

LEMMA NextReceipts == IInv /\ [Next]_vars => ReceiptsStep
PROOF
  <1> SUFFICES ASSUME IInv, [Next]_vars
               PROVE  ReceiptsStep
    OBVIOUS
  <1>1. ASSUME NEW s \in Session, Capturing(s)
        PROVE  ReceiptsStep
    <2>1. UNCHANGED <<anchor, diskVars, netVars, ghosts>>
      BY <1>1 DEF Capturing, MessageReceived, BeforePromptBuild, AfterToolCall, LlmOutput,
             Capture, BeforeAgentFinalize, CliToolCall, memVars
    <2> QED BY <2>1, FrameStep DEF diskVars, netVars
  <1>2. ASSUME NEW l \in Logger, Uploading(l) \/ Minting(l) \/ Operating(l)
        PROVE  ReceiptsStep
    <2>1. UNCHANGED <<diskVars, blobs, chain, ghosts>>
      BY <1>2 DEF Uploading, UploadSucceeds, UploadFails, Minting, MintSucceeds, MintFails,
             Operating, RetryFlush, RetryMint, RetryCommit, OperatorStarts, netVars
    <2> QED BY <2>1, FrameStep DEF diskVars
  <1>3. CASE Crash
    <2>1. UNCHANGED <<diskVars, blobs, chain>> /\ ghosts'.wiped = ghosts.wiped
      BY <1>3 DEF Crash, netVars, IInv, TypeOK, EnvTypeOK, Ghosts
    <2> QED BY <2>1, FrameStep DEF diskVars
  <1>4. CASE Tick \/ UNCHANGED vars
    BY <1>4, FrameStep DEF Tick, vars, diskVars, netVars
  <1> QED BY <1>1, <1>2, <1>3, <1>4, EndingStep, CommittingStep, NetworkStep, WipeStep DEF Next

(* anchorRun, the keystore and the recovery recipes together keep the      *)
(* promises of EncryptedReceipts: key before ciphertext before token, and  *)
(* one key per token, the right one.                                       *)
THEOREM PluginImplementsReceipts == Spec => ImplementsReceipts
PROOF
  <1>1. Init => Receipts!Init
    BY InitReceipts
  <1>2. IInv /\ [Next]_vars => [Receipts!Next]_(Receipts!vars)
    BY NextReceipts DEF ReceiptsStep
  <1> QED BY <1>1, <1>2, Invariance, PTL DEF Spec, ImplementsReceipts, Receipts!Spec

=============================================================================
