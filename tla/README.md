# Verifiable agent execution: TLA+ models and proofs

This directory models the program of this repository in TLA+, checks the
models with TLC and proves their central safety properties with TLAPS. The
program is an OpenClaw plugin that records what an agent does, encrypts the
record, stores it on 0G Storage, anchors its root hash in an AgenticID token on
chain and keeps the decryption key on the host; the contract those tokens live
in; and a dashboard that lists the tokens and lets anybody with the key verify
what they anchor.

## The system

| Part | State it keeps | Operations | Talks to |
|---|---|---|---|
| Plugin hooks (`plugin/src/index.ts`) | `sessions`, `runMetadata`, `pendingAnchors` in memory | message_received, before_prompt_build, after_tool_call, llm_output, before_agent_finalize, agent_end, session_end | called by the OpenClaw harness; calls everything below |
| Session manager (`SessionManager.ts`) | session key -> SessionLogger | getOrCreate, has, release, takeAndRelease | hooks |
| Session logger (`packages/logger/src/SessionLogger.ts`) | entries, `flushing`, `flushed` | appendEntry, flush | storage client |
| Storage client (`StorageClient.ts`) | none | upload with a 30 s deadline, download | 0G Storage |
| Session anchor, AgenticID client (`packages/chain-client`) | none | anchor, retryMint, mint | logger, chain |
| Keystore (`keystore.ts`) | `keystore/pending/*.key`, `keystore/<tokenId>.key`, `last-receipt.json` | setPending, commitPending, put, get, getLast, listPending, remove | anchorRun, /share, operator |
| Transcript parser (`transcript-parser.ts`) | none (reads claude-cli's jsonl) | resolve the path, parse tool calls since a time | agent_end |
| Share command (`share-command.ts`) | none | answer `/share` with the key in the link | keystore |
| Registration, wallet, configuration (`index.ts`, `wallet.ts`, `config.ts`, `install.sh`) | `wallet.json`, `openclaw.json` | register, resolveWallet, resolveConfig, install | the host's files, shared by its gateways |
| AgenticID (`contracts/contracts/AgenticID.sol`) | tokens, intelligent data, authorisations in two indexes, clones, fee, pause | mint, iMint, iTransferFrom, iCloneFrom, authorizeUsage, batchAuthorizeUsage, revokeAuthorization ... | called by the chain client, the dashboard and anybody else |
| MockTEEVerifier (`MockTEEVerifier.sol`) | oracle address | verifyTEESignature, updateOracleAddress | called by server and browser |
| Dashboard feed (`lib/feed.ts`, `api/feed/route.ts`) | the token ceiling's cache, the last payload, the request under way | getCachedFeed, fetchFeed, the ceiling's search | chain |
| Dashboard verification (`lib/verify-proof.ts`, `lib/client-verify.ts`, `lib/crypto.ts`) | none | resolveProof, the entry and blob routes, decrypt, verify in the browser | chain, storage, verifier |
| Dashboard components (`EncryptedReveal.tsx`, `SessionView.tsx` ...) | reveal state; badges, timer and flags of the cascade | reveal, auto-verify, replay | the routes above |
| TEE proof adapter (`packages/tee-adapter`) | none | parse the headers of a response of agent-wrapper, recover its signer, ask the verifier | a caller that logs the response; verifier |

What is hard about it:

- **Interleaving.** The harness fires hooks while an earlier handler awaits a
  network call of up to 30 seconds (upload) or of any length (`tx.wait()`).
  `takeAndRelease`, the compound pending key name and the logger's `flushing`
  flag exist for that; each of them is a model step or a guard here.
- **Requests that outlive their sender.** An upload that timed out may still
  land; a mint reported as failed may still be mined.
- **Crashes.** Memory goes, the keystore, storage and chain stay.
- **Failing disk.** A keystore write can throw between its two files.
- **A chain others use.** Between a transaction and its receipt, and between two
  calls of one scan or one verification, others mint, transfer, pause, raise the
  fee or rotate the oracle.
- **Calls inside calls.** `_safeMint` calls the receiver of a token before the
  contract has written what the token holds; a receiver with code may call back.
- **Files several processes share.** Gateways under one home directory create,
  read and damage one `wallet.json`, and may start at the same time or between
  two commands of `install.sh`.
- **The same question answered twice.** The server's aggregate status, its
  entry route and the browser each judge a signature, at different moments.
- **Recovery by hand.** The log lines of `anchorRun` tell the operator which
  calls to make; they interleave with everything else.
- **Clocks and files of another process.** claude-cli's own tool calls are
  collected from its transcript, filtered by the time the run began.

## Modules

| Module | What it is |
|---|---|
| `AnchorPlugin` | the plugin: hooks, agent_end and session_end, anchorRun, keystore effects, transcript injection, network, crash, operator |
| `EncryptedReceipts` | what a receipt promises, with no word on how; abstract specification of `AnchorPlugin` |
| `AnchorPluginMC` | the environments the configurations choose from |
| `AnchorPlugin_proof` | type correctness and the key invariants, for all values of the constants |
| `AnchorPlugin_logs` | what becomes of the logs: none dropped, mixed, changed once stored or minted twice; which tool calls of the transcript they hold |
| `AnchorPlugin_refines` | `AnchorPlugin` implements `EncryptedReceipts` |
| `AgenticID` | the contract: mints, transfers, clones, authorisations, fee and pause; one action per call, two for a mint whose receiver is called back |
| `AgenticID_proof` | its lists, indexes, rights, clones and data, for any accounts, tokens and limits |
| `MintClient` | `AgenticIDClient.mint` over `AgenticID`, with everybody else's calls in between |
| `Feed` | the dashboard's scans over `AgenticID`, one RPC call at a time, and the shared request of `/api/feed` |
| `Clients_proof` | the minting client's answers and the feed's rows, ceiling and requests, over any use of the contract; the types of all three together |
| `ChainMC` | the four scenes that check `AgenticID`, `MintClient` and `Feed` |
| `Verification` | the verify page: server rendering, decryption in the browser, the cascade over the entries |
| `TEEAdapter` | the headers, the recovered signer and the verdict on a response of agent-wrapper, while the oracle is rotated |
| `Verification_proof` | what badges, headline and shown entries promise, for any logs, oracles, replays and reloads; what the adapter's verdicts do |
| `Gateway` | registration: wallet and agentId, and which logger a hook finds |
| `Gateway_proof` | the funded wallet, the session's entries and the colour of a gateway's own entries, for any gateways, wallets and sessions; page, gateways and adapter side by side |
| `VerificationMC` | the four scenes that check `Verification`, `Gateway` and `TEEAdapter`, and what they share |
| `Keystore` | the keystore directory one file operation at a time, with what `/share` and recovery read from it |
| `KeyVault` | what the keystore promises about a key, with no word on files; abstract specification of `Keystore` |
| `KeystoreMC` | the runs and networks its configurations choose from |
| `Keystore_proof` | types, for any networks; every other property of `Keystore`, on one network, the refinement of `KeyVault` among them |

### How `AnchorPlugin` corresponds to the code

JavaScript runs a handler without interruption up to its next `await`, so each
such stretch is one action. `agent_end` is one action from its first line to the
upload inside `flush()` (`AgentEnd`), because setPending, takeAndRelease,
`pendingAnchors.set`, encryption and the `flushing` flag happen without an
await in between; its early returns are actions of their own
(`AgentEndSkips`, `AgentEndEmpty`, `AgentEndKeyFails`). What follows is one
action per way an awaited call resolves: `UploadSucceeds`/`UploadFails`,
`MintSucceeds`/`MintFails`, and the commit after the mint
(`CommitPending`, `CommitByPut`, `CommitThrows`). `HandlerReturns` is the
`runMetadata.delete` after the await of `anchorRun`, part of the step in which
`anchorRun` returns.

The commit is a step of its own although nothing is awaited between the mint's
resolution and it: a crash there must be possible, since the key file and the
chain are both durable.

`wire[l]` holds the request of logger `l` the network has not acted on.
`UploadLands` and `MintLands` take it whether or not the sender still waits,
which covers late uploads, mints that land after an error and requests of a
dead process. `anchor[l]` is the local state of the anchorRun of `l` (or of the
operator's recovery, `by = "operator"`).

| Variable | Code |
|---|---|
| `sessions` | `SessionManager.loggers` |
| `runMetadata` | `state.runMetadata`; `pinned` is whether `transcriptPath` is set |
| `pendingAnchors` | `state.pendingAnchors` |
| `entries`, `seal` | `SessionLogger.entries`; `flushing` and `flushed` |
| `pending`, `committed`, `lastReceipt` | the keystore's files |
| `blobs`, `chain` | envelopes on 0G Storage, tokens of AgenticID |
| `events`, `runFrom`, `inbox`, `clock` | harness, user and claude-cli |

Loggers, keys and tokens are numbers; a key is the number of the run it was
generated for. An event is its position in `events`, so an entry of a log is the
event it records.

### Abstractions, and what they leave out

- Entry schema, sequence numbers and signatures: an entry is an event. That a
  signature or a validation throws is the quirk "faults" in `Capture`, where
  the logger stays allocated and empty as in the code.
- Encryption is naming the key: an envelope is `<<logger, key>>`. Two uploads
  of one log under one key are one envelope, although their IVs differ.
- A flush that throws before it uploads anything is covered by `UploadFails`,
  which also allows the upload to land afterwards.
- One request per logger is on the wire. A recovery that starts while an older
  request of the same logger is pending replaces it: fewer tokens than the
  code could mint, so `RetryMintsSameToken` is refuted on less than the code
  does, and the safety runs still see every order of the remaining requests.
- The keystore's calls have their success and their partial failures as
  outcomes; a crash between their file steps is the subject of `Keystore`.
- Run ids do not repeat: the harness numbers its runs and the fallback is 128
  random bits (`index.ts:1391-1409`).
- The transcript is the sequence of tool calls with their times; how a jsonl line
  is parsed is not modelled. A transcript that does not parse gives nothing and an
  entry that cannot be signed or appended is skipped, and the flush goes on with
  what there is: under the quirk "faults", any part of the calls is injected
  (`Appended`). A tool call's id is its position, so injecting it twice into
  one log is one entry, which is what the id comparison in
  `injectTranscriptToolEntries` does.
- The pinned path is the session's own transcript.

### How `Keystore` corresponds to the code

The calls of `Keystore` are synchronous, so `call` holds the one under way, and
each action is one file operation of it: the key and the sidecar in setPending,
the rename, the sidecar's removal and the pointer in commitPending, the key and
the pointer in put. Between any two of them the step may throw (`Throws`,
`Refuses` when the first one does) or the process may die (`Crash`). `phase[r]`
says where the anchor of run `r` stands in `anchorRun`: only a run whose
setPending returned can be minted, one of a dead process or with a failed commit
may still be committed by the operator, as the log line at `index.ts:1074-1078`
tells them to; `anchorRun` itself does not try again.

| Variable | Code |
|---|---|
| `pendingKey`, `pendingMeta` | `pending/<base64url>.key` and its `.meta.json` |
| `tokenKey` | `<tokenId>.key` |
| `last` | the token id in `last-receipt.json` |
| `minted[c]` | the tokens of the AgenticID contract of network `c` |
| `net`, `home[r]` | the configured `chainId`; the one in force when `r` was anchored |
| `taken` | keys the operator deleted; not in the code |

Token ids start at 0 here, as in the contract (`_nextTokenId++`);
`AnchorPlugin` counts tokens from 1 and keeps 0 for "none", which no property
of it distinguishes. A pending name `<sessionKey>|run:<runId>` is the run, and
`encodeFilename` a reversible constructor. A key's name is the run it was
generated for, so a run anchors under one key; the anchors that start over with
a new run id after a failed setPending are other runs.

A write to a `.tmp` file and the rename of it are one step, since nothing reads
a `.tmp` file. Power loss, after which a rename that returned may be undone (the
code calls no fsync), is not modelled: a crash here is the death of the process.

`/share` changes nothing, so it is operators: `inboundClaim` for the listener on
inbound messages, with the gate it applies itself, `nativeShare` for the
registered command. An event is an authorization, an argument and a text; a text
is whether it is `/share` and its first word. `Last` is the word `last`, and
`Junk` any word that is no token id. The native command is handed its arguments
as one string; where a harness passes no text, the plugin puts `/share` in its
place (`NoBody`).

`Quirks` says which behaviours of harness, disk and operator an instance
allows; the proofs hold for every subset of them.

### How `AgenticID` corresponds to the contract

A call is one action, but for the calls that mint. Those give the token its
owner in `_safeMint`, which calls `onERC721Received` of a receiver that has
code, and only then write its data and creator (`AgenticID.sol:92-93`,
`104-105`) or copy the source's (`159-165`); nothing in the contract keeps the
receiver from calling back. So for a receiver in `Contract` the call up to there
is one action (`safeMint`), what is left of it is kept as a frame in `calls`, and
`Return` is the rest, innermost first. In between only contracts call
(`MayCall`), any call with any arguments, other mints included; no transaction
begins before the last frame is gone (`Settled`). For a receiver without code
both parts are one action. What a receiver calls may come to more than its mint,
so that frames of several mints are open at once. A call that reverts, and a
transaction that is undone with all that was nested in it, is no step. The model
is generous in one respect: any contract may call at that moment, not only those
the receiver reaches.

`sender` is `msg.sender`. ERC-721's approvals are
what `Operators` says, for all of an owner's tokens. Each index of the
authorisations is kept as in the contract: `authorizedUsers` and
`authorizedTokens` are the arrays, with `SwapPop` for the removal that moves the
last element, `isAuthorizedUser` and `isAuthorizedToken` the mappings, as the
sets they are true of. The inherited `transferFrom`, which the contract does not
override, is an action as well: it moves a token with its grants, and `moved`
remembers that it did. `grants` records who gave which right and how, `clones`
the clone events; the contract keeps neither.

`Minting` is the tokens with an open frame. `early` is history: clones of a
token whose own mint was not over when the copy was made.

The deployer has the admin, minter and operator roles and gives them to nobody.
`delegateAccess`, `tokenURI` and `withdraw` are left out.

### How `MintClient` corresponds to the client

`answer[c]` says how far the promise of call `c` is, `tx[c]` what the chain did
with its transaction, `receipt[c]` the event the receipt carries. `Send` is
ethers' estimate and broadcast, `IncludeTx` the block, `WaitReturns` and
`WaitThrows` the two ways `tx.wait()` ends. `Send` may fail although the
transaction reached the chain, when the answer to the broadcast is lost; the call
has thrown by then and the transaction may still be mined. The host signs with a
private key and mints to itself, so it is no contract (`ClientAssumption`). The
estimate sees the fee and the
pause of one moment and the block those of a later one. The parsing of the logs is
the tokenId of the own receipt's event; `latestTokenId` is what a reader of the
counter would have taken instead, and is a mutant.

### How `Feed` corresponds to the dashboard

Each action is one awaited RPC call of one scan together with the synchronous
code up to the next, since the chain moves between any two. `scan[s].pc` names
the call: `supply`, the exponential `probe` and the `check` and `bisect` that
narrow it when the supply cannot be had, and `walk`. `cachedCeiling` is the
module-level cache, stamped with the time the question was asked
(`scan[s].now`). `payloadAge`, `inflight` and `waiting` are the route's cached
payload, `inflightFetch` and the requests that await it. Time is kept as ages in
ticks.

A description of a data item is one of `log`, `orphan`, `bad` or something else;
what `exec-log-parser.ts` makes of it is `parses` and `IsReceipt`. Receipts are
minted to accounts without code here (`ChainMoves`), which loses nothing: the scans
read blocks, in which no call is half done. The rows'
content is left out: a row is its token.

### How `Verification` corresponds to the dashboard

| Variable | Code |
|---|---|
| `receipt` | what the token anchors: chain, blob, entries; cannot change |
| `key` | the `k` of the URL fragment |
| `oracle` | `MockTEEVerifier.teeOracleAddress` |
| `page` | `resolveProof`, its result or its error code |
| `reveal` | the state of `EncryptedReveal` |
| `view`, `badge` | SessionView's timer, refs and flags; `statuses` |
| `loop` | the cascade a timer or a click runs, with the response it holds |
| `inForce`, `lost`, `fresh`, `rotated` | history |

An entry is the address its signature recovers to and whether it carries the
attestation fields. That is what all three judges of a signature look at: the
aggregate (`computeVerificationStatus`), the entry route (`verifyOneEntry`) and
the browser (`verifyEntryClient`). Reads of chain and storage that follow each
other are one step, since neither can change for a given token (`DataFrozen`);
each call of the verifier is a step of its own, since its oracle can. A response
in hand and the state update it leads to are two steps (`answered`, `SetBadge`).
Every call may fail.

### How `Gateway` corresponds to the plugin

`process[p]` is a gateway: `down`, `degraded` (registered without hooks),
`creating` and `writing` (inside `resolveWallet`'s first start) or `live`.
`installer[i]` is a shell that runs `install.sh`, and how far it is.
`register()` is synchronous within its process, yet another gateway's file
operation, or its own death, may come between two of its own: between the look
at `wallet.json` and its creation, and between the truncation and the write.
`walletFile` is the wallet in the file, `"torn"` for one that was truncated and
never written; `damaged` is a file that cannot be read or parsed although the
wallet is in it. `setting` is the `agentId` of `openclaw.json`. `Configure`,
`Damage` and `MoveAside` are the operator's.

`install.sh` is one action per command that reads or writes these files, with
everything else in between: the test for `wallet.json` (line 135, `InstallChecks`),
the truncation and the write by the node process it starts (150,
`InstallTruncates`, `InstallWrites`), the reading of the address (159,
`InstallReads`), the edited copy of `openclaw.json` (187, `InstallSeeds`) and the
`mv` that puts it in place (252, `InstallPatches`), and the footer that tells the
user which address to fund (`InstallAnnounces`). Every command may be the last one
(`InstallAborts`, `set -e`). The key that the node process generates is
named at the test, which nothing else can see before it is written.

`raced` is history: the wallets of first starts and installs that found no file
and overlapped, so that one was written over the other. A gateway's whole first
start may fall between line 135 and line 150 of `install.sh`, and the wallet its
banner announced is then gone; the property below has this as its exception, as
it has two overlapping gateways.

`loggers[p][k]` is the log filed under key `k` of `SessionManager.loggers`, as
the sessions whose hooks appended its entries. What happens to a log once it is
taken away is `AnchorPlugin`.

### How `TEEAdapter` corresponds to the code

agent-wrapper signs `agentId|sealId|timestamp|sha256(body)` in the words it puts
in its headers; `HeaderParser` and `signing-message.ts` write that line anew.
`response` is what was answered: for each header whether it is absent, malformed,
or written as the adapter will write it again; whose key signed; and whether the
body is still the one that was signed. A `bare` id is accepted and gets its
`0x`, and then the line hashed is not the line signed: an address comes out that
is nobody's (`"somebody"`). The same goes for a timestamp with leading zeros or
past 2^53. agent-wrapper's code is not part of this repository; that it signs
the words of its headers is what `HeaderParser.ts:5-24` and
`scripts/smoke/tee-headers.ts` say of it.

`attempt` is one call: `parse` in one step, or an attestation made by hand, which
`verify` takes as well (its length check is for those); the local recovery; and
the answer of the contract, or the call that fails. `during` is history: the
oracles in force since the contract was asked. `EntryOf` is the entry a caller
logs of the response, which the page then judges with `verifyOneEntry` and
`verifyEntryClient` of `Verification`.

### How `KeyVault` abstracts the keystore

`place[r]` is where the key of run `r` is: nowhere, pending, filed under a token,
or removed. The mapping (`Place`) reads it from the key files; sidecars, calls
under way, phases and crashes are not seen. A commit that is interrupted is
either before the rename or after it. The pointer may be moved only to a receipt
whose key is filed at that moment; what a later removal makes of it is
`ShareLastFindsKey`.

## Runs

Configurations `Anchor*` and `Transcript*` instantiate `AnchorPluginMC`,
`Keystore*` instantiate `KeystoreMC`, `Chain` instantiates `ChainMC`, and
`Verify*` instantiate `VerificationMC`. Deadlock is not checked in the first three
groups: the counters are bounded, and a finite run of the plugin, or a chain
with no token left to mint, ends. It is checked in `VerifyPage`, where the
visitor can always reload the page and the operator always edit the
configuration.

`ChainMC` holds three scenes and `VerificationMC` four, which share one run: the
initial state chooses the scene, and a scene holds the variables it is not about
still. Every scene's steps are steps of the modules, and none is cut off but by
the bounds. In `ChainMC`, `rights` has every call about ownership and
authorisations, over two tokens without data; `clones` every mint, transfer and
clone, with data, and what the receivers of tokens call back; `mints` mints with
data to accounts without code, fee and pause, with the client; `feed` the scans,
with mints and transfers between any two calls of theirs. In `VerificationMC`,
`page` is the visitor with one receipt, `host` the gateways, `install.sh` and
their files, `chat` the gateways that took their wallet from the environment and
serve sessions, `adapter` a caller with one response.

| Run | Question | Bounds | Result |
|---|---|---|---|
| `AnchorSafety` | do keys, logs, envelopes and tokens stay in step whatever happens? | 1 session, 2 loggers, 2 runs, 3 tokens, 2 events, 1 crash, 1 recovery, all quirks | holds, 1.6 million states |
| `AnchorLiveness` | does it implement `EncryptedReceipts`, mint each log once, and wait only for the chain? | 2 sessions, 2 loggers, 1 crash, no recovery, faults and overlap | holds |
| `TranscriptQuiet` | is every transcript tool call anchored with its run, once? | 1 session, 6 events, 2 tool calls, clock 0..2, lookback 1, 1 crash, late hooks and removed pending files, a user who waits for the receipt | holds, 885,797 states |
| `TranscriptOverlap` | the same when the next message comes during the anchor | as above | `TranscriptOnce` is violated |
| `TranscriptQueue` | the same when a second message comes during the run | as above | `TranscriptComplete` is violated |
| `AnchorPlaintext` | is the plaintext dropped when the flush succeeded, as the comment on `pendingAnchors` says? | 1 run | violated |
| `AnchorRetryMint` | does a retried mint name the same token, as the header of `keystore.ts` says? | 1 run, 1 recovery | violated |
| `KeystoreFiles` | does a throw or a crash between two file steps lose or mix up a key? | 3 runs, 3 tokens, 1 network, any number of crashes and throws | holds, implements `KeyVault`; 109,466 states |
| `KeystoreNetworks` | is the path of a token's key free of collisions, as `keystore.ts:527-529` says? | 2 runs, 2 networks | violated |
| `Chain` | do the contract's indexes stay in step; does a mint's answer name its own token; does the feed list what it owes while the chain moves? | 3 tokens (2 in `rights`), 2 accounts, one of them a contract, one operator, limit 2, 2 calls; 2 scanners, probe from 1, ceiling 8, walk depth 1 and 2, rows 2 and 1, lifetimes of one tick, 2 polls | holds, 619,580 states |
| `VerifyPage` | does the page show what is true, and the same everywhere, whatever fails and rotates; does a gateway keep wallet and sessions? | every log of at most 2 entries of 7 kinds, in plaintext and encrypted, 2 oracles; 2 gateways and one `install.sh`, 4 starts, 2 wallets, 2 sessions of one routing key, 2 entries; every response of agent-wrapper | holds, 764,314 states |
| `VerifyOutage` | is an entry `unverified` only for a bad signature, as `SessionView.tsx:42` says? | as above | violated |

Why the bounds are enough. The hazards are between two anchors of one session
(one in flight, one starting), between one anchor and a crash, and between a
late request and one recovery; two loggers, two runs, one crash and one retry
give all of those, and three tokens leave room for a duplicate mint on top of
one token per run. Two events let a log be empty, have one entry and lose one.
The transcript runs need a clock, because the filter compares times: instants
0..2 put the two runs of a session and a call between them apart. In the runs
that fail, `Lookback = 2` lets the fallback see all of it; in `TranscriptQuiet`
it is 1, so that a run that fell back would miss a call as well as repeat one.
In the keystore the state is finite with no bound but the tokens: crashes,
throws and retries are unlimited. Three anchors let one be interrupted while
another commits and a third one's receipt is what the pointer names.

In `rights`, two tokens and two users give every list the lengths 0, 1 and 2, so
that an element is popped from the end or swapped from the middle, and limit 2
is reached. Three tokens in `feed` put one receipt above, at and below the end
of a walk of depth 1, and let the search go through each of its calls with an id
that exists or does not; `ProbeStart = 1` is the smallest first id, and the
doubling is the same from there as from 64. A lifetime of one tick makes an age
either in use or expired, which is all the code asks. Two entries let a badge
stand for the entry before or the entry of the cascade before, and a status
disagree between entries; the seven kinds are the branches of the three judges.
Two gateways, one `install.sh` and four starts between them let two first starts
overlap, with each other or with the install, with a crash in one and later
starts after both; two wallets are one more than is kept, and a third first
start would need a third. With three tokens a receiver can mint, clone what it
is being minted and have the source filled afterwards. One `install.sh` is a
bound of the run only: the proofs are for any number of gateways and of shells.

### Properties

- `KeyOpensReceipt`: a key filed under a token is the key of its envelope.
- `KeyOutlivesCiphertext`: from the moment an envelope can reach storage its
  key is on disk, unless the operator deleted it.
- `NothingDropped`: no failure path loses the only copy of a log while the
  process lives.
- `CapturedOnce`: a captured event is in exactly one log.
- `StoredLogFrozen`: a stored envelope keeps describing its log, even after a
  timed-out flush unlocked the logger.
- `OneReceiptPerLog`: with no recovery by hand a log backs at most one token.
- `ImplementsReceipts`: refinement of `EncryptedReceipts`.
- `WaitsOnlyForChain`: an anchor never waits for good on storage or disk.
- `TranscriptOnce`, `TranscriptComplete`: a tool call is anchored at most once;
  a rotated log holds every call since the run began.

- `KeyKept`: a key whose setPending returned is never lost to a throw or a
  crash between file steps, by any order of the three anchors.
- `ShareOpens`, `ShareLastFindsKey`: `/share` answers with the key of the
  token's own receipt, and with no argument never points at a missing key.
- `PendingListed`: recovery sees session and run, split, for every key whose
  receipt is not committed.
- `PathsCollisionFree`: what is filed under a token is never replaced. It holds
  on one network and fails on two.

- `ImplementsVault`: refinement of `KeyVault`: through all throws and crashes a
  key is in one place, and moves only along the path of its own receipt.

These six are checked on one network only. On two, the collision that
`KeystoreNetworks` shows loses keys, and `/share` can answer with the key of
another network's receipt.

- `ListsExact`, `IndexAgrees`: array and mapping of an index say the same, each
  user or token once and within the limit; the two indexes differ only in what a
  batch granted, which writes one of them only.
- `GrantsOfOwner`: whoever may use a token has it from its present owner, unless
  the token came by the inherited `transferFrom`.
- `CloneFaithful`, `DataFrozen`: a clone has the data and creator of its source,
  and nobody changes what a token says once its mint is over. A clone made by a
  receiver of the token it is just being minted has neither, and stays without.
- `AnswerIsOwnToken`: the id `mint()` answers with, under which the key is then
  filed, is that of its own token.
- `CeilingFresh`: a cached ceiling in use is not below a token minted before it
  was asked for.
- `PayloadFaithful`, `AgentComplete`: a scan lists receipts only, newest first,
  none twice, and leaves none out within its reach that was wanted all the time.
- `PollServed`: a request that waits has a scan under way that settles it.

- `BadgeTruthful`: a badge says what was true of the entry while it was asked
  about, whatever the oracle was before and after.
- `AggregateAgrees`: with no rotation and no failed call, badges and headline
  come to what the server's aggregate says.
- `ShownMatchesAnchor`: entries are on the screen only for the log the token
  anchors, and those of an encrypted log only with its key.
- `CascadeOrderly`, `CascadeEnds`: one loop at a time, in order, with button and
  ticker agreeing at the end; and it ends.
- `WalletKept`: a wallet the user was told to fund, by a banner or by the footer of
  `install.sh`, stays in `wallet.json`, unless first starts or installs that found
  no file overlapped or the operator moved it.
- `SessionWhole`: each hook finds all entries of its session and no others.
- `OwnEntriesGreen`: what a gateway signs is green on the page, and the address
  its commands name is the one that signs and pays, unless `openclaw.json` names
  another: the operator's choice, or a wallet that `install.sh` found there and
  that has since been moved aside, lost to an overlap or overridden.
- `AdapterTruthful`: a valid verdict names an oracle that was in force during the
  call and signed this body under these headers, an invalid one who did sign;
  only a call that failed, or a `v` the contract refuses, is reported as a call
  that failed; no response as agent-wrapper writes it is refused.
- `AdapterAgrees`: under one oracle the page comes to what the adapter did for
  the entry logged of the response, but for entries the agent signed itself,
  which the page lets pass and the adapter's oracle does not vouch for.

### Fairness

`FairSpec` asks weak fairness of `Uploading(l)` (`StorageClient.upload` races
its request against a 30 s timer, so it always resolves) and of
`Committing(l)` (synchronous code). Nothing is asked of the mint, because
`tx.wait()` has no deadline, nor of the network, the harness or the operator.

`Verification` asks weak fairness of `CascadeStep(l)`: between two state updates
of the cascade there is one `fetch` or contract call, which the browser settles
one way or the other. Nothing is asked of the visitor, of the owner of the oracle
or of the server's rendering.

### Where code and comments disagree

1. `pendingAnchors` keeps the plaintext until the mint is over
   (`index.ts:978`), not until the flush (`index.ts:122-131`).
2. `retryMint` mints another token (`SessionAnchor.ts:267`);
   `keystore.ts:22-25` says it produces the same tokenId.
3. `runMetadata.delete` after the anchor (`index.ts:1484`) removes what the
   next message stored; the next receipt repeats the last run's tool calls.
4. A second message during a run moves `runStartTime` (`index.ts:579`); the
   receipt misses the calls made before it.

5. A committed key is filed by token id alone (`keystore.ts:223`). After the
   switch of networks that `networks.mdx:52-75` describes, the first receipt of
   the new network replaces the key of the old network's token with that id;
   `keystore.ts:527-529` calls the path collision-free by construction.

6. SessionView gives `unverified` to an entry whose call failed
   (`SessionView.tsx:123`, `145-153`); its line 42 reserves that for bad
   signatures and has `error` for transport failures.

Without a run of their own, as they need no interleaving to be seen:

- `index.ts:99-102` says the wallet's address is the configured agentId. The
  agentId is written once by `install.sh`; after a wallet override or a new
  wallet, entries are signed by a key they do not name, and `/agentscan_wallet`
  tells the user to fund an address that neither signs nor pays
  (`index.ts:2016-2049`). `OwnEntriesGreen` names these cases as its exceptions.
- `index.ts` says that registration throws only when the client cannot be built;
  `resolveWallet` throws as well. The header of `wallet.test.ts` (line 8) speaks
  of a fall through to a fresh wallet, its tests of a hard failure.
- The header of the entry route (`entry/[seq]/route.ts:8-10`) says that the client
  "fires N parallel GETs against this endpoint — one per entry seq". The loop of
  `verifyOnChain` awaits each call before it makes the next
  (`SessionView.tsx:95-154`); `CascadeOrderly` is about that loop. With parallel
  calls badges would arrive in any order.
- `verify-proof.ts:668-670` and `entry/[seq]/route.ts:20-23` say that an unsigned
  entry's badge stays grey; the badge is amber (`EntryCard.tsx:498-503`).
- `install.sh:156` reports a fresh wallet "generated" and `wallet.test.ts` has one
  process at a time: nothing speaks of the start of a gateway between the test at
  135 and the write at 150, which loses the wallet that gateway announced
  (`WalletKept` names the case).
- `IERC7857Cloneable.sol:8` speaks of "duplicating an NFT's intelligent data to a
  new token". A receiver that clones its token from inside `onERC721Received`
  gets a clone that is empty for good, since the source's data come afterwards
  (`CloneFaithful` names the case). The plugin mints to an account without code,
  so no receipt is concerned.
- The comment of `pickSessionKey` (`index.ts:1645-1655`) says that agent, tool and
  session hooks all have the `sessionId`. `message_received`, which is none of
  these, takes it as optional (`index.ts:563`). `SessionWhole` is about a harness
  that supplies it there too; with the routing key alone the message would go to
  another logger than its session's.
- `AgenticIDClient.ts:246` expects a revert 'Empty data array', which the
  contract does not have.
- The walk of the feed covers 65 ids at depth 64; concurrent requests do not share
  the search for the ceiling (`feed.ts:181-182`): pages and the route each
  search by themselves.
- A revert without a reason becomes a 502 in the entry route, which
  `verify-proof.ts:819-834` means for outages, and `error` in the browser
  (`client-verify.ts:126-132`).
- The headline goes on with "Auto-verifying" after a cascade that left only
  `unsigned` and `error` (`SessionView.tsx:320-331`); an empty log is "all
  verified" there while the aggregate is `preview`; during a replay the ticker may
  say "all verified" between two entries, since the badges of the cascade before
  stay.
- A signature without attestation fields makes the aggregate `unverified`, its
  badge `unsigned`.
- An agent's page shows "every session by one agent" (`page.tsx:2`), but its
  table polls `/api/feed`, which is everybody's (`FeedTable.tsx:41`).
- `TEEProofAdapter.ts:201-205` calls a contract call that fails after the local
  recovery succeeded "genuinely a transport problem". ethers normalizes a `v` of
  0, 1 or 35 and more, as a comment of `tee-proof-flow.test.ts` notes for
  `0xff`, and the contract's ECDSA does not, so a loose signature is reported as
  an outage (`AdapterTruthful` names the case).
- `HeaderParser.ts:191-195` calls its final check unreachable; a timestamp of more
  than 308 digits is `Infinity` and reaches it.
- The adapter rejects what an agent signed with its own key, the page shows it
  green; the adapter's invalid verdict on a broken signature is a 502 there.
- The native `/share` passes its arguments on as one string, the inbound one
  takes the first word.

The advice at `index.ts:1079-1081`, that the contents are unrecoverable when the
pending file is gone after a failed commit, is too pessimistic: when it is the
pointer that could not be written, the key is already filed, which `KeyKept`
relies on.

The comment at `index.ts:1480-1483` also says that a failed flush left the
logger in `state.sessions`; it is in `pendingAnchors` only. Were it true,
`StoredLogFrozen` would fail: the mutant `UploadFailsRebinding` is that code.

## Proofs

Eight modules hold proofs. Those of `AnchorPlugin` hold for any sessions, any
bounds and any set of quirks, from `BoundsAssumption` (the bounds are natural
numbers) and `QuirksAssumption`.

`TypeCorrect` : `Spec => []TypeOK`.

`KeysOpenReceipts` and `KeysOutliveCiphertexts` : `Spec => []KeyOpensReceipt`
and `Spec => []KeyOutlivesCiphertext`. Neither is inductive: `UploadLands`
stores an envelope under `anchor[l].key`, and `CommitPending` files whatever
key stands under `anchor[l].name`, so one has to know how `anchor`, `pending`
and `chain` fit together. The inductive invariant is `IInv`, `TypeOK` with
`KeyInv`, whose parts are

- `AnchorsNamed`: a logger that was ever handed to `anchorRun` has a pending
  name and the key generated for that name, and only such a logger has a request
  on the wire;
- `AnchorsMinted`: the token an anchor knows of was minted under its key, and an
  anchor past the mint knows one;
- `BlobsBacked`: whoever mints, may mint, or takes the upload for done has its
  envelope in storage;
- `PendingNamed`: a pending file holds the key of the run it names;
- the two properties themselves.

`IInv` was checked as an invariant of the safety instance before it was proved.
The proof has one lemma per group of actions and one step per conjunct that the
action can disturb.

`AnchorPlugin_logs` adds `NoLogIsDropped`, `EventsAreCapturedOnce`,
`StoredLogsAreFrozen` and `OneReceiptWithoutRetries`. They rest on `LogInv`, which
says who refers to a logger at which point of its life:

- `LoggersCounted`: only allocated loggers are bound, anchored or written to, so
  that the logger getOrCreate makes is empty;
- `BoundIdle`: a session's logger is its own and not anchored yet, which is why
  what a hook appends reaches no log that is on its way;
- `RegistryNamed`: `pendingAnchors` keeps an anchored logger under its own name,
  and no two anchors have one name, so removing an entry forgets no other log;
- `BlobsAnchored`, `EntriesCaptured`: an envelope in storage is an anchored
  logger's, and entries are captured events;
- `CapturedOnce` and `NothingDropped` themselves.

`StoredLogsAreFrozen` follows from `BlobsAnchored` and `BoundIdle` step by step.
`OneReceiptWithoutRetries` assumes `MaxRetries = 0`, since a retry by hand after a
mint that landed late does mint twice, as the run `anchor_retry_mint` shows;
its invariant `MintedOnce` bounds the tokens of a log by where its anchor stands.

`ToolCallsAreAnchoredOnce` and `RotatedLogsAreComplete` are about the transcript.
They assume `OneQuietChat`: one session, whose user waits for each receipt before
the next message, whose runs all begin with a message, and which is not closed
under a run. Each part of it is needed: without the waiting they are false, as
`TranscriptOverlap` and `TranscriptQueue` show, a run without a message has no
start of its own, and a second session may be the one whose metadata is found.
Late hooks, removed pending files, crashes and retries by hand are all
allowed, and so are failures for the first of the two; completeness assumes also
that the transcript's directory is there (`"nodir"`) and that reading and
appending do not fail (`"faults"`): a transcript that does not parse, or an entry
that cannot be signed, leaves a log that is anchored without its tool calls
(`index.ts:1167-1180`, `1219-1232`). The invariant is `TranscriptInv`:

- `EventsPast`, `InboxIdle`: events are not of the future; no run goes on while a
  message waits;
- `RunsStamped`: an expected run has its start, and no handler is about to
  delete it;
- `EarlierExcluded`: that start is later than every tool call of earlier runs, by
  more than the filter's slack;
- `ThisRunUnlogged`: what the run did so far is at or after its start and in no log;
- `TranscriptOnce` itself.

It was checked over the instance of `TranscriptQuiet` before it was proved.

`PluginImplementsReceipts` : `Spec => ImplementsReceipts`. The mapping reads
`saved` as the keys on disk with those the operator deleted. `IInv` supplies
the guards of `Store` (the key is saved), `Mint` (the envelope is stored) and
`File` (the key is the one of the token); all other steps change none of the
mapped variables or save a key.

`Keystore_proof`. `KeystoreTypes` holds for any networks. The others,
`KeysAreKept`, `PathsAreCollisionFree`, `PendingIsListed`, `LastReceiptOpens` and
`ShareOpensTheReceipt`, are lemmas of the form `ASSUME OneNetwork PROVE ...`, with
`OneNetwork` that there is one `Chain`: on two they are false, as the run
`KeystoreNetworks` shows for the path. They rest on `KeyInv`:

- `PendingNamed`, `TokensKeyed`: what is filed under a pending name is the key
  of that run, and under a token the key of the one run that minted it;
- `KeysHeld`: from the first file step of setPending on, the key is filed
  somewhere or was removed by the operator;
- `SidecarsKept`: a pending key an envelope may need has its sidecar;
- `PointerBacked`: the pointer names a token whose key is filed or was removed
  by the operator.

`FilesImplementVault`, on one network as well, is `Spec => ImplementsVault`. The
steps on files are matched one by one: setPending's first write to `Save`, the
rename and `put` to `File`, the removals to `Remove`, the pointer's write to
`PointTo`, the rest to stutters. `KeyInv` alone does not make `Place` a function
of the files: `CopyInv` adds that no key is in two of them, that a run that is
still saving is filed nowhere else, and that a new run was never anywhere.

With two networks `TokensKeyed` is what breaks. The invariant was checked over
the instance of `KeystoreFiles` before it was proved.

`AgenticID_proof` is about `ContractSpec`, from `ContractAssumption` and
`ArrayAssumption` (what is minted and batched are arrays). Its invariant is the
types, `SupplyExact` (a token has an owner from its mint on, and before it no
data and nobody authorised), `CloneFaithful`, `CallsExact` and `RightsInv`: both
indexes exact, `IndexAgrees`, each grant on record is a live one, and
`GrantsOfOwner`. It has to be one invariant, since a transfer clears the
per-user index by going through the per-token list, and would leave entries
behind if the list missed one. The lemmas on `Append` and `SwapPop` say what
they do to the set of elements, to their being distinct and to the length; the
loops of the contract are not recursive operators, but what they find
(`FirstAt`). `CallsExact` is about the calls that are waiting for a receiver:
nothing is written yet of a token with an open frame, it has one frame and is no
clone that is done, and a finished clone of it is an early one. That is why the
write which ends a mint cannot part a token from a clone made before it, other
than those in `early`.

`Gateway_proof` is about `GatewaySpec`, from `GatewayAssumption`.
`FundedWalletStays` rests on `GInv`, which adds two facts to the types and the
property. `FileRaced`: while a gateway or a shell is about to write the wallet
it found no file for, whatever wallet is in the file was put there by another
that overlapped it. It begins with no file, and every write that finds a second
one under way records both in `raced`; it is what allows a write to replace what
is there. `ReadKept`: the wallet a shell has read, and will announce in its
footer many commands later, is still in the file, or was moved aside, or raced.
`HooksFindTheirSession` needs the types only.

`OwnEntriesAreGreen` is about `PageAndHost`, page and gateways side by side. Its
invariant `IdentityInv` traces the `agentId` of `openclaw.json`: it is the
wallet in the file, or one that was moved aside or lost to an overlapping first
start or install, or the operator's own choice, and so is what a shell is about
to write there; and a live gateway whose agentId is not its signer got it from
there or signs with the wallet of the environment. That a wallet never replaces
another in the file, unless the two overlapped, is what keeps the trace.
`PageAndHostTypes` says that the types hold with all parts moving.

`Verification_proof` is about `Spec` of `Verification`, from
`VerificationAssumption`: receipts and logs of any length, any oracles, any number
of loops, replays, reloads and rotations. Its invariant `IInv` has the parts

- `GivenOK`, `PageOK`: the receipt, the key and the oracle are what they may be,
  entries are on the screen only of a page whose log was found in order, and of
  an encrypted one only once it was opened with its key;
- `LoopOK`: one cascade at most. It carries `BadgeTruthful` as well: asking about an
  entry resets the oracles in force for it, and a second loop would do so under
  the first;
- `BadgeOK`: each badge says what is true of its entry (`Says`), and the entries
  this cascade has answered for are the first ones of the log;
- `AskOK`: the entry being asked about stands right after those, and an answer in
  hand is as true as a badge.

`BadgesAreTruthful`, `EntriesMatchTheAnchor` and `CascadesAreOrderly` follow.
`AggregateMatchesBadges` also needs `AggregateOK`: as long as the oracle was not
rotated, the server's status and the browser's badges were reached under one
oracle, so both can be compared with what the entries are (`Passes`, `Fails`),
of which the aggregate and the badges are then two summaries.

`VerdictsAreTruthful` and `VerdictsAgreeWithThePage` are about `AdapterSpec`,
from `AdapterAssumption` (the two names for no signer are none) on top of
`VerificationAssumption`. `AdapterInv` remembers what brought an attempt to its
state: parsed headers have no refusal; the signer held while the contract is
asked is the one recovered, and the oracle of the moment is among those counted;
a verdict was given by one of them; a failure has its cause. It was checked over
the instance of `VerifyPage` before it was proved.

`Clients_proof` is about `ClientSpec` and `FeedSpec`: the client, or the scans,
with the rest of the world using the contract in between. It takes from
`AgenticID_proof` that a minted token stays minted and keeps its data
(`MintedStay`).

- `MintAnswersOwnToken`: `ReceiptsOwn` says that a mined receipt names a token its
  call alone minted, with its data; `AnswersFollow` that an answer repeats the
  receipt.
- `RowsAreFaithful`, `AgentsSeeTheirOwn`, `PollsAreServed`: `WalkOK` says of a
  walk that its rows are receipts, strictly falling and above where it stands,
  and that every receipt it still owes is at or below that. When it ends, only
  the limit on its rows can have kept one out.
- `CachedCeilingIsFresh`: a search has a `Bracket`, below which there is a token
  or none at all, and `Above` whose upper end nothing is older than the
  question. Tokens are younger than every question under way when they are
  minted, and age with it. It assumes `2 * MaxTokens <= ProbeCeiling`: with more
  tokens than half of `PROBE_SAFETY_CEILING` (2^32) the probe gives up and
  returns less, as the comment at `feed.ts:243-246` says.

- `ChainTypes`: with contract, client and scans side by side (`ChainMC`), each
  stays well typed. The contract's own invariant has to be carried along, as the
  client's answers and the scans' rows speak of its tokens.

The scenes of `ChainMC` and `VerificationMC` restrict `ContractSpec`, `ClientSpec`,
`FeedSpec` and `GatewaySpec` to fewer actions at a time, so what is proved of
these is more than the runs check: all of the next-state relation interleaved.

Only model-checked: `WaitsOnlyForChain` and `CascadeEnds`. They are liveness
properties, which need `ENABLED` to reason about fairness and are out of the
prover's reach. Every other property of a passing run is stated by a theorem. The
properties the six failing runs refute are no theorems, of course; `TranscriptOnce`,
`TranscriptComplete` and `PathsCollisionFree` are under the hypotheses that those
runs drop.

## Plan

1. *Done:* the anchor pipeline, its abstract specification and the proofs.
2. *Done:* the keystore's file steps, with `/share` and recovery reading them,
   and the proofs.
3. *Done:* `AgenticID`, `MintClient` and `Feed` with the proofs.
4. *Done:* `Verification` and `Gateway` with the proofs.
5. *Done:* the proofs of the transcript properties; `KeyVault`, which `Keystore`
   implements; the compositions in `ChainMC` and `VerificationMC`; `TEEAdapter`.
6. *Left:* a transcript parser of its own with two sessions in one workspace and
   times at the boundaries of slack and lookback; a quirk that repeats a run id;
   a last-receipt pointer compared with the order of the runs.

## Not modelled, and why

- Cryptography and hashing: a key is an identity, a signature its signer.
- The fields of the configuration but the agentId, logging, the formatting of
  tool results: no property speaks of them.
- `delegateAccess`, `tokenURI` and `withdraw` of the contract: nothing else in
  the repository calls or reads them.
- The adapter's constructor, which picks a provider and throws where none is given.
- Rendering, the polling of `FeedTable`, the documentation site and the scripts.
