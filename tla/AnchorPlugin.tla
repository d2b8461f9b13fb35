---------------------------- MODULE AnchorPlugin ----------------------------
(***************************************************************************)
(* The verifiable-execution plugin: it captures what an agent does into    *)
(* one SessionLogger per run, and at the end of the run encrypts the log   *)
(* under a fresh key, uploads it to 0G Storage, mints an AgenticID token   *)
(* on its root hash and files the key under the token id.                  *)
(*                                                                         *)
(* JavaScript runs one handler at a time up to its next await, so every    *)
(* stretch of code between two awaits is one action here; hooks, network   *)
(* answers and process crashes interleave between them.                    *)
(***************************************************************************)
EXTENDS Integers, Sequences, FiniteSets

CONSTANTS
    Session,      \* keys pickSessionKey returns, one per chat session
    MaxLoggers,   \* bound: SessionLogger objects ever allocated
    MaxRuns,      \* bound: run ids ever used, and keys ever generated
    MaxTokens,    \* bound: tokens ever minted
    MaxEvents,    \* bound: captured hook events and transcript tool calls
    MaxTools,     \* bound: transcript tool calls among them
    MaxClock,     \* bound: the last instant
    Lookback,     \* the five minutes of injectTranscriptToolEntries
    Slack,        \* the 250 ms of parseTranscriptToolCalls
    MaxCrashes,   \* bound: crashes of the gateway process
    MaxRetries,   \* bound: recoveries an operator starts
    Quirks        \* what the harness, the disk and the operator may do

(***************************************************************************)
(* "queue": a message arrives while a run of the session is under way;     *)
(* "overlap": a message arrives while a run of it is being anchored;       *)
(* "heartbeat": a run no message started; "late": a hook of a run fires    *)
(* after its agent_end; "close": session_end; "faults": reading or parsing *)
(* the transcript, signing, or a keystore write throws; "wipe": the        *)
(* operator deletes a pending key file; "nodir": agent_end comes without a *)
(* workspaceDir.                                                           *)
(* A run id is never used twice: the harness numbers its runs, and the     *)
(* fallbacks are 128 random bits.                                          *)
(***************************************************************************)
AllQuirks == {"queue", "overlap", "heartbeat", "late", "close", "faults", "wipe", "nodir"}

ASSUME BoundsAssumption ==
    /\ MaxLoggers \in Nat /\ MaxRuns \in Nat /\ MaxTokens \in Nat
    /\ MaxEvents \in Nat /\ MaxTools \in Nat /\ MaxClock \in Nat
    /\ Lookback \in Nat /\ Slack \in Nat
    /\ MaxCrashes \in Nat /\ MaxRetries \in Nat
ASSUME QuirksAssumption == Quirks \subseteq AllQuirks

VARIABLES
    sessions,       \* SessionManager.loggers: the logger bound to a session
    runMetadata,    \* per session: runStartTime, and whether the path is pinned
    pendingAnchors, \* retry registry: pendingKeyName -> un-flushed logger
    entries,        \* per logger: the events appended to it
    seal,           \* per logger: its flushing and flushed flags
    anchor,         \* per logger: where its anchorRun stands
    pending,        \* disk: keystore/pending/<pendingKeyName>.key
    committed,      \* disk: keystore/<tokenId>.key
    lastReceipt,    \* disk: keystore/last-receipt.json
    wire,           \* per logger: the request the network still holds
    blobs,          \* 0G Storage: <<logger, key>> of every stored envelope
    chain,          \* AgenticID: the minted tokens, in order
    events,         \* everything captured or written to a transcript
    runFrom,        \* per session: NotRunning, or how many events preceded its run
    inbox,          \* per session: a message waits for a run
    clock,
    tally,          \* how many loggers, runs, crashes, retries so far
    ghosts          \* gone: loggers a crash took; wiped: keys the operator deleted

memVars  == <<sessions, runMetadata, pendingAnchors, entries, seal, anchor>>
diskVars == <<pending, committed, lastReceipt>>
netVars  == <<wire, blobs, chain>>
envVars  == <<events, runFrom, inbox, clock>>
vars     == <<memVars, diskVars, netVars, envVars, tally, ghosts>>

Logger   == 1..MaxLoggers
Run      == 1..MaxRuns
Key      == 1..MaxRuns
Token    == 1..MaxTokens
Event    == 1..MaxEvents
Name     == Session \X Run          \* `${sessionKey}|run:${runId}`
None     == 0                       \* no logger, key or token
NotRunning == -1
NoMeta   == [start |-> -1, pinned |-> FALSE]

InFlight == {"uploading", "minting", "minted"}
NoName   == <<>>
PC       == {"idle", "unflushed", "unminted", "uncommitted", "done", "lost"} \cup InFlight
Prefix   == {"exec-log", "exec-log-orphan"}   \* dataDescriptionPrefix
Anchor   == [pc : PC, name : Name \cup {NoName}, key : Key \cup {None},
             prefix : Prefix, by : {"hook", "operator"}, token : Token \cup {None}]
Receipt  == [log : Logger, key : Key, prefix : Prefix]
Tally    == [loggers : 0..MaxLoggers, runs : 0..MaxRuns,
             crashes : 0..MaxCrashes, retries : 0..MaxRetries]
Ghosts   == [gone : SUBSET Logger, wiped : SUBSET Key]
EventRec == [session : Session, at : 0..MaxClock, via : {"hook", "transcript"}]

MemTypeOK ==
    /\ sessions \in [Session -> Logger \cup {None}]
    /\ runMetadata \in [Session -> [start : -1..MaxClock, pinned : BOOLEAN]]
    /\ pendingAnchors \in [Name -> Logger \cup {None}]
    /\ entries \in [Logger -> SUBSET Event]
    /\ seal \in [Logger -> {"open", "flushing", "flushed"}]
    /\ anchor \in [Logger -> Anchor]

DiskTypeOK ==
    /\ pending \in [Name -> Key \cup {None}]
    /\ committed \in [Token -> Key \cup {None}]
    /\ lastReceipt \in Token \cup {None}

NetTypeOK ==
    /\ wire \in [Logger -> {"none", "upload", "mint"}]
    /\ blobs \subseteq Logger \X Key
    /\ chain \in Seq(Receipt) /\ Len(chain) <= MaxTokens

EnvTypeOK ==
    /\ events \in Seq(EventRec) /\ Len(events) <= MaxEvents
    /\ runFrom \in [Session -> -1..MaxEvents]
    /\ inbox \in [Session -> BOOLEAN]
    /\ clock \in 0..MaxClock
    /\ tally \in Tally
    /\ ghosts \in Ghosts

(* Every variable has its type, in memory, on disk, on the wire and around.*)
TypeOK == MemTypeOK /\ DiskTypeOK /\ NetTypeOK /\ EnvTypeOK

Init ==
    /\ sessions = [s \in Session |-> None]
    /\ runMetadata = [s \in Session |-> NoMeta]
    /\ pendingAnchors = [n \in Name |-> None]
    /\ entries = [l \in Logger |-> {}]
    /\ seal = [l \in Logger |-> "open"]
    /\ anchor = [l \in Logger |-> [pc |-> "idle", name |-> NoName, key |-> None,
                                   prefix |-> "exec-log", by |-> "hook", token |-> None]]
    /\ pending = [n \in Name |-> None]
    /\ committed = [t \in Token |-> None]
    /\ lastReceipt = None
    /\ wire = [l \in Logger |-> "none"]
    /\ blobs = {}
    /\ chain = <<>>
    /\ events = <<>>
    /\ runFrom = [s \in Session |-> NotRunning]
    /\ inbox = [s \in Session |-> FALSE]
    /\ clock = 0
    /\ tally = [loggers |-> 0, runs |-> 0, crashes |-> 0, retries |-> 0]
    /\ ghosts = [gone |-> {}, wiped |-> {}]

-----------------------------------------------------------------------------
(***************************************************************************)
(* Capture hooks.  Each gets or allocates the session's logger, then signs *)
(* and appends one entry; a throw in the second half is swallowed.         *)
(***************************************************************************)

(* appendEntry refuses a logger that is flushing or flushed. *)
Capture(s) ==
    LET fresh == sessions[s] = None
        l     == IF fresh THEN tally.loggers + 1 ELSE sessions[s]
        i     == Len(events) + 1
    IN  /\ l \in Logger
        /\ sessions' = [sessions EXCEPT ![s] = l]
        /\ tally' = [tally EXCEPT !.loggers = IF fresh THEN l ELSE @]
        /\ \/ /\ i \in Event
              /\ events' = Append(events, [session |-> s, at |-> clock, via |-> "hook"])
              /\ entries' = IF seal[l] = "open" THEN [entries EXCEPT ![l] = @ \cup {i}]
                                                ELSE entries
           \/ /\ "faults" \in Quirks
              /\ UNCHANGED <<events, entries>>
        /\ UNCHANGED <<pendingAnchors, seal, anchor, diskVars, netVars, clock, ghosts>>

Transcript(s) == {i \in DOMAIN events : events[i].via = "transcript" /\ events[i].session = s}

(* When the user of s may send: the quirks aside, the last run is over and *)
(* anchored, and its tool calls are older than the slack the filter grants.*)
MayMessage(s) ==
    /\ runFrom[s] = NotRunning \/ "queue" \in Quirks
    /\ \/ \A l \in Logger : anchor[l].pc \in InFlight => anchor[l].name[1] # s
       \/ "overlap" \in Quirks
    /\ runFrom[s] = NotRunning => \A i \in Transcript(s) : events[i].at + Slack < clock

MessageReceived(s) ==
    /\ MayMessage(s)
    /\ runMetadata' = [runMetadata EXCEPT ![s] = [start |-> clock, pinned |-> FALSE]]
    /\ inbox' = [inbox EXCEPT ![s] = TRUE]
    /\ Capture(s)
    /\ UNCHANGED runFrom

BeforePromptBuild(s) ==
    /\ runFrom[s] = NotRunning
    /\ inbox[s] \/ "heartbeat" \in Quirks
    /\ runFrom' = [runFrom EXCEPT ![s] = Len(events)]
    /\ inbox' = [inbox EXCEPT ![s] = FALSE]
    /\ Capture(s)
    /\ UNCHANGED runMetadata

AfterToolCall(s) ==
    /\ runFrom[s] # NotRunning \/ "late" \in Quirks
    /\ Capture(s)
    /\ UNCHANGED <<runMetadata, runFrom, inbox>>

(* One entry per content block, or one for the whole response. *)
LlmOutput(s) ==
    /\ runFrom[s] # NotRunning \/ "late" \in Quirks
    /\ Capture(s)
    /\ UNCHANGED <<runMetadata, runFrom, inbox>>

(* As if the start of the run were taken when it is finalized. *)
BeforeAgentFinalizeRestarts(s) ==
    /\ runFrom[s] # NotRunning
    /\ runMetadata' = [runMetadata EXCEPT ![s] = [start |-> clock, pinned |-> TRUE]]
    /\ UNCHANGED <<sessions, pendingAnchors, entries, seal, anchor, diskVars, netVars,
                   envVars, tally, ghosts>>

(* An earlier runStartTime survives. *)
BeforeAgentFinalize(s) ==
    /\ runFrom[s] # NotRunning
    /\ runMetadata' = [runMetadata EXCEPT ![s] =
           [start |-> IF @.start = NoMeta.start THEN clock ELSE @.start, pinned |-> TRUE]]
    /\ UNCHANGED <<sessions, pendingAnchors, entries, seal, anchor, diskVars, netVars,
                   envVars, tally, ghosts>>

(* claude-cli runs a tool of its own and writes it to its session jsonl. *)
CliToolCall(s) ==
    /\ runFrom[s] # NotRunning
    /\ Len(events) < MaxEvents
    /\ Cardinality({i \in DOMAIN events : events[i].via = "transcript"}) < MaxTools
    /\ events' = Append(events, [session |-> s, at |-> clock, via |-> "transcript"])
    /\ UNCHANGED <<memVars, diskVars, netVars, runFrom, inbox, clock, tally, ghosts>>

Tick ==
    /\ clock < MaxClock
    /\ clock' = clock + 1
    /\ UNCHANGED <<memVars, diskVars, netVars, events, runFrom, inbox, tally, ghosts>>

-----------------------------------------------------------------------------
(***************************************************************************)
(* agent_end and session_end, up to the upload they await.                 *)
(***************************************************************************)

(* The jsonl read at agent_end: the pinned one, else the most recently     *)
(* modified one of the workspace, whichever session writes to it.          *)
TranscriptPath(s, workspaceDir) ==
    LET written == {i \in DOMAIN events : events[i].via = "transcript"}
    IN  IF runMetadata[s].pinned THEN {s}
        ELSE {events[i].session : i \in {j \in written :
                  workspaceDir /\ \A k \in written : k <= j}}

WorkspaceDir == IF "nodir" \in Quirks THEN BOOLEAN ELSE {TRUE}

RunStartTime(s) ==
    IF runMetadata[s].start = NoMeta.start THEN clock - Lookback ELSE runMetadata[s].start

(* As if the transcript were read without the filter on the run's start. *)
InjectedUnfiltered(s, workspaceDir) ==
    UNION {Transcript(f) : f \in TranscriptPath(s, workspaceDir)}

(* What injectTranscriptToolEntries finds; an id already there is skipped. *)
Injected(s, workspaceDir) ==
    {i \in UNION {Transcript(f) : f \in TranscriptPath(s, workspaceDir)} :
        events[i].at >= RunStartTime(s) - Slack}

(* What it appends: a transcript that does not parse gives nothing, and a  *)
(* call whose entry cannot be signed or appended is skipped.               *)
Appended(s, workspaceDir) ==
    IF "faults" \in Quirks THEN SUBSET Injected(s, workspaceDir) ELSE {Injected(s, workspaceDir)}

RunEnds(s) ==
    /\ runFrom[s] # NotRunning
    /\ runFrom' = [runFrom EXCEPT ![s] = NotRunning]
    /\ UNCHANGED <<events, inbox, clock>>

(* The logger the handler finds, with what was appended of the transcript. *)
Inject(s, added) == entries' = [entries EXCEPT ![sessions[s]] = @ \cup added]

(* has() is false: session_end took the logger, or a crash did. *)
AgentEndSkips(s) ==
    /\ RunEnds(s)
    /\ sessions[s] = None
    /\ UNCHANGED <<memVars, diskVars, netVars, tally, ghosts>>

AgentEndEmpty(s, added) ==
    /\ RunEnds(s)
    /\ sessions[s] # None
    /\ entries[sessions[s]] \cup added = {}
    /\ sessions' = [sessions EXCEPT ![s] = None]
    /\ runMetadata' = [runMetadata EXCEPT ![s] = NoMeta]
    /\ UNCHANGED <<pendingAnchors, entries, seal, anchor, diskVars, netVars, tally, ghosts>>

(* event.runId, or a random one, and generateKey(): both are r, as neither *)
(* was used before.                                                        *)
FreshRun(r) ==
    /\ r = tally.runs + 1
    /\ tally' = [tally EXCEPT !.runs = r]

(* As if the key file were written in place: a throw leaves half a key. *)
SetPendingTears(n, k) ==
    /\ "faults" \in Quirks
    /\ pending' \in {pending, [pending EXCEPT ![n] = -1]}
    /\ UNCHANGED <<committed, lastReceipt>>

(* setPending throws: the key file may have been written, the sidecar not. *)
SetPendingThrows(n, k) ==
    /\ "faults" \in Quirks
    /\ pending' \in {pending, [pending EXCEPT ![n] = k]}
    /\ UNCHANGED <<committed, lastReceipt>>

AgentEndKeyFails(s, r, added) ==
    /\ RunEnds(s)
    /\ sessions[s] # None
    /\ entries[sessions[s]] \cup added # {}
    /\ Inject(s, added)
    /\ FreshRun(r)
    /\ SetPendingThrows(<<s, r>>, r)
    /\ UNCHANGED <<sessions, runMetadata, pendingAnchors, seal, anchor, netVars, ghosts>>

(* As if the pending file were named by the session alone. *)
TakeAndAnchorBySession(s, r, prefix) ==
    LET l == sessions[s]
        n == <<s, 1>>
        k == r
    IN  /\ FreshRun(r)
        /\ pending' = [pending EXCEPT ![n] = k]
        /\ sessions' = [sessions EXCEPT ![s] = None]
        /\ pendingAnchors' = [pendingAnchors EXCEPT ![n] = l]
        /\ seal' = [seal EXCEPT ![l] = "flushing"]
        /\ anchor' = [anchor EXCEPT ![l] = [pc |-> "uploading", name |-> n, key |-> k,
                          prefix |-> prefix, by |-> "hook", token |-> None]]
        /\ wire' = [wire EXCEPT ![l] = "upload"]
        /\ UNCHANGED <<runMetadata, committed, lastReceipt, blobs, chain>>

(* As if the logger stayed bound to its session while it is anchored. *)
TakeAndAnchorLate(s, r, prefix) ==
    LET l == sessions[s]
        n == <<s, r>>
        k == r
    IN  /\ FreshRun(r)
        /\ pending' = [pending EXCEPT ![n] = k]
        /\ pendingAnchors' = [pendingAnchors EXCEPT ![n] = l]
        /\ seal' = [seal EXCEPT ![l] = "flushing"]
        /\ anchor' = [anchor EXCEPT ![l] = [pc |-> "uploading", name |-> n, key |-> k,
                          prefix |-> prefix, by |-> "hook", token |-> None]]
        /\ wire' = [wire EXCEPT ![l] = "upload"]
        /\ UNCHANGED <<sessions, runMetadata, committed, lastReceipt, blobs, chain>>

(* setPending, takeAndRelease, pendingAnchors.set, and anchorRun up to its  *)
(* first await: flush() locks the logger and hands the envelope to upload. *)
TakeAndAnchor(s, r, prefix) ==
    LET l == sessions[s]
        n == <<s, r>>
        k == r
    IN  /\ FreshRun(r)
        /\ pending' = [pending EXCEPT ![n] = k]
        /\ sessions' = [sessions EXCEPT ![s] = None]
        /\ pendingAnchors' = [pendingAnchors EXCEPT ![n] = l]
        /\ seal' = [seal EXCEPT ![l] = "flushing"]
        /\ anchor' = [anchor EXCEPT ![l] = [pc |-> "uploading", name |-> n, key |-> k,
                          prefix |-> prefix, by |-> "hook", token |-> None]]
        /\ wire' = [wire EXCEPT ![l] = "upload"]
        /\ UNCHANGED <<runMetadata, committed, lastReceipt, blobs, chain>>

AgentEnd(s, r, added) ==
    /\ RunEnds(s)
    /\ sessions[s] # None
    /\ entries[sessions[s]] \cup added # {}
    /\ Inject(s, added)
    /\ TakeAndAnchor(s, r, "exec-log")
    /\ UNCHANGED ghosts

(* session_end yields one microtask first and reads nothing before it, so  *)
(* the handler is one step; the run of s, if any, goes on without it.      *)
SessionEndEmpty(s) ==
    /\ "close" \in Quirks
    /\ sessions[s] # None
    /\ entries[sessions[s]] = {}
    /\ sessions' = [sessions EXCEPT ![s] = None]
    /\ UNCHANGED <<runMetadata, pendingAnchors, entries, seal, anchor, diskVars, netVars,
                   envVars, tally, ghosts>>

SessionEndKeyFails(s, r) ==
    /\ "close" \in Quirks
    /\ sessions[s] # None
    /\ entries[sessions[s]] # {}
    /\ FreshRun(r)
    /\ SetPendingThrows(<<s, r>>, r)
    /\ UNCHANGED <<memVars, netVars, envVars, ghosts>>

SessionEnd(s, r) ==
    /\ "close" \in Quirks
    /\ sessions[s] # None
    /\ entries[sessions[s]] # {}
    /\ TakeAndAnchor(s, r, "exec-log-orphan")
    /\ UNCHANGED <<entries, envVars, ghosts>>

-----------------------------------------------------------------------------
(***************************************************************************)
(* anchorRun: upload, mint, commit.  A request that was sent may take      *)
(* effect although its sender timed out, saw an error or died.             *)
(***************************************************************************)

(* Where the awaiting handler clears the session's run metadata on return. *)
HandlerReturns(l) ==
    runMetadata' = IF anchor[l].by = "hook"
                   THEN [runMetadata EXCEPT ![anchor[l].name[1]] = NoMeta]
                   ELSE runMetadata

UploadLands(l) ==
    /\ wire[l] = "upload"
    /\ wire' = [wire EXCEPT ![l] = "none"]
    /\ blobs' = blobs \cup {<<l, anchor[l].key>>}
    /\ UNCHANGED <<memVars, diskVars, chain, envVars, tally, ghosts>>

(* As if the mint were sent without waiting for the upload. *)
UploadSucceedsEarly(l) ==
    /\ anchor[l].pc = "uploading"
    /\ seal' = [seal EXCEPT ![l] = "flushed"]
    /\ anchor' = [anchor EXCEPT ![l].pc = "minting"]
    /\ wire' = [wire EXCEPT ![l] = "mint"]
    /\ UNCHANGED <<sessions, runMetadata, pendingAnchors, entries, diskVars, blobs, chain,
                   envVars, tally, ghosts>>

(* flush() resolves; anchor() goes on to iMint without another hook between. *)
UploadSucceeds(l) ==
    /\ anchor[l].pc = "uploading"
    /\ wire[l] = "none"
    /\ seal' = [seal EXCEPT ![l] = "flushed"]
    /\ anchor' = [anchor EXCEPT ![l].pc = "minting"]
    /\ wire' = [wire EXCEPT ![l] = "mint"]
    /\ UNCHANGED <<sessions, runMetadata, pendingAnchors, entries, diskVars, blobs, chain,
                   envVars, tally, ghosts>>

(* As if a failed flush cleared the registry like every other outcome. *)
UploadFailsForgetting(l) ==
    /\ anchor[l].pc = "uploading"
    /\ seal' = [seal EXCEPT ![l] = "open"]
    /\ anchor' = [anchor EXCEPT ![l].pc = "unflushed"]
    /\ pendingAnchors' = [pendingAnchors EXCEPT ![anchor[l].name] = None]
    /\ HandlerReturns(l)
    /\ UNCHANGED <<sessions, entries, diskVars, netVars, envVars, tally, ghosts>>

(* As if a failed flush gave the logger back to its session for the next   *)
(* agent_end to retry.                                                     *)
UploadFailsRebinding(l) ==
    /\ anchor[l].pc = "uploading"
    /\ seal' = [seal EXCEPT ![l] = "open"]
    /\ anchor' = [anchor EXCEPT ![l].pc = "unflushed"]
    /\ sessions' = [sessions EXCEPT ![anchor[l].name[1]] = l]
    /\ HandlerReturns(l)
    /\ UNCHANGED <<pendingAnchors, entries, diskVars, netVars, envVars, tally, ghosts>>

(* As if an upload had no deadline. *)
UploadFailsOnAnswer(l) ==
    /\ anchor[l].pc = "uploading"
    /\ wire[l] = "none"
    /\ seal' = [seal EXCEPT ![l] = "open"]
    /\ anchor' = [anchor EXCEPT ![l].pc = "unflushed"]
    /\ HandlerReturns(l)
    /\ UNCHANGED <<sessions, pendingAnchors, entries, diskVars, netVars, envVars, tally, ghosts>>

(* An error tuple, a rejection, a bad root, or the 30 s deadline: flush()  *)
(* unlocks the logger and the registry keeps it.                           *)
UploadFails(l) ==
    /\ anchor[l].pc = "uploading"
    /\ seal' = [seal EXCEPT ![l] = "open"]
    /\ anchor' = [anchor EXCEPT ![l].pc = "unflushed"]
    /\ HandlerReturns(l)
    /\ UNCHANGED <<sessions, pendingAnchors, entries, diskVars, netVars, envVars, tally, ghosts>>

MintLands(l) ==
    /\ wire[l] = "mint"
    /\ Len(chain) < MaxTokens
    /\ wire' = [wire EXCEPT ![l] = "none"]
    /\ chain' = Append(chain, [log |-> l, key |-> anchor[l].key, prefix |-> anchor[l].prefix])
    /\ anchor' = [anchor EXCEPT ![l].token = Len(chain) + 1]
    /\ UNCHANGED <<sessions, runMetadata, pendingAnchors, entries, seal, diskVars, blobs,
                   envVars, tally, ghosts>>

ForgetLogger(l) ==
    pendingAnchors' = IF anchor[l].by = "hook"
                      THEN [pendingAnchors EXCEPT ![anchor[l].name] = None]
                      ELSE pendingAnchors

MintSucceeds(l) ==
    /\ anchor[l].pc = "minting"
    /\ wire[l] = "none"
    /\ ForgetLogger(l)
    /\ anchor' = [anchor EXCEPT ![l].pc = "minted"]
    /\ UNCHANGED <<sessions, runMetadata, entries, seal, diskVars, netVars, envVars, tally, ghosts>>

(* As if the key of a run whose mint failed were cleaned up. *)
MintFailsCleaningUp(l) ==
    /\ anchor[l].pc = "minting"
    /\ ForgetLogger(l)
    /\ anchor' = [anchor EXCEPT ![l].pc = "unminted"]
    /\ pending' = [pending EXCEPT ![anchor[l].name] = None]
    /\ HandlerReturns(l)
    /\ UNCHANGED <<sessions, entries, seal, committed, lastReceipt, netVars, envVars, tally,
                   ghosts>>

(* As if a failed mint were sent again at once. *)
MintFailsRetrying(l) ==
    /\ anchor[l].pc = "minting"
    /\ wire' = [wire EXCEPT ![l] = "mint"]
    /\ UNCHANGED <<memVars, diskVars, blobs, chain, envVars, tally, ghosts>>

(* SessionAnchorMintAfterFlushError: rejected, reverted, or no receipt.    *)
MintFails(l) ==
    /\ anchor[l].pc = "minting"
    /\ ForgetLogger(l)
    /\ anchor' = [anchor EXCEPT ![l].pc = "unminted"]
    /\ HandlerReturns(l)
    /\ UNCHANGED <<sessions, entries, seal, diskVars, netVars, envVars, tally, ghosts>>

(* The operator's recipe removes the registry entry after the commit. *)
CommitReturns(l, pc) ==
    /\ anchor' = [anchor EXCEPT ![l].pc = pc]
    /\ pendingAnchors' = IF anchor[l].by = "operator" /\ pc = "done"
                         THEN [pendingAnchors EXCEPT ![anchor[l].name] = None]
                         ELSE pendingAnchors
    /\ HandlerReturns(l)
    /\ UNCHANGED <<sessions, entries, seal, netVars, envVars, tally, ghosts>>

CommitPending(l) ==
    /\ anchor[l].pc = "minted"
    /\ pending[anchor[l].name] # None
    /\ pending' = [pending EXCEPT ![anchor[l].name] = None]
    /\ committed' = [committed EXCEPT ![anchor[l].token] = pending[anchor[l].name]]
    /\ lastReceipt' = anchor[l].token
    /\ CommitReturns(l, "done")

(* commitPending returned false: anchorRun puts the key it still holds. *)
CommitByPut(l) ==
    /\ anchor[l].pc = "minted" /\ anchor[l].by = "hook"
    /\ pending[anchor[l].name] = None
    /\ committed' = [committed EXCEPT ![anchor[l].token] = anchor[l].key]
    /\ lastReceipt' = anchor[l].token
    /\ CommitReturns(l, "done")
    /\ UNCHANGED pending

(* The operator's commitPending found no file and says so. *)
RetryFindsNothing(l) ==
    /\ anchor[l].pc = "minted" /\ anchor[l].by = "operator"
    /\ pending[anchor[l].name] = None
    /\ CommitReturns(l, "uncommitted")
    /\ UNCHANGED diskVars

(* It, or put, throws before the key is filed, or between that and the      *)
(* pointer.                                                                *)
CommitThrows(l) ==
    /\ "faults" \in Quirks
    /\ anchor[l].pc = "minted"
    /\ \/ UNCHANGED <<pending, committed>>
       \/ /\ pending[anchor[l].name] # None
          /\ pending' = [pending EXCEPT ![anchor[l].name] = None]
          /\ committed' = [committed EXCEPT ![anchor[l].token] = pending[anchor[l].name]]
       \/ /\ pending[anchor[l].name] = None /\ anchor[l].by = "hook"
          /\ committed' = [committed EXCEPT ![anchor[l].token] = anchor[l].key]
          /\ UNCHANGED pending
    /\ CommitReturns(l, "uncommitted")
    /\ UNCHANGED lastReceipt

-----------------------------------------------------------------------------
(***************************************************************************)
(* The gateway process dies and starts again; the operator follows the     *)
(* recovery recipes the error log lines spell out.                         *)
(***************************************************************************)

Crash ==
    /\ tally.crashes < MaxCrashes
    /\ tally' = [tally EXCEPT !.crashes = @ + 1]
    /\ sessions' = [s \in Session |-> None]
    /\ runMetadata' = [s \in Session |-> NoMeta]
    /\ pendingAnchors' = [n \in Name |-> None]
    /\ anchor' = [l \in Logger |->
          IF anchor[l].pc \in InFlight THEN [anchor[l] EXCEPT !.pc = "lost"] ELSE anchor[l]]
    /\ runFrom' = [s \in Session |-> NotRunning]
    /\ inbox' = [s \in Session |-> FALSE]
    /\ ghosts' = [ghosts EXCEPT !.gone = 1..tally.loggers]
    /\ UNCHANGED <<entries, seal, diskVars, netVars, events, clock>>

OperatorStarts(l, pc) ==
    /\ tally.retries < MaxRetries
    /\ tally' = [tally EXCEPT !.retries = @ + 1]
    /\ anchor' = [anchor EXCEPT ![l].pc = pc, ![l].by = "operator"]
    /\ UNCHANGED <<sessions, runMetadata, pendingAnchors, entries, diskVars, blobs, chain,
                   envVars, ghosts>>

(* logger.flush({encrypt}) on the logger the registry kept, under the key  *)
(* still filed for it.                                                     *)
RetryFlush(l) ==
    /\ anchor[l].pc = "unflushed"
    /\ pendingAnchors[anchor[l].name] = l
    /\ pending[anchor[l].name] = anchor[l].key
    /\ OperatorStarts(l, "uploading")
    /\ seal' = [seal EXCEPT ![l] = "flushing"]
    /\ wire' = [wire EXCEPT ![l] = "upload"]

(* sessionAnchor.retryMint({rootHash, ...}) with the fields of the error. *)
RetryMint(l) ==
    /\ anchor[l].pc = "unminted"
    /\ OperatorStarts(l, "minting")
    /\ wire' = [wire EXCEPT ![l] = "mint"]
    /\ UNCHANGED seal

(* keystore.commitPending once the file system works again. *)
RetryCommit(l) ==
    /\ anchor[l].pc = "uncommitted"
    /\ OperatorStarts(l, "minted")
    /\ UNCHANGED <<seal, wire>>

WipePending(n) ==
    /\ "wipe" \in Quirks
    /\ pending[n] # None
    /\ pending' = [pending EXCEPT ![n] = None]
    /\ ghosts' = [ghosts EXCEPT !.wiped = @ \cup {pending[n]}]
    /\ UNCHANGED <<memVars, committed, lastReceipt, netVars, envVars, tally>>

-----------------------------------------------------------------------------
Capturing(s) ==
    \/ MessageReceived(s)
    \/ BeforePromptBuild(s)
    \/ AfterToolCall(s)
    \/ LlmOutput(s)
    \/ BeforeAgentFinalize(s)
    \/ CliToolCall(s)

Ending(s) ==
    \/ AgentEndSkips(s)
    \/ \E ws \in WorkspaceDir : \E added \in Appended(s, ws) :
           \/ AgentEndEmpty(s, added)
           \/ \E r \in Run : AgentEndKeyFails(s, r, added) \/ AgentEnd(s, r, added)
    \/ SessionEndEmpty(s)
    \/ \E r \in Run : SessionEndKeyFails(s, r)
    \/ \E r \in Run : SessionEnd(s, r)

Uploading(l)  == UploadSucceeds(l) \/ UploadFails(l)
Minting(l)    == MintSucceeds(l) \/ MintFails(l)
Committing(l) == CommitPending(l) \/ CommitByPut(l) \/ RetryFindsNothing(l) \/ CommitThrows(l)

Network(l) == UploadLands(l) \/ MintLands(l)

Operating(l) == RetryFlush(l) \/ RetryMint(l) \/ RetryCommit(l)

Next ==
    \/ \E s \in Session : Capturing(s)
    \/ \E s \in Session : Ending(s)
    \/ \E l \in Logger : Uploading(l) \/ Minting(l) \/ Committing(l)
    \/ \E l \in Logger : Network(l)
    \/ \E l \in Logger : Operating(l)
    \/ \E n \in Name : WipePending(n)
    \/ Crash
    \/ Tick

Spec == Init /\ [][Next]_vars

(* StorageClient rejects an upload after 30 s and the commit waits for      *)
(* nothing, so both go on by themselves; tx.wait() has no deadline, so the *)
(* mint is given no fairness.                                              *)
FairSpec == Spec /\ \A l \in Logger : WF_vars(Uploading(l)) /\ WF_vars(Committing(l))

-----------------------------------------------------------------------------
KeysOnDisk == {pending[n] : n \in Name} \cup {committed[t] : t \in Token}

(* The key filed under a token is the one its envelope was encrypted with, *)
(* whatever was minted in between, so /share never hands out another       *)
(* receipt's key; and the last-receipt pointer names a token with a key.   *)
KeyOpensReceipt ==
    /\ \A t \in Token : committed[t] # None =>
          t <= Len(chain) /\ committed[t] = chain[t].key
    /\ lastReceipt # None => committed[lastReceipt] # None

(* Crash-recovery ordering of keystore.ts: from the moment an envelope can *)
(* reach 0G Storage its key is on disk and stays there, across crashes,    *)
(* timeouts, late uploads and failed mints, unless the operator deletes it.*)
KeyOutlivesCiphertext ==
    \A l \in Logger, k \in Key :
        <<l, k>> \in blobs \/ (wire[l] = "upload" /\ anchor[l].key = k)
            => k \in KeysOnDisk \cup ghosts.wiped

(* The plugin implements the abstract receipts: every step of it is one of *)
(* theirs or changes none of what they speak of.                           *)
Receipts == INSTANCE EncryptedReceipts WITH
    Log <- Logger, saved <- (KeysOnDisk \ {None}) \cup ghosts.wiped

ImplementsReceipts == Receipts!Spec

(* As long as its process lives, a log with entries is bound to a session, *)
(* or kept for recovery, or stored: no failure path drops the only copy.   *)
NothingDropped ==
    \A l \in 1..tally.loggers \ ghosts.gone :
        entries[l] # {} =>
            \/ \E s \in Session : sessions[s] = l
            \/ \E n \in Name : pendingAnchors[n] = l
            \/ <<l, anchor[l].key>> \in blobs

(* What a hook captured is in exactly one log: the rotation of agent_end   *)
(* neither loses an entry to a flushing logger nor puts it in two receipts.*)
CapturedOnce ==
    \A i \in DOMAIN events : events[i].via = "hook" =>
        \E l \in Logger : i \in entries[l] /\ \A m \in Logger \ {l} : i \notin entries[m]

(* An envelope that reached storage keeps describing its log, even after a *)
(* timed-out upload unlocked the logger again.                             *)
StoredLogFrozen == [][\A b \in blobs : entries'[b[1]] = entries[b[1]]]_vars

(* With no recovery by hand, a log backs at most one token. *)
OneReceiptPerLog ==
    \A t, u \in DOMAIN chain : chain[t].log = chain[u].log => t = u

(* An anchor never waits for good on storage or on the disk: from the      *)
(* upload it goes on to the mint or to a reported failure, and from the    *)
(* mint to its end, unless the process dies under it.                      *)
WaitsOnlyForChain ==
    \A l \in Logger : anchor[l].pc \in {"uploading", "minted"}
                         ~> anchor[l].pc \notin {"uploading", "minted"}

(* A tool call of the transcript is anchored in at most one receipt.       *)
TranscriptOnce ==
    \A i \in DOMAIN events : events[i].via = "transcript" =>
        \A l, m \in Logger : i \in entries[l] /\ i \in entries[m] => l = m

(* When agent_end rotates a log out, the log holds every tool call the     *)
(* transcript shows since the run began.                                   *)
TranscriptComplete ==
    [][\A s \in Session, l \in Logger :
          sessions[s] = l /\ anchor[l].pc = "idle" /\ anchor'[l].pc = "uploading"
                         /\ anchor'[l].prefix = "exec-log"
          => {i \in Transcript(s) : i > runFrom[s]} \subseteq entries'[l]]_vars

(* The registry holds a plaintext log only until its flush succeeded. *)
PlaintextOnlyUntilFlush ==
    \A n \in Name : pendingAnchors[n] # None => seal[pendingAnchors[n]] # "flushed"

(* A retried mint names the token the first attempt made: one token per    *)
(* root hash.                                                              *)
RetryMintsSameToken ==
    \A t, u \in DOMAIN chain :
        chain[t].log = chain[u].log /\ chain[t].key = chain[u].key => t = u

=============================================================================
